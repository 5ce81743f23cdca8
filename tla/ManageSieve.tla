---------------------------- MODULE ManageSieve ----------------------------
(***************************************************************************)
(* The rows of sieve_scripts of one mailbox, of which at most one is       *)
(* active, and those who change them: ManageSieve connections, and the     *)
(* settings page through the auth service.                                 *)
(*                                                                         *)
(* A ManageSieve command that must find, or not find, a script reads first *)
(* and writes in a statement of its own.  The auth service switches every  *)
(* script off and then stores the one to run, in two statements without a  *)
(* transaction: it can die in between, and others can act.                 *)
(***************************************************************************)
EXTENDS Naturals

CONSTANTS
    Conns,        \* ManageSieve connections
    Savers,       \* requests of the settings page
    Names,        \* script names
    Saved,        \* those the settings page uses
    Scripts,      \* what is stored
    Accepted,     \* the scripts that pass the check of PUTSCRIPT
    NoName,       \* no script
    MaxCommands,  \* bound: commands and requests
    MaxDeaths     \* bound: requests that die half-way

ASSUME ScriptsAssumption ==
    /\ Saved \subseteq Names
    /\ NoName \notin Names
    /\ Accepted \subseteq Scripts
    /\ MaxCommands \in Nat /\ MaxDeaths \in Nat

VARIABLES
    row,      \* sieve_scripts: per name nothing, or the script and is_active
    conn,     \* each connection: where it is and the names of its command
    saver,    \* each request: idle, or what its second statement stores
    commands, \* commands so far
    deaths,   \* requests that died
    meant,    \* the name last made active, as it is called now (observation)
    halved    \* a save switched the scripts off and stored none (observation)

sieveVars == <<row, conn, saver, commands, deaths, meant, halved>>

NoRow == [script |-> <<>>, active |-> FALSE, there |-> FALSE]

Stored(script, active) ==
    [script |-> script, active |-> active, there |-> TRUE]

Active == {n \in Names : row[n].active}

AllOff == [n \in Names |-> [row[n] EXCEPT !.active = FALSE]]

Idle == [pc |-> "auth", old |-> NoName, new |-> NoName]

NoSave == [name |-> NoName, script |-> <<>>]

SieveInit ==
    /\ row = [n \in Names |-> NoRow]
    /\ conn = [c \in Conns |-> Idle]
    /\ saver = [w \in Savers |-> NoSave]
    /\ commands = 0 /\ deaths = 0
    /\ meant = NoName
    /\ halved = FALSE

Commanded == commands < MaxCommands /\ commands' = commands + 1

-----------------------------------------------------------------------------
(***************************************************************************)
(* ManageSieve.  Only the mailbox's own password logs in.                  *)
(***************************************************************************)
Authenticate(c) ==
    /\ conn[c].pc = "auth"
    /\ conn' = [conn EXCEPT ![c].pc = "main"]
    /\ UNCHANGED <<row, saver, commands, deaths, meant, halved>>

Logout(c) ==
    /\ conn[c].pc # "auth"
    /\ conn' = [conn EXCEPT ![c] = Idle]
    /\ UNCHANGED <<row, saver, commands, deaths, meant, halved>>

Back(c) == conn' = [conn EXCEPT ![c] = [Idle EXCEPT !.pc = "main"]]

(***************************************************************************)
(* PUTSCRIPT: a new script is stored switched off, an old one keeps its    *)
(* switch.                                                                 *)
(***************************************************************************)
PutScript(c) ==
    /\ conn[c].pc = "main"
    /\ Commanded
    /\ \E n \in Names, s \in Accepted :
         row' = [row EXCEPT ![n] = Stored(s, @.active)]
    /\ UNCHANGED <<conn, saver, deaths, meant, halved>>

(***************************************************************************)
(* The reads: the script named must be there; SETACTIVE "" needs none, a   *)
(* script to delete must be off, a new name must be free.                  *)
(***************************************************************************)
Begin(c, pc, old, new) ==
    /\ conn[c].pc = "main"
    /\ Commanded
    /\ conn' = [conn EXCEPT ![c] = [pc |-> pc, old |-> old, new |-> new]]
    /\ UNCHANGED <<row, saver, deaths, meant, halved>>

SetActiveCheck(c) ==
    \E n \in Names \cup {NoName} :
        (n # NoName => row[n].there) /\ Begin(c, "setactive", n, NoName)

DeleteCheck(c) ==
    \E n \in Names :
        row[n].there /\ ~row[n].active /\ Begin(c, "delete", n, NoName)

RenameCheck(c) ==
    \E n, m \in Names :
        row[n].there /\ ~row[m].there /\ Begin(c, "rename", n, m)

(***************************************************************************)
(* SetActiveScript, one transaction: all off, the one on; none updated is  *)
(* an error and the transaction is rolled back.                            *)
(***************************************************************************)
ActivatedOnly(n) ==
    IF n # NoName /\ ~row[n].there THEN row
    ELSE [m \in Names |-> [AllOff[m] EXCEPT !.active = m = n]]

SetActive(c) ==
    LET n == conn[c].old IN
    /\ conn[c].pc = "setactive"
    /\ row' = ActivatedOnly(n)
    /\ IF n # NoName /\ ~row[n].there
       THEN UNCHANGED <<meant, halved>>
       ELSE meant' = n /\ halved' = FALSE
    /\ Back(c)
    /\ UNCHANGED <<saver, commands, deaths>>

\* Mutant of Deletable: the row is deleted as the check found it.
DeletableAsChecked(n) == TRUE

\* ... AND is_active = false
Deletable(n) == ~row[n].active

DeleteScript(c) ==
    LET n == conn[c].old IN
    /\ conn[c].pc = "delete"
    /\ row' = IF Deletable(n) THEN [row EXCEPT ![n] = NoRow] ELSE row
    /\ Back(c)
    /\ UNCHANGED <<saver, commands, deaths, meant, halved>>

(***************************************************************************)
(* A name taken meanwhile breaks UNIQUE (mailbox_id, name); a script gone  *)
(* meanwhile is no row updated.                                            *)
(***************************************************************************)
RenameScript(c) ==
    LET old == conn[c].old
        new == conn[c].new
        done == row[old].there /\ ~row[new].there
    IN  /\ conn[c].pc = "rename"
        /\ row' = IF done THEN [row EXCEPT ![new] = row[old], ![old] = NoRow]
                          ELSE row
        /\ meant' = IF done /\ meant = old THEN new ELSE meant
        /\ Back(c)
        /\ UNCHANGED <<saver, commands, deaths, halved>>

-----------------------------------------------------------------------------
(***************************************************************************)
(* The settings page.  Storing a script that is not to run, the vacation   *)
(* reply when it is turned off, is one statement.  Nothing is validated.   *)
(***************************************************************************)
SaveInactive(w) ==
    /\ saver[w] = NoSave
    /\ Commanded
    /\ \E n \in Saved, s \in Scripts :
         /\ row' = [row EXCEPT ![n] = Stored(s, FALSE)]
         /\ meant' = IF meant = n THEN NoName ELSE meant
    /\ UNCHANGED <<conn, saver, deaths, halved>>

SaveFirst(w) ==
    /\ saver[w] = NoSave
    /\ Commanded
    /\ \E n \in Saved, s \in Scripts :
         saver' = [saver EXCEPT ![w] = [name |-> n, script |-> s]]
    /\ row' = AllOff
    /\ UNCHANGED <<conn, deaths, meant, halved>>

(***************************************************************************)
(* The second statement is refused when another script is active by then   *)
(* (uq_sieve_active).                                                      *)
(***************************************************************************)
SaveSecond(w) ==
    LET n == saver[w].name IN
    /\ saver[w] # NoSave
    /\ IF Active \subseteq {n}
       THEN /\ row' = [row EXCEPT ![n] = Stored(saver[w].script, TRUE)]
            /\ meant' = n
            /\ halved' = FALSE
       ELSE UNCHANGED <<row, meant, halved>>
    /\ saver' = [saver EXCEPT ![w] = NoSave]
    /\ UNCHANGED <<conn, commands, deaths>>

SaveDies(w) ==
    /\ saver[w] # NoSave
    /\ deaths < MaxDeaths /\ deaths' = deaths + 1
    /\ saver' = [saver EXCEPT ![w] = NoSave]
    /\ halved' = TRUE
    /\ UNCHANGED <<row, conn, commands, meant>>

SieveNext ==
    \/ \E c \in Conns :
         \/ Authenticate(c) \/ Logout(c) \/ PutScript(c)
         \/ SetActiveCheck(c) \/ DeleteCheck(c) \/ RenameCheck(c)
         \/ SetActive(c) \/ DeleteScript(c) \/ RenameScript(c)
    \/ \E w \in Savers :
         SaveInactive(w) \/ SaveFirst(w) \/ SaveSecond(w) \/ SaveDies(w)

SieveSpec == SieveInit /\ [][SieveNext]_sieveVars

-----------------------------------------------------------------------------
(***************************************************************************)
(* Properties                                                              *)
(***************************************************************************)

\* Rows, connections and requests keep their types; a row that is not there
\* is not active.
SieveTypeOK ==
    /\ row \in [Names -> [script: Scripts \cup {<<>>}, active: BOOLEAN,
                          there: BOOLEAN]]
    /\ \A n \in Names : row[n].active => row[n].there
    /\ conn \in [Conns -> [pc: {"auth", "main", "setactive", "delete", "rename"},
                           old: Names \cup {NoName}, new: Names \cup {NoName}]]
    /\ saver \in [Savers -> [name: Saved \cup {NoName},
                             script: Scripts \cup {<<>>}]]
    /\ commands \in 0..MaxCommands /\ deaths \in 0..MaxDeaths
    /\ meant \in Names \cup {NoName}
    /\ halved \in BOOLEAN

\* The script that runs is the one last made active, under whatever name it
\* has been given since.  Neither a check that is out of date when its write
\* comes (DELETESCRIPT, SETACTIVE, RENAMESCRIPT) nor two saves that cross
\* change that.  No script runs only while a save is between its statements,
\* or after one died there: the rules are then off until somebody notices.
RunsWhatWasActivated ==
    /\ Active \subseteq {meant}
    /\ Active = {} => \/ meant = NoName
                      \/ halved
                      \/ \E w \in Savers : saver[w] # NoSave
=============================================================================
