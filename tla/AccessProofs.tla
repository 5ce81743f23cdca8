---------------------------- MODULE AccessProofs ----------------------------
(***************************************************************************)
(* Theorems of MailSessions, the connections to one mailbox, and of        *)
(* ManageSieve, its scripts.                                               *)
(***************************************************************************)
EXTENDS MailSessions, ManageSieve, FiniteSetTheorems, SequenceTheorems,
        WellFoundedInduction, TLAPS

(***************************************************************************)
(* ManageSieve: what a command or a save in progress has read, in          *)
(* addition to what RunsWhatWasActivated says.                             *)
(***************************************************************************)
UnderWay ==
    /\ \A c \in Conns : /\ conn[c].pc \in {"delete", "rename"} => conn[c].old \in Names
                        /\ conn[c].pc = "rename" => conn[c].new \in Names
    /\ \A w \in Savers : saver[w] # NoSave => saver[w].name \in Saved

SieveInv == SieveTypeOK /\ UnderWay /\ RunsWhatWasActivated

RowType == [script: Scripts \cup {<<>>}, active: BOOLEAN, there: BOOLEAN]

\* A row, stored or not, is a row, and says what it was stored with.
LEMMA RowsAreRows ==
    /\ NoRow \in RowType /\ ~NoRow.active /\ ~NoRow.there
    /\ \A s \in Scripts \cup {<<>>}, a \in BOOLEAN :
         /\ Stored(s, a) \in RowType
         /\ Stored(s, a).active = a /\ Stored(s, a).there
BY DEF NoRow, Stored, RowType

\* What a change of the rows leaves: rows of their type, none active that is
\* not there.
RowsOK(r) ==
    /\ r \in [Names -> RowType]
    /\ \A n \in Names : r[n].active => r[n].there

\* Switching every script off.
LEMMA AllOffRows ==
    ASSUME SieveTypeOK
    PROVE  /\ RowsOK(AllOff)
           /\ \A n \in Names : ~AllOff[n].active /\ AllOff[n].there = row[n].there
<1>1. row \in [Names -> RowType]
    BY DEF SieveTypeOK, RowType
<1>2. ASSUME NEW n \in Names
      PROVE  /\ AllOff[n] \in RowType /\ ~AllOff[n].active
             /\ AllOff[n].there = row[n].there
    BY <1>1, <1>2 DEF AllOff, RowType
<1>3. AllOff = [n \in Names |-> AllOff[n]]
    BY DEF AllOff
<1> QED
    BY <1>2, <1>3 DEF RowsOK

\* SetActiveScript leaves the one script active, or everything as it was.
LEMMA ActivatedRows ==
    ASSUME SieveTypeOK, NEW n \in Names \cup {NoName}
    PROVE  /\ RowsOK(ActivatedOnly(n))
           /\ n # NoName /\ ~row[n].there => ActivatedOnly(n) = row
           /\ ~(n # NoName /\ ~row[n].there) =>
                 \A m \in Names : ActivatedOnly(n)[m].active <=> m = n
<1>1. CASE n # NoName /\ ~row[n].there
    BY <1>1 DEF ActivatedOnly, SieveTypeOK, RowsOK, RowType
<1>2. CASE ~(n # NoName /\ ~row[n].there)
  <2> DEFINE r == ActivatedOnly(n)
  <2>1. r = [m \in Names |-> [AllOff[m] EXCEPT !.active = m = n]]
      BY <1>2 DEF ActivatedOnly
  <2>2. ASSUME NEW m \in Names
        PROVE  /\ r[m] \in RowType /\ (r[m].active <=> m = n)
               /\ r[m].there = row[m].there
    <3>1. /\ AllOff[m] \in RowType /\ AllOff[m].there = row[m].there
          /\ (m = n) \in BOOLEAN
        BY <2>2, AllOffRows DEF RowsOK
    <3>2. r[m] = [AllOff[m] EXCEPT !.active = m = n]
        BY <2>1, <2>2
    <3> HIDE DEF r
    <3> QED
        BY <3>1, <3>2, Zenon DEF RowType
  <2>3. \A m \in Names : r[m].active => r[m].there
      BY <1>2, <2>2, ScriptsAssumption
  <2>4. r \in [Names -> RowType]
      BY <2>1, <2>2
  <2> QED
      BY <1>2, <2>2, <2>3, <2>4 DEF RowsOK
<1> QED
    BY <1>1, <1>2

\* The reads of a command change its connection alone.
LEMMA BeginKeeps ==
    ASSUME SieveInv, NEW c \in Conns, NEW pc \in {"setactive", "delete", "rename"},
           NEW old \in Names \cup {NoName}, NEW new \in Names \cup {NoName},
           pc # "setactive" => old \in Names, pc = "rename" => new \in Names,
           Begin(c, pc, old, new)
    PROVE  SieveInv'
<1> USE DEF SieveInv
<1>1. commands' \in 0..MaxCommands
    BY ScriptsAssumption DEF Begin, Commanded, SieveTypeOK
<1>2. /\ conn' \in [Conns -> [pc: {"auth", "main", "setactive", "delete", "rename"},
                             old: Names \cup {NoName}, new: Names \cup {NoName}]]
      /\ conn'[c].pc = pc /\ conn'[c].old = old /\ conn'[c].new = new
      /\ \A d \in Conns \ {c} : conn'[d] = conn[d]
    BY DEF Begin, SieveTypeOK
<1>3. SieveTypeOK'
    BY <1>1, <1>2 DEF Begin, SieveTypeOK
<1>4. UnderWay'
    BY <1>2 DEF Begin, UnderWay
<1> QED
    BY <1>3, <1>4 DEF Begin, RunsWhatWasActivated, Active

\* Every step of a connection keeps the invariant: what a command writes fits
\* the rows it finds, not those it had read.
LEMMA CommandKeeps ==
    ASSUME SieveInv, NEW c \in Conns,
           \/ Authenticate(c) \/ Logout(c) \/ PutScript(c)
           \/ SetActiveCheck(c) \/ DeleteCheck(c) \/ RenameCheck(c)
           \/ SetActive(c) \/ DeleteScript(c) \/ RenameScript(c)
    PROVE  SieveInv'
<1> USE DEF SieveInv
<1> DEFINE ConnType == [pc: {"auth", "main", "setactive", "delete", "rename"},
                        old: Names \cup {NoName}, new: Names \cup {NoName}]
<1>0. /\ RowsOK(row) /\ conn \in [Conns -> ConnType]
      /\ conn[c] \in ConnType
    BY DEF SieveTypeOK, RowsOK, RowType
<1>1. ASSUME UNCHANGED <<saver, deaths>>, RowsOK(row'), conn' \in [Conns -> ConnType],
             commands' \in 0..MaxCommands, meant' \in Names \cup {NoName},
             halved' \in BOOLEAN
      PROVE  SieveTypeOK'
    BY <1>1 DEF SieveTypeOK, RowsOK, RowType
<1>2. ASSUME conn' = [conn EXCEPT ![c] = Idle] \/ Back(c)
             \/ conn' = [conn EXCEPT ![c].pc = "main"], UNCHANGED saver
      PROVE  conn' \in [Conns -> ConnType] /\ UnderWay'
  <2>1. /\ conn'[c].pc \in {"auth", "main"} /\ conn' \in [Conns -> ConnType]
        /\ \A d \in Conns \ {c} : conn'[d] = conn[d]
      BY <1>0, <1>2 DEF Back, Idle
  <2> QED
      BY <1>2, <2>1 DEF UnderWay
<1>3. ASSUME UNCHANGED <<row, saver, meant, halved>>
      PROVE  RunsWhatWasActivated'
    BY <1>3 DEF RunsWhatWasActivated, Active
<1>4. CASE Authenticate(c)
    BY <1>0, <1>1, <1>2, <1>3, <1>4 DEF Authenticate, SieveTypeOK
<1>5. CASE Logout(c)
    BY <1>0, <1>1, <1>2, <1>3, <1>5 DEF Logout, SieveTypeOK
<1>6. CASE PutScript(c)
  <2>1. PICK n \in Names, s \in Accepted :
           row' = [row EXCEPT ![n] = Stored(s, @.active)]
      BY <1>6 DEF PutScript
  <2>2. s \in Scripts /\ row[n].active \in BOOLEAN
      BY <1>0, ScriptsAssumption DEF RowsOK, RowType
  <2>3. /\ RowsOK(row')
        /\ \A m \in Names : row'[m].active = row[m].active
      BY <1>0, <2>1, <2>2, RowsAreRows DEF RowsOK
  <2>4. commands' \in 0..MaxCommands
      BY <1>6, ScriptsAssumption DEF PutScript, Commanded, SieveTypeOK
  <2>5. SieveTypeOK'
      BY <1>0, <1>1, <1>6, <2>3, <2>4 DEF PutScript, SieveTypeOK
  <2>6. Active' = Active
      BY <2>3 DEF Active
  <2> QED
      BY <1>6, <2>5, <2>6 DEF PutScript, UnderWay, RunsWhatWasActivated
<1>7. CASE SetActiveCheck(c)
    BY <1>7, BeginKeeps DEF SetActiveCheck
<1>8. CASE DeleteCheck(c)
    BY <1>8, BeginKeeps DEF DeleteCheck
<1>9. CASE RenameCheck(c)
    BY <1>9, BeginKeeps DEF RenameCheck
<1>10. CASE SetActive(c)
  <2> DEFINE n == conn[c].old
  <2>1. /\ n \in Names \cup {NoName} /\ row' = ActivatedOnly(n)
        /\ UNCHANGED <<saver, commands, deaths>>
        /\ conn' \in [Conns -> ConnType] /\ UnderWay'
      BY <1>0, <1>2, <1>10 DEF SetActive
  <2>2. CASE n # NoName /\ ~row[n].there
    <3>1. UNCHANGED <<row, meant, halved>>
        BY <1>10, <2>1, <2>2, ActivatedRows DEF SetActive
    <3> QED
        BY <1>0, <1>1, <1>3, <2>1, <3>1 DEF SieveTypeOK
  <2>3. CASE ~(n # NoName /\ ~row[n].there)
    <3>1. meant' = n /\ halved' = FALSE
        BY <1>10, <2>3 DEF SetActive
    <3>2. RowsOK(row') /\ \A m \in Names : row'[m].active <=> m = n
        BY <2>1, <2>3, ActivatedRows
    <3>3. SieveTypeOK'
        BY <1>1, <2>1, <3>1, <3>2 DEF SieveTypeOK
    <3>4. Active' \subseteq {n} /\ (Active' = {} => n = NoName)
        BY <2>1, <3>2, ScriptsAssumption DEF Active
    <3> QED
        BY <2>1, <3>1, <3>3, <3>4 DEF RunsWhatWasActivated
  <2> QED
      BY <2>2, <2>3
<1>11. CASE DeleteScript(c)
  <2> DEFINE n == conn[c].old
  <2>1. /\ n \in Names /\ UNCHANGED <<saver, commands, deaths, meant, halved>>
        /\ conn' \in [Conns -> ConnType] /\ UnderWay'
      BY <1>2, <1>11 DEF DeleteScript, UnderWay
  <2>2. row' = IF ~row[n].active THEN [row EXCEPT ![n] = NoRow] ELSE row
      BY <1>11 DEF DeleteScript, Deletable
  <2>3. RowsOK(row') /\ \A m \in Names : row'[m].active = row[m].active
    <3>1. CASE row[n].active
        BY <1>0, <2>2, <3>1
    <3>2. CASE ~row[n].active
      <4>1. row' = [row EXCEPT ![n] = NoRow]
          BY <2>2, <3>2
      <4>2. row'[n] = NoRow /\ \A m \in Names \ {n} : row'[m] = row[m]
          BY <1>0, <2>1, <4>1 DEF RowsOK
      <4>3. row[n].active = FALSE /\ NoRow.active = FALSE
          BY <1>0, <2>1, <3>2 DEF RowsOK, RowType, NoRow
      <4> QED
          BY <1>0, <4>1, <4>2, <4>3, RowsAreRows DEF RowsOK
    <3> QED
        BY <3>1, <3>2
  <2>4. SieveTypeOK'
      BY <1>1, <2>1, <2>3 DEF SieveTypeOK
  <2>5. Active' = Active
      BY <2>3 DEF Active
  <2> QED
      BY <2>1, <2>4, <2>5 DEF RunsWhatWasActivated
<1>12. CASE RenameScript(c)
  <2> DEFINE old == conn[c].old
             new == conn[c].new
  <2>1. /\ old \in Names /\ new \in Names /\ UNCHANGED <<saver, commands, deaths, halved>>
        /\ conn' \in [Conns -> ConnType] /\ UnderWay'
      BY <1>2, <1>12 DEF RenameScript, UnderWay
  <2>2. CASE ~(row[old].there /\ ~row[new].there)
    <3>1. UNCHANGED <<row, meant>>
        BY <1>12, <2>2 DEF RenameScript
    <3> QED
        BY <1>0, <1>1, <1>3, <2>1, <3>1 DEF SieveTypeOK
  <2>3. CASE row[old].there /\ ~row[new].there
    <3>1. /\ row' = [row EXCEPT ![new] = row[old], ![old] = NoRow]
          /\ meant' = IF meant = old THEN new ELSE meant
          /\ old # new /\ ~row[new].active
        BY <1>0, <1>12, <2>1, <2>3 DEF RenameScript, RowsOK
    <3>2. /\ row'[old] = NoRow /\ row'[new] = row[old]
          /\ \A m \in Names \ {old, new} : row'[m] = row[m]
        BY <1>0, <2>1, <3>1 DEF RowsOK
    <3>3. RowsOK(row')
        BY <1>0, <2>1, <3>1, <3>2, RowsAreRows DEF RowsOK
    <3>4. SieveTypeOK'
        BY <1>1, <2>1, <3>1, <3>3 DEF SieveTypeOK
    <3>5. /\ row[old].active => Active' = (Active \ {old}) \cup {new}
          /\ ~row[old].active => Active' = Active
      <4>1. /\ ~row'[old].active /\ (row'[new].active <=> row[old].active)
            /\ \A m \in Names \ {old, new} : row'[m].active <=> row[m].active
          BY <3>2, RowsAreRows
      <4> QED
          BY <2>1, <3>1, <4>1 DEF Active
    <3>6. /\ row[old].active <=> old \in Active
          /\ new \in Names /\ new # NoName
        BY <2>1, ScriptsAssumption DEF Active
    <3>7. CASE row[old].active
      <4>1. Active = {old} /\ meant = old
          BY <3>6, <3>7 DEF RunsWhatWasActivated
      <4>2. Active' = {new} /\ meant' = new
          BY <3>1, <3>5, <3>7, <4>1
      <4> QED
          BY <2>1, <3>4, <4>2 DEF RunsWhatWasActivated
    <3>8. CASE ~row[old].active
      <4>1. Active' = Active /\ old \notin Active
          BY <3>5, <3>6, <3>8
      <4>2. Active' \subseteq {meant'}
          BY <3>1, <4>1 DEF RunsWhatWasActivated
      <4>3. meant = NoName => meant' = NoName
          BY <2>1, <3>1, <3>6, ScriptsAssumption
      <4> QED
          BY <2>1, <3>4, <4>1, <4>2, <4>3 DEF RunsWhatWasActivated
    <3> QED
        BY <3>7, <3>8
  <2> QED
      BY <2>2, <2>3
<1> QED
    BY <1>4, <1>5, <1>6, <1>7, <1>8, <1>9, <1>10, <1>11, <1>12

\* Every step of the settings page keeps the invariant, its death between the
\* two statements too.
LEMMA SaveKeeps ==
    ASSUME SieveInv, NEW w \in Savers,
           SaveInactive(w) \/ SaveFirst(w) \/ SaveSecond(w) \/ SaveDies(w)
    PROVE  SieveInv'
<1> USE DEF SieveInv
<1> DEFINE SaveType == [name: Saved \cup {NoName}, script: Scripts \cup {<<>>}]
<1>0. /\ RowsOK(row) /\ saver \in [Savers -> SaveType] /\ NoSave \in SaveType
    BY DEF SieveTypeOK, RowsOK, RowType, NoSave
<1>1. ASSUME UNCHANGED conn, RowsOK(row'), saver' \in [Savers -> SaveType],
             commands' \in 0..MaxCommands, deaths' \in 0..MaxDeaths,
             meant' \in Names \cup {NoName}, halved' \in BOOLEAN
      PROVE  SieveTypeOK'
    BY <1>1 DEF SieveTypeOK, RowsOK, RowType
<1>2. ASSUME saver' = [saver EXCEPT ![w] = NoSave], UNCHANGED conn
      PROVE  saver' \in [Savers -> SaveType] /\ UnderWay'
    BY <1>0, <1>2 DEF UnderWay
<1>3. CASE SaveInactive(w)
  <2>1. PICK n \in Saved, s \in Scripts :
           /\ row' = [row EXCEPT ![n] = Stored(s, FALSE)]
           /\ meant' = IF meant = n THEN NoName ELSE meant
      BY <1>3 DEF SaveInactive
  <2>2. n \in Names /\ commands' \in 0..MaxCommands
      BY <1>3, ScriptsAssumption DEF SaveInactive, Commanded, SieveTypeOK
  <2>3. /\ row'[n] = Stored(s, FALSE) /\ \A m \in Names \ {n} : row'[m] = row[m]
        /\ Stored(s, FALSE) \in RowType /\ ~Stored(s, FALSE).active
      BY <1>0, <2>1, <2>2, RowsAreRows DEF RowsOK
  <2>4. RowsOK(row')
      BY <1>0, <2>1, <2>2, <2>3 DEF RowsOK
  <2>5. SieveTypeOK'
      BY <1>0, <1>1, <1>3, <2>1, <2>2, <2>4 DEF SaveInactive, SieveTypeOK
  <2>6. Active' = Active \ {n}
      BY <2>2, <2>3 DEF Active
  <2>7. RunsWhatWasActivated'
      BY <1>3, <2>1, <2>6 DEF SaveInactive, RunsWhatWasActivated
  <2> QED
      BY <1>3, <2>5, <2>7 DEF SaveInactive, UnderWay
<1>4. CASE SaveFirst(w)
  <2>1. PICK n \in Saved, s \in Scripts :
           saver' = [saver EXCEPT ![w] = [name |-> n, script |-> s]]
      BY <1>4 DEF SaveFirst
  <2>2. n # NoName /\ commands' \in 0..MaxCommands
      BY <1>4, ScriptsAssumption DEF SaveFirst, Commanded, SieveTypeOK
  <2>3. /\ saver' \in [Savers -> SaveType] /\ saver'[w].name = n
        /\ \A x \in Savers \ {w} : saver'[x] = saver[x]
      BY <1>0, <2>1
  <2>4. saver'[w] # NoSave
      BY <2>2, <2>3 DEF NoSave
  <2>5. SieveTypeOK'
      BY <1>1, <1>4, <2>2, <2>3, AllOffRows DEF SaveFirst, SieveTypeOK
  <2>6. UnderWay'
      BY <1>4, <2>3 DEF SaveFirst, UnderWay
  <2>7. Active' = {}
      BY <1>4, AllOffRows DEF SaveFirst, Active
  <2> QED
      BY <2>4, <2>5, <2>6, <2>7 DEF RunsWhatWasActivated
<1>5. CASE SaveSecond(w)
  <2> DEFINE n == saver[w].name
  <2>1. /\ saver[w] # NoSave /\ saver' = [saver EXCEPT ![w] = NoSave]
        /\ UNCHANGED <<conn, commands, deaths>>
      BY <1>5 DEF SaveSecond
  <2>2. n \in Names /\ saver[w].script \in Scripts \cup {<<>>}
      BY <1>0, <2>1, ScriptsAssumption DEF UnderWay
  <2>3. CASE Active \subseteq {n}
    <3>1. /\ row' = [row EXCEPT ![n] = Stored(saver[w].script, TRUE)]
          /\ meant' = n /\ halved' = FALSE
        BY <1>5, <2>3 DEF SaveSecond
    <3>2. /\ row'[n] = Stored(saver[w].script, TRUE)
          /\ \A m \in Names \ {n} : row'[m] = row[m]
          /\ row'[n].active /\ row'[n].there /\ row'[n] \in RowType
        BY <1>0, <2>2, <3>1, RowsAreRows DEF RowsOK
    <3>3. RowsOK(row')
        BY <1>0, <2>2, <3>1, <3>2 DEF RowsOK
    <3>4. SieveTypeOK' /\ UnderWay'
        BY <1>1, <1>2, <2>1, <2>2, <3>1, <3>3 DEF SieveTypeOK
    <3>5. Active' = {n}
        BY <2>2, <2>3, <3>2 DEF Active
    <3> QED
        BY <3>1, <3>4, <3>5 DEF RunsWhatWasActivated
  <2>4. CASE ~(Active \subseteq {n})
    <3>1. UNCHANGED <<row, meant, halved>>
        BY <1>5, <2>4 DEF SaveSecond
    <3>2. SieveTypeOK' /\ UnderWay'
        BY <1>0, <1>1, <1>2, <2>1, <3>1 DEF SieveTypeOK
    <3>3. Active' = Active /\ Active # {}
        BY <2>4, <3>1 DEF Active
    <3> QED
        BY <3>1, <3>2, <3>3 DEF RunsWhatWasActivated
  <2> QED
      BY <2>3, <2>4
<1>6. CASE SaveDies(w)
  <2>1. deaths' \in 0..MaxDeaths
      BY <1>6, ScriptsAssumption DEF SaveDies, SieveTypeOK
  <2>2. SieveTypeOK' /\ UnderWay'
      BY <1>0, <1>1, <1>2, <1>6, <2>1 DEF SaveDies, SieveTypeOK
  <2>3. Active' = Active /\ meant' = meant /\ halved'
      BY <1>6 DEF SaveDies, Active
  <2> QED
      BY <2>2, <2>3 DEF RunsWhatWasActivated
<1> QED
    BY <1>3, <1>4, <1>5, <1>6

\* The invariant holds in every state, whatever the sets of names, scripts,
\* connections and requests.
LEMMA SieveInvariant == SieveSpec => []SieveInv
<1>1. SieveInit => SieveInv
  <2> SUFFICES ASSUME SieveInit PROVE SieveInv
      OBVIOUS
  <2>1. SieveTypeOK
    <3>1. row \in [Names -> RowType] /\ \A n \in Names : ~row[n].active
        BY RowsAreRows DEF SieveInit
    <3>2. /\ Idle \in [pc: {"auth", "main", "setactive", "delete", "rename"},
                      old: Names \cup {NoName}, new: Names \cup {NoName}]
          /\ NoSave \in [name: Saved \cup {NoName}, script: Scripts \cup {<<>>}]
        BY DEF Idle, NoSave
    <3>3. commands \in 0..MaxCommands /\ deaths \in 0..MaxDeaths
        BY ScriptsAssumption DEF SieveInit
    <3>4. /\ conn \in [Conns -> [pc: {"auth", "main", "setactive", "delete", "rename"},
                               old: Names \cup {NoName}, new: Names \cup {NoName}]]
          /\ saver \in [Savers -> [name: Saved \cup {NoName},
                                 script: Scripts \cup {<<>>}]]
        BY <3>2 DEF SieveInit
    <3>5. meant \in Names \cup {NoName} /\ halved \in BOOLEAN
        BY Zenon DEF SieveInit
    <3> QED
        BY <3>1, <3>3, <3>4, <3>5, Zenon DEF SieveTypeOK, RowType
  <2>2. UnderWay
      BY DEF SieveInit, UnderWay, Idle
  <2>3. Active = {}
      BY DEF SieveInit, Active, NoRow
  <2> QED
      BY <2>1, <2>2, <2>3 DEF SieveInit, SieveInv, RunsWhatWasActivated
<1>2. SieveInv /\ [SieveNext]_sieveVars => SieveInv'
  <2> SUFFICES ASSUME SieveInv, [SieveNext]_sieveVars PROVE SieveInv'
      OBVIOUS
  <2>1. CASE SieveNext
      BY <2>1, CommandKeeps, SaveKeeps DEF SieveNext
  <2>2. CASE UNCHANGED sieveVars
      BY <2>2 DEF sieveVars, SieveInv, SieveTypeOK, UnderWay,
                  RunsWhatWasActivated, Active
  <2> QED
      BY <2>1, <2>2
<1> QED
    BY <1>1, <1>2, PTL DEF SieveSpec

\* Rows, connections and requests keep their types, and no script is active
\* that is not there.
THEOREM SieveTypeCorrect == SieveSpec => []SieveTypeOK
BY SieveInvariant, PTL DEF SieveInv

\* The script that runs is the one last made active, for any number of
\* connections and requests and however their statements interleave.
THEOREM ActivatedRuns == SieveSpec => []RunsWhatWasActivated
BY SieveInvariant, PTL DEF SieveInv

-----------------------------------------------------------------------------
(***************************************************************************)
(* MailSessions: the inductive invariant.  Its parts take the values they  *)
(* speak of, so that they can be stated of the next state too.             *)
(***************************************************************************)

\* A command in progress has a folder, and UIDs of it.
CommandOK(c, nx) ==
    /\ c.pc # "ready" => c.proto = "imap"
    /\ c.pc \in PC \ {"ready", "selecting"} => c.sel \in Folders
    /\ c.pc \in {"selecting", "copy"} => c.work.dest \in Folders
    /\ \A u \in c.work.uids \cup c.work.left : c.sel \in Folders /\ u < nx[c.sel]

\* Only a MOVE between its first copy and its expunge is moving something.
MovingOK(c) ==
    /\ c.pc = "moveRead" => c.work.moving # {}
    /\ c.work.moving # {} => c.pc \in {"copy", "moveRead", "expunge"}
    /\ c.pc = "copy" /\ c.work.moving = {} => c.work.uids = {}
    /\ c.pc = "copy" /\ ~c.work.move => c.work.moving = {}

\* What is about to be flagged, or expunged for its flag, was asked for or
\* counted as mistaken.
RemovalOK(c, b, gone) ==
    \/ c.pc = "store" /\ c.work.on
    \/ c.pc = "expunge" /\ c.work.moving = {}
    => \A u \in c.work.uids :
         u \in DOMAIN b[c.sel] => b[c.sel][u].msg \in gone

\* A POP3 session's list names messages by what they are.
ListOK(c, b, nx) ==
    c.proto = "pop3" =>
        /\ c.marks \subseteq c.view
        /\ \A v \in c.view :
             /\ v.uid < nx[Inbox]
             /\ v.uid \in DOMAIN b[Inbox] => b[Inbox][v.uid].msg = v.msg

ConnOK(c, b, nx, gone) ==
    /\ CommandOK(c, nx)
    /\ MovingOK(c)
    /\ RemovalOK(c, b, gone)
    /\ ListOK(c, b, nx)

Gone == asked \cup mistaken

ConnsOK == \A s \in Sessions : ConnOK(sess[s], box, uidNext, Gone)

\* A row flagged \Deleted was asked for or mistaken.
FlaggedOK ==
    \A f \in Folders : \A u \in DOMAIN box[f] :
        box[f][u].deleted => box[f][u].msg \in Gone

\* The row a MOVE has copied and will remove.
Doomed(f, u, ss) ==
    \E s \in Sessions : /\ ss[s].work.moving # {}
                        /\ ss[s].sel = f
                        /\ u \in ss[s].work.uids

\* A message nobody asked to remove is somewhere no MOVE will remove it.
KeptOK ==
    \A m \in arrived \ Gone : \E f \in Folders : \E u \in DOMAIN box[f] :
        box[f][u].msg = m /\ ~Doomed(f, u, sess)

Movers(m, ss) == {s \in Sessions : m \in ss[s].work.moving}

RowsOf(b, m) ==
    {c \in UNION {{f} \X DOMAIN b[f] : f \in Folders} : b[c[1]][c[2]].msg = m}

\* Each MOVE under way adds one copy at most.
DoublingOK ==
    \A m \in Messages \ doubled :
        Cardinality(RowsOf(box, m)) <= 1 + Cardinality(Movers(m, sess))

\* No EXPUNGE is queued.
Quiet(queue) == \A i \in DOMAIN queue : queue[i] = {}

\* A client knows the folder as it is.
Truthful(c, b) ==
    /\ Quiet(c.queue)
    /\ \A v \in c.view :
         /\ c.sel \in Folders
         /\ v.uid \in DOMAIN b[c.sel]
         /\ b[c.sel][v.uid].msg = v.msg
         /\ Number(b[c.sel], v.uid) = v.n

NumbersOK ==
    /\ slips \subseteq disturbed
    /\ \A s \in Sessions \ disturbed :
         sess[s].proto = "imap" => Truthful(sess[s], box)

AccessInv ==
    TypeOK /\ ConnsOK /\ FlaggedOK /\ KeptOK /\ DoublingOK /\ NumbersOK

-----------------------------------------------------------------------------
(***************************************************************************)
(* Numbers and sizes.                                                      *)
(***************************************************************************)

\* A nonempty set of numbers has a least one.
LEMMA LeastNumber ==
    ASSUME NEW S, S \subseteq Nat, S # {}
    PROVE  \E x \in S : \A y \in S : x <= y
<1> DEFINE R == {p \in Nat \X Nat : p[1] < p[2]}
<1>1. IsWellFoundedOn(R, Nat)
    BY NatLessThanWellFounded DEF OpToRel
<1> HIDE DEF R
<1>2. PICK x \in S : \A y \in S : ~(<<y, x>> \in R)
    BY <1>1, WFMin
<1>3. ASSUME NEW y \in S
      PROVE  x <= y
  <2>1. x \in Nat /\ y \in Nat /\ ~(<<y, x>> \in R)
      BY <1>2
  <2> QED
      BY <2>1 DEF R
<1> QED
    BY <1>3

\* What holds of 0, and of a number if of the one before, holds up to n.
LEMMA UpTo ==
    ASSUME NEW n \in Nat, NEW G, G \subseteq 0..n, 0 \in G,
           \A i \in 1..n : i - 1 \in G => i \in G
    PROVE  G = 0..n
<1> SUFFICES ASSUME G # 0..n PROVE FALSE
    OBVIOUS
<1> DEFINE S == {i \in 0..n : i \notin G}
<1>1. S \subseteq Nat /\ S # {}
  <2>1. PICK i \in 0..n : i \notin G
      BY Zenon
  <2> QED
      BY <2>1
<1>2. PICK x \in S : \A y \in S : x <= y
    BY <1>1, LeastNumber
<1>3. x \in 1..n
    BY <1>2
<1>4. x - 1 \notin S
    BY <1>2, <1>3
<1> QED
    BY <1>2, <1>3, <1>4

\* Taking one element for another leaves a set no larger.
LEMMA SwapSize ==
    ASSUME NEW S, IsFiniteSet(S), NEW T, NEW x, NEW y \in S,
           T \subseteq (S \ {y}) \cup {x}
    PROVE  IsFiniteSet(T) /\ Cardinality(T) <= Cardinality(S)
<1> DEFINE U == S \ {y}
           V == U \cup {x}
<1>1. IsFiniteSet(U) /\ Cardinality(U) = Cardinality(S) - 1
    BY FS_RemoveElement
<1>2. IsFiniteSet(V) /\ Cardinality(V) <= Cardinality(U) + 1
  <2> HIDE DEF U
  <2>1. Cardinality(U) \in Nat
      BY <1>1, FS_CardinalityType
  <2>2. /\ IsFiniteSet(V)
        /\ Cardinality(V) = IF x \in U THEN Cardinality(U) ELSE Cardinality(U) + 1
      BY <1>1, FS_AddElement
  <2> HIDE DEF V
  <2> QED
      BY <2>1, <2>2
<1>3. IsFiniteSet(T) /\ Cardinality(T) <= Cardinality(V)
    BY <1>2, FS_Subset
<1>4. Cardinality(S) \in Nat /\ Cardinality(T) \in Nat /\ Cardinality(V) \in Nat
    BY <1>2, <1>3, FS_CardinalityType
<1> QED
    BY <1>1, <1>2, <1>3, <1>4

\* One element more, and one less.
LEMMA OneMore ==
    ASSUME NEW S, IsFiniteSet(S), NEW T, NEW x, T \subseteq S \cup {x}
    PROVE  IsFiniteSet(T) /\ Cardinality(T) <= Cardinality(S) + 1
<1> DEFINE V == S \cup {x}
<1>1. IsFiniteSet(V) /\ Cardinality(V) <= Cardinality(S) + 1
  <2>1. Cardinality(S) \in Nat
      BY FS_CardinalityType
  <2>2. /\ IsFiniteSet(V)
        /\ Cardinality(V) = IF x \in S THEN Cardinality(S) ELSE Cardinality(S) + 1
      BY FS_AddElement
  <2> HIDE DEF V
  <2> QED
      BY <2>1, <2>2
<1>2. IsFiniteSet(T) /\ Cardinality(T) <= Cardinality(V)
    BY <1>1, FS_Subset
<1>3. Cardinality(S) \in Nat /\ Cardinality(T) \in Nat /\ Cardinality(V) \in Nat
    BY <1>1, <1>2, FS_CardinalityType
<1> QED
    BY <1>1, <1>2, <1>3

\* One element less.
LEMMA OneLess ==
    ASSUME NEW S, IsFiniteSet(S), NEW T, NEW y \in S, T \subseteq S \ {y}
    PROVE  IsFiniteSet(T) /\ Cardinality(T) + 1 <= Cardinality(S)
<1> DEFINE U == S \ {y}
<1>1. IsFiniteSet(U) /\ Cardinality(U) = Cardinality(S) - 1
    BY FS_RemoveElement
<1>2. IsFiniteSet(T) /\ Cardinality(T) <= Cardinality(U)
    BY <1>1, FS_Subset
<1>3. Cardinality(S) \in Nat /\ Cardinality(T) \in Nat /\ Cardinality(U) \in Nat
    BY <1>1, <1>2, FS_CardinalityType
<1> QED
    BY <1>1, <1>2, <1>3

\* A folder's rows have UIDs below some bound.
RowsBelow(rows, k) ==
    k \in Nat /\ \A u \in DOMAIN rows : u \in Nat /\ u < k

\* The rows up to a UID are finitely many, so a number is a number.
LEMMA NumberIsNat ==
    ASSUME NEW rows, NEW k, RowsBelow(rows, k), NEW u
    PROVE  /\ IsFiniteSet({x \in DOMAIN rows : x <= u})
           /\ Number(rows, u) \in Nat
<1>1. IsFiniteSet(0..k)
    BY FS_Interval DEF RowsBelow
<1>2. {x \in DOMAIN rows : x <= u} \subseteq 0..k
    BY DEF RowsBelow
<1>3. IsFiniteSet({x \in DOMAIN rows : x <= u})
    BY <1>1, <1>2, FS_Subset
<1> QED
    BY <1>3, FS_CardinalityType DEF Number

\* Two rows have two numbers.
LEMMA NumbersDiffer ==
    ASSUME NEW rows, NEW k, RowsBelow(rows, k),
           NEW u \in DOMAIN rows, NEW v \in DOMAIN rows,
           Number(rows, u) = Number(rows, v)
    PROVE  u = v
<1>1. ASSUME NEW x \in DOMAIN rows, NEW y \in DOMAIN rows, x < y,
             Number(rows, x) = Number(rows, y)
      PROVE  FALSE
  <2> DEFINE A == {z \in DOMAIN rows : z <= x}
             B == {z \in DOMAIN rows : z <= y}
  <2>1. A \subseteq B /\ y \in B /\ y \notin A
      BY <1>1 DEF RowsBelow
  <2>2. IsFiniteSet(B)
      BY NumberIsNat
  <2>3. Cardinality(A) = Cardinality(B)
      BY <1>1 DEF Number
  <2> HIDE DEF A, B
  <2>4. A = B
      BY <2>1, <2>2, <2>3, FS_Subset
  <2> QED
      BY <2>1, <2>4
<1> QED
    BY <1>1 DEF RowsBelow

\* A row with a UID above all others changes no number.
LEMMA NumberStays ==
    ASSUME NEW rows, NEW k, RowsBelow(rows, k), NEW r, NEW u \in DOMAIN rows
    PROVE  Number(Appended(rows, k, r), u) = Number(rows, u)
<1>1. {x \in DOMAIN Appended(rows, k, r) : x <= u} = {x \in DOMAIN rows : x <= u}
    BY DEF RowsBelow, Appended
<1> QED
    BY <1>1 DEF Number

-----------------------------------------------------------------------------
(***************************************************************************)
(* What a client makes of the updates.                                     *)
(***************************************************************************)

\* At most N numbers are below N.
LEMMA FewBelow ==
    ASSUME NEW N \in Nat, NEW nums \in SUBSET Nat
    PROVE  /\ Cardinality({k \in nums : k < N}) \in Nat
           /\ Cardinality({k \in nums : k < N}) <= N
<1> DEFINE K == {k \in nums : k < N}
           J == 0..(N - 1)
<1>1. N - 1 \in Int /\ 0 \in Int
    OBVIOUS
<1>2. IsFiniteSet(J) /\ Cardinality(J) = IF 0 > N - 1 THEN 0 ELSE N - 1 - 0 + 1
    BY <1>1, FS_Interval
<1>3. Cardinality(J) = N
  <2> HIDE DEF J
  <2> QED
      BY <1>2
<1>4. ASSUME NEW k \in K PROVE k \in J
  <2>1. k \in Nat /\ k < N
      OBVIOUS
  <2> QED
      BY <2>1
<1> HIDE DEF J, K
<1>5. IsFiniteSet(K) /\ Cardinality(K) <= N
    BY <1>2, <1>3, <1>4, FS_Subset
<1> QED
    BY <1>5, FS_CardinalityType DEF K

\* An update leaves entries.
LEMMA ToldEntries ==
    ASSUME NEW view \in SUBSET Entry, NEW nums \in SUBSET Nat
    PROVE  Told(view, nums) \in SUBSET Entry
<1>1. ASSUME NEW v \in view
      PROVE  [v EXCEPT !.n = @ - Cardinality({k \in nums : k < v.n})] \in Entry
  <2> DEFINE K == {k \in nums : k < v.n}
  <2>1. v \in Entry /\ v.n \in Nat
      BY DEF Entry
  <2>4. Cardinality(K) <= v.n /\ Cardinality(K) \in Nat
      BY <2>1, FewBelow
  <2>5. v.n - Cardinality(K) \in Nat
    <3> HIDE DEF K
    <3> QED
      BY <2>1, <2>4
  <2> HIDE DEF K
  <2>6. [v EXCEPT !.n = @ - Cardinality(K)] \in Entry
      BY <2>1, <2>5 DEF Entry
  <2> QED
      BY <2>6 DEF K
<1> QED
    BY <1>1 DEF Told

\* An EXISTS changes no entry.
LEMMA ToldNothing ==
    ASSUME NEW view \in SUBSET Entry
    PROVE  Told(view, {}) = view
<1>1. ASSUME NEW v \in view
      PROVE  [v EXCEPT !.n = @ - Cardinality({k \in {} : k < v.n})] = v
  <2>1. Cardinality({k \in {} : k < v.n}) = 0
    <3>1. {k \in {} : k < v.n} = {}
        OBVIOUS
    <3> QED
        BY <3>1, FS_EmptySet
  <2>2. v \in Entry /\ v.n \in Nat
      BY DEF Entry
  <2>3. v.n - 0 = v.n
      BY <2>2
  <2> QED
      BY <2>1, <2>2, <2>3 DEF Entry
<1>2. {w \in view : w.n \notin {}} = view
    OBVIOUS
<1> QED
    BY <1>1, <1>2 DEF Told

\* The updates one after the other, as a function of how many.
LEMMA ToldOneByOne ==
    ASSUME NEW view \in SUBSET Entry, NEW updates \in Seq(SUBSET Nat)
    PROVE  \E g \in [0..Len(updates) -> SUBSET Entry] :
             /\ g[0] = view
             /\ \A i \in 1..Len(updates) : g[i] = Told(g[i - 1], updates[i])
             /\ ToldAll(view, updates) = g[Len(updates)]
<1> DEFINE n == Len(updates)
           Step(g, i) == IF i = 0 THEN view ELSE Told(g[i - 1], updates[i])
           Chain(g, k) == /\ g \in [0..k -> SUBSET Entry]
                          /\ \A i \in 0..k : g[i] = Step(g, i)
           after == CHOOSE g : g = [i \in 0..n |-> Step(g, i)]
<1>0. n \in Nat /\ \A i \in 1..n : updates[i] \in SUBSET Nat
    OBVIOUS
<1>1. ToldAll(view, updates) = after[n]
    BY DEF ToldAll
<1> HIDE DEF n
<1>2. \E g : Chain(g, n)
  <2> DEFINE G == {k \in 0..n : \E g : Chain(g, k)}
  <2>1. 0 \in G
    <3> DEFINE g == [i \in 0..0 |-> view]
    <3>1. Chain(g, 0)
        OBVIOUS
    <3>2. 0 \in 0..n
        BY <1>0
    <3> HIDE DEF g, Chain
    <3> QED
        BY <3>1, <3>2
  <2>2. ASSUME NEW k \in 1..n, k - 1 \in G
        PROVE  k \in G
    <3>1. PICK g : Chain(g, k - 1)
        BY <2>2
    <3>2. k - 1 \in Nat /\ k \in Nat /\ k # 0 /\ g[k - 1] \in SUBSET Entry
        BY <1>0, <3>1
    <3>3. Told(g[k - 1], updates[k]) \in SUBSET Entry
        BY <1>0, <3>2, ToldEntries
    <3> DEFINE h == [i \in 0..k |-> IF i = k THEN Told(g[k - 1], updates[k]) ELSE g[i]]
    <3>4. \A i \in 0..(k - 1) : h[i] = g[i] /\ i # k
        BY <3>2
    <3>5. h \in [0..k -> SUBSET Entry]
        BY <3>1, <3>2, <3>3
    <3>6. ASSUME NEW i \in 0..k
          PROVE  h[i] = Step(h, i)
      <4>1. CASE i = k
        <5>1. h[i - 1] = g[k - 1]
            BY <3>2, <3>4, <4>1
        <5> QED
            BY <3>2, <4>1, <5>1
      <4>2. CASE i = 0
          BY <3>1, <3>2, <3>4, <4>2
      <4>3. CASE i # k /\ i # 0
        <5>1. i \in 0..(k - 1) /\ i - 1 \in 0..(k - 1)
            BY <3>2, <3>6, <4>3
        <5>2. g[i] = Told(g[i - 1], updates[i])
            BY <3>1, <4>3, <5>1
        <5> QED
            BY <3>4, <4>3, <5>1, <5>2
      <4> QED
          BY <4>1, <4>2, <4>3
    <3> HIDE DEF h
    <3>7. Chain(h, k)
        BY <3>5, <3>6
    <3>8. k \in 0..n
        BY <1>0, <2>2
    <3> HIDE DEF Chain
    <3> QED
        BY <3>7, <3>8
  <2> HIDE DEF Chain
  <2>3. G = 0..n
    <3> HIDE DEF G
    <3>1. G \subseteq 0..n
        BY DEF G
    <3> QED
        BY <1>0, <2>1, <2>2, <3>1, UpTo
  <2> QED
      BY <1>0, <2>3
<1>3. PICK g : Chain(g, n)
    BY <1>2
<1>4. g = [i \in 0..n |-> Step(g, i)]
    BY <1>3
<1>5. after = [i \in 0..n |-> Step(after, i)]
  <2> HIDE DEF Step
  <2> QED
    BY <1>4
<1> HIDE DEF after
<1>6. {i \in 0..n : after[i] = g[i]} = 0..n
  <2> DEFINE G == {i \in 0..n : after[i] = g[i]}
  <2>1. 0 \in G
      BY <1>0, <1>4, <1>5
  <2>2. ASSUME NEW i \in 1..n, i - 1 \in G
        PROVE  i \in G
    <3>1. i \in 0..n /\ i # 0 /\ after[i - 1] = g[i - 1]
        BY <1>0, <2>2
    <3>2. after[i] = Step(after, i) /\ g[i] = Step(g, i)
      <4> HIDE DEF Step
      <4> QED
        BY <1>4, <1>5, <3>1
    <3> QED
        BY <3>1, <3>2
  <2>3. G \subseteq 0..n
      OBVIOUS
  <2> HIDE DEF G
  <2>4. G = 0..n
      BY <1>0, <2>1, <2>2, <2>3, UpTo
  <2> QED
      BY <2>4 DEF G
<1>7. after[n] = g[n]
    BY <1>0, <1>6
<1>8. \A i \in 1..n : g[i] = Told(g[i - 1], updates[i])
    BY <1>0, <1>3
<1>9. g \in [0..n -> SUBSET Entry] /\ g[0] = view
    BY <1>0, <1>3
<1>10. ToldAll(view, updates) = g[n]
    BY <1>1, <1>7
<1> QED
    BY <1>8, <1>9, <1>10 DEF n

\* After any updates the client has entries, and after EXISTS alone those it
\* had.
LEMMA ToldAllEntries ==
    ASSUME NEW view \in SUBSET Entry, NEW updates \in Seq(SUBSET Nat)
    PROVE  /\ ToldAll(view, updates) \in SUBSET Entry
           /\ (\A i \in DOMAIN updates : updates[i] = {})
                => ToldAll(view, updates) = view
<1> DEFINE n == Len(updates)
<1>0. n \in Nat /\ DOMAIN updates = 1..n
    OBVIOUS
<1>1. PICK g \in [0..n -> SUBSET Entry] :
         /\ g[0] = view
         /\ \A i \in 1..n : g[i] = Told(g[i - 1], updates[i])
         /\ ToldAll(view, updates) = g[n]
    BY ToldOneByOne
<1> HIDE DEF n
<1>2. ASSUME \A i \in DOMAIN updates : updates[i] = {}
      PROVE  g[n] = view
  <2> DEFINE G == {i \in 0..n : g[i] = view}
  <2>1. 0 \in G /\ G \subseteq 0..n
      BY <1>0, <1>1
  <2>2. ASSUME NEW i \in 1..n, i - 1 \in G
        PROVE  i \in G
      BY <1>0, <1>1, <1>2, <2>2, ToldNothing
  <2> HIDE DEF G
  <2>3. G = 0..n
      BY <1>0, <2>1, <2>2, UpTo
  <2> QED
      BY <1>0, <2>3 DEF G
<1> QED
    BY <1>0, <1>1, <1>2

\* After a poll the connection is ready; with no EXPUNGE queued its client
\* knows what it knew.
LEMMA PolledConn ==
    ASSUME NEW c \in Conn, NEW allow \in BOOLEAN
    PROVE  /\ Polled(c, allow) \in Conn
           /\ Polled(c, allow).proto = c.proto /\ Polled(c, allow).sel = c.sel
           /\ Polled(c, allow).marks = c.marks
           /\ Polled(c, allow).pc = "ready" /\ Polled(c, allow).work = NoWork
           /\ Quiet(c.queue) => /\ Polled(c, allow).view = c.view
                                /\ Quiet(Polled(c, allow).queue)
<1> DEFINE q == c.queue
           held == {i \in DOMAIN q : q[i] # {}}
           stop == IF allow \/ held = {} THEN Len(q) ELSE Min(held) - 1
           before == SubSeq(q, 1, stop)
           rest == SubSeq(q, stop + 1, Len(q))
           v == ToldAll(c.view, before)
<1>0. /\ q \in Seq(SUBSET Nat) /\ Len(q) \in Nat /\ DOMAIN q = 1..Len(q)
      /\ c.view \in SUBSET Entry /\ NoWork \in Work
    BY DEF Conn, Work, NoWork
<1>1. Polled(c, allow) = [c EXCEPT !.view = v, !.queue = rest,
                                   !.pc = "ready", !.work = NoWork]
    BY DEF Polled
<1>2. stop \in 0..Len(q)
  <2>1. CASE allow \/ held = {}
      BY <1>0, <2>1
  <2>2. CASE ~(allow \/ held = {})
    <3>1. held \subseteq Nat /\ held # {} /\ held \subseteq 1..Len(q)
        BY <1>0, <2>2
    <3> HIDE DEF held
    <3>2. \E x \in held : \A y \in held : x <= y
        BY <3>1, LeastNumber
    <3>3. Min(held) \in held
        BY <3>2 DEF Min
    <3>4. stop = Min(held) - 1
        BY <2>2, Zenon
    <3>5. Min(held) \in 1..Len(q)
        BY <3>1, <3>3
    <3>6. \A k \in Nat : \A x \in 1..k : x - 1 \in 0..k
        OBVIOUS
    <3> HIDE DEF stop
    <3> QED
        BY <1>0, <3>4, <3>5, <3>6
  <2> QED
      BY <2>1, <2>2
<1> HIDE DEF stop
<1>3. /\ before \in Seq(SUBSET Nat)
      /\ Len(before) = stop /\ \A i \in 1..stop : before[i] = q[i]
  <2>1. \A i \in 1..stop : q[i] \in SUBSET Nat
      BY <1>0, <1>2
  <2>2. 1 \in Int /\ stop \in Int
      BY <1>0, <1>2
  <2>3. /\ before \in Seq(SUBSET Nat)
        /\ Len(before) = IF 1 <= stop THEN stop - 1 + 1 ELSE 0
        /\ \A i \in 1 .. stop - 1 + 1 : before[i] = q[1 + i - 1]
      BY <2>1, <2>2, SubSeqProperties
  <2> HIDE DEF before, q
  <2> QED
      BY <1>0, <1>2, <2>3
<1>4. /\ rest \in Seq(SUBSET Nat)
      /\ Len(rest) = Len(q) - stop
      /\ \A i \in 1..(Len(q) - stop) : rest[i] = q[stop + i]
  <2>1. \A i \in (stop + 1)..Len(q) : q[i] \in SUBSET Nat
      BY <1>0, <1>2
  <2>2. stop + 1 \in Int /\ Len(q) \in Int
      BY <1>0, <1>2
  <2>3. /\ rest \in Seq(SUBSET Nat)
        /\ Len(rest) = IF stop + 1 <= Len(q) THEN Len(q) - (stop + 1) + 1 ELSE 0
        /\ \A i \in 1 .. Len(q) - (stop + 1) + 1 : rest[i] = q[stop + 1 + i - 1]
      BY <2>1, <2>2, SubSeqProperties
  <2> HIDE DEF rest, q
  <2>4. Len(rest) = Len(q) - stop
    <3>1. \A k \in Nat : \A x \in 0..k :
             (IF x + 1 <= k THEN k - (x + 1) + 1 ELSE 0) = k - x
        OBVIOUS
    <3> QED
        BY <1>0, <1>2, <2>3, <3>1
  <2>5. ASSUME NEW i \in 1..(Len(q) - stop)
        PROVE  rest[i] = q[stop + i]
    <3>1. i \in 1 .. Len(q) - (stop + 1) + 1 /\ stop + 1 + i - 1 = stop + i
        BY <1>0, <1>2, <2>5
    <3> QED
        BY <2>3, <3>1
  <2> QED
      BY <2>3, <2>4, <2>5
<1> HIDE DEF before, rest
<1>5. v \in SUBSET Entry
    BY <1>0, <1>3, ToldAllEntries
<1> HIDE DEF v
<1>6. /\ Polled(c, allow) \in Conn
      /\ Polled(c, allow).proto = c.proto /\ Polled(c, allow).sel = c.sel
      /\ Polled(c, allow).marks = c.marks
      /\ Polled(c, allow).pc = "ready" /\ Polled(c, allow).work = NoWork
      /\ Polled(c, allow).view = v /\ Polled(c, allow).queue = rest
    BY <1>0, <1>1, <1>4, <1>5 DEF Conn, PC
<1>7. ASSUME Quiet(q)
      PROVE  v = c.view /\ Quiet(rest)
  <2>1. \A i \in 1..Len(q) : q[i] = {}
      BY <1>0, <1>7 DEF Quiet
  <2>2. DOMAIN before = 1..stop
      BY <1>3
  <2>3. \A i \in DOMAIN before : before[i] = {}
      BY <1>0, <1>2, <1>3, <2>1, <2>2
  <2>4. v = c.view
      BY <1>0, <1>3, <2>3, ToldAllEntries DEF v
  <2>5. DOMAIN rest = 1..(Len(q) - stop)
      BY <1>4
  <2>6. ASSUME NEW i \in DOMAIN rest
        PROVE  rest[i] = {}
    <3>1. i \in 1..(Len(q) - stop) /\ stop + i \in 1..Len(q)
        BY <1>0, <1>2, <2>5, <2>6
    <3> QED
        BY <1>4, <2>1, <3>1
  <2> QED
      BY <2>4, <2>6 DEF Quiet
<1> QED
    BY <1>6, <1>7

\* Two connections that differ in their queues at most.
SameButQueue(d, c) ==
    /\ d.proto = c.proto /\ d.sel = c.sel /\ d.view = c.view
    /\ d.marks = c.marks /\ d.pc = c.pc /\ d.work = c.work

\* An announcement changes queues of the folder's watchers alone.
LEMMA AnnouncedConns ==
    ASSUME sess \in [Sessions -> Conn], NEW f \in Folders, NEW nums \in SUBSET Nat
    PROVE  /\ Announced(f, nums) \in [Sessions -> Conn]
           /\ \A t \in Sessions :
                /\ SameButQueue(Announced(f, nums)[t], sess[t])
                /\ t \notin Watchers(f) => Announced(f, nums)[t] = sess[t]
                /\ nums = {} /\ Quiet(sess[t].queue)
                     => Quiet(Announced(f, nums)[t].queue)
<1>1. ASSUME NEW t \in Sessions
      PROVE  /\ Announced(f, nums)[t] \in Conn
             /\ SameButQueue(Announced(f, nums)[t], sess[t])
             /\ t \notin Watchers(f) => Announced(f, nums)[t] = sess[t]
             /\ nums = {} /\ Quiet(sess[t].queue)
                  => Quiet(Announced(f, nums)[t].queue)
  <2>1. sess[t] \in Conn /\ sess[t].queue \in Seq(SUBSET Nat)
      BY DEF Conn
  <2>2. CASE t \in Watchers(f)
    <3> DEFINE q == Append(sess[t].queue, nums)
    <3>1. Announced(f, nums)[t] = [sess[t] EXCEPT !.queue = q]
        BY <2>2 DEF Announced, Queued
    <3>2. /\ q \in Seq(SUBSET Nat) /\ Len(q) = Len(sess[t].queue) + 1
          /\ \A i \in 1..Len(sess[t].queue) : q[i] = sess[t].queue[i]
          /\ q[Len(sess[t].queue) + 1] = nums
        BY <2>1, AppendProperties
    <3> HIDE DEF q
    <3>3. ASSUME nums = {}, Quiet(sess[t].queue)
          PROVE  Quiet(q)
      <4>1. Len(sess[t].queue) \in Nat /\ DOMAIN sess[t].queue = 1..Len(sess[t].queue)
            /\ DOMAIN q = 1..Len(q)
          BY <2>1, <3>2
      <4> QED
          BY <3>2, <3>3, <4>1 DEF Quiet
    <3>4. /\ Announced(f, nums)[t] \in Conn /\ Announced(f, nums)[t].queue = q
          /\ SameButQueue(Announced(f, nums)[t], sess[t])
        BY <2>1, <3>1, <3>2 DEF Conn, SameButQueue
    <3> QED
        BY <2>2, <3>3, <3>4
  <2>3. CASE t \notin Watchers(f)
      BY <2>1, <2>3 DEF Announced, SameButQueue
  <2> QED
      BY <2>2, <2>3
<1> QED
    BY <1>1 DEF Announced

\* Starting or going on with a command.
LEMMA BusyConns ==
    ASSUME sess \in [Sessions -> Conn], NEW s \in Sessions, NEW pc \in PC,
           NEW work \in Work
    PROVE  /\ Busy(s, pc, work) \in [Sessions -> Conn]
           /\ \A t \in Sessions \ {s} : Busy(s, pc, work)[t] = sess[t]
           /\ Busy(s, pc, work)[s].pc = pc /\ Busy(s, pc, work)[s].work = work
           /\ Busy(s, pc, work)[s].proto = sess[s].proto
           /\ Busy(s, pc, work)[s].sel = sess[s].sel
           /\ Busy(s, pc, work)[s].view = sess[s].view
           /\ Busy(s, pc, work)[s].queue = sess[s].queue
           /\ Busy(s, pc, work)[s].marks = sess[s].marks
BY DEF Busy, Conn

-----------------------------------------------------------------------------
(***************************************************************************)
(* The ways the rows change: some go, one comes, flags are set, one moves. *)
(***************************************************************************)

\* The part of TypeOK about the store.
OnFolders(b) == b \in [Folders -> {b[f] : f \in Folders}]

BoxOK(b, nx, arr) ==
    /\ OnFolders(b)
    /\ nx \in [Folders -> Nat \ {0}]
    /\ \A f \in Folders :
         /\ b[f] \in [DOMAIN b[f] -> Row]
         /\ \A u \in DOMAIN b[f] : u \in 1..nx[f] - 1 /\ b[f][u].msg \in arr

\* A UID once given never comes to name another message.
Stable(b, nx, b2, nx2) ==
    \A f \in Folders :
        /\ nx[f] <= nx2[f]
        /\ \A u \in DOMAIN b2[f] :
             u < nx[f] => u \in DOMAIN b[f] /\ b2[f][u].msg = b[f][u].msg

\* Of the rows in b2 each was in b, with the same message.
Fewer(b, b2) ==
    \A f \in Folders : \A u \in DOMAIN b2[f] :
        u \in DOMAIN b[f] /\ b2[f][u].msg = b[f][u].msg

\* The rows of one folder, and folders that have gone on.
FolderOK(rows, k, arr) ==
    /\ rows \in [DOMAIN rows -> Row]
    /\ \A u \in DOMAIN rows : u \in 1..k - 1 /\ rows[u].msg \in arr

Later(nx, nx2) ==
    /\ nx2 \in [Folders -> Nat \ {0}]
    /\ \A f \in Folders : nx[f] <= nx2[f]

\* One folder may have changed: the others are what they were.
LEMMA OneFolder ==
    ASSUME NEW b, NEW nx, NEW arr, BoxOK(b, nx, arr), NEW f \in Folders,
           NEW nx2, Later(nx, nx2), NEW arr2, arr \subseteq arr2,
           NEW b2, OnFolders(b2),
           FolderOK(b2[f], nx2[f], arr2), \A g \in Folders \ {f} : b2[g] = b[g]
    PROVE  BoxOK(b2, nx2, arr2)
<1>1. ASSUME NEW g \in Folders
      PROVE  /\ b2[g] \in [DOMAIN b2[g] -> Row]
             /\ \A u \in DOMAIN b2[g] : u \in 1..nx2[g] - 1 /\ b2[g][u].msg \in arr2
  <2>1. CASE g = f
      BY <2>1 DEF FolderOK
  <2>2. CASE g # f
    <3>1. b2[g] = b[g]
        BY <2>2
    <3>2. nx[g] \in Nat /\ nx2[g] \in Nat /\ nx[g] <= nx2[g]
        BY DEF BoxOK, Later
    <3>3. \A u \in DOMAIN b[g] : u \in 1..nx[g] - 1 /\ b[g][u].msg \in arr
        BY DEF BoxOK
    <3>4. \A u \in 1..nx[g] - 1 : u \in 1..nx2[g] - 1
        BY <3>2
    <3> QED
        BY <3>1, <3>3, <3>4 DEF BoxOK
  <2> QED
      BY <2>1, <2>2
<1>2. nx2 \in [Folders -> Nat \ {0}]
    BY DEF Later
<1> HIDE DEF Folders
<1> QED
    BY <1>1, <1>2 DEF BoxOK

\* The changes, by name.
CutTo(b, f, uids, b2) == b2 = [b EXCEPT ![f] = Without(@, uids)]

GrownTo(b, nx, g, r, b2, nx2) ==
    /\ b2 = [b EXCEPT ![g] = Appended(@, nx[g], r)]
    /\ nx2 = [nx EXCEPT ![g] = @ + 1]

FlaggedTo(b, f, uids, on, b2) == b2 = [b EXCEPT ![f] = SetFlags(@, uids, on)]

\* Rows go.
LEMMA CutBox ==
    ASSUME NEW b, NEW nx, NEW arr, BoxOK(b, nx, arr), NEW f \in Folders, NEW uids,
           NEW b2, CutTo(b, f, uids, b2)
    PROVE  /\ BoxOK(b2, nx, arr)
           /\ Stable(b, nx, b2, nx) /\ Fewer(b, b2)
           /\ DOMAIN b2[f] = DOMAIN b[f] \ uids
           /\ \A u \in DOMAIN b2[f] : b2[f][u] = b[f][u]
           /\ \A g \in Folders \ {f} : b2[g] = b[g]
<1> DEFINE rows == Without(b[f], uids)
<1>1. b2 = [b EXCEPT ![f] = rows]
    BY DEF CutTo
<1>2. /\ DOMAIN rows = DOMAIN b[f] \ uids
      /\ \A u \in DOMAIN rows : rows[u] = b[f][u]
      /\ rows \in [DOMAIN rows -> Row]
    BY DEF Without, BoxOK
<1>3. /\ \A u \in DOMAIN rows : u \in 1..nx[f] - 1 /\ rows[u].msg \in arr
      /\ nx \in [Folders -> Nat \ {0}] /\ \A g \in Folders : nx[g] \in Nat
    BY <1>2 DEF BoxOK
<1>4. \A g \in Folders : nx[g] <= nx[g]
    BY <1>3
<1> HIDE DEF rows
<1>5. /\ BoxOK(b2, nx, arr) /\ b2[f] = rows
      /\ \A g \in Folders \ {f} : b2[g] = b[g]
  <2>1. /\ FolderOK(rows, nx[f], arr) /\ Later(nx, nx)
        /\ arr \subseteq arr
      BY <1>2, <1>3, <1>4 DEF FolderOK, Later
  <2>2. /\ OnFolders(b2)
        /\ b2[f] = rows /\ \A h \in Folders \ {f} : b2[h] = b[h]
      BY <1>1 DEF BoxOK, OnFolders
  <2>3. BoxOK(b2, nx, arr)
      BY <2>1, <2>2, OneFolder
  <2> QED
      BY <2>2, <2>3
<1>6. Fewer(b, b2)
    BY <1>2, <1>5 DEF Fewer
<1> QED
    BY <1>2, <1>4, <1>5, <1>6 DEF Stable, Fewer

\* A row comes, under the folder's next UID.
LEMMA GrowBox ==
    ASSUME NEW b, NEW nx, NEW arr, BoxOK(b, nx, arr), NEW g \in Folders,
           NEW r \in Row, NEW arr2, arr \subseteq arr2, r.msg \in arr2,
           NEW b2, NEW nx2, GrownTo(b, nx, g, r, b2, nx2)
    PROVE  /\ BoxOK(b2, nx2, arr2)
           /\ Stable(b, nx, b2, nx2)
           /\ nx[g] \notin DOMAIN b[g]
           /\ DOMAIN b2[g] = DOMAIN b[g] \cup {nx[g]}
           /\ b2[g][nx[g]] = r
           /\ \A u \in DOMAIN b[g] : b2[g][u] = b[g][u]
           /\ \A h \in Folders \ {g} : b2[h] = b[h]
<1> DEFINE rows == Appended(b[g], nx[g], r)
<1>1. b2 = [b EXCEPT ![g] = rows]
    BY DEF GrownTo
<1>2. /\ nx \in [Folders -> Nat \ {0}] /\ \A h \in Folders : nx[h] \in Nat \ {0}
      /\ \A u \in DOMAIN b[g] : u \in 1..nx[g] - 1 /\ b[g][u].msg \in arr
      /\ b[g] \in [DOMAIN b[g] -> Row]
    BY DEF BoxOK
<1>3. /\ nx2 \in [Folders -> Nat \ {0}] /\ nx2[g] = nx[g] + 1
      /\ \A h \in Folders : nx[h] <= nx2[h]
    BY <1>2 DEF GrownTo
<1>4. nx[g] \notin DOMAIN b[g]
    BY <1>2
<1>5. /\ DOMAIN rows = DOMAIN b[g] \cup {nx[g]} /\ rows[nx[g]] = r
      /\ \A u \in DOMAIN b[g] : rows[u] = b[g][u]
    BY <1>4 DEF Appended
<1>6. rows \in [DOMAIN rows -> Row]
    BY <1>2, <1>5 DEF Appended
<1>7. \A u \in DOMAIN rows : u \in 1..nx2[g] - 1 /\ rows[u].msg \in arr2
  <2>1. nx[g] \in 1..nx2[g] - 1 /\ \A u \in 1..nx[g] - 1 : u \in 1..nx2[g] - 1
      BY <1>2, <1>3
  <2> HIDE DEF rows
  <2> QED
      BY <1>2, <1>5, <2>1
<1> HIDE DEF rows
<1>8. /\ BoxOK(b2, nx2, arr2) /\ b2[g] = rows
      /\ \A h \in Folders \ {g} : b2[h] = b[h]
  <2>1. FolderOK(rows, nx2[g], arr2) /\ Later(nx, nx2)
      BY <1>3, <1>6, <1>7 DEF FolderOK, Later
  <2>2. /\ OnFolders(b2)
        /\ b2[g] = rows /\ \A h \in Folders \ {g} : b2[h] = b[h]
      BY <1>1 DEF BoxOK, OnFolders
  <2>3. BoxOK(b2, nx2, arr2)
      BY <2>1, <2>2, OneFolder
  <2> QED
      BY <2>2, <2>3
<1>9. Stable(b, nx, b2, nx2)
  <2>1. ASSUME NEW h \in Folders, NEW u \in DOMAIN b2[h], u < nx[h]
        PROVE  u \in DOMAIN b[h] /\ b2[h][u].msg = b[h][u].msg
    <3>1. CASE h = g
      <4>1. u # nx[g]
          BY <1>2, <2>1, <3>1
      <4> QED
          BY <1>5, <1>8, <2>1, <3>1, <4>1
    <3>2. CASE h # g
        BY <1>8, <2>1, <3>2
    <3> QED
        BY <3>1, <3>2
  <2> QED
      BY <1>3, <2>1 DEF Stable
<1> QED
    BY <1>4, <1>5, <1>8, <1>9

\* Flags are set.
LEMMA FlagBox ==
    ASSUME NEW b, NEW nx, NEW arr, BoxOK(b, nx, arr), NEW f \in Folders, NEW uids,
           NEW on \in BOOLEAN, NEW b2, FlaggedTo(b, f, uids, on, b2)
    PROVE  /\ BoxOK(b2, nx, arr)
           /\ Stable(b, nx, b2, nx) /\ Fewer(b, b2) /\ Fewer(b2, b)
           /\ \A u \in DOMAIN b2[f] : IF u \in uids THEN b2[f][u].deleted = on
                                                   ELSE b2[f][u] = b[f][u]
           /\ \A g \in Folders \ {f} : b2[g] = b[g]
<1> DEFINE rows == SetFlags(b[f], uids, on)
<1>1. b2 = [b EXCEPT ![f] = rows]
    BY DEF FlaggedTo
<1>2. DOMAIN rows = DOMAIN b[f] /\ b[f] \in [DOMAIN b[f] -> Row]
    BY DEF SetFlags, BoxOK
<1>3. ASSUME NEW u \in DOMAIN b[f]
      PROVE  /\ rows[u] \in Row /\ rows[u].msg = b[f][u].msg
             /\ IF u \in uids THEN rows[u].deleted = on ELSE rows[u] = b[f][u]
    BY <1>2, <1>3 DEF SetFlags, Row
<1>4. rows \in [DOMAIN rows -> Row]
    BY <1>2, <1>3 DEF SetFlags
<1>5. /\ \A u \in DOMAIN rows : u \in 1..nx[f] - 1 /\ rows[u].msg \in arr
      /\ nx \in [Folders -> Nat \ {0}] /\ \A g \in Folders : nx[g] \in Nat
    BY <1>2, <1>3 DEF BoxOK
<1>6. \A g \in Folders : nx[g] <= nx[g]
    BY <1>5
<1> HIDE DEF rows
<1>7. /\ BoxOK(b2, nx, arr) /\ b2[f] = rows
      /\ \A g \in Folders \ {f} : b2[g] = b[g]
  <2>1. /\ FolderOK(rows, nx[f], arr) /\ Later(nx, nx)
        /\ arr \subseteq arr
      BY <1>4, <1>5, <1>6 DEF FolderOK, Later
  <2>2. /\ OnFolders(b2)
        /\ b2[f] = rows /\ \A h \in Folders \ {f} : b2[h] = b[h]
      BY <1>1 DEF BoxOK, OnFolders
  <2>3. BoxOK(b2, nx, arr)
      BY <2>1, <2>2, OneFolder
  <2> QED
      BY <2>2, <2>3
<1>8. Fewer(b, b2) /\ Fewer(b2, b)
    BY <1>2, <1>3, <1>7 DEF Fewer
<1> QED
    BY <1>2, <1>3, <1>6, <1>7, <1>8 DEF Stable, Fewer

\* The copies of a message are finitely many.
LEMMA RowsFinite ==
    ASSUME NEW b, NEW nx, NEW arr, BoxOK(b, nx, arr), NEW m
    PROVE  IsFiniteSet(RowsOf(b, m))
<1> DEFINE F == {Inbox, Trash, Own}
           P(f) == {f} \X DOMAIN b[f]
<1>1. ASSUME NEW f \in Folders
      PROVE  IsFiniteSet(P(f))
  <2>1. nx[f] \in Nat /\ \A u \in DOMAIN b[f] : u \in Nat /\ u <= nx[f]
      BY DEF BoxOK
  <2>2. IsFiniteSet(DOMAIN b[f])
      BY <2>1, FS_BoundedSetOfNaturals
  <2>3. IsFiniteSet({f})
      BY FS_Singleton
  <2> QED
      BY <2>2, <2>3, FS_Product
<1>2. /\ Inbox \in Folders /\ Trash \in Folders /\ Own \in Folders
      /\ UNION {P(f) : f \in Folders} = (P(Inbox) \cup P(Trash)) \cup P(Own)
    BY DEF Folders
<1> HIDE DEF P
<1>3. IsFiniteSet(P(Inbox) \cup P(Trash))
    BY <1>1, <1>2, FS_Union
<1>4. IsFiniteSet((P(Inbox) \cup P(Trash)) \cup P(Own))
    BY <1>1, <1>2, <1>3, FS_Union
<1>5. RowsOf(b, m) \subseteq UNION {P(f) : f \in Folders}
    BY DEF RowsOf, P
<1> QED
    BY <1>2, <1>4, <1>5, FS_Subset

\* A copy of a message is a row of a folder with that message.
LEMMA RowsAre ==
    ASSUME NEW b, NEW m, NEW f \in Folders, NEW u
    PROVE  <<f, u>> \in RowsOf(b, m) <=> u \in DOMAIN b[f] /\ b[f][u].msg = m
BY DEF RowsOf

\* Every copy is such a pair.
LEMMA RowsArePairs ==
    ASSUME NEW b, NEW m, NEW c \in RowsOf(b, m)
    PROVE  \E f \in Folders : \E u \in DOMAIN b[f] :
             c = <<f, u>> /\ b[f][u].msg = m
BY DEF RowsOf

-----------------------------------------------------------------------------
(***************************************************************************)
(* What a step need not touch.                                             *)
(***************************************************************************)

\* TypeOK, with the store by itself.
OthersOK ==
    /\ present \subseteq Folders
    /\ ops \in Nat /\ faults \in Nat
    /\ arrived \cup asked \cup doubled \cup mistaken \subseteq Messages
    /\ disturbed \cup slips \subseteq Sessions

\* The types are those of the store, of the connections and of the rest.
LEMMA TypeParts ==
    TypeOK <=> /\ BoxOK(box, uidNext, arrived)
               /\ sess \in [Sessions -> Conn]
               /\ OthersOK
BY DEF TypeOK, BoxOK, OnFolders, OthersOK

\* The same of the next state.
LEMMA TypePartsNext ==
    ASSUME BoxOK(box', uidNext', arrived'), sess' \in [Sessions -> Conn], OthersOK'
    PROVE  TypeOK'
BY DEF TypeOK, BoxOK, OnFolders, OthersOK

\* A connection whose fields stay is as right as before when UIDs keep their
\* meaning and no request is forgotten.
LEMMA ConnStays ==
    ASSUME NEW c \in Conn, NEW d \in Conn, SameButQueue(d, c),
           NEW b, NEW nx, NEW arr, BoxOK(b, nx, arr),
           NEW b2, NEW nx2, NEW arr2, BoxOK(b2, nx2, arr2),
           Stable(b, nx, b2, nx2),
           NEW gone, NEW gone2, gone \subseteq gone2,
           ConnOK(c, b, nx, gone)
    PROVE  ConnOK(d, b2, nx2, gone2)
<1>0. /\ \A f \in Folders : nx[f] \in Nat /\ nx2[f] \in Nat /\ nx[f] <= nx2[f]
      /\ c.work.uids \cup c.work.left \subseteq Nat
      /\ \A v \in c.view : v.uid \in Nat
    BY DEF BoxOK, Stable, Conn, Work, Entry
<1>1. ASSUME NEW u \in c.work.uids \cup c.work.left
      PROVE  /\ c.sel \in Folders /\ u < nx2[c.sel]
             /\ u \in DOMAIN b2[c.sel] => /\ u \in DOMAIN b[c.sel]
                                         /\ b2[c.sel][u].msg = b[c.sel][u].msg
  <2>1. c.sel \in Folders /\ u < nx[c.sel] /\ u \in Nat
      BY <1>0 DEF ConnOK, CommandOK
  <2>2. u < nx2[c.sel]
      BY <1>0, <2>1
  <2> QED
      BY <2>1, <2>2 DEF Stable
<1>2. CommandOK(d, nx2)
    BY <1>1 DEF SameButQueue, ConnOK, CommandOK
<1>3. MovingOK(d)
    BY DEF SameButQueue, ConnOK, MovingOK
<1>4. RemovalOK(d, b2, gone2)
    BY <1>1 DEF SameButQueue, ConnOK, RemovalOK
<1>5. ListOK(d, b2, nx2)
  <2>1. Inbox \in Folders
      BY DEF Folders
  <2>2. ASSUME NEW v \in c.view, c.proto = "pop3"
        PROVE  /\ v.uid < nx2[Inbox]
               /\ v.uid \in DOMAIN b2[Inbox] => b2[Inbox][v.uid].msg = v.msg
    <3>1. /\ v.uid < nx[Inbox] /\ v.uid \in Nat
          /\ v.uid \in DOMAIN b[Inbox] => b[Inbox][v.uid].msg = v.msg
        BY <1>0, <2>2 DEF ConnOK, ListOK
    <3>2. v.uid < nx2[Inbox]
        BY <1>0, <2>1, <3>1
    <3> QED
        BY <2>1, <3>1, <3>2 DEF Stable
  <2> QED
      BY <2>2 DEF SameButQueue, ConnOK, ListOK
<1> QED
    BY <1>2, <1>3, <1>4, <1>5 DEF ConnOK

\* So it is enough to look at the connections a step changes.
LEMMA ConnsStay ==
    ASSUME TypeOK, ConnsOK, NEW X,
           BoxOK(box', uidNext', arrived'), sess' \in [Sessions -> Conn],
           Stable(box, uidNext, box', uidNext'), Gone \subseteq Gone',
           \A t \in Sessions \ X : SameButQueue(sess'[t], sess[t]),
           \A t \in X \cap Sessions : ConnOK(sess'[t], box', uidNext', Gone')
    PROVE  ConnsOK'
<1>1. BoxOK(box, uidNext, arrived) /\ sess \in [Sessions -> Conn]
    BY TypeParts
<1>2. ASSUME NEW t \in Sessions
      PROVE  ConnOK(sess'[t], box', uidNext', Gone')
  <2>1. CASE t \in X
      BY <2>1
  <2>2. CASE t \notin X
    <3>1. /\ sess[t] \in Conn /\ sess'[t] \in Conn
          /\ SameButQueue(sess'[t], sess[t])
          /\ ConnOK(sess[t], box, uidNext, Gone)
        BY <1>1, <2>2 DEF ConnsOK
    <3> QED
        BY <1>1, <3>1, ConnStays
  <2> QED
      BY <2>1, <2>2
<1> QED
    BY <1>2 DEF ConnsOK

\* Rows that were there before and are not newly flagged are as right.
LEMMA FlagsStay ==
    ASSUME FlaggedOK, Gone \subseteq Gone',
           \A f \in Folders : \A u \in DOMAIN box'[f] :
              \/ u \in DOMAIN box[f] /\ box'[f][u] = box[f][u]
              \/ box'[f][u].deleted => box'[f][u].msg \in Gone'
    PROVE  FlaggedOK'
BY DEF FlaggedOK

\* A connection moves nothing more than it did.
LessMoving(d, c) ==
    d.work.moving # {} => /\ d.work.moving = c.work.moving
                          /\ d.sel = c.sel /\ d.work.uids \subseteq c.work.uids

\* Then no further row is doomed, and no message has more movers.
LEMMA NoMoreDoomed ==
    ASSUME \A t \in Sessions : LessMoving(sess'[t], sess[t])
    PROVE  /\ \A f, u : Doomed(f, u, sess') => Doomed(f, u, sess)
           /\ \A m : Movers(m, sess') \subseteq Movers(m, sess)
BY DEF LessMoving, Doomed, Movers

\* An unchanged connection moves what it did.
LEMMA SameMoves ==
    ASSUME NEW c, NEW d, SameButQueue(d, c)
    PROVE  LessMoving(d, c) /\ d.work.moving = c.work.moving
BY DEF SameButQueue, LessMoving

\* A message nobody asked to remove keeps a copy when its safe rows stay.
LEMMA KeptStays ==
    ASSUME KeptOK, arrived' = arrived, Gone \subseteq Gone',
           \A f \in Folders : \A u \in DOMAIN box[f] :
              ~Doomed(f, u, sess) /\ box[f][u].msg \notin Gone' =>
                \E g \in Folders : \E v \in DOMAIN box'[g] :
                   box'[g][v].msg = box[f][u].msg /\ ~Doomed(g, v, sess')
    PROVE  KeptOK'
<1> SUFFICES ASSUME NEW m \in arrived' \ Gone'
             PROVE  \E g \in Folders : \E v \in DOMAIN box'[g] :
                       box'[g][v].msg = m /\ ~Doomed(g, v, sess')
    BY DEF KeptOK
<1>1. m \in arrived \ Gone
    OBVIOUS
<1>2. PICK f \in Folders : \E u \in DOMAIN box[f] :
         box[f][u].msg = m /\ ~Doomed(f, u, sess)
    BY <1>1 DEF KeptOK
<1> QED
    BY <1>2

\* The sessions that move a message are finitely many.
LEMMA MoversFinite ==
    ASSUME NEW m, NEW ss
    PROVE  IsFiniteSet(Movers(m, ss)) /\ Cardinality(Movers(m, ss)) \in Nat
<1>1. Movers(m, ss) \subseteq Sessions /\ IsFiniteSet(Sessions)
    BY SessionsAssumption DEF Movers
<1> QED
    BY <1>1, FS_Subset, FS_CardinalityType

\* A message has no more copies when the rows are fewer.
LEMMA CopiesFewer ==
    ASSUME NEW b, NEW nx, NEW arr, BoxOK(b, nx, arr), NEW b2, Fewer(b, b2), NEW m
    PROVE  /\ RowsOf(b2, m) \subseteq RowsOf(b, m)
           /\ IsFiniteSet(RowsOf(b2, m))
           /\ Cardinality(RowsOf(b2, m)) \in Nat
           /\ Cardinality(RowsOf(b2, m)) <= Cardinality(RowsOf(b, m))
<1>1. RowsOf(b2, m) \subseteq RowsOf(b, m)
    BY RowsAre, RowsArePairs DEF Fewer
<1> QED
    BY <1>1, RowsFinite, FS_Subset, FS_CardinalityType

\* Rows whose numbers and messages stay.
SameNumbers(rows, rows2) ==
    \A u \in DOMAIN rows : /\ u \in DOMAIN rows2
                           /\ rows2[u].msg = rows[u].msg
                           /\ Number(rows2, u) = Number(rows, u)

\* A client that knows such rows still does.
LEMMA TruthStays ==
    ASSUME NEW c, NEW d, SameButQueue(d, c), Quiet(c.queue) => Quiet(d.queue),
           NEW b, NEW b2, c.sel \in Folders => SameNumbers(b[c.sel], b2[c.sel]),
           Truthful(c, b)
    PROVE  Truthful(d, b2)
BY DEF SameButQueue, Truthful, SameNumbers

\* Rows are the same as themselves.
LEMMA SameAreSame == ASSUME NEW rows PROVE SameNumbers(rows, rows)
BY DEF SameNumbers

-----------------------------------------------------------------------------
(***************************************************************************)
(* Steps that leave the store alone.                                       *)
(***************************************************************************)

\* The observations of a step only grow, apart from those of the session.
Observed(s) ==
    /\ asked \subseteq asked' /\ mistaken \subseteq mistaken'
    /\ doubled \subseteq doubled'
    /\ disturbed \ {s} \subseteq disturbed'
    /\ OthersOK'

\* A step of one session that leaves the store alone keeps the invariant if
\* the session itself ends up right.
LEMMA SessionStep ==
    ASSUME AccessInv, NEW s \in Sessions,
           UNCHANGED <<box, uidNext, arrived>>, Observed(s),
           sess' \in [Sessions -> Conn],
           \A t \in Sessions \ {s} : SameButQueue(sess'[t], sess[t]),
           \A t \in Sessions \ {s} : t \in disturbed' \/ sess'[t] = sess[t],
           ConnOK(sess'[s], box, uidNext, Gone'),
           LessMoving(sess'[s], sess[s]),
           sess[s].work.moving \subseteq sess'[s].work.moving \cup doubled',
           slips' \subseteq disturbed',
           s \notin disturbed' /\ sess'[s].proto = "imap" => Truthful(sess'[s], box)
    PROVE  AccessInv'
<1> USE DEF AccessInv
<1>1. BoxOK(box, uidNext, arrived) /\ BoxOK(box', uidNext', arrived')
      /\ Gone \subseteq Gone'
    BY TypeParts DEF Observed, Gone
<1>2. Stable(box, uidNext, box', uidNext')
    BY <1>1 DEF Stable, BoxOK
<1>3. TypeOK'
    BY <1>1, TypePartsNext DEF Observed
<1>4. ConnsOK'
  <2>1. \A t \in {s} \cap Sessions : ConnOK(sess'[t], box', uidNext', Gone')
      OBVIOUS
  <2> QED
      BY <1>1, <1>2, <2>1, ConnsStay
<1>5. FlaggedOK'
    BY <1>1, FlagsStay
<1>6. \A t \in Sessions : LessMoving(sess'[t], sess[t])
    BY SameMoves
<1>7. KeptOK'
  <2>1. \A f, u : Doomed(f, u, sess') => Doomed(f, u, sess)
      BY <1>6, NoMoreDoomed
  <2> QED
      BY <1>1, <2>1, KeptStays
<1>8. DoublingOK'
  <2> SUFFICES ASSUME NEW m \in Messages \ doubled'
               PROVE  Cardinality(RowsOf(box, m)) <= 1 + Cardinality(Movers(m, sess'))
      BY DEF DoublingOK
  <2>1. m \in Messages \ doubled
      BY DEF Observed
  <2>2. Movers(m, sess') = Movers(m, sess)
    <3>1. \A t \in Sessions \ {s} : sess'[t].work.moving = sess[t].work.moving
        BY SameMoves
    <3>2. m \in sess'[s].work.moving <=> m \in sess[s].work.moving
        BY DEF LessMoving
    <3> QED
        BY <3>1, <3>2 DEF Movers
  <2> QED
      BY <2>1, <2>2 DEF DoublingOK
<1>9. NumbersOK'
  <2> SUFFICES ASSUME NEW t \in Sessions \ disturbed', sess'[t].proto = "imap"
               PROVE  Truthful(sess'[t], box)
      BY DEF NumbersOK
  <2>1. CASE t = s
      BY <2>1
  <2>2. CASE t # s
      BY <2>2 DEF NumbersOK, Observed
  <2> QED
      BY <2>1, <2>2
<1> QED
    BY <1>3, <1>4, <1>5, <1>7, <1>8, <1>9

\* A connection with no command in progress, and no POP3 list, is right.
LEMMA ReadyIsOK ==
    ASSUME NEW c, c.pc = "ready", c.work = NoWork, c.proto # "pop3",
           NEW b, NEW nx, NEW gone
    PROVE  ConnOK(c, b, nx, gone)
BY DEF ConnOK, CommandOK, MovingOK, RemovalOK, ListOK, NoWork, PC

\* A new connection.
LEMMA NewIsOK ==
    /\ NewConn \in Conn /\ NewConn.proto = "auth" /\ NewConn.pc = "ready"
    /\ NewConn.work = NoWork /\ NoWork.moving = {} /\ NoWork.uids = {}
    /\ NoWork.left = {}
    /\ NoWork \in Work
BY DEF NewConn, Conn, Work, NoWork, PC

\* A connection that gives up or ends its command.
LEMMA PolledIsOK ==
    ASSUME NEW c \in Conn, c.proto = "imap", NEW allow \in BOOLEAN,
           NEW b, NEW nx, NEW gone
    PROVE  /\ ConnOK(Polled(c, allow), b, nx, gone)
           /\ Polled(c, allow).work.moving = {}
           /\ Truthful(c, b) => Truthful(Polled(c, allow), b)
<1>1. /\ Polled(c, allow).pc = "ready" /\ Polled(c, allow).work = NoWork
      /\ Polled(c, allow).proto = c.proto /\ Polled(c, allow).sel = c.sel
    BY PolledConn
<1>2. ConnOK(Polled(c, allow), b, nx, gone)
    BY <1>1, ReadyIsOK
<1>3. Polled(c, allow).work.moving = {}
    BY <1>1, NewIsOK
<1>4. ASSUME Truthful(c, b)
      PROVE  Truthful(Polled(c, allow), b)
  <2>1. Quiet(c.queue)
      BY <1>4 DEF Truthful
  <2>2. Polled(c, allow).view = c.view /\ Quiet(Polled(c, allow).queue)
      BY <2>1, PolledConn
  <2> QED
      BY <1>1, <1>4, <2>2 DEF Truthful
<1> QED
    BY <1>2, <1>3, <1>4

\* One connection becomes c.
Becomes(s, c) == sess' = [sess EXCEPT ![s] = c]

\* The others are what they were.
LEMMA BecomesOne ==
    ASSUME sess \in [Sessions -> Conn], NEW s \in Sessions, NEW c \in Conn,
           Becomes(s, c)
    PROVE  /\ sess' \in [Sessions -> Conn] /\ sess'[s] = c
           /\ \A t \in Sessions \ {s} : /\ sess'[t] = sess[t]
                                        /\ SameButQueue(sess'[t], sess[t])
BY DEF Becomes, SameButQueue

\* A session that has no MOVE under way moves nothing.
LEMMA NotMoving ==
    ASSUME AccessInv, NEW s \in Sessions,
           sess[s].pc \notin {"copy", "moveRead", "expunge"}
    PROVE  sess[s].work.moving = {}
BY DEF AccessInv, ConnsOK, ConnOK, MovingOK

\* A session without IMAP is ready.
LEMMA NotImapReady ==
    ASSUME AccessInv, NEW s \in Sessions, sess[s].proto # "imap"
    PROVE  sess[s].pc = "ready"
BY DEF AccessInv, ConnsOK, ConnOK, CommandOK

\* A session that polls and changes nothing else.
LEMMA PollKeeps ==
    ASSUME AccessInv, NEW s \in Sessions, sess[s].proto = "imap",
           NEW c \in Conn, c.proto = "imap", NEW allow \in BOOLEAN,
           Becomes(s, Polled(c, allow)),
           UNCHANGED <<box, uidNext, arrived, asked, mistaken, disturbed, slips>>,
           doubled' = doubled \/ doubled' = doubled \cup sess[s].work.moving,
           sess[s].work.moving \subseteq doubled', OthersOK',
           s \notin disturbed => Truthful(c, box)
    PROVE  AccessInv'
<1>1. sess \in [Sessions -> Conn]
    BY TypeParts DEF AccessInv
<1>2. /\ sess' \in [Sessions -> Conn] /\ sess'[s] = Polled(c, allow)
      /\ \A t \in Sessions \ {s} : sess'[t] = sess[t]
    BY <1>1, PolledConn, BecomesOne
<1>3. /\ ConnOK(sess'[s], box, uidNext, Gone') /\ sess'[s].work.moving = {}
      /\ Truthful(c, box) => Truthful(sess'[s], box)
    BY <1>2, PolledIsOK
<1>4. /\ LessMoving(sess'[s], sess[s])
      /\ \A t \in Sessions \ {s} : SameButQueue(sess'[t], sess[t])
    BY <1>2, <1>3 DEF LessMoving, SameButQueue
<1>5. Observed(s) /\ slips' \subseteq disturbed'
    BY DEF Observed, AccessInv, NumbersOK
<1> QED
    BY <1>2, <1>3, <1>4, <1>5, SessionStep

\* The observations are left alone and a command may be counted.
LEMMA NothingObserved ==
    ASSUME AccessInv, NEW s, UNCHANGED <<present, seen>>,
           ops' \in Nat, faults' \in Nat
    PROVE  Observed(s) /\ slips' \subseteq disturbed' /\ Gone' = Gone
BY TypeParts DEF AccessInv, Observed, OthersOK, seen, NumbersOK, Gone

\* A listing names the rows as they are.
LEMMA ListedRight ==
    ASSUME TypeOK, NEW f \in Folders, NEW uids \in SUBSET DOMAIN box[f]
    PROVE  /\ Listed(f, uids) \in SUBSET Entry
           /\ \A v \in Listed(f, uids) :
                /\ v.uid \in DOMAIN box[f] /\ v.uid < uidNext[f]
                /\ box[f][v.uid].msg = v.msg /\ Number(box[f], v.uid) = v.n
<1>1. /\ uidNext[f] \in Nat
      /\ \A u \in DOMAIN box[f] : /\ u \in Nat /\ u < uidNext[f]
                                  /\ box[f][u].msg \in Messages
    BY TypeParts DEF BoxOK, OthersOK
<1>2. RowsBelow(box[f], uidNext[f])
    BY <1>1 DEF RowsBelow
<1>3. \A u \in DOMAIN box[f] : Number(box[f], u) \in Nat
    BY <1>2, NumberIsNat
<1> QED
    BY <1>1, <1>3 DEF Listed, Entry

\* Logging in, hanging up and opening a folder.
LEMMA LoginKeeps ==
    ASSUME AccessInv, NEW s \in Sessions,
           LoginImap(s) \/ LoginPop3(s) \/ Close(s) \/ SelectEnter(s)
    PROVE  AccessInv'
<1>0. /\ sess \in [Sessions -> Conn] /\ sess[s] \in Conn /\ OthersOK
      /\ BoxOK(box, uidNext, arrived)
    BY TypeParts DEF AccessInv
<1>1. UNCHANGED <<box, uidNext, arrived>>
    BY DEF LoginImap, LoginPop3, Close, SelectEnter, seen
<1>2. sess[s].work.moving = {}
    BY NotMoving, NotImapReady DEF LoginImap, LoginPop3, Close, SelectEnter
<1>3. ASSUME NEW c \in Conn, Becomes(s, c), c.work = NoWork, Observed(s),
             slips' \subseteq disturbed', ConnOK(c, box, uidNext, Gone'),
             c.proto = "imap" => Truthful(c, box)
      PROVE  AccessInv'
  <2>1. /\ sess' \in [Sessions -> Conn] /\ sess'[s] = c
        /\ \A t \in Sessions \ {s} : /\ sess'[t] = sess[t]
                                     /\ SameButQueue(sess'[t], sess[t])
      BY <1>0, <1>3, BecomesOne
  <2>2. LessMoving(sess'[s], sess[s])
      BY <1>3, <2>1, NewIsOK DEF LessMoving
  <2> QED
      BY <1>1, <1>2, <1>3, <2>1, <2>2, SessionStep
<1>4. CASE LoginImap(s)
  <2> DEFINE c == [NewConn EXCEPT !.proto = "imap"]
  <2>1. /\ c \in Conn /\ c.proto = "imap" /\ c.work = NoWork /\ c.pc = "ready"
        /\ c.view = {} /\ c.queue = <<>>
      BY NewIsOK DEF NewConn, Conn
  <2>2. Becomes(s, c) /\ Observed(s) /\ slips' \subseteq disturbed'
      BY <1>0, <1>4, NothingObserved DEF LoginImap, Becomes, OthersOK
  <2> HIDE DEF c
  <2>3. ConnOK(c, box, uidNext, Gone')
      BY <2>1, ReadyIsOK
  <2>4. Truthful(c, box)
      BY <2>1 DEF Truthful, Quiet
  <2> QED
      BY <1>3, <2>1, <2>2, <2>3, <2>4
<1>5. CASE LoginPop3(s)
  <2> DEFINE view == Listed(Inbox, DOMAIN box[Inbox])
             c == [NewConn EXCEPT !.proto = "pop3", !.view = view]
  <2>1. /\ view \in SUBSET Entry
        /\ \A v \in view : /\ v.uid \in DOMAIN box[Inbox] /\ v.uid < uidNext[Inbox]
                            /\ box[Inbox][v.uid].msg = v.msg
    <3>1. TypeOK /\ Inbox \in Folders
        BY DEF AccessInv, Folders
    <3> QED
        BY <3>1, ListedRight
  <2> HIDE DEF view
  <2>2. /\ c \in Conn /\ c.proto = "pop3" /\ c.work = NoWork /\ c.pc = "ready"
        /\ c.view = view /\ c.marks = {}
      BY <2>1, NewIsOK DEF NewConn, Conn
  <2>3. Becomes(s, c) /\ Observed(s) /\ slips' \subseteq disturbed'
      BY <1>0, <1>5, NothingObserved DEF LoginPop3, Becomes, OthersOK, view
  <2> HIDE DEF c
  <2>4. ListOK(c, box, uidNext)
      BY <2>1, <2>2 DEF ListOK
  <2>5. ConnOK(c, box, uidNext, Gone')
      BY <2>2, <2>4 DEF ConnOK, CommandOK, MovingOK, RemovalOK, NoWork, PC
  <2> QED
      BY <1>3, <2>2, <2>3, <2>5
<1>6. CASE Close(s)
  <2>1. Becomes(s, NewConn) /\ Observed(s) /\ slips' \subseteq disturbed'
      BY <1>0, <1>6 DEF Close, Becomes, Observed, OthersOK, AccessInv, NumbersOK
  <2>2. NewConn \in Conn /\ NewConn.work = NoWork /\ NewConn.proto # "imap"
        /\ ConnOK(NewConn, box, uidNext, Gone')
      BY NewIsOK, ReadyIsOK
  <2> QED
      BY <1>3, <2>1, <2>2
<1>7. CASE SelectEnter(s)
  <2> DEFINE f == sess[s].work.dest
             c == [sess[s] EXCEPT !.sel = f, !.view = {}, !.queue = <<>>,
                                  !.pc = "ready", !.work = NoWork]
  <2>1. sess[s].proto = "imap" /\ f \in Folders
      BY <1>7 DEF SelectEnter, AccessInv, ConnsOK, ConnOK, CommandOK
  <2>2. /\ c \in Conn /\ c.proto = "imap" /\ c.work = NoWork /\ c.pc = "ready"
        /\ c.view = {} /\ c.queue = <<>>
    <3>1. /\ <<>> \in Seq(SUBSET Nat) /\ {} \in SUBSET Entry /\ "ready" \in PC
          /\ f \in Folders \cup {None} /\ NoWork \in Work
        BY <2>1, NewIsOK DEF PC
    <3> HIDE DEF f
    <3> QED
        BY <1>0, <2>1, <3>1 DEF Conn
  <2>3. Becomes(s, c)
      BY <1>0, <1>7 DEF SelectEnter, Becomes
  <2>4. Observed(s) /\ slips' \subseteq disturbed'
      BY <1>0, <1>7 DEF SelectEnter, Observed, OthersOK, AccessInv, NumbersOK
  <2> HIDE DEF c
  <2>5. ConnOK(c, box, uidNext, Gone')
      BY <2>2, ReadyIsOK
  <2>6. Truthful(c, box)
      BY <2>2 DEF Truthful, Quiet
  <2> QED
      BY <1>3, <2>2, <2>3, <2>4, <2>5, <2>6
<1> QED
    BY <1>4, <1>5, <1>6, <1>7

\* A FETCH or SEARCH answers with what is there.
LEMMA AnswerKeeps ==
    ASSUME AccessInv, NEW s \in Sessions, sess[s].proto = "imap",
           sess[s].sel \in Folders,
           sess[s].pc \notin {"copy", "moveRead", "expunge"},
           NEW uids \in SUBSET DOMAIN box[sess[s].sel], Answer(s, uids),
           UNCHANGED <<box, uidNext, present, ops, faults, seen>>
    PROVE  AccessInv'
<1> DEFINE told == Listed(sess[s].sel, uids)
           view == Learned(sess[s].view, told)
           c == [sess[s] EXCEPT !.view = view]
<1>0. TypeOK /\ sess[s] \in Conn /\ sess[s].view \in SUBSET Entry /\ OthersOK
    BY TypeParts DEF AccessInv, Conn
<1>1. /\ told \in SUBSET Entry
      /\ \A v \in told : /\ v.uid \in DOMAIN box[sess[s].sel]
                          /\ box[sess[s].sel][v.uid].msg = v.msg
                          /\ Number(box[sess[s].sel], v.uid) = v.n
    BY <1>0, ListedRight
<1> HIDE DEF told
<1>2. view \in SUBSET Entry /\ view \subseteq sess[s].view \cup told
    BY <1>0, <1>1 DEF Learned
<1>3. Becomes(s, Polled(c, FALSE))
    BY DEF Answer, Becomes, told
<1> HIDE DEF view
<1>4. /\ c \in Conn /\ c.proto = "imap" /\ c.view = view
      /\ c.sel = sess[s].sel /\ c.queue = sess[s].queue
    BY <1>0, <1>2 DEF Conn
<1> HIDE DEF c
<1>5. s \notin disturbed => Truthful(c, box)
    BY <1>1, <1>2, <1>4 DEF AccessInv, NumbersOK, Truthful
<1>6. sess[s].work.moving = {}
    BY NotMoving
<1>7. /\ UNCHANGED <<box, uidNext, arrived, asked, mistaken, disturbed, slips>>
      /\ doubled' = doubled /\ sess[s].work.moving \subseteq doubled'
      /\ OthersOK'
    BY <1>0, <1>6 DEF seen, OthersOK
<1> QED
    BY <1>3, <1>4, <1>5, <1>7, PollKeeps

\* The rows a client's number or UID stands for: at most one, and for a client
\* that knows the folder the one it means.
LEMMA MatchedRows ==
    ASSUME AccessInv, NEW s \in Sessions, NEW v, Means(s, v), NEW byUid \in BOOLEAN
    PROVE  /\ sess[s].proto = "imap" /\ sess[s].sel \in Folders /\ v \in Entry
           /\ sess[s].pc = "ready"
           /\ Matched(s, v, byUid) \in SUBSET DOMAIN box[sess[s].sel]
           /\ \A x, y \in Matched(s, v, byUid) : x = y
           /\ s \notin disturbed => Missed(s, v, Matched(s, v, byUid)) = {}
<1> DEFINE f == sess[s].sel
<1>1. /\ sess[s].proto = "imap" /\ f \in Folders /\ v \in Entry
      /\ v \in sess[s].view /\ sess[s].pc = "ready"
    BY TypeParts DEF AccessInv, Means, Ready, Conn
<1>2. RowsBelow(box[f], uidNext[f])
    BY <1>1, TypeParts DEF AccessInv, BoxOK, RowsBelow
<1>3. ASSUME NEW x \in Matched(s, v, byUid), NEW y \in Matched(s, v, byUid)
      PROVE  x = y
    BY <1>2, <1>3, NumbersDiffer DEF Matched
<1>4. ASSUME s \notin disturbed, NEW x \in Matched(s, v, byUid)
      PROVE  x = v.uid /\ box[f][x].msg = v.msg
  <2>1. /\ v.uid \in DOMAIN box[f] /\ box[f][v.uid].msg = v.msg
        /\ Number(box[f], v.uid) = v.n
      BY <1>1, <1>4 DEF AccessInv, NumbersOK, Truthful
  <2>2. v.uid \in Matched(s, v, byUid)
      BY <2>1 DEF Matched
  <2> QED
      BY <1>3, <1>4, <2>1, <2>2
<1> QED
    BY <1>1, <1>3, <1>4 DEF Matched, Missed

\* A session that starts or goes on with a command.
LEMMA BusyKeeps ==
    ASSUME AccessInv, NEW s \in Sessions, sess[s].proto = "imap",
           NEW pc \in PC, NEW work \in Work, sess' = Busy(s, pc, work),
           UNCHANGED <<box, uidNext, arrived, disturbed>>, Observed(s),
           CommandOK(sess'[s], uidNext), MovingOK(sess'[s]),
           RemovalOK(sess'[s], box, Gone'),
           LessMoving(sess'[s], sess[s]),
           sess[s].work.moving \subseteq work.moving \cup doubled',
           slips' \subseteq disturbed'
    PROVE  AccessInv'
<1>0. sess \in [Sessions -> Conn]
    BY TypeParts DEF AccessInv
<1>1. /\ sess' \in [Sessions -> Conn]
      /\ \A t \in Sessions \ {s} : sess'[t] = sess[t]
      /\ sess'[s].work = work /\ sess'[s].proto = "imap"
      /\ sess'[s].sel = sess[s].sel /\ sess'[s].view = sess[s].view
      /\ sess'[s].queue = sess[s].queue
    BY <1>0, BusyConns
<1>2. \A t \in Sessions \ {s} : SameButQueue(sess'[t], sess[t])
    BY <1>1 DEF SameButQueue
<1>3. ConnOK(sess'[s], box, uidNext, Gone')
    BY <1>1 DEF ConnOK, ListOK
<1>4. s \notin disturbed' => Truthful(sess'[s], box)
    BY <1>1 DEF AccessInv, NumbersOK, Truthful
<1> QED
    BY <1>1, <1>2, <1>3, <1>4, SessionStep

\* The listing of a STORE.
LEMMA StoreReadKeeps ==
    ASSUME AccessInv, NEW s \in Sessions, StoreRead(s)
    PROVE  AccessInv'
<1>0. TypeOK /\ OthersOK /\ sess \in [Sessions -> Conn]
    BY TypeParts DEF AccessInv
<1>1. PICK v \in sess[s].view, byUid \in BOOLEAN, on \in BOOLEAN :
        LET uids == Matched(s, v, byUid) IN
        /\ Means(s, v)
        /\ sess' = Busy(s, "store", [NoWork EXCEPT !.meant = {v}, !.byUid = byUid,
                                                  !.uids = uids, !.on = on])
        /\ asked' = IF on THEN asked \cup {v.msg} ELSE asked
        /\ SlipsAt(s, {v}, byUid)
        /\ mistaken' = IF on THEN mistaken \cup {box[sess[s].sel][u].msg :
                                                   u \in Missed(s, v, uids)}
                             ELSE mistaken
    BY DEF StoreRead
<1> DEFINE f == sess[s].sel
           uids == Matched(s, v, byUid)
           work == [NoWork EXCEPT !.meant = {v}, !.byUid = byUid, !.uids = uids,
                                  !.on = on]
<1>2. /\ sess[s].proto = "imap" /\ f \in Folders /\ v \in Entry
      /\ sess[s].pc = "ready" /\ uids \in SUBSET DOMAIN box[f]
      /\ s \notin disturbed => Missed(s, v, uids) = {}
    BY <1>1, MatchedRows
<1>3. /\ \A u \in DOMAIN box[f] : u \in Nat /\ u < uidNext[f]
      /\ \A u \in DOMAIN box[f] : box[f][u].msg \in Messages
    BY <1>0, <1>2, TypeParts DEF BoxOK, OthersOK
<1>4. /\ sess' = Busy(s, "store", work)
      /\ UNCHANGED <<box, uidNext, arrived, disturbed, present, faults, doubled>>
      /\ ops' \in Nat
    BY <1>0, <1>1 DEF StoreRead, Counted, OthersOK
<1>5. /\ slips' = IF Missed(s, v, uids) = {} THEN slips ELSE slips \cup {s}
      /\ Missed(s, v, uids) \subseteq DOMAIN box[f]
    BY <1>1, <1>2 DEF Missed, SlipsAt
<1>6. ASSUME on, NEW u \in uids
      PROVE  box[f][u].msg \in Gone'
  <2>1. u \in Missed(s, v, uids) \/ box[f][u].msg = v.msg
      BY DEF Missed
  <2> QED
      BY <1>1, <1>6, <2>1 DEF Gone
<1>7. /\ asked \subseteq asked' /\ asked' \subseteq Messages
      /\ mistaken \subseteq mistaken' /\ mistaken' \subseteq Messages
    BY <1>0, <1>1, <1>2, <1>3, <1>5 DEF OthersOK, Entry
<1> HIDE DEF uids
<1>8. /\ work \in Work /\ work.uids = uids /\ work.on = on /\ work.moving = {}
      /\ work.left = {}
  <2>1. uids \in SUBSET Nat /\ {v} \in SUBSET Entry
      BY <1>2, <1>3
  <2> QED
      BY <2>1, NewIsOK DEF Work, NoWork
<1> HIDE DEF work
<1>9. /\ slips' \subseteq disturbed' /\ slips' \subseteq Sessions
    BY <1>0, <1>2, <1>4, <1>5 DEF AccessInv, NumbersOK, OthersOK
<1>10. Observed(s)
    BY <1>0, <1>4, <1>7, <1>9 DEF Observed, OthersOK
<1>11. /\ sess'[s].pc = "store" /\ sess'[s].work = work
       /\ sess'[s].proto = "imap" /\ sess'[s].sel = f
    BY <1>0, <1>2, <1>4, <1>8, BusyConns DEF PC
<1>12. CommandOK(sess'[s], uidNext)
    BY <1>2, <1>3, <1>8, <1>11 DEF CommandOK
<1>13. MovingOK(sess'[s]) /\ LessMoving(sess'[s], sess[s])
    BY <1>8, <1>11 DEF MovingOK, LessMoving
<1>14. RemovalOK(sess'[s], box, Gone')
    BY <1>6, <1>8, <1>11 DEF RemovalOK
<1>15. sess[s].work.moving = {}
    BY <1>2, NotMoving
<1> QED
    BY <1>2, <1>4, <1>8, <1>9, <1>10, <1>12, <1>13, <1>14, <1>15, BusyKeeps DEF PC

\* SELECT's read, FETCH, SEARCH, NOOP and the answer to a STORE.
LEMMA ReadKeeps ==
    ASSUME AccessInv, NEW s \in Sessions,
           SelectRead(s) \/ Fetch(s) \/ Search(s) \/ Poll(s) \/ StoreAnswer(s)
    PROVE  AccessInv'
<1>0. /\ TypeOK /\ OthersOK /\ sess \in [Sessions -> Conn] /\ sess[s] \in Conn
      /\ sess[s].sel \in Folders \cup {None}
    BY TypeParts DEF AccessInv, Conn
<1>1. UNCHANGED <<box, uidNext, present, ops, faults, seen>>
    BY DEF SelectRead, Fetch, Search, Poll, StoreAnswer
<1>2. sess[s].proto = "imap" /\ sess[s].work.moving = {}
      /\ sess[s].pc \notin {"copy", "moveRead", "expunge"}
    BY NotMoving DEF SelectRead, Fetch, Search, Poll, StoreAnswer, Ready,
                     AccessInv, ConnsOK, ConnOK, CommandOK
<1>3. CASE SelectRead(s)
  <2>1. PICK f \in present \cap Selectable :
           sess' = Busy(s, "selecting", [NoWork EXCEPT !.dest = f])
      BY <1>3 DEF SelectRead
  <2> DEFINE work == [NoWork EXCEPT !.dest = f]
  <2>2. f \in Folders
      BY <1>0 DEF OthersOK
  <2>3. /\ work \in Work /\ work.dest = f /\ work.uids = {} /\ work.moving = {}
        /\ work.left = {}
      BY <2>2, NewIsOK DEF Work, NoWork
  <2>4. sess' = Busy(s, "selecting", work) /\ "selecting" \in PC
      BY <2>1 DEF PC
  <2> HIDE DEF work
  <2>5. /\ sess'[s].pc = "selecting" /\ sess'[s].work = work
        /\ sess'[s].proto = "imap"
      BY <1>0, <1>2, <2>3, <2>4, BusyConns
  <2>6. CommandOK(sess'[s], uidNext)
      BY <2>2, <2>3, <2>5 DEF CommandOK
  <2>7. /\ MovingOK(sess'[s]) /\ LessMoving(sess'[s], sess[s])
        /\ RemovalOK(sess'[s], box, Gone')
      BY <2>3, <2>5 DEF MovingOK, LessMoving, RemovalOK
  <2>8. Observed(s) /\ slips' \subseteq disturbed'
        /\ UNCHANGED <<box, uidNext, arrived, disturbed>>
      BY <1>0, <1>1, NothingObserved DEF OthersOK, seen
  <2> QED
      BY <1>2, <2>3, <2>4, <2>6, <2>7, <2>8, BusyKeeps
<1>4. CASE Fetch(s)
  <2>1. sess[s].sel \in Folders /\ Answer(s, DOMAIN box[sess[s].sel])
      BY <1>0, <1>4 DEF Fetch
  <2> QED
      BY <1>1, <1>2, <2>1, AnswerKeeps
<1>5. CASE Search(s)
  <2> DEFINE rows == box[sess[s].sel]
  <2>1. PICK c \in Criteria :
           Answer(s, {u \in DOMAIN rows : MatchCriteria(c, rows[u])})
      BY <1>5 DEF Search
  <2>2. /\ sess[s].sel \in Folders
        /\ {u \in DOMAIN rows : MatchCriteria(c, rows[u])} \in SUBSET DOMAIN rows
      BY <1>0, <1>5 DEF Search
  <2> QED
      BY <1>1, <1>2, <2>1, <2>2, AnswerKeeps
<1>6. CASE Poll(s)
  <2>1. Becomes(s, Polled(sess[s], TRUE))
      BY <1>0, <1>6 DEF Poll, Becomes
  <2>2. s \notin disturbed => Truthful(sess[s], box)
      BY <1>2 DEF AccessInv, NumbersOK
  <2>3. /\ UNCHANGED <<box, uidNext, arrived, asked, mistaken, disturbed, slips>>
        /\ doubled' = doubled /\ sess[s].work.moving \subseteq doubled' /\ OthersOK'
      BY <1>0, <1>1, <1>2 DEF seen, OthersOK
  <2> QED
      BY <1>0, <1>2, <2>1, <2>2, <2>3, PollKeeps
<1>7. CASE StoreAnswer(s)
  <2>1. PICK v \in sess[s].work.meant :
           Answer(s, Matched(s, v, sess[s].work.byUid))
      BY <1>7 DEF StoreAnswer
  <2>2. sess[s].sel \in Folders
      BY <1>7 DEF StoreAnswer, AccessInv, ConnsOK, ConnOK, CommandOK, PC
  <2>3. Matched(s, v, sess[s].work.byUid) \in SUBSET DOMAIN box[sess[s].sel]
      BY DEF Matched
  <2> QED
      BY <1>1, <1>2, <2>1, <2>2, <2>3, AnswerKeeps
<1> QED
    BY <1>3, <1>4, <1>5, <1>6, <1>7

\* A command that ends without a change to the store.
LEMMA GiveUpKeeps ==
    ASSUME AccessInv, NEW s \in Sessions, sess[s].proto = "imap",
           NEW allow \in BOOLEAN, Becomes(s, Polled(sess[s], allow)),
           UNCHANGED <<box, uidNext, present, arrived, asked, mistaken, disturbed,
                       slips>>,
           doubled' = doubled \cup sess[s].work.moving,
           ops' \in Nat, faults' \in Nat
    PROVE  AccessInv'
<1>0. OthersOK /\ sess[s] \in Conn
    BY TypeParts DEF AccessInv
<1>1. sess[s].work.moving \subseteq Messages
    BY <1>0 DEF Conn, Work
<1>2. OthersOK' /\ sess[s].work.moving \subseteq doubled'
    BY <1>0, <1>1 DEF OthersOK
<1>3. s \notin disturbed => Truthful(sess[s], box)
    BY DEF AccessInv, NumbersOK
<1> QED
    BY <1>0, <1>2, <1>3, PollKeeps

\* The listings of EXPUNGE, COPY and MOVE.
LEMMA ListKeeps ==
    ASSUME AccessInv, NEW s \in Sessions, ExpungeRead(s) \/ CopyRead(s)
    PROVE  AccessInv'
<1> DEFINE f == sess[s].sel
<1>0. /\ TypeOK /\ OthersOK /\ sess \in [Sessions -> Conn] /\ sess[s] \in Conn
      /\ sess[s].sel \in Folders \cup {None}
    BY TypeParts DEF AccessInv, Conn
<1>1. /\ UNCHANGED <<box, uidNext, arrived, disturbed, present, faults, doubled,
                     asked, mistaken>>
      /\ ops' \in Nat
  <2>1. CASE ExpungeRead(s)
      BY <1>0, <2>1 DEF ExpungeRead, Counted, OthersOK, seen
  <2>2. CASE CopyRead(s)
    <3>1. /\ Counted
          /\ UNCHANGED <<box, uidNext, present, faults, arrived, asked, doubled,
                         disturbed, mistaken>>
        BY <2>2, Zenon DEF CopyRead
    <3> QED
        BY <1>0, <3>1 DEF Counted, OthersOK
  <2> QED
      BY <2>1, <2>2
<1>2. /\ sess[s].proto = "imap" /\ sess[s].pc = "ready"
      /\ sess[s].work.moving = {} /\ f \in Folders
  <2>1. Ready(s, "imap") /\ f # None
    <3>1. CASE ExpungeRead(s)
        BY <3>1 DEF ExpungeRead
    <3>2. CASE CopyRead(s)
        BY <3>2 DEF CopyRead, Means
    <3> QED
        BY <3>1, <3>2
  <2> QED
      BY <1>0, <2>1, NotMoving DEF Ready
<1>3. /\ RowsBelow(box[f], uidNext[f])
      /\ \A u \in DOMAIN box[f] : u \in Nat /\ u < uidNext[f]
    BY <1>0, <1>2, TypeParts DEF BoxOK, RowsBelow
<1>4. ASSUME NEW pc \in PC, NEW work \in Work, sess' = Busy(s, pc, work),
             work.moving = {}, work.uids \cup work.left \subseteq DOMAIN box[f],
             pc # "moveRead", pc = "copy" => work.dest \in Folders /\ work.uids = {},
             pc \notin {"store", "selecting"}, slips' \subseteq disturbed, slips' \subseteq Sessions,
             pc = "expunge" => \A u \in work.uids : box[f][u].deleted
      PROVE  AccessInv'
  <2>1. /\ sess'[s].pc = pc /\ sess'[s].work = work
        /\ sess'[s].proto = "imap" /\ sess'[s].sel = f
      BY <1>0, <1>2, <1>4, BusyConns
  <2>2. CommandOK(sess'[s], uidNext)
      BY <1>2, <1>3, <1>4, <2>1 DEF CommandOK
  <2>3. MovingOK(sess'[s]) /\ LessMoving(sess'[s], sess[s])
      BY <1>4, <2>1 DEF MovingOK, LessMoving
  <2>4. RemovalOK(sess'[s], box, Gone')
      BY <1>1, <1>2, <1>4, <2>1 DEF RemovalOK, AccessInv, FlaggedOK, Gone
  <2>5. Observed(s) /\ slips' \subseteq disturbed'
      BY <1>0, <1>1, <1>4 DEF Observed, OthersOK
  <2> QED
      BY <1>1, <1>2, <1>4, <2>2, <2>3, <2>4, <2>5, BusyKeeps
<1>5. CASE ExpungeRead(s)
  <2>1. PICK named \in SUBSET DOMAIN box[f] :
           sess' = Busy(s, "expunge", ToExpunge(f, Chosen(f, named, TRUE), {}))
      BY <1>5 DEF ExpungeRead
  <2> DEFINE uids == Chosen(f, named, TRUE)
             nums == {Number(box[f], u) : u \in uids}
             work == ToExpunge(f, uids, {})
  <2>2. uids \subseteq DOMAIN box[f] /\ \A u \in uids : box[f][u].deleted
      BY DEF Chosen
  <2> HIDE DEF uids
  <2>3. nums \in SUBSET Nat /\ uids \in SUBSET Nat
      BY <1>3, <2>2, NumberIsNat
  <2> HIDE DEF nums
  <2>4. work = [NoWork EXCEPT !.moving = {}, !.uids = uids, !.nums = nums]
      BY DEF ToExpunge, nums
  <2>5. work \in Work /\ work.uids = uids /\ work.moving = {} /\ work.left = {}
      BY <2>3, <2>4, NewIsOK DEF Work, NoWork
  <2>6. sess' = Busy(s, "expunge", work) /\ "expunge" \in PC
      BY <2>1 DEF PC, uids
  <2>7. slips' \subseteq disturbed /\ slips' \subseteq Sessions
      BY <1>0, <1>5 DEF ExpungeRead, seen, AccessInv, NumbersOK, OthersOK
  <2> HIDE DEF work
  <2> QED
      BY <1>4, <2>2, <2>5, <2>6, <2>7
<1>6. CASE CopyRead(s)
  <2>1. PICK named \in SUBSET sess[s].view, byUid \in BOOLEAN, move \in BOOLEAN,
             g \in present \cap Targets :
           LET uids == UNION {Matched(s, v, byUid) : v \in named} IN
           /\ \A v \in named : Means(s, v)
           /\ uids # {}
           /\ sess' = Busy(s, "copy", [NoWork EXCEPT !.left = uids, !.dest = g,
                                                     !.move = move])
           /\ SlipsAt(s, named, byUid)
      BY <1>6, Zenon DEF CopyRead
  <2> DEFINE uids == UNION {Matched(s, v, byUid) : v \in named}
             work == [NoWork EXCEPT !.left = uids, !.dest = g, !.move = move]
  <2>2. ASSUME NEW v \in named
        PROVE  /\ Matched(s, v, byUid) \in SUBSET DOMAIN box[f]
               /\ s \notin disturbed => Missed(s, v, Matched(s, v, byUid)) = {}
      BY <2>1, MatchedRows
  <2>3. /\ sess' = Busy(s, "copy", work) /\ "copy" \in PC
        /\ SlipsAt(s, named, byUid) /\ g \in Folders
      BY <1>0, <2>1 DEF PC, OthersOK
  <2>4. uids \subseteq DOMAIN box[f]
      BY <2>2
  <2> HIDE DEF uids
  <2>5. /\ work \in Work /\ work.uids = {} /\ work.left = uids
        /\ work.moving = {} /\ work.dest = g
    <3>1. uids \in SUBSET Nat
        BY <1>3, <2>4
    <3> QED
        BY <2>3, <3>1, NewIsOK DEF Work, NoWork
  <2>6. slips' \subseteq disturbed /\ slips' \subseteq Sessions
      BY <1>0, <2>2, <2>3 DEF SlipsAt, AccessInv, NumbersOK, OthersOK
  <2> HIDE DEF work
  <2> QED
      BY <1>4, <2>3, <2>4, <2>5, <2>6
<1> QED
    BY <1>5, <1>6

-----------------------------------------------------------------------------
(***************************************************************************)
(* Steps that change the store.                                            *)
(***************************************************************************)

\* What such a step has to show: for the connections X it changes, for the
\* rows it adds or flags, and for the messages it keeps and doubles.
LEMMA StoreChanges ==
    ASSUME AccessInv, NEW X,
           BoxOK(box', uidNext', arrived'), sess' \in [Sessions -> Conn], OthersOK',
           Stable(box, uidNext, box', uidNext'), Gone \subseteq Gone',
           \A t \in Sessions \ X : SameButQueue(sess'[t], sess[t]),
           \A t \in X \cap Sessions : ConnOK(sess'[t], box', uidNext', Gone'),
           \A f \in Folders : \A u \in DOMAIN box'[f] :
              \/ u \in DOMAIN box[f] /\ box'[f][u] = box[f][u]
              \/ box'[f][u].deleted => box'[f][u].msg \in Gone',
           slips' \subseteq disturbed', disturbed \subseteq disturbed',
           \A t \in Sessions \ X : Quiet(sess[t].queue) => Quiet(sess'[t].queue),
           \A t \in Sessions \ (X \cup disturbed') :
              sess[t].proto = "imap" /\ sess[t].sel \in Folders
                => SameNumbers(box[sess[t].sel], box'[sess[t].sel]),
           \A t \in X \cap Sessions :
              t \notin disturbed' /\ sess'[t].proto = "imap" => Truthful(sess'[t], box'),
           KeptOK', DoublingOK'
    PROVE  AccessInv'
<1>1. TypeOK /\ ConnsOK /\ FlaggedOK /\ NumbersOK
    BY DEF AccessInv
<1>2. TypeOK'
    BY TypePartsNext
<1>3. ConnsOK'
    BY <1>1, ConnsStay
<1>4. FlaggedOK'
    BY <1>1, FlagsStay
<1>5. NumbersOK'
  <2> SUFFICES ASSUME NEW t \in Sessions \ disturbed', sess'[t].proto = "imap"
               PROVE  Truthful(sess'[t], box')
      BY DEF NumbersOK
  <2>1. CASE t \in X
      BY <2>1
  <2>2. CASE t \notin X
    <3>1. /\ SameButQueue(sess'[t], sess[t])
          /\ Quiet(sess[t].queue) => Quiet(sess'[t].queue)
        BY <2>2
    <3>2. sess[t].proto = "imap" /\ Truthful(sess[t], box)
        BY <1>1, <3>1 DEF SameButQueue, NumbersOK
    <3>3. sess[t].sel \in Folders => SameNumbers(box[sess[t].sel], box'[sess[t].sel])
        BY <2>2, <3>2
    <3> QED
        BY <3>1, <3>2, <3>3, TruthStays
  <2> QED
      BY <2>1, <2>2
<1> QED
    BY <1>2, <1>3, <1>4, <1>5 DEF AccessInv

\* Setting flags moves no row, and neither does adding one at the end.
LEMMA FlagNumbers ==
    ASSUME NEW b, NEW b2, Fewer(b, b2), Fewer(b2, b), NEW f \in Folders
    PROVE  SameNumbers(b[f], b2[f])
<1>1. DOMAIN b[f] = DOMAIN b2[f]
    BY DEF Fewer
<1>2. \A u : Number(b2[f], u) = Number(b[f], u)
    BY <1>1 DEF Number
<1> QED
    BY <1>2 DEF SameNumbers, Fewer

\* A row at the end of one folder.
LEMMA GrowNumbers ==
    ASSUME NEW b, NEW nx, NEW arr, BoxOK(b, nx, arr), NEW g \in Folders,
           NEW r \in Row, NEW arr2, arr \subseteq arr2, r.msg \in arr2,
           NEW b2, NEW nx2, GrownTo(b, nx, g, r, b2, nx2), NEW h \in Folders
    PROVE  SameNumbers(b[h], b2[h])
<1>0. /\ DOMAIN b2[g] = DOMAIN b[g] \cup {nx[g]}
      /\ \A u \in DOMAIN b[g] : b2[g][u] = b[g][u]
      /\ h # g => b2[h] = b[h]
    BY GrowBox
<1>1. CASE h # g
    BY <1>0, <1>1, SameAreSame
<1>2. CASE h = g
  <2>1. b2[g] = Appended(b[g], nx[g], r)
      BY DEF GrownTo, BoxOK, OnFolders
  <2>2. RowsBelow(b[g], nx[g])
      BY DEF BoxOK, RowsBelow
  <2>3. \A u \in DOMAIN b[g] : Number(b2[g], u) = Number(b[g], u)
      BY <2>1, <2>2, NumberStays
  <2> QED
      BY <1>0, <1>2, <2>3 DEF SameNumbers
<1> QED
    BY <1>1, <1>2

\* A row that is not there yet is not doomed.
LEMMA NewNotDoomed ==
    ASSUME AccessInv, NEW g \in Folders, NEW ss,
           \A t \in Sessions : ss[t].work.moving # {} =>
              /\ ss[t].sel = sess[t].sel
              /\ ss[t].work.uids \subseteq sess[t].work.uids \cup sess[t].work.left
    PROVE  ~Doomed(g, uidNext[g], ss)
<1> SUFFICES ASSUME NEW t \in Sessions, ss[t].work.moving # {}, ss[t].sel = g,
                    uidNext[g] \in ss[t].work.uids
             PROVE  FALSE
    BY DEF Doomed
<1>1. uidNext[g] \in sess[t].work.uids \cup sess[t].work.left /\ sess[t].sel = g
    OBVIOUS
<1>2. uidNext[g] < uidNext[g] /\ uidNext[g] \in Nat
    BY <1>1, TypeParts DEF AccessInv, ConnsOK, ConnOK, CommandOK, BoxOK
<1> QED
    BY <1>2

\* Movers that are the same keep the count of copies when rows are fewer.
LEMMA DoublesFewer ==
    ASSUME AccessInv, Fewer(box, box'), NEW m \in Messages \ doubled,
           Movers(m, sess) \subseteq Movers(m, sess')
    PROVE  Cardinality(RowsOf(box', m)) <= 1 + Cardinality(Movers(m, sess'))
<1>1. BoxOK(box, uidNext, arrived)
    BY TypeParts DEF AccessInv
<1>2. /\ Cardinality(RowsOf(box', m)) \in Nat
      /\ Cardinality(RowsOf(box', m)) <= Cardinality(RowsOf(box, m))
    BY <1>1, CopiesFewer
<1>3. Cardinality(RowsOf(box, m)) \in Nat
    BY <1>1, RowsFinite, FS_CardinalityType
<1>4. /\ Cardinality(Movers(m, sess)) \in Nat /\ Cardinality(Movers(m, sess')) \in Nat
      /\ Cardinality(Movers(m, sess)) <= Cardinality(Movers(m, sess'))
    BY MoversFinite, FS_Subset
<1>5. Cardinality(RowsOf(box, m)) <= 1 + Cardinality(Movers(m, sess))
    BY DEF AccessInv, DoublingOK
<1> QED
    BY <1>2, <1>3, <1>4, <1>5

\* STORE's transaction sets flags, or fails.
LEMMA StoreWriteKeeps ==
    ASSUME AccessInv, NEW s \in Sessions, StoreWrite(s)
    PROVE  AccessInv'
<1> DEFINE f == sess[s].sel
           work == sess[s].work
<1>0. /\ TypeOK /\ BoxOK(box, uidNext, arrived) /\ OthersOK
      /\ sess \in [Sessions -> Conn] /\ sess[s] \in Conn
    BY TypeParts DEF AccessInv
<1>1. sess[s].pc = "store" /\ UNCHANGED <<uidNext, present, ops, seen>>
    BY DEF StoreWrite
<1>2. /\ sess[s].proto = "imap" /\ f \in Folders /\ work \in Work
      /\ work.on \in BOOLEAN /\ work.uids \subseteq Nat
      /\ ConnOK(sess[s], box, uidNext, Gone)
    BY <1>0, <1>1 DEF AccessInv, ConnsOK, ConnOK, CommandOK, PC, Conn, Work
<1>3. work.moving = {}
    BY <1>1, NotMoving
<1>4. /\ UNCHANGED <<arrived, asked, mistaken, doubled, disturbed, slips>>
      /\ Gone' = Gone
    BY <1>1 DEF seen, Gone
<1>5. CASE UNCHANGED box /\ Fault /\ sess' = [sess EXCEPT ![s] = Polled(@, FALSE)]
  <2>1. Becomes(s, Polled(sess[s], FALSE))
      BY <1>0, <1>5 DEF Becomes
  <2>2. ops' \in Nat /\ faults' \in Nat
      BY <1>0, <1>1, <1>5 DEF Fault, OthersOK
  <2>3. doubled' = doubled \cup sess[s].work.moving
      BY <1>3, <1>4
  <2> QED
      BY <1>1, <1>2, <1>4, <1>5, <2>1, <2>2, <2>3, GiveUpKeeps
<1>6. CASE /\ FlaggedTo(box, f, work.uids, work.on, box')
           /\ \/ Becomes(s, Polled(sess[s], FALSE))
              \/ sess' = Busy(s, "answer", work)
           /\ UNCHANGED faults
  <2>1. /\ BoxOK(box', uidNext', arrived')
        /\ Stable(box, uidNext, box', uidNext') /\ Fewer(box, box') /\ Fewer(box', box)
        /\ \A u \in DOMAIN box'[f] : IF u \in work.uids THEN box'[f][u].deleted = work.on
                                                       ELSE box'[f][u] = box[f][u]
        /\ \A g \in Folders \ {f} : box'[g] = box[g]
      BY <1>0, <1>1, <1>2, <1>4, <1>6, FlagBox
  <2>2. \A h \in Folders : SameNumbers(box[h], box'[h])
      BY <2>1, FlagNumbers
  <2>3. /\ sess' \in [Sessions -> Conn]
        /\ \A t \in Sessions \ {s} : sess'[t] = sess[t]
        /\ ConnOK(sess'[s], box', uidNext', Gone') /\ sess'[s].work.moving = {}
        /\ s \notin disturbed' => Truthful(sess'[s], box')
    <3>1. s \notin disturbed => Truthful(sess[s], box)
        BY <1>2 DEF AccessInv, NumbersOK
    <3>2. s \notin disturbed => Truthful(sess[s], box')
      <4>1. SameButQueue(sess[s], sess[s])
          BY DEF SameButQueue
      <4> QED
          BY <1>2, <2>2, <3>1, <4>1, TruthStays
    <3>3. CASE Becomes(s, Polled(sess[s], FALSE))
      <4>1. /\ sess' \in [Sessions -> Conn] /\ sess'[s] = Polled(sess[s], FALSE)
            /\ \A t \in Sessions \ {s} : sess'[t] = sess[t]
          BY <1>0, <3>3, PolledConn, BecomesOne
      <4>2. /\ ConnOK(sess'[s], box', uidNext', Gone') /\ sess'[s].work.moving = {}
            /\ Truthful(sess[s], box') => Truthful(sess'[s], box')
        <5>1. \A b, nx, gone :
                 /\ ConnOK(Polled(sess[s], FALSE), b, nx, gone)
                 /\ Polled(sess[s], FALSE).work.moving = {}
                 /\ Truthful(sess[s], b) => Truthful(Polled(sess[s], FALSE), b)
            BY <1>0, <1>2, PolledIsOK
        <5>2. ConnOK(Polled(sess[s], FALSE), box', uidNext', Gone')
            BY <5>1
        <5>3. /\ Polled(sess[s], FALSE).work.moving = {}
              /\ Truthful(sess[s], box') => Truthful(Polled(sess[s], FALSE), box')
            BY <5>1
        <5> QED
            BY <4>1, <5>2, <5>3
      <4> QED
          BY <1>4, <3>2, <4>1, <4>2
    <3>4. CASE sess' = Busy(s, "answer", work)
      <4>1. /\ sess' \in [Sessions -> Conn] /\ \A t \in Sessions \ {s} : sess'[t] = sess[t]
            /\ sess'[s].pc = "answer" /\ sess'[s].work = work /\ sess'[s].proto = "imap"
            /\ sess'[s].sel = f /\ sess'[s].view = sess[s].view
            /\ sess'[s].queue = sess[s].queue
          BY <1>0, <1>2, <3>4, BusyConns DEF PC
      <4>2. CommandOK(sess'[s], uidNext')
          BY <1>1, <1>2, <4>1 DEF ConnOK, CommandOK
      <4>3. MovingOK(sess'[s]) /\ RemovalOK(sess'[s], box', Gone')
            /\ ListOK(sess'[s], box', uidNext')
          BY <1>3, <4>1 DEF MovingOK, RemovalOK, ListOK
      <4>4. Truthful(sess[s], box') => Truthful(sess'[s], box')
          BY <4>1 DEF Truthful
      <4> QED
          BY <1>3, <1>4, <3>2, <4>1, <4>2, <4>3, <4>4 DEF ConnOK
    <3> QED
        BY <1>6, <3>3, <3>4
  <2>4. ASSUME NEW h \in Folders, NEW u \in DOMAIN box'[h]
        PROVE  \/ u \in DOMAIN box[h] /\ box'[h][u] = box[h][u]
               \/ box'[h][u].deleted => box'[h][u].msg \in Gone'
    <3>1. u \in DOMAIN box[h] /\ box'[h][u].msg = box[h][u].msg
        BY <2>1 DEF Fewer
    <3>2. CASE h = f /\ u \in work.uids
      <4>1. work.on => box[f][u].msg \in Gone
          BY <1>1, <1>2, <3>1, <3>2 DEF ConnOK, RemovalOK
      <4> QED
          BY <1>4, <2>1, <3>1, <3>2, <4>1
    <3>3. CASE ~(h = f /\ u \in work.uids)
        BY <2>1, <3>1, <3>3
    <3> QED
        BY <3>2, <3>3
  <2>5. \A t \in Sessions \ {s} : /\ SameButQueue(sess'[t], sess[t])
                                  /\ Quiet(sess[t].queue) => Quiet(sess'[t].queue)
      BY <2>3 DEF SameButQueue
  <2>6. \A t \in Sessions : LessMoving(sess'[t], sess[t])
      BY <2>3 DEF LessMoving
  <2>7. KeptOK'
    <3>1. \A h, u : Doomed(h, u, sess') => Doomed(h, u, sess)
        BY <2>6, NoMoreDoomed
    <3> QED
        BY <1>4, <2>1, <3>1, KeptStays DEF Fewer, AccessInv
  <2>8. DoublingOK'
    <3> SUFFICES ASSUME NEW m \in Messages \ doubled'
                 PROVE  Cardinality(RowsOf(box', m)) <= 1 + Cardinality(Movers(m, sess'))
        BY DEF DoublingOK
    <3>1. Movers(m, sess) \subseteq Movers(m, sess')
        BY <1>3, <2>3 DEF Movers
    <3> QED
        BY <1>4, <2>1, <3>1, DoublesFewer
  <2>9. /\ OthersOK' /\ slips' \subseteq disturbed'
        /\ disturbed \subseteq disturbed' /\ Gone \subseteq Gone'
      BY <1>0, <1>1, <1>4, <1>6 DEF OthersOK, AccessInv, NumbersOK
  <2>10. \A t \in {s} \cap Sessions :
           /\ ConnOK(sess'[t], box', uidNext', Gone')
           /\ t \notin disturbed' /\ sess'[t].proto = "imap" => Truthful(sess'[t], box')
      BY <2>3
  <2> QED
      BY <2>1, <2>2, <2>3, <2>4, <2>5, <2>7, <2>8, <2>9, <2>10, StoreChanges
<1>7. \/ /\ box' = [box EXCEPT ![f] = SetFlags(@, work.uids, work.on)]
         /\ \/ sess' = [sess EXCEPT ![s] = Polled(@, FALSE)]
            \/ sess' = Busy(s, "answer", work)
         /\ UNCHANGED faults
      \/ /\ Fault
         /\ sess' = [sess EXCEPT ![s] = Polled(@, FALSE)]
         /\ UNCHANGED box
    BY DEF StoreWrite
<1>8. sess' = [sess EXCEPT ![s] = Polled(@, FALSE)] => Becomes(s, Polled(sess[s], FALSE))
    BY <1>0 DEF Becomes
<1> QED
    BY <1>5, <1>6, <1>7, <1>8 DEF FlaggedTo

\* The connections X are right after the step and move nothing more.
EndRight(X) ==
    \A t \in X \cap Sessions :
        /\ ConnOK(sess'[t], box', uidNext, Gone')
        /\ LessMoving(sess'[t], sess[t])
        /\ t \notin disturbed' /\ sess'[t].proto = "imap" => Truthful(sess'[t], box')

\* The rows that go were asked for or are doomed.
MayGo(f, uids) ==
    \A u \in DOMAIN box[f] \cap uids :
        Doomed(f, u, sess) \/ box[f][u].msg \in Gone'

\* A message that loses a mover loses a row, or may be in two places.
NoneDoubled(f, uids) ==
    \A m \in Messages \ doubled' :
        \/ Movers(m, sess) \subseteq Movers(m, sess')
        \/ \E u \in DOMAIN box[f] \cap uids, t \in Sessions :
             box[f][u].msg = m /\ Movers(m, sess) \subseteq Movers(m, sess') \cup {t}

\* Rows of one folder go: each was asked for or doomed, its watchers count as
\* disturbed, and a message that loses a mover without losing a row has a
\* reason to be in two places.
LEMMA CutKeeps ==
    ASSUME AccessInv, NEW f \in Folders, NEW uids, CutTo(box, f, uids, box'),
           UNCHANGED <<uidNext, arrived, slips>>, OthersOK',
           Gone \subseteq Gone', doubled \subseteq doubled',
           disturbed' = disturbed \cup Watchers(f),
           NEW X, sess' \in [Sessions -> Conn],
           \A t \in Sessions \ X : sess'[t] = sess[t],
           EndRight(X), MayGo(f, uids), NoneDoubled(f, uids)
    PROVE  AccessInv'
<1> USE DEF EndRight, MayGo, NoneDoubled
<1>0. BoxOK(box, uidNext, arrived)
    BY TypeParts DEF AccessInv
<1>1. /\ BoxOK(box', uidNext', arrived')
      /\ Stable(box, uidNext, box', uidNext') /\ Fewer(box, box')
      /\ DOMAIN box'[f] = DOMAIN box[f] \ uids
      /\ \A u \in DOMAIN box'[f] : box'[f][u] = box[f][u]
      /\ \A g \in Folders \ {f} : box'[g] = box[g]
    BY <1>0, CutBox
<1>2. \A t \in Sessions : LessMoving(sess'[t], sess[t])
  <2>1. \A t \in Sessions \ X : LessMoving(sess'[t], sess[t])
      BY DEF LessMoving
  <2> QED
      BY <2>1
<1>3. \A t \in Sessions \ X : /\ SameButQueue(sess'[t], sess[t])
                              /\ Quiet(sess[t].queue) => Quiet(sess'[t].queue)
    BY DEF SameButQueue
<1>4. \A h \in Folders : \A u \in DOMAIN box'[h] :
         u \in DOMAIN box[h] /\ box'[h][u] = box[h][u]
    BY <1>1
<1>5. ASSUME NEW t \in Sessions \ (X \cup disturbed'),
             sess[t].proto = "imap", sess[t].sel \in Folders
      PROVE  SameNumbers(box[sess[t].sel], box'[sess[t].sel])
  <2>1. sess[t].sel # f
      BY <1>5 DEF Watchers
  <2>2. box'[sess[t].sel] = box[sess[t].sel]
      BY <1>1, <1>5, <2>1
  <2> QED
      BY <2>2, SameAreSame
<1>6. KeptOK'
  <2>1. \A h, u : Doomed(h, u, sess') => Doomed(h, u, sess)
      BY <1>2, NoMoreDoomed
  <2>2. ASSUME NEW h \in Folders, NEW u \in DOMAIN box[h],
               ~Doomed(h, u, sess), box[h][u].msg \notin Gone'
        PROVE  \E g \in Folders : \E v \in DOMAIN box'[g] :
                  box'[g][v].msg = box[h][u].msg /\ ~Doomed(g, v, sess')
    <3>1. u \in DOMAIN box'[h]
        BY <1>1, <2>2
    <3>2. box'[h][u].msg = box[h][u].msg /\ ~Doomed(h, u, sess')
        BY <1>4, <2>1, <2>2, <3>1
    <3> QED
        BY <3>1, <3>2
  <2> QED
      BY <2>2, KeptStays DEF AccessInv
<1>7. DoublingOK'
  <2> SUFFICES ASSUME NEW m \in Messages \ doubled'
               PROVE  Cardinality(RowsOf(box', m)) <= 1 + Cardinality(Movers(m, sess'))
      BY DEF DoublingOK
  <2>1. CASE Movers(m, sess) \subseteq Movers(m, sess')
      BY <1>1, <2>1, DoublesFewer
  <2>2. CASE \E u \in DOMAIN box[f] \cap uids, t \in Sessions :
                box[f][u].msg = m /\ Movers(m, sess) \subseteq Movers(m, sess') \cup {t}
    <3>1. PICK u \in DOMAIN box[f] \cap uids, t \in Sessions :
             box[f][u].msg = m /\ Movers(m, sess) \subseteq Movers(m, sess') \cup {t}
        BY <2>2
    <3>2. <<f, u>> \in RowsOf(box, m) /\ <<f, u>> \notin RowsOf(box', m)
        BY <1>1, <3>1, RowsAre
    <3>3. RowsOf(box', m) \subseteq RowsOf(box, m) \ {<<f, u>>}
        BY <1>0, <1>1, <3>2, CopiesFewer
    <3>4. IsFiniteSet(RowsOf(box, m)) /\ IsFiniteSet(Movers(m, sess'))
        BY <1>0, RowsFinite, MoversFinite
    <3>5. /\ IsFiniteSet(RowsOf(box', m))
          /\ Cardinality(RowsOf(box', m)) + 1 <= Cardinality(RowsOf(box, m))
        BY <3>2, <3>3, <3>4, OneLess
    <3>6. Cardinality(Movers(m, sess)) <= Cardinality(Movers(m, sess')) + 1
        BY <3>1, <3>4, OneMore
    <3>7. /\ Cardinality(RowsOf(box', m)) \in Nat /\ Cardinality(RowsOf(box, m)) \in Nat
          /\ Cardinality(Movers(m, sess)) \in Nat
          /\ Cardinality(Movers(m, sess')) \in Nat
        BY <3>4, <3>5, MoversFinite, FS_CardinalityType
    <3>8. Cardinality(RowsOf(box, m)) <= 1 + Cardinality(Movers(m, sess))
        BY DEF AccessInv, DoublingOK
    <3> QED
        BY <3>5, <3>6, <3>7, <3>8
  <2> QED
      BY <2>1, <2>2
<1>8. slips' \subseteq disturbed' /\ disturbed \subseteq disturbed'
    BY DEF AccessInv, NumbersOK
<1>9. \A t \in X \cap Sessions :
         /\ ConnOK(sess'[t], box', uidNext', Gone')
         /\ t \notin disturbed' /\ sess'[t].proto = "imap" => Truthful(sess'[t], box')
    OBVIOUS
<1> QED
    BY <1>1, <1>3, <1>4, <1>5, <1>6, <1>7, <1>8, <1>9, StoreChanges

\* EXPUNGE's transaction, for EXPUNGE and for MOVE.
LEMMA ExpungeWriteKeeps ==
    ASSUME AccessInv, NEW s \in Sessions, ExpungeWrite(s)
    PROVE  AccessInv'
<1> DEFINE f == sess[s].sel
           work == sess[s].work
           next == [work EXCEPT !.moving = {}]
<1>0. /\ OthersOK /\ BoxOK(box, uidNext, arrived)
      /\ sess \in [Sessions -> Conn] /\ sess[s] \in Conn
    BY TypeParts DEF AccessInv
<1>1. /\ sess[s].pc = "expunge"
      /\ UNCHANGED <<uidNext, present, ops, arrived, asked, slips, mistaken>>
    BY DEF ExpungeWrite
<1>2. /\ sess[s].proto = "imap" /\ f \in Folders /\ work \in Work
      /\ work.moving \subseteq Messages
      /\ ConnOK(sess[s], box, uidNext, Gone)
    BY <1>0, <1>1 DEF AccessInv, ConnsOK, ConnOK, CommandOK, PC, Conn, Work
<1>3. Gone' = Gone
    BY <1>1 DEF Gone
<1>4. \/ /\ CutTo(box, f, work.uids, box')
         /\ sess' = Busy(s, "announce", next)
         /\ disturbed' = disturbed \cup Watchers(f)
         /\ doubled' = doubled \cup LeftBehind(s)
         /\ UNCHANGED faults
      \/ /\ Fault
         /\ sess' = [sess EXCEPT ![s] = Polled(@, TRUE)]
         /\ doubled' = doubled \cup work.moving
         /\ UNCHANGED <<box, disturbed>>
    BY DEF ExpungeWrite, CutTo, StillToGo, Disturb
<1>5. CASE /\ Fault
           /\ sess' = [sess EXCEPT ![s] = Polled(@, TRUE)]
           /\ doubled' = doubled \cup work.moving
           /\ UNCHANGED <<box, disturbed>>
  <2>1. Becomes(s, Polled(sess[s], TRUE))
      BY <1>0, <1>5 DEF Becomes
  <2>2. ops' \in Nat /\ faults' \in Nat
      BY <1>0, <1>1, <1>5 DEF Fault, OthersOK
  <2> QED
      BY <1>1, <1>2, <1>5, <2>1, <2>2, GiveUpKeeps
<1>6. CASE /\ CutTo(box, f, work.uids, box')
           /\ sess' = Busy(s, "announce", next)
           /\ disturbed' = disturbed \cup Watchers(f)
           /\ doubled' = doubled \cup LeftBehind(s)
           /\ UNCHANGED faults
  <2>1. /\ next \in Work /\ next.moving = {} /\ next.uids = work.uids
        /\ next.left = work.left
      BY <1>2 DEF Work
  <2> HIDE DEF next
  <2>2. /\ sess' \in [Sessions -> Conn] /\ \A t \in Sessions \ {s} : sess'[t] = sess[t]
        /\ sess'[s].pc = "announce" /\ sess'[s].work = next
        /\ sess'[s].proto = "imap" /\ sess'[s].sel = f
      BY <1>0, <1>2, <1>6, <2>1, BusyConns DEF PC
  <2>3. CommandOK(sess'[s], uidNext)
      BY <1>2, <2>1, <2>2 DEF ConnOK, CommandOK
  <2>4. /\ MovingOK(sess'[s]) /\ RemovalOK(sess'[s], box', Gone')
        /\ ListOK(sess'[s], box', uidNext) /\ LessMoving(sess'[s], sess[s])
      BY <2>1, <2>2 DEF MovingOK, RemovalOK, ListOK, LessMoving
  <2>5. s \in disturbed'
      BY <1>2, <1>6 DEF Watchers
  <2>6. EndRight({s})
      BY <2>3, <2>4, <2>5 DEF ConnOK, EndRight
  <2>7. ASSUME NEW u \in DOMAIN box[f] \cap work.uids
        PROVE  Doomed(f, u, sess) \/ box[f][u].msg \in Gone'
    <3>1. CASE work.moving = {}
        BY <1>1, <1>2, <1>3, <3>1 DEF ConnOK, RemovalOK
    <3>2. CASE work.moving # {}
        BY <3>2 DEF Doomed
    <3> QED
        BY <3>1, <3>2
  <2>8. ASSUME NEW m \in Messages \ doubled'
        PROVE  \/ Movers(m, sess) \subseteq Movers(m, sess')
               \/ \E u \in DOMAIN box[f] \cap work.uids, t \in Sessions :
                    box[f][u].msg = m /\ Movers(m, sess) \subseteq Movers(m, sess') \cup {t}
    <3>1. CASE m \notin work.moving
        BY <2>2, <3>1 DEF Movers
    <3>2. CASE m \in work.moving
      <4>1. m \notin LeftBehind(s)
          BY <1>6, <2>8
      <4>2. PICK u \in DOMAIN box[f] \cap work.uids : box[f][u].msg = m
          BY <3>2, <4>1 DEF LeftBehind
      <4>3. Movers(m, sess) \subseteq Movers(m, sess') \cup {s}
          BY <2>2 DEF Movers
      <4> QED
          BY <4>2, <4>3
    <3> QED
        BY <3>1, <3>2
  <2>9. /\ OthersOK' /\ Gone \subseteq Gone' /\ doubled \subseteq doubled'
      BY <1>0, <1>1, <1>2, <1>3, <1>6 DEF OthersOK, Watchers, LeftBehind
  <2>10. UNCHANGED <<uidNext, arrived, slips>>
      BY <1>1
  <2>11. f \in Folders /\ CutTo(box, f, work.uids, box')
         /\ disturbed' = disturbed \cup Watchers(f)
      BY <1>2, <1>6
  <2>12. MayGo(f, work.uids) /\ NoneDoubled(f, work.uids)
      BY <2>7, <2>8 DEF MayGo, NoneDoubled
  <2> QED
      BY <2>2, <2>6, <2>9, <2>10, <2>11, <2>12, CutKeeps
<1> QED
    BY <1>4, <1>5, <1>6

\* The announcement of what went.
LEMMA AnnounceKeeps ==
    ASSUME AccessInv, NEW s \in Sessions, Announce(s)
    PROVE  AccessInv'
<1> DEFINE f == sess[s].sel
           nums == sess[s].work.nums
           all == Announced(f, nums)
           view == Told(all[s].view, nums)
           c == [all[s] EXCEPT !.view = view]
<1>0. /\ OthersOK /\ sess \in [Sessions -> Conn] /\ sess[s] \in Conn
      /\ nums \in SUBSET Nat
    BY TypeParts DEF AccessInv, Conn, Work
<1>1. /\ sess[s].pc = "announce" /\ disturbed' = disturbed \cup Watchers(f)
      /\ UNCHANGED <<box, uidNext, present, ops, faults, arrived, asked, doubled,
                     slips, mistaken>>
    BY DEF Announce, Disturb
<1>2. /\ sess[s].proto = "imap" /\ f \in Folders /\ sess[s].work.moving = {}
    BY <1>1, NotMoving DEF AccessInv, ConnsOK, ConnOK, CommandOK, PC
<1>3. /\ all \in [Sessions -> Conn]
      /\ \A t \in Sessions : /\ SameButQueue(all[t], sess[t])
                             /\ t \notin Watchers(f) => all[t] = sess[t]
    BY <1>0, <1>2, AnnouncedConns
<1>4. sess' = [all EXCEPT ![s] = Polled(c, TRUE)]
    BY Zenon DEF Announce
<1> HIDE DEF all
<1>5. all[s] \in Conn /\ all[s].view \in SUBSET Entry /\ all[s].proto = "imap"
    BY <1>2, <1>3 DEF Conn, SameButQueue
<1>6. view \in SUBSET Entry
    BY <1>0, <1>5, ToldEntries
<1> HIDE DEF view
<1>7. c \in Conn /\ c.proto = "imap"
    BY <1>5, <1>6 DEF Conn
<1> HIDE DEF c
<1>8. Polled(c, TRUE) \in Conn
    BY <1>7, PolledConn
<1>9. /\ sess' \in [Sessions -> Conn] /\ sess'[s] = Polled(c, TRUE)
      /\ \A t \in Sessions \ {s} : sess'[t] = all[t]
    BY <1>3, <1>4, <1>8
<1>10. \A t \in Sessions \ {s} : /\ SameButQueue(sess'[t], sess[t])
                                 /\ t \in disturbed' \/ sess'[t] = sess[t]
    BY <1>1, <1>3, <1>9
<1>11. ConnOK(sess'[s], box, uidNext, Gone') /\ sess'[s].work.moving = {}
  <2>0. TRUE \in BOOLEAN
      OBVIOUS
  <2>1. ASSUME NEW b, NEW nx, NEW gone
        PROVE  /\ ConnOK(Polled(c, TRUE), b, nx, gone)
               /\ Polled(c, TRUE).work.moving = {}
      BY <1>7, <2>0, PolledIsOK
  <2>2. ConnOK(Polled(c, TRUE), box, uidNext, Gone')
      BY <2>1
  <2> QED
      BY <1>9, <2>1, <2>2
<1>12. s \in disturbed' /\ LessMoving(sess'[s], sess[s])
    BY <1>1, <1>2, <1>11 DEF Watchers, LessMoving
<1>13. Observed(s) /\ slips' \subseteq disturbed'
  <2>1. Watchers(f) \subseteq Sessions
      BY DEF Watchers
  <2> QED
      BY <1>0, <1>1, <2>1 DEF Observed, OthersOK, AccessInv, NumbersOK
<1> QED
    BY <1>1, <1>2, <1>9, <1>10, <1>11, <1>12, <1>13, SessionStep

\* A copy that fails, and the second listing of a MOVE.
LEMMA SecondHalfKeeps ==
    ASSUME AccessInv, NEW s \in Sessions, CopyFails(s) \/ MoveRead(s)
    PROVE  AccessInv'
<1> DEFINE f == sess[s].sel
           work == sess[s].work
           uids == Chosen(f, work.uids, FALSE)
           nums == {Number(box[f], u) : u \in uids}
           next == ToExpunge(f, uids, work.moving)
<1>0. /\ TypeOK /\ OthersOK /\ BoxOK(box, uidNext, arrived)
      /\ sess \in [Sessions -> Conn] /\ sess[s] \in Conn
    BY TypeParts DEF AccessInv
<1>1. CASE CopyFails(s)
  <2>1. /\ sess[s].pc = "copy" /\ Becomes(s, Polled(sess[s], TRUE))
        /\ UNCHANGED <<box, uidNext, present, ops, arrived, asked, disturbed,
                       slips, mistaken>>
        /\ doubled' = doubled \cup sess[s].work.moving
        /\ UNCHANGED faults \/ Fault
      BY <1>0, <1>1 DEF CopyFails, Becomes
  <2>2. sess[s].proto = "imap"
      BY <2>1 DEF AccessInv, ConnsOK, ConnOK, CommandOK
  <2>3. ops' \in Nat /\ faults' \in Nat
      BY <1>0, <2>1 DEF Fault, OthersOK
  <2> QED
      BY <2>1, <2>2, <2>3, GiveUpKeeps
<1>2. CASE MoveRead(s)
  <2>1. /\ sess[s].pc = "moveRead"
        /\ UNCHANGED <<box, uidNext, present, ops, arrived, asked, disturbed,
                       slips, mistaken>>
      BY <1>2 DEF MoveRead
  <2>2. /\ sess[s].proto = "imap" /\ f \in Folders /\ work \in Work
        /\ work.moving \in SUBSET Messages /\ work.uids \in SUBSET Nat
        /\ ConnOK(sess[s], box, uidNext, Gone) /\ work.moving # {}
      BY <1>0, <2>1 DEF AccessInv, ConnsOK, ConnOK, CommandOK, MovingOK, PC, Conn, Work
  <2>4. uids = work.uids \cap DOMAIN box[f]
      BY DEF Chosen
  <2>5. \/ /\ uids # {} /\ sess' = Busy(s, "expunge", next)
           /\ UNCHANGED <<faults, doubled>>
        \/ /\ sess' = [sess EXCEPT ![s] = Polled(@, TRUE)]
           /\ doubled' = doubled \cup work.moving
           /\ UNCHANGED faults \/ Fault
    <3>1. uids = {} => work.uids \cap DOMAIN box[f] = {}
        BY <2>4
    <3> HIDE DEF next
    <3>2. \/ uids # {} /\ sess' = Busy(s, "expunge", next) /\ UNCHANGED <<faults, doubled>>
          \/ /\ uids = {} /\ sess' = [sess EXCEPT ![s] = Polled(@, TRUE)]
             /\ doubled' = IF work.uids \cap DOMAIN box[f] = {}
                           THEN doubled \cup work.moving ELSE doubled
             /\ UNCHANGED faults
          \/ /\ Fault /\ sess' = [sess EXCEPT ![s] = Polled(@, TRUE)]
             /\ doubled' = doubled \cup work.moving
        BY <1>2, Zenon DEF MoveRead, next
    <3> HIDE DEF uids, work, f
    <3> QED
        BY <3>1, <3>2
  <2>6. CASE /\ sess' = [sess EXCEPT ![s] = Polled(@, TRUE)]
             /\ doubled' = doubled \cup work.moving
             /\ UNCHANGED faults \/ Fault
    <3>1. Becomes(s, Polled(sess[s], TRUE))
        BY <1>0, <2>6 DEF Becomes
    <3>2. ops' \in Nat /\ faults' \in Nat
        BY <1>0, <2>1, <2>6 DEF Fault, OthersOK
    <3> QED
        BY <2>1, <2>2, <2>6, <3>1, <3>2, GiveUpKeeps
  <2>7. CASE /\ uids # {} /\ sess' = Busy(s, "expunge", next)
             /\ UNCHANGED <<faults, doubled>>
    <3>1. uids \subseteq DOMAIN box[f] /\ uids \subseteq work.uids
        BY <2>4
    <3> HIDE DEF uids
    <3>2. RowsBelow(box[f], uidNext[f])
        BY <1>0, <2>2 DEF BoxOK, RowsBelow
    <3>3. nums \in SUBSET Nat /\ uids \in SUBSET Nat
        BY <2>2, <3>1, <3>2, NumberIsNat
    <3> HIDE DEF nums
    <3>4. next = [NoWork EXCEPT !.moving = work.moving, !.uids = uids, !.nums = nums]
        BY DEF ToExpunge, nums
    <3>5. /\ next \in Work /\ next.uids = uids /\ next.moving = work.moving
          /\ next.left = {}
        BY <2>2, <3>3, <3>4, NewIsOK DEF Work, NoWork
    <3>6. sess' = Busy(s, "expunge", next) /\ "expunge" \in PC
        BY <2>7 DEF PC
    <3> HIDE DEF next
    <3>7. /\ sess'[s].pc = "expunge" /\ sess'[s].work = next
          /\ sess'[s].proto = "imap" /\ sess'[s].sel = f
        BY <1>0, <2>2, <3>5, <3>6, BusyConns
    <3>8. CommandOK(sess'[s], uidNext)
        BY <2>2, <3>1, <3>5, <3>7 DEF ConnOK, CommandOK
    <3>9. MovingOK(sess'[s]) /\ LessMoving(sess'[s], sess[s])
        BY <3>1, <3>5, <3>7 DEF MovingOK, LessMoving
    <3>10. RemovalOK(sess'[s], box, Gone')
        BY <2>2, <3>5, <3>7 DEF RemovalOK
    <3>11. Observed(s) /\ slips' \subseteq disturbed'
        BY <1>0, <2>1, <2>7 DEF Observed, OthersOK, AccessInv, NumbersOK
    <3>12. sess[s].work.moving \subseteq next.moving \cup doubled'
        BY <3>5
    <3> QED
        BY <2>1, <2>2, <3>5, <3>6, <3>8, <3>9, <3>10, <3>11, <3>12, BusyKeeps
  <2> QED
      BY <2>5, <2>6, <2>7
<1> QED
    BY <1>1, <1>2

\* DELE and RSET change marks alone.
LEMMA MarkKeeps ==
    ASSUME AccessInv, NEW s \in Sessions, Dele(s) \/ Rset(s)
    PROVE  AccessInv'
<1>0. /\ OthersOK /\ sess \in [Sessions -> Conn] /\ sess[s] \in Conn
      /\ ConnOK(sess[s], box, uidNext, Gone)
    BY TypeParts DEF AccessInv, ConnsOK
<1>1. PICK marks : /\ marks \subseteq sess[s].view
                   /\ sess' = [sess EXCEPT ![s].marks = marks]
  <2>1. ListOK(sess[s], box, uidNext)
      BY <1>0 DEF ConnOK
  <2>2. CASE Dele(s)
    <3>1. PICK v \in Shown(s) : sess' = [sess EXCEPT ![s].marks = @ \cup {v}]
        BY <2>2 DEF Dele
    <3>2. sess' = [sess EXCEPT ![s].marks = sess[s].marks \cup {v}]
        BY <3>1
    <3>3. sess[s].marks \cup {v} \subseteq sess[s].view
        BY <2>1, <2>2, <3>1 DEF Dele, Ready, ListOK, Shown
    <3> QED
        BY <3>2, <3>3
  <2>3. CASE Rset(s)
      BY <2>3 DEF Rset
  <2> QED
      BY <2>2, <2>3
<1>2. sess[s].proto = "pop3" /\ sess[s].pc = "ready"
    BY DEF Dele, Rset, Ready
<1>3. UNCHANGED <<box, uidNext, present, ops, faults, seen>>
    BY DEF Dele, Rset
<1> DEFINE c == [sess[s] EXCEPT !.marks = marks]
<1>4. c \in Conn /\ Becomes(s, c)
    BY <1>0, <1>1 DEF Conn, Becomes
<1>5. /\ c.proto = "pop3" /\ c.sel = sess[s].sel /\ c.view = sess[s].view
      /\ c.pc = "ready" /\ c.work = sess[s].work /\ c.marks = marks
    BY <1>0, <1>2 DEF Conn
<1> HIDE DEF c
<1>6. /\ sess' \in [Sessions -> Conn] /\ sess'[s] = c
      /\ \A t \in Sessions \ {s} : sess'[t] = sess[t] /\ SameButQueue(sess'[t], sess[t])
    BY <1>0, <1>4, BecomesOne
<1>7. Observed(s) /\ slips' \subseteq disturbed' /\ Gone' = Gone
    BY <1>0, <1>3, NothingObserved DEF OthersOK
<1>8. CommandOK(c, uidNext) /\ MovingOK(c)
    BY <1>0, <1>2, <1>5 DEF ConnOK, CommandOK, MovingOK
<1>9. RemovalOK(c, box, Gone) /\ ListOK(c, box, uidNext)
    BY <1>0, <1>1, <1>2, <1>5 DEF ConnOK, RemovalOK, ListOK
<1>10. ConnOK(sess'[s], box, uidNext, Gone') /\ LessMoving(sess'[s], sess[s])
    BY <1>5, <1>6, <1>7, <1>8, <1>9 DEF ConnOK, LessMoving
<1>11. UNCHANGED <<box, uidNext, arrived>> /\ sess'[s].proto # "imap"
       /\ sess'[s].work.moving = sess[s].work.moving
    BY <1>3, <1>5, <1>6 DEF seen
<1> QED
    BY <1>6, <1>7, <1>10, <1>11, SessionStep

\* QUIT removes what is marked, or fails.
LEMMA QuitKeeps ==
    ASSUME AccessInv, NEW s \in Sessions, Quit(s)
    PROVE  AccessInv'
<1> DEFINE uids == Marked(s)
<1>0. /\ OthersOK /\ sess \in [Sessions -> Conn] /\ sess[s] \in Conn
      /\ ConnOK(sess[s], box, uidNext, Gone) /\ Inbox \in Folders
    BY TypeParts DEF AccessInv, ConnsOK, Folders
<1>1. /\ sess[s].proto = "pop3" /\ sess[s].pc = "ready" /\ Counted
      /\ asked' = asked \cup {v.msg : v \in sess[s].marks}
      /\ Becomes(s, NewConn)
      /\ UNCHANGED <<uidNext, present, arrived, doubled, slips, mistaken>>
      /\ \/ /\ CutTo(box, Inbox, uids, box') /\ disturbed' = disturbed \cup Watchers(Inbox)
            /\ UNCHANGED faults
         \/ Fault /\ UNCHANGED <<box, disturbed>>
    BY Zenon DEF Quit, Ready, Becomes, CutTo, Disturb
<1>2. sess[s].work.moving = {}
    BY <1>1, NotMoving
<1>3. /\ sess' \in [Sessions -> Conn] /\ sess'[s] = NewConn
      /\ \A t \in Sessions \ {s} : sess'[t] = sess[t] /\ SameButQueue(sess'[t], sess[t])
    BY <1>0, <1>1, NewIsOK, BecomesOne
<1>4. \A b, nx, gone : ConnOK(NewConn, b, nx, gone)
    BY NewIsOK, ReadyIsOK
<1>5. /\ LessMoving(sess'[s], sess[s]) /\ sess'[s].proto # "imap"
      /\ sess'[s].work.moving = {}
    BY <1>3, NewIsOK DEF LessMoving
<1>6. /\ sess[s].marks \subseteq Entry /\ sess[s].marks \subseteq sess[s].view
      /\ \A v \in sess[s].marks : v.msg \in Messages
    BY <1>0, <1>1 DEF Conn, ConnOK, ListOK, Entry
<1>7. /\ OthersOK' /\ Gone \subseteq Gone' /\ doubled \subseteq doubled'
  <2>1. asked' \subseteq Messages
      BY <1>0, <1>1, <1>6 DEF OthersOK
  <2>2. disturbed' \subseteq Sessions
      BY <1>0, <1>1 DEF OthersOK, Watchers
  <2>3. ops' \in Nat /\ faults' \in Nat
      BY <1>0, <1>1 DEF OthersOK, Counted, Fault
  <2> QED
      BY <1>0, <1>1, <2>1, <2>2, <2>3 DEF OthersOK, Gone
<1>8. CASE /\ CutTo(box, Inbox, uids, box') /\ disturbed' = disturbed \cup Watchers(Inbox)
           /\ UNCHANGED faults
  <2>1. EndRight({s})
      BY <1>3, <1>4, <1>5 DEF EndRight
  <2>2. MayGo(Inbox, uids)
    <3>1. ASSUME NEW u \in DOMAIN box[Inbox] \cap uids
          PROVE  box[Inbox][u].msg \in Gone'
      <4>1. PICK v \in sess[s].marks : v.uid = u
          BY DEF Marked
      <4>2. box[Inbox][u].msg = v.msg
          BY <1>0, <1>1, <1>6, <4>1 DEF ConnOK, ListOK
      <4> QED
          BY <1>1, <4>2 DEF Gone
    <3> QED
        BY <3>1 DEF MayGo
  <2>3. NoneDoubled(Inbox, uids)
    <3>1. \A m : Movers(m, sess) \subseteq Movers(m, sess')
        BY <1>2, <1>3 DEF Movers
    <3> QED
        BY <3>1 DEF NoneDoubled
  <2> HIDE DEF uids
  <2> QED
      BY <1>0, <1>1, <1>3, <1>7, <1>8, <2>1, <2>2, <2>3, CutKeeps
<1>9. CASE Fault /\ UNCHANGED <<box, disturbed>>
  <2>1. Observed(s) /\ slips' \subseteq disturbed'
      BY <1>1, <1>7, <1>9 DEF Observed, AccessInv, NumbersOK
  <2>2. ConnOK(sess'[s], box, uidNext, Gone')
      BY <1>3, <1>4
  <2>3. \A t \in Sessions \ {s} : t \in disturbed' \/ sess'[t] = sess[t]
      BY <1>3
  <2> QED
      BY <1>1, <1>2, <1>3, <1>5, <1>9, <2>1, <2>2, <2>3, SessionStep
<1> QED
    BY <1>1, <1>8, <1>9

\* The webmail deletes in Trash, or a folder with its mail.
LEMMA WebRemoveKeeps ==
    ASSUME AccessInv, NEW f \in Folders, NEW uids, uids \subseteq DOMAIN box[f],
           CutTo(box, f, uids, box'),
           disturbed' = disturbed \cup Watchers(f),
           asked' = asked \cup {box[f][u].msg : u \in uids},
           present' \subseteq present, Counted,
           UNCHANGED <<uidNext, sess, faults, arrived, doubled, slips, mistaken>>
    PROVE  AccessInv'
<1>0. /\ OthersOK /\ sess \in [Sessions -> Conn] /\ BoxOK(box, uidNext, arrived)
    BY TypeParts DEF AccessInv
<1>1. asked' \subseteq Messages
    BY <1>0 DEF BoxOK, OthersOK
<1>2. /\ OthersOK' /\ Gone \subseteq Gone' /\ doubled \subseteq doubled'
  <2>1. ops' \in Nat /\ disturbed' \subseteq Sessions
      BY <1>0 DEF OthersOK, Counted, Watchers
  <2> QED
      BY <1>0, <1>1, <2>1 DEF OthersOK, Gone
<1>3. EndRight({}) /\ MayGo(f, uids) /\ NoneDoubled(f, uids)
    BY DEF EndRight, MayGo, NoneDoubled, Gone
<1>4. sess' \in [Sessions -> Conn] /\ \A t \in Sessions \ {} : sess'[t] = sess[t]
    BY <1>0
<1> QED
    BY <1>2, <1>3, <1>4, CutKeeps

\* Who was moving goes on with it; a row that becomes doomed has the message
\* of the new one.
Onward(m) ==
    /\ \A t \in Sessions : sess'[t].work.moving # {} =>
         /\ sess'[t].sel = sess[t].sel
         /\ sess'[t].work.uids \subseteq sess[t].work.uids \cup sess[t].work.left
    /\ \A h \in Folders : \A v \in DOMAIN box[h] :
         Doomed(h, v, sess') => Doomed(h, v, sess) \/ box[h][v].msg = m
    /\ \A n \in Messages : Movers(n, sess) \subseteq Movers(n, sess')

\* The new copy has a reason, is the first one, or has a MOVE that will
\* remove another.
CopyCounted(m) ==
    \/ m \in doubled'
    \/ RowsOf(box, m) = {}
    \/ \E t \in Sessions : t \in Movers(m, sess') \ Movers(m, sess)

\* A row comes to the end of a folder.
LEMMA GrowKeeps ==
    ASSUME AccessInv, NEW g \in Folders, NEW r \in Row,
           GrownTo(box, uidNext, g, r, box', uidNext'),
           arrived' = arrived \cup {r.msg}, UNCHANGED <<asked, mistaken, disturbed, slips>>,
           OthersOK', doubled \subseteq doubled', r.deleted => r.msg \in Gone,
           NEW X, sess' \in [Sessions -> Conn],
           \A t \in Sessions \ X : /\ SameButQueue(sess'[t], sess[t])
                                   /\ Quiet(sess[t].queue) => Quiet(sess'[t].queue),
           \A t \in X \cap Sessions :
              /\ ConnOK(sess'[t], box', uidNext', Gone)
              /\ t \notin disturbed /\ sess'[t].proto = "imap" => Truthful(sess'[t], box'),
           Onward(r.msg), CopyCounted(r.msg)
    PROVE  AccessInv'
<1> DEFINE m == r.msg
           u == uidNext[g]
<1>0. /\ BoxOK(box, uidNext, arrived) /\ arrived \subseteq arrived' /\ m \in arrived'
      /\ Gone' = Gone
    BY TypeParts DEF AccessInv, Gone
<1>1. /\ BoxOK(box', uidNext', arrived')
      /\ Stable(box, uidNext, box', uidNext')
      /\ u \notin DOMAIN box[g]
      /\ DOMAIN box'[g] = DOMAIN box[g] \cup {u}
      /\ box'[g][u] = r
      /\ \A x \in DOMAIN box[g] : box'[g][x] = box[g][x]
      /\ \A h \in Folders \ {g} : box'[h] = box[h]
    BY <1>0, GrowBox
<1>2. \A h \in Folders : SameNumbers(box[h], box'[h])
    BY <1>0, GrowNumbers
<1>3. \A h \in Folders : \A x \in DOMAIN box[h] :
         x \in DOMAIN box'[h] /\ box'[h][x] = box[h][x]
    BY <1>1
<1>4. ASSUME NEW h \in Folders, NEW x \in DOMAIN box'[h]
      PROVE  \/ x \in DOMAIN box[h] /\ box'[h][x] = box[h][x]
             \/ h = g /\ x = u
    BY <1>1
<1>5. \A h \in Folders : \A x \in DOMAIN box'[h] :
         \/ x \in DOMAIN box[h] /\ box'[h][x] = box[h][x]
         \/ box'[h][x].deleted => box'[h][x].msg \in Gone'
    BY <1>0, <1>1, <1>4
<1>6. KeptOK'
  <2> SUFFICES ASSUME NEW n \in arrived' \ Gone'
               PROVE  \E h \in Folders : \E x \in DOMAIN box'[h] :
                         box'[h][x].msg = n /\ ~Doomed(h, x, sess')
      BY DEF KeptOK
  <2>1. CASE n = m
    <3>1. ~Doomed(g, u, sess')
        BY NewNotDoomed DEF Onward
    <3> QED
        BY <1>1, <2>1, <3>1
  <2>2. CASE n # m
    <3>1. n \in arrived \ Gone
        BY <1>0, <2>2
    <3>2. PICK h \in Folders : \E x \in DOMAIN box[h] :
             box[h][x].msg = n /\ ~Doomed(h, x, sess)
        BY <3>1 DEF AccessInv, KeptOK
    <3>3. PICK x \in DOMAIN box[h] : box[h][x].msg = n /\ ~Doomed(h, x, sess)
        BY <3>2
    <3>4. ~Doomed(h, x, sess')
        BY <2>2, <3>3 DEF Onward
    <3> QED
        BY <1>3, <3>3, <3>4
  <2> QED
      BY <2>1, <2>2
<1>7. DoublingOK'
  <2> SUFFICES ASSUME NEW n \in Messages \ doubled'
               PROVE  Cardinality(RowsOf(box', n)) <= 1 + Cardinality(Movers(n, sess'))
      BY DEF DoublingOK
  <2>1. Movers(n, sess) \subseteq Movers(n, sess')
      BY DEF Onward
  <2>2. /\ IsFiniteSet(RowsOf(box, n)) /\ Cardinality(RowsOf(box, n)) \in Nat
        /\ IsFiniteSet(Movers(n, sess')) /\ IsFiniteSet(Movers(n, sess))
        /\ Cardinality(Movers(n, sess')) \in Nat /\ Cardinality(Movers(n, sess)) \in Nat
        /\ Cardinality(Movers(n, sess)) <= Cardinality(Movers(n, sess'))
      BY <1>0, <2>1, RowsFinite, MoversFinite, FS_CardinalityType, FS_Subset
  <2>3. Cardinality(RowsOf(box, n)) <= 1 + Cardinality(Movers(n, sess))
      BY DEF AccessInv, DoublingOK
  <2>4. RowsOf(box', n) \subseteq RowsOf(box, n) \cup {<<g, u>>}
    <3> SUFFICES ASSUME NEW c \in RowsOf(box', n)
                 PROVE  c \in RowsOf(box, n) \cup {<<g, u>>}
        OBVIOUS
    <3>1. PICK h \in Folders : \E x \in DOMAIN box'[h] :
             c = <<h, x>> /\ box'[h][x].msg = n
        BY RowsArePairs
    <3>2. PICK x \in DOMAIN box'[h] : c = <<h, x>> /\ box'[h][x].msg = n
        BY <3>1
    <3>3. CASE h = g /\ x = u
        BY <3>2, <3>3
    <3>4. CASE x \in DOMAIN box[h] /\ box'[h][x] = box[h][x]
      <4>1. box[h][x].msg = n
          BY <3>2, <3>4
      <4>2. <<h, x>> \in RowsOf(box, n)
          BY <3>4, <4>1, RowsAre
      <4> QED
          BY <3>2, <4>2
    <3> QED
        BY <1>4, <3>3, <3>4
  <2>5. /\ IsFiniteSet(RowsOf(box', n))
        /\ Cardinality(RowsOf(box', n)) <= Cardinality(RowsOf(box, n)) + 1
      BY <2>2, <2>4, OneMore
  <2>6. Cardinality(RowsOf(box', n)) \in Nat
      BY <2>5, FS_CardinalityType
  <2>7. CASE n # m
    <3>0. box'[g][u].msg = m
        BY <1>1
    <3>1. <<g, u>> \notin RowsOf(box', n)
      <4> HIDE DEF u, m
      <4>1. <<g, u>> \in RowsOf(box', n) => box'[g][u].msg = n
          BY DEF RowsOf
      <4> QED
          BY <2>7, <3>0, <4>1
    <3>2. RowsOf(box', n) \subseteq RowsOf(box, n)
        BY <2>4, <3>1
    <3>3. Cardinality(RowsOf(box', n)) <= Cardinality(RowsOf(box, n))
        BY <2>2, <3>2, FS_Subset
    <3> QED
        BY <2>2, <2>3, <2>6, <3>3
  <2>8. CASE n = m /\ RowsOf(box, m) = {}
    <3>1. Cardinality(RowsOf(box, n)) = 0
        BY <2>8, FS_EmptySet
    <3> QED
        BY <2>2, <2>5, <2>6, <3>1
  <2>9. CASE n = m /\ \E t \in Sessions : t \in Movers(m, sess') \ Movers(m, sess)
    <3>1. PICK t \in Movers(n, sess') : t \notin Movers(n, sess)
        BY <2>9
    <3>2. Cardinality(Movers(n, sess)) + 1 <= Cardinality(Movers(n, sess'))
        BY <2>1, <2>2, <3>1, OneLess
    <3> QED
        BY <2>2, <2>3, <2>5, <2>6, <3>2
  <2> QED
      BY <2>7, <2>8, <2>9 DEF CopyCounted
<1>8. slips' \subseteq disturbed' /\ disturbed \subseteq disturbed' /\ Gone \subseteq Gone'
    BY <1>0 DEF AccessInv, NumbersOK
<1>9. \A t \in X \cap Sessions :
         /\ ConnOK(sess'[t], box', uidNext', Gone')
         /\ t \notin disturbed' /\ sess'[t].proto = "imap" => Truthful(sess'[t], box')
    BY <1>0
<1>10. \A t \in Sessions \ (X \cup disturbed') :
         sess[t].proto = "imap" /\ sess[t].sel \in Folders
           => SameNumbers(box[sess[t].sel], box'[sess[t].sel])
    BY <1>2
<1> HIDE DEF m, u
<1> QED
    BY <1>1, <1>5, <1>6, <1>7, <1>8, <1>9, <1>10, StoreChanges

\* A message arrives.
LEMMA DeliverKeeps ==
    ASSUME AccessInv, NEW m \in Messages, Deliver(m)
    PROVE  AccessInv'
<1> DEFINE r == [msg |-> m, deleted |-> FALSE]
<1>0. /\ OthersOK /\ sess \in [Sessions -> Conn] /\ BoxOK(box, uidNext, arrived)
      /\ Inbox \in Folders
    BY TypeParts DEF AccessInv, Folders
<1>1. /\ Counted /\ m \notin arrived /\ arrived' = arrived \cup {m}
      /\ GrownTo(box, uidNext, Inbox, r, box', uidNext')
      /\ sess' = Announced(Inbox, {})
      /\ UNCHANGED <<present, faults, asked, doubled, disturbed, slips, mistaken>>
    BY DEF Deliver, GrownTo
<1>2. r \in Row /\ r.msg = m /\ r.deleted = FALSE
    BY DEF Row
<1> HIDE DEF r
<1>3. /\ sess' \in [Sessions -> Conn]
      /\ \A t \in Sessions : /\ SameButQueue(sess'[t], sess[t])
                             /\ Quiet(sess[t].queue) => Quiet(sess'[t].queue)
  <2>1. {} \in SUBSET Nat
      OBVIOUS
  <2> QED
      BY <1>0, <1>1, <2>1, AnnouncedConns
<1>4. \A t \in Sessions : sess'[t].work = sess[t].work /\ sess'[t].sel = sess[t].sel
    BY <1>3 DEF SameButQueue
<1>5. Onward(m)
    BY <1>4 DEF Onward, Doomed, Movers
<1>6. CopyCounted(m)
  <2>1. RowsOf(box, m) = {}
    <3> SUFFICES ASSUME NEW c \in RowsOf(box, m) PROVE FALSE
        OBVIOUS
    <3>1. PICK f \in Folders : \E u \in DOMAIN box[f] : box[f][u].msg = m
        BY RowsArePairs
    <3> QED
        BY <1>0, <1>1, <3>1 DEF BoxOK
  <2> QED
      BY <2>1 DEF CopyCounted
<1>7. OthersOK' /\ doubled \subseteq doubled'
    BY <1>0, <1>1 DEF OthersOK, Counted
<1>8. /\ \A t \in Sessions \ {} : /\ SameButQueue(sess'[t], sess[t])
                                  /\ Quiet(sess[t].queue) => Quiet(sess'[t].queue)
      /\ \A t \in {} \cap Sessions :
           /\ ConnOK(sess'[t], box', uidNext', Gone)
           /\ t \notin disturbed /\ sess'[t].proto = "imap" => Truthful(sess'[t], box')
    BY <1>3
<1> QED
    BY <1>0, <1>1, <1>2, <1>3, <1>5, <1>6, <1>7, <1>8, GrowKeeps

\* A copy, by itself or as the first half of a MOVE.
LEMMA CopyWriteKeeps ==
    ASSUME AccessInv, NEW s \in Sessions, CopyWrite(s)
    PROVE  AccessInv'
<1> DEFINE f == sess[s].sel
           work == sess[s].work
           g == work.dest
<1>0. /\ OthersOK /\ sess \in [Sessions -> Conn] /\ BoxOK(box, uidNext, arrived)
      /\ sess[s] \in Conn /\ ConnOK(sess[s], box, uidNext, Gone)
    BY TypeParts DEF AccessInv, ConnsOK
<1>1. sess[s].pc = "copy" /\ UNCHANGED <<present, ops, faults, arrived, asked,
                                         disturbed, slips, mistaken>>
    BY DEF CopyWrite
<1>2. /\ sess[s].proto = "imap" /\ f \in Folders /\ g \in Folders
      /\ work \in Work /\ work.move \in BOOLEAN
      /\ work.moving \in SUBSET Messages /\ work.uids \in SUBSET Nat
      /\ work.left \in SUBSET Nat
      /\ work.moving = {} => work.uids = {}
      /\ ~work.move => work.moving = {}
    BY <1>0, <1>1 DEF ConnOK, CommandOK, MovingOK, PC, Conn, Work
<1>3. PICK u \in Due(s) \cap DOMAIN box[f] :
         LET m    == box[f][u].msg
             last == work.left = {u}
             all  == IF last THEN Announced(g, {}) ELSE sess
             on   == [all[s] EXCEPT !.pc = IF last THEN "moveRead" ELSE @,
                                    !.work = Copied(work, u, m)]
         IN  /\ box' = [box EXCEPT ![g] = Appended(@, uidNext[g], box[f][u])]
             /\ sess' = [all EXCEPT ![s] = IF last /\ ~work.move
                                           THEN Polled(all[s], TRUE) ELSE on]
             /\ doubled' = IF work.move /\ m \notin work.moving
                           THEN doubled ELSE doubled \cup {m}
    BY Zenon DEF CopyWrite
<1> DEFINE r == box[f][u]
           m == r.msg
           last == work.left = {u}
           all == IF last THEN Announced(g, {}) ELSE sess
           w == Copied(work, u, m)
           half == [all[s] EXCEPT !.pc = IF last THEN "moveRead" ELSE @,
                                  !.work = w]
           end == Polled(all[s], TRUE)
           c == IF last /\ ~work.move THEN end ELSE half
<1>4. GrownTo(box, uidNext, g, r, box', uidNext')
    BY <1>3 DEF CopyWrite, GrownTo
<1>5. /\ r \in Row /\ m \in arrived /\ m \in Messages /\ r.msg = m
      /\ r.deleted => m \in Gone
    BY <1>0, <1>2, <1>3 DEF BoxOK, OthersOK, AccessInv, FlaggedOK
<1>6. /\ all \in [Sessions -> Conn]
      /\ \A t \in Sessions : /\ SameButQueue(all[t], sess[t])
                             /\ Quiet(sess[t].queue) => Quiet(all[t].queue)
  <2>1. {} \in SUBSET Nat
      OBVIOUS
  <2>2. CASE last
      BY <1>0, <1>2, <2>1, <2>2, AnnouncedConns
  <2>3. CASE ~last
      BY <1>0, <2>3 DEF SameButQueue
  <2> QED
      BY <2>2, <2>3
<1>7. /\ sess' = [all EXCEPT ![s] = c]
      /\ doubled' = IF work.move /\ m \notin work.moving
                    THEN doubled ELSE doubled \cup {m}
    BY <1>3, Zenon
<1> HIDE DEF all
<1>8. /\ all[s] \in Conn /\ all[s].work = work /\ all[s].sel = f
      /\ all[s].proto = "imap" /\ all[s].view = sess[s].view
      /\ all[s].pc = "copy"
    BY <1>1, <1>2, <1>6 DEF SameButQueue
<1>9. /\ BoxOK(box', uidNext', arrived') /\ Stable(box, uidNext, box', uidNext')
      /\ \A h \in Folders : SameNumbers(box[h], box'[h])
    BY <1>0, <1>1, <1>2, <1>4, <1>5, GrowBox, GrowNumbers
<1>10. u \in work.left /\ u \in Nat /\ u \in DOMAIN box[f]
    BY <1>2, <1>3 DEF Due
<1> HIDE DEF r, m, last
<1>11. s \notin disturbed => Truthful(all[s], box')
  <2>1. s \notin disturbed => Truthful(sess[s], box)
      BY <1>2 DEF AccessInv, NumbersOK
  <2> QED
      BY <1>2, <1>6, <1>9, <2>1, TruthStays
<1>12a. /\ w \in Work /\ w.dest = g /\ w.move = work.move /\ w.left \subseteq work.left
        /\ work.move => w.moving = work.moving \cup {m} /\ w.uids = work.uids \cup {u}
        /\ ~work.move => w.moving = work.moving /\ w.uids = work.uids
  <2>1. work.moving \cup {m} \in SUBSET Messages /\ work.uids \cup {u} \in SUBSET Nat
        /\ work.left \ {u} \in SUBSET Nat
      BY <1>2, <1>5, <1>10
  <2> QED
      BY <1>2, <2>1 DEF Work, Copied
<1> HIDE DEF w
<1>12. ASSUME ~(last /\ ~work.move)
       PROVE  /\ half \in Conn /\ half.work = w /\ half.sel = f
              /\ ConnOK(half, box', uidNext', Gone)
              /\ s \notin disturbed => Truthful(half, box')
  <2>1. /\ half \in Conn /\ half.work = w
        /\ half.pc = IF last THEN "moveRead" ELSE "copy"
        /\ half.sel = f /\ half.proto = "imap"
        /\ half.view = all[s].view /\ half.queue = all[s].queue
      BY <1>8, <1>12a DEF Conn, PC
  <2> HIDE DEF half
  <2>2. CommandOK(half, uidNext')
    <3>1. uidNext[f] <= uidNext'[f] /\ uidNext[f] \in Nat /\ uidNext'[f] \in Nat
        BY <1>0, <1>2, <1>9 DEF Stable, BoxOK
    <3>2. ASSUME NEW x \in w.uids \cup w.left
          PROVE  x < uidNext'[f]
      <4>1. x \in work.uids \cup work.left
          BY <1>10, <1>12a, <3>2
      <4>2. x < uidNext[f] /\ x \in Nat
          BY <1>0, <1>2, <4>1 DEF ConnOK, CommandOK
      <4> QED
          BY <3>1, <4>2
    <3> QED
        BY <1>2, <1>12a, <2>1, <3>2 DEF CommandOK, PC
  <2>3. MovingOK(half)
      BY <1>2, <1>12, <1>12a, <2>1 DEF MovingOK
  <2>4. RemovalOK(half, box', Gone) /\ ListOK(half, box', uidNext')
      BY <2>1 DEF RemovalOK, ListOK
  <2>5. Truthful(all[s], box') => Truthful(half, box')
      BY <1>8, <2>1 DEF Truthful
  <2> QED
      BY <1>11, <2>1, <2>2, <2>3, <2>4, <2>5 DEF ConnOK
<1>13. /\ end \in Conn /\ end.work.moving = {}
       /\ ConnOK(end, box', uidNext', Gone)
       /\ s \notin disturbed => Truthful(end, box')
  <2>1. \A b, nx, gone : /\ ConnOK(end, b, nx, gone) /\ end.work.moving = {}
                         /\ Truthful(all[s], b) => Truthful(end, b)
      BY <1>8, PolledIsOK
  <2>2. /\ ConnOK(end, box', uidNext', Gone) /\ end.work.moving = {}
        /\ Truthful(all[s], box') => Truthful(end, box')
      BY <2>1
  <2> QED
      BY <1>8, <1>11, <2>2, PolledConn
<1> HIDE DEF half, end
<1>14. /\ c \in Conn /\ ConnOK(c, box', uidNext', Gone)
       /\ s \notin disturbed => Truthful(c, box')
       /\ c.work.moving # {} =>
            /\ c.sel = f /\ c.work.uids \subseteq work.uids \cup {u}
            /\ work.moving = {} => c.work.uids \subseteq {u}
       /\ work.moving \subseteq c.work.moving
       /\ work.move => m \in c.work.moving
  <2>1. CASE last /\ ~work.move
      BY <1>2, <1>13, <2>1
  <2>2. CASE ~(last /\ ~work.move)
      BY <1>2, <1>12, <1>12a, <2>2
  <2> QED
      BY <2>1, <2>2
<1> HIDE DEF c
<1>15. /\ sess' \in [Sessions -> Conn] /\ sess'[s] = c
       /\ \A t \in Sessions \ {s} : sess'[t] = all[t]
    BY <1>6, <1>7, <1>14
<1>16. \A t \in Sessions \ {s} : /\ SameButQueue(sess'[t], sess[t])
                                 /\ Quiet(sess[t].queue) => Quiet(sess'[t].queue)
    BY <1>6, <1>15
<1>17. \A t \in Sessions \ {s} :
          sess'[t].work = sess[t].work /\ sess'[t].sel = sess[t].sel
    BY <1>16 DEF SameButQueue
<1>18. Onward(m)
  <2>1. \A t \in Sessions : sess'[t].work.moving # {} =>
           /\ sess'[t].sel = sess[t].sel
           /\ sess'[t].work.uids \subseteq sess[t].work.uids \cup sess[t].work.left
      BY <1>10, <1>14, <1>15, <1>17
  <2>2. ASSUME NEW h \in Folders, NEW v \in DOMAIN box[h], Doomed(h, v, sess'),
               ~Doomed(h, v, sess)
        PROVE  box[h][v].msg = m
    <3>1. PICK t \in Sessions : /\ sess'[t].work.moving # {} /\ sess'[t].sel = h
                                /\ v \in sess'[t].work.uids
        BY <2>2 DEF Doomed
    <3>2. t = s
        BY <1>17, <2>2, <3>1 DEF Doomed
    <3>3. h = f /\ v \in c.work.uids /\ c.work.moving # {}
        BY <1>14, <1>15, <3>1, <3>2
    <3>4. v \notin work.uids \/ work.moving = {}
        BY <2>2, <3>3 DEF Doomed
    <3>5. v = u
        BY <1>14, <3>3, <3>4
    <3> QED
        BY <3>3, <3>5 DEF m, r
  <2>3. \A n \in Messages : Movers(n, sess) \subseteq Movers(n, sess')
    <3> SUFFICES ASSUME NEW n \in Messages, NEW t \in Movers(n, sess)
                 PROVE  t \in Movers(n, sess')
        OBVIOUS
    <3>1. t \in Sessions /\ n \in sess[t].work.moving
        BY DEF Movers
    <3>2. n \in sess'[t].work.moving
        BY <1>14, <1>15, <1>17, <3>1
    <3> QED
        BY <3>1, <3>2 DEF Movers
  <2> QED
      BY <2>1, <2>2, <2>3 DEF Onward
<1>19. CopyCounted(m)
  <2>1. CASE work.move
      BY <1>7, <1>14, <1>15, <2>1 DEF CopyCounted, Movers
  <2>2. CASE ~work.move
      BY <1>7, <2>2 DEF CopyCounted
  <2> QED
      BY <2>1, <2>2
<1>20. OthersOK' /\ doubled \subseteq doubled'
    BY <1>0, <1>1, <1>5, <1>7 DEF OthersOK
<1>21. \A t \in {s} \cap Sessions :
          /\ ConnOK(sess'[t], box', uidNext', Gone)
          /\ t \notin disturbed /\ sess'[t].proto = "imap" => Truthful(sess'[t], box')
    BY <1>14, <1>15
<1>22. /\ arrived' = arrived \cup {r.msg} /\ UNCHANGED <<asked, mistaken, disturbed, slips>>
       /\ r.deleted => r.msg \in Gone
       /\ Onward(r.msg) /\ CopyCounted(r.msg)
    BY <1>1, <1>5, <1>18, <1>19
<1> QED
    BY <1>2, <1>4, <1>5, <1>15, <1>16, <1>20, <1>21, <1>22, GrowKeeps

\* The webmail's move: a row goes from one folder to the end of another in one
\* transaction.
LEMMA MoveIntoKeeps ==
    ASSUME AccessInv, NEW f \in Folders, NEW g \in Folders, f # g,
           NEW u \in DOMAIN box[f], MoveInto(f, u, g), OthersOK',
           UNCHANGED <<sess, arrived, asked, doubled, slips, mistaken>>
    PROVE  AccessInv'
<1> DEFINE r == box[f][u]
           cut == [box EXCEPT ![f] = Without(@, {u})]
           new == uidNext[g]
<1>0. /\ OthersOK /\ sess \in [Sessions -> Conn] /\ BoxOK(box, uidNext, arrived)
      /\ Gone' = Gone
    BY TypeParts DEF AccessInv, Gone
<1>1. /\ box' = [box EXCEPT ![f] = Without(@, {u}), ![g] = Appended(@, new, r)]
      /\ uidNext' = [uidNext EXCEPT ![g] = @ + 1]
      /\ disturbed' = disturbed \cup Watchers(f)
    BY DEF MoveInto, Disturb
<1>2. CutTo(box, f, {u}, cut)
    BY DEF CutTo
<1>3. GrownTo(cut, uidNext, g, r, box', uidNext')
  <2>1. box' = [cut EXCEPT ![g] = Appended(@, new, r)]
      BY <1>1
  <2> HIDE DEF cut, r
  <2> QED
      BY <1>1, <2>1 DEF GrownTo
<1>4. r \in Row /\ r.msg \in arrived /\ (r.deleted => r.msg \in Gone)
    BY <1>0 DEF BoxOK, AccessInv, FlaggedOK
<1> HIDE DEF cut
<1>5. /\ BoxOK(cut, uidNext, arrived) /\ Stable(box, uidNext, cut, uidNext)
      /\ Fewer(box, cut) /\ DOMAIN cut[f] = DOMAIN box[f] \ {u}
      /\ \A x \in DOMAIN cut[f] : cut[f][x] = box[f][x]
      /\ \A h \in Folders \ {f} : cut[h] = box[h]
    BY <1>0, <1>2, CutBox
<1> HIDE DEF r
<1>6. /\ BoxOK(box', uidNext', arrived') /\ Stable(cut, uidNext, box', uidNext')
      /\ new \notin DOMAIN cut[g]
      /\ DOMAIN box'[g] = DOMAIN cut[g] \cup {new}
      /\ box'[g][new] = r
      /\ \A x \in DOMAIN cut[g] : box'[g][x] = cut[g][x]
      /\ \A h \in Folders \ {g} : box'[h] = cut[h]
    BY <1>3, <1>4, <1>5, GrowBox
<1>7. Stable(box, uidNext, box', uidNext')
  <2> SUFFICES ASSUME NEW h \in Folders
               PROVE  /\ uidNext[h] <= uidNext'[h]
                      /\ \A x \in DOMAIN box'[h] : x < uidNext[h] =>
                           x \in DOMAIN box[h] /\ box'[h][x].msg = box[h][x].msg
      BY DEF Stable
  <2>1. uidNext[h] <= uidNext'[h]
      BY <1>6 DEF Stable
  <2>2. ASSUME NEW x \in DOMAIN box'[h], x < uidNext[h]
        PROVE  x \in DOMAIN box[h] /\ box'[h][x].msg = box[h][x].msg
    <3>1. x \in DOMAIN cut[h] /\ box'[h][x].msg = cut[h][x].msg
        BY <1>6, <2>2 DEF Stable
    <3> QED
        BY <1>5, <3>1 DEF Fewer
  <2> QED
      BY <2>1, <2>2
<1>8. ASSUME NEW h \in Folders, NEW x \in DOMAIN box[h], ~(h = f /\ x = u)
      PROVE  x \in DOMAIN box'[h] /\ box'[h][x] = box[h][x]
  <2>1. x \in DOMAIN cut[h] /\ cut[h][x] = box[h][x]
      BY <1>5, <1>8
  <2> QED
      BY <1>6, <2>1
<1>9. ASSUME NEW h \in Folders, NEW x \in DOMAIN box'[h], ~(h = g /\ x = new)
      PROVE  /\ x \in DOMAIN box[h] /\ box'[h][x] = box[h][x]
             /\ ~(h = f /\ x = u)
  <2>1. x \in DOMAIN cut[h] /\ box'[h][x] = cut[h][x]
      BY <1>6, <1>9
  <2> QED
      BY <1>5, <2>1
<1>10. \A h \in Folders : \A x \in DOMAIN box'[h] :
          \/ x \in DOMAIN box[h] /\ box'[h][x] = box[h][x]
          \/ box'[h][x].deleted => box'[h][x].msg \in Gone'
    BY <1>0, <1>4, <1>6, <1>9
<1>11. ASSUME NEW t \in Sessions \ ({} \cup disturbed'),
              sess[t].proto = "imap", sess[t].sel \in Folders
       PROVE  SameNumbers(box[sess[t].sel], box'[sess[t].sel])
  <2>1. sess[t].sel # f
      BY <1>1, <1>11 DEF Watchers
  <2>2. cut[sess[t].sel] = box[sess[t].sel]
      BY <1>5, <1>11, <2>1
  <2>3. SameNumbers(cut[sess[t].sel], box'[sess[t].sel])
      BY <1>3, <1>4, <1>5, <1>11, GrowNumbers
  <2> QED
      BY <2>2, <2>3
<1>12. KeptOK'
  <2>1. ~Doomed(g, new, sess')
      BY NewNotDoomed
  <2>2. ASSUME NEW h \in Folders, NEW x \in DOMAIN box[h],
               ~Doomed(h, x, sess), box[h][x].msg \notin Gone'
        PROVE  \E k \in Folders : \E v \in DOMAIN box'[k] :
                  box'[k][v].msg = box[h][x].msg /\ ~Doomed(k, v, sess')
    <3>1. CASE h = f /\ x = u
      <4>1. new \in DOMAIN box'[g] /\ box'[g][new].msg = box[h][x].msg
          BY <1>6, <3>1 DEF r
      <4> QED
          BY <2>1, <4>1
    <3>2. CASE ~(h = f /\ x = u)
      <4>1. x \in DOMAIN box'[h] /\ box'[h][x].msg = box[h][x].msg
          BY <1>8, <3>2
      <4>2. ~Doomed(h, x, sess')
          BY <2>2
      <4> QED
          BY <4>1, <4>2
    <3> QED
        BY <3>1, <3>2
  <2>3. KeptOK /\ arrived' = arrived /\ Gone \subseteq Gone'
      BY <1>0 DEF AccessInv
  <2> QED
      BY <2>2, <2>3, KeptStays
<1>13. DoublingOK'
  <2> SUFFICES ASSUME NEW n \in Messages \ doubled'
               PROVE  Cardinality(RowsOf(box', n)) <= 1 + Cardinality(Movers(n, sess))
      BY DEF DoublingOK
  <2>1. /\ IsFiniteSet(RowsOf(box, n)) /\ Cardinality(RowsOf(box, n)) \in Nat
        /\ Cardinality(Movers(n, sess)) \in Nat
      BY <1>0, RowsFinite, MoversFinite, FS_CardinalityType
  <2>2. Cardinality(RowsOf(box, n)) <= 1 + Cardinality(Movers(n, sess))
      BY DEF AccessInv, DoublingOK
  <2>3. ASSUME NEW c \in RowsOf(box', n)
        PROVE  \/ c \in RowsOf(box, n) \ {<<f, u>>}
               \/ c = <<g, new>> /\ n = r.msg
    <3>1. PICK h \in Folders : \E x \in DOMAIN box'[h] :
             c = <<h, x>> /\ box'[h][x].msg = n
        BY RowsArePairs
    <3>2. PICK x \in DOMAIN box'[h] : c = <<h, x>> /\ box'[h][x].msg = n
        BY <3>1
    <3>3. CASE h = g /\ x = new
        BY <1>6, <3>2, <3>3
    <3>4. CASE ~(h = g /\ x = new)
      <4>1. x \in DOMAIN box[h] /\ box[h][x].msg = n /\ ~(h = f /\ x = u)
          BY <1>9, <3>2, <3>4
      <4>2. <<h, x>> \in RowsOf(box, n)
          BY <4>1, RowsAre
      <4>3. <<h, x>> # <<f, u>>
          BY <4>1
      <4> QED
          BY <3>2, <4>2, <4>3
    <3> QED
        BY <3>3, <3>4
  <2>4. /\ IsFiniteSet(RowsOf(box', n))
        /\ Cardinality(RowsOf(box', n)) <= Cardinality(RowsOf(box, n))
    <3>1. CASE n = r.msg
      <4>1. <<f, u>> \in RowsOf(box, n)
          BY <3>1, RowsAre DEF r
      <4>2. RowsOf(box', n) \subseteq (RowsOf(box, n) \ {<<f, u>>}) \cup {<<g, new>>}
          BY <2>3
      <4> QED
          BY <2>1, <4>1, <4>2, SwapSize
    <3>2. CASE n # r.msg
      <4>1. RowsOf(box', n) \subseteq RowsOf(box, n)
          BY <2>3, <3>2
      <4> QED
          BY <2>1, <4>1, FS_Subset
    <3> QED
        BY <3>1, <3>2
  <2>5. Cardinality(RowsOf(box', n)) \in Nat
      BY <2>4, FS_CardinalityType
  <2> QED
      BY <2>1, <2>2, <2>4, <2>5
<1>14. /\ slips' \subseteq disturbed' /\ disturbed \subseteq disturbed'
       /\ Gone \subseteq Gone' /\ sess' \in [Sessions -> Conn]
    BY <1>0, <1>1 DEF AccessInv, NumbersOK
<1>15. /\ \A t \in Sessions \ {} : /\ SameButQueue(sess'[t], sess[t])
                                   /\ Quiet(sess[t].queue) => Quiet(sess'[t].queue)
       /\ \A t \in {} \cap Sessions :
            /\ ConnOK(sess'[t], box', uidNext', Gone')
            /\ t \notin disturbed' /\ sess'[t].proto = "imap" => Truthful(sess'[t], box')
    BY DEF SameButQueue
<1> HIDE DEF new
<1> QED
    BY <1>6, <1>7, <1>10, <1>11, <1>12, <1>13, <1>14, <1>15, StoreChanges

\* The webmail's steps.
LEMMA WebmailKeeps ==
    ASSUME AccessInv, WebmailStep
    PROVE  AccessInv'
<1>0. OthersOK /\ present \subseteq Folders /\ Trash \in Folders /\ Own \in Folders
    BY TypeParts DEF AccessInv, OthersOK, Folders
<1>1. ASSUME NEW f \in present, WebMove(f)
      PROVE  AccessInv'
  <2>1. PICK g \in present \ {f}, u \in DOMAIN box[f] : MoveInto(f, u, g)
      BY <1>1 DEF WebMove
  <2>2. /\ UNCHANGED <<sess, arrived, asked, doubled, slips, mistaken>>
        /\ OthersOK'
    <3>1. disturbed' \subseteq Sessions
        BY <1>0, <2>1 DEF MoveInto, Disturb, Watchers, OthersOK
    <3>2. Counted /\ UNCHANGED <<present, sess, faults, arrived, asked, doubled, slips,
                                 mistaken>>
        BY <1>1 DEF WebMove
    <3> QED
        BY <1>0, <3>1, <3>2 DEF Counted, OthersOK
  <2> QED
      BY <1>0, <2>1, <2>2, MoveIntoKeeps
<1>2. ASSUME NEW f \in present, WebDelete(f)
      PROVE  AccessInv'
  <2>1. PICK u \in DOMAIN box[f] :
          \/ f # Trash /\ MoveInto(f, u, Trash) /\ UNCHANGED asked
          \/ /\ f = Trash
             /\ box' = [box EXCEPT ![f] = Without(@, {u})]
             /\ Disturb(f)
             /\ asked' = asked \cup {box[f][u].msg}
             /\ UNCHANGED uidNext
      BY <1>2 DEF WebDelete
  <2>2. Counted /\ UNCHANGED <<present, sess, faults, arrived, doubled, slips, mistaken>>
      BY <1>2 DEF WebDelete
  <2>3. CASE f # Trash /\ MoveInto(f, u, Trash) /\ UNCHANGED asked
    <3>1. disturbed' \subseteq Sessions
        BY <1>0, <2>3 DEF MoveInto, Disturb, Watchers, OthersOK
    <3>2. OthersOK'
        BY <1>0, <2>2, <2>3, <3>1 DEF Counted, OthersOK
    <3> QED
        BY <1>0, <2>2, <2>3, <3>2, MoveIntoKeeps
  <2>4. CASE /\ f = Trash
             /\ box' = [box EXCEPT ![f] = Without(@, {u})]
             /\ Disturb(f)
             /\ asked' = asked \cup {box[f][u].msg}
             /\ UNCHANGED uidNext
    <3>1. CutTo(box, f, {u}, box') /\ disturbed' = disturbed \cup Watchers(f)
        BY <2>4 DEF CutTo, Disturb
    <3>2. asked' = asked \cup {box[f][x].msg : x \in {u}}
        BY <2>4
    <3> QED
        BY <1>0, <2>2, <2>4, <3>1, <3>2, WebRemoveKeeps
  <2> QED
      BY <2>1, <2>3, <2>4
<1>3. ASSUME WebDeleteFolder
      PROVE  AccessInv'
  <2>1. CutTo(box, Own, DOMAIN box[Own], box')
      BY <1>3 DEF WebDeleteFolder, CutTo
  <2>2. /\ disturbed' = disturbed \cup Watchers(Own)
        /\ asked' = asked \cup {box[Own][u].msg : u \in DOMAIN box[Own]}
        /\ present' \subseteq present /\ Counted
        /\ UNCHANGED <<uidNext, sess, faults, arrived, doubled, slips, mistaken>>
      BY <1>3 DEF WebDeleteFolder, Disturb
  <2> QED
      BY <1>0, <2>1, <2>2, WebRemoveKeeps
<1> QED
    BY <1>1, <1>2, <1>3 DEF WebmailStep

-----------------------------------------------------------------------------
(***************************************************************************)
(* The theorems.                                                           *)
(***************************************************************************)

\* The mail that is there at the start is in the inbox, each message once.
LEMMA AccessStarts ==
    ASSUME Init
    PROVE  AccessInv
<1>0. /\ Inbox \in Folders /\ Arrived \in Seq(Messages) /\ Len(Arrived) \in Nat
      /\ DOMAIN Arrived = 1..Len(Arrived)
      /\ \A i \in 1..Len(Arrived) : Arrived[i] \in Messages
      /\ arrived = {Arrived[i] : i \in 1..Len(Arrived)}
    BY SessionsAssumption DEF Folders, Init, ToSet
<1>1. \A f \in Folders : /\ box[f] = [i \in 1..AtStart(f) |->
                                        [msg |-> Arrived[i], deleted |-> FALSE]]
                         /\ uidNext[f] = AtStart(f) + 1
    BY DEF Init
<1>2. \A f \in Folders : /\ AtStart(f) \in Nat
                         /\ f # Inbox => AtStart(f) = 0
                         /\ f = Inbox => AtStart(f) = Len(Arrived)
    BY <1>0 DEF AtStart
<1>3. \A f \in Folders : DOMAIN box[f] = 1..AtStart(f)
    BY <1>1
<1>4. ASSUME NEW f \in Folders, NEW u \in DOMAIN box[f]
      PROVE  /\ f = Inbox /\ u \in 1..Len(Arrived)
             /\ box[f][u].msg = Arrived[u] /\ box[f][u].deleted = FALSE
             /\ box[f][u] \in Row
  <2>1. u \in 1..AtStart(f)
      BY <1>3
  <2>2. f = Inbox
      BY <1>2, <2>1
  <2>3. u \in 1..Len(Arrived) /\ box[f][u] = [msg |-> Arrived[u], deleted |-> FALSE]
      BY <1>1, <1>2, <2>1, <2>2
  <2> QED
      BY <1>0, <2>2, <2>3 DEF Row
<1>5. TypeOK
  <2>1. OnFolders(box)
      BY DEF Init, OnFolders
  <2>2. uidNext \in [Folders -> Nat \ {0}]
    <3>1. uidNext = [f \in Folders |-> AtStart(f) + 1]
        BY DEF Init
    <3>2. \A f \in Folders : AtStart(f) + 1 \in Nat \ {0}
        BY <1>2
    <3> QED
        BY <3>1, <3>2
  <2>3. ASSUME NEW f \in Folders
        PROVE  /\ box[f] \in [DOMAIN box[f] -> Row]
               /\ \A u \in DOMAIN box[f] : u \in 1..uidNext[f] - 1 /\ box[f][u].msg \in arrived
    <3>1. box[f] \in [DOMAIN box[f] -> Row]
        BY <1>1, <1>4
    <3>2. \A u \in DOMAIN box[f] : box[f][u].msg \in arrived
        BY <1>0, <1>4
    <3>3. \A u \in DOMAIN box[f] : u \in 1..uidNext[f] - 1
      <4>1. AtStart(f) \in Nat /\ uidNext[f] = AtStart(f) + 1
          BY <1>1, <1>2
      <4>2. uidNext[f] - 1 = AtStart(f)
          BY <4>1
      <4> QED
          BY <1>3, <4>2
    <3> QED
        BY <3>1, <3>2, <3>3
  <2>4. BoxOK(box, uidNext, arrived)
    <3> HIDE DEF Folders
    <3> QED
        BY <2>1, <2>2, <2>3 DEF BoxOK
  <2>5. sess \in [Sessions -> Conn]
      BY NewIsOK DEF Init
  <2>6. OthersOK
      BY <1>0 DEF Init, OthersOK
  <2> QED
      BY <2>4, <2>5, <2>6, TypeParts
<1>6. \A s \in Sessions : sess[s] = NewConn
    BY DEF Init
<1>7. ConnsOK
  <2>1. \A b, nx, gone : ConnOK(NewConn, b, nx, gone)
      BY NewIsOK, ReadyIsOK
  <2> QED
      BY <1>6, <2>1 DEF ConnsOK
<1>8. FlaggedOK
    BY <1>4 DEF FlaggedOK
<1>9. KeptOK
  <2> SUFFICES ASSUME NEW m \in arrived
               PROVE  \E f \in Folders : \E u \in DOMAIN box[f] :
                         box[f][u].msg = m /\ ~Doomed(f, u, sess)
      BY DEF KeptOK
  <2>1. PICK u \in 1..Len(Arrived) : m = Arrived[u]
      BY <1>0
  <2>2. u \in DOMAIN box[Inbox]
      BY <1>0, <1>2, <1>3
  <2>3. box[Inbox][u].msg = m
      BY <1>0, <1>4, <2>1, <2>2
  <2>4. ~Doomed(Inbox, u, sess)
      BY <1>6, NewIsOK DEF Doomed
  <2> QED
      BY <1>0, <2>2, <2>3, <2>4
<1>10. DoublingOK
  <2> SUFFICES ASSUME NEW m \in Messages
               PROVE  Cardinality(RowsOf(box, m)) <= 1 + Cardinality(Movers(m, sess))
      BY DEF DoublingOK
  <2>1. Cardinality(Movers(m, sess)) \in Nat
      BY MoversFinite
  <2>2. CASE RowsOf(box, m) = {}
    <3>1. Cardinality(RowsOf(box, m)) = 0
        BY <2>2, FS_EmptySet
    <3> QED
        BY <2>1, <3>1
  <2>3. CASE RowsOf(box, m) # {}
    <3>1. \A c \in RowsOf(box, m) :
             \E u \in 1..Len(Arrived) : c = <<Inbox, u>> /\ Arrived[u] = m
      <4> SUFFICES ASSUME NEW c \in RowsOf(box, m)
                   PROVE  \E u \in 1..Len(Arrived) : c = <<Inbox, u>> /\ Arrived[u] = m
          OBVIOUS
      <4>1. PICK f \in Folders : \E u \in DOMAIN box[f] :
               c = <<f, u>> /\ box[f][u].msg = m
          BY RowsArePairs
      <4>2. PICK u \in DOMAIN box[f] : c = <<f, u>> /\ box[f][u].msg = m
          BY <4>1
      <4> QED
          BY <1>4, <4>2
    <3>2. PICK c : c \in RowsOf(box, m)
        BY <2>3
    <3>3. RowsOf(box, m) = {c}
      <4>1. ASSUME NEW d \in RowsOf(box, m)
            PROVE  d = c
        <5>1. PICK u \in 1..Len(Arrived) : c = <<Inbox, u>> /\ Arrived[u] = m
            BY <3>1, <3>2
        <5>2. PICK v \in 1..Len(Arrived) : d = <<Inbox, v>> /\ Arrived[v] = m
            BY <3>1
        <5>3. u = v
            BY <1>0, <5>1, <5>2, SessionsAssumption
        <5> QED
            BY <5>1, <5>2, <5>3
      <4> QED
          BY <3>2, <4>1
    <3>4. Cardinality(RowsOf(box, m)) = 1
        BY <3>3, FS_Singleton
    <3> QED
        BY <2>1, <3>4
  <2> QED
      BY <2>2, <2>3
<1>11. NumbersOK
    BY <1>6, NewIsOK DEF NumbersOK, Init
<1> QED
    BY <1>5, <1>7, <1>8, <1>9, <1>10, <1>11 DEF AccessInv

\* Every step keeps the invariant.
LEMMA AccessKept ==
    ASSUME AccessInv, [Next]_vars
    PROVE  AccessInv'
<1>1. CASE UNCHANGED vars
    BY <1>1 DEF vars, seen, AccessInv, TypeOK, ConnsOK, FlaggedOK, KeptOK, DoublingOK,
                NumbersOK, Gone
<1>2. ASSUME NEW s \in Sessions, ImapStep(s)
      PROVE  AccessInv'
  <2>1. CASE LoginImap(s) \/ SelectEnter(s)
      BY <2>1, LoginKeeps
  <2>2. CASE \/ SelectRead(s) \/ Fetch(s) \/ Search(s) \/ Poll(s) \/ StoreAnswer(s)
      BY <2>2, ReadKeeps
  <2>3. CASE StoreRead(s) \/ StoreWrite(s)
      BY <2>3, StoreReadKeeps, StoreWriteKeeps
  <2>4. CASE ExpungeRead(s) \/ CopyRead(s)
      BY <2>4, ListKeeps
  <2>5. CASE ExpungeWrite(s) \/ Announce(s) \/ CopyWrite(s)
      BY <2>5, ExpungeWriteKeeps, AnnounceKeeps, CopyWriteKeeps
  <2>6. CASE CopyFails(s) \/ MoveRead(s)
      BY <2>6, SecondHalfKeeps
  <2> QED
      BY <1>2, <2>1, <2>2, <2>3, <2>4, <2>5, <2>6 DEF ImapStep
<1>3. ASSUME NEW s \in Sessions, Pop3Step(s) \/ Close(s)
      PROVE  AccessInv'
  <2>1. CASE LoginPop3(s) \/ Close(s)
      BY <2>1, LoginKeeps
  <2>2. CASE Dele(s) \/ Rset(s)
      BY <2>2, MarkKeeps
  <2>3. CASE Quit(s)
      BY <2>3, QuitKeeps
  <2> QED
      BY <1>3, <2>1, <2>2, <2>3 DEF Pop3Step
<1> QED
    BY <1>1, <1>2, <1>3, WebmailKeeps, DeliverKeeps DEF Next

\* The invariant holds of every reachable state.
LEMMA AccessInvariant == Spec => []AccessInv
<1>1. Init => AccessInv
    BY AccessStarts
<1>2. AccessInv /\ [Next]_vars => AccessInv'
    BY AccessKept
<1> QED
    BY <1>1, <1>2, PTL DEF Spec

\* The store and the connections hold what they may: UIDs stay below a
\* folder's uid_next, and every row is of a message that has arrived.
THEOREM AccessTypeCorrect == Spec => []TypeOK
<1>1. AccessInv => TypeOK
    BY DEF AccessInv
<1> QED
    BY <1>1, AccessInvariant, PTL

\* Whatever the sessions do to one another, a message that is nowhere any more
\* was asked away, or flagged by a number meant for another: no MOVE, fault or
\* overlap of commands loses one.
THEOREM NothingLostUnasked == Spec => []LostWasAsked
<1>1. AccessInv => LostWasAsked
  <2> SUFFICES ASSUME AccessInv, NEW m \in arrived, Copies(m) = {}, m \notin Gone
               PROVE  FALSE
      BY DEF LostWasAsked, Gone
  <2>1. PICK f \in Folders : \E u \in DOMAIN box[f] : box[f][u].msg = m
      BY DEF AccessInv, KeptOK
  <2>2. PICK u \in DOMAIN box[f] : box[f][u].msg = m
      BY <2>1
  <2>3. <<f, u>> \in Copies(m)
      BY <2>2 DEF Copies
  <2> QED
      BY <2>3
<1> QED
    BY <1>1, AccessInvariant, PTL

\* A number a client sends names the message it saw there, unless its folder
\* has lost a row since it selected it, or was announced to have.
THEOREM NumbersHold == Spec => []NumbersMeanWhatWasSeen
<1>1. AccessInv => NumbersMeanWhatWasSeen
    BY DEF AccessInv, NumbersOK, NumbersMeanWhatWasSeen
<1> QED
    BY <1>1, AccessInvariant, PTL

\* A MOVE that is over has left one copy of each of its messages, unless a
\* statement of it failed, the folder or a later message of it was gone,
\* another client took the message meanwhile, it was given the message twice,
\* or somebody copied it.
THEOREM MovesLeaveOne == Spec => []MovedNotDoubled
<1>1. AccessInv => MovedNotDoubled
  <2> SUFFICES ASSUME AccessInv, NEW m \in Messages \ doubled,
                      \A s \in Sessions : m \notin sess[s].work.moving
               PROVE  Cardinality(Copies(m)) <= 1
      BY DEF MovedNotDoubled
  <2>1. Movers(m, sess) = {}
      BY DEF Movers
  <2>2. Cardinality(Movers(m, sess)) = 0
      BY <2>1, FS_EmptySet
  <2>3. Copies(m) = RowsOf(box, m)
      BY DEF Copies, RowsOf
  <2>4. Cardinality(RowsOf(box, m)) <= 1 + Cardinality(Movers(m, sess))
      BY DEF AccessInv, DoublingOK
  <2>5. IsFiniteSet(RowsOf(box, m)) /\ Cardinality(RowsOf(box, m)) \in Nat
      BY TypeParts, RowsFinite, FS_CardinalityType DEF AccessInv
  <2> QED
      BY <2>2, <2>3, <2>4, <2>5
<1> QED
    BY <1>1, AccessInvariant, PTL
=============================================================================
