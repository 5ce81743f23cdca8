---------------------------- MODULE SieveEngine ----------------------------
(***************************************************************************)
(* The interpreter of the mailbox owner's rules: how a script is parsed,   *)
(* what running it decides about one message, and the check a script must  *)
(* pass to be stored over ManageSieve.                                     *)
(*                                                                         *)
(* A script is the sequence of pieces splitStatements cuts it into; the    *)
(* strings inside a piece are already taken out.  A message is the set of  *)
(* header tests that hold of it.                                           *)
(*                                                                         *)
(* The module is for TLC: parsing and running recur on the script.         *)
(***************************************************************************)
EXTENDS Integers, SequencesExt

CONSTANTS
    MaxRules,   \* pieces a script may have (the code: 500)
    Automatic   \* the fact that a message must not be answered automatically

ASSUME EngineAssumption == MaxRules \in Nat

(***************************************************************************)
(* Pieces: if and elsif with a test, else, braces, and statements.         *)
(***************************************************************************)
If(test)     == [head |-> "if", test |-> test]
Elsif(test)  == [head |-> "elsif", test |-> test]
Else         == [head |-> "else"]
Open         == [head |-> "{"]
Shut         == [head |-> "}"]
FileInto(f)  == [head |-> "fileinto", arg |-> f]
AddFlag(f)   == [head |-> "addflag", arg |-> f]
Vacation(b)  == [head |-> "vacation", arg |-> b]
Word(w)      == [head |-> w]

Actions == {"fileinto", "addflag", "discard", "keep", "stop", "vacation"}

(***************************************************************************)
(* Tests, as written.                                                      *)
(***************************************************************************)
Header(h)  == [is |-> "header", header |-> h]
Not(t)     == [is |-> "not", of |-> <<t>>]
AnyOf(ts)  == [is |-> "anyof", of |-> ts]
AllOf(ts)  == [is |-> "allof", of |-> ts]
True       == [is |-> "true", of |-> <<>>]

(***************************************************************************)
(* parseTest: "true" becomes an allof of nothing.                          *)
(***************************************************************************)
RECURSIVE ParseTest(_)
ParseTest(t) ==
    CASE t.is = "header" -> t
      [] t.is = "true"   -> AllOf(<<>>)
      [] OTHER           -> [t EXCEPT !.of =
                                [i \in DOMAIN t.of |-> ParseTest(t.of[i])]]

\* matches: an allof of nothing never does.
RECURSIVE Matches(_, _)
Matches(t, msg) ==
    CASE t.is = "header" -> t.header \in msg
      [] t.is = "not"    -> ~Matches(t.of[1], msg)
      [] t.is = "anyof"  -> \E i \in DOMAIN t.of : Matches(t.of[i], msg)
      [] t.is = "allof"  -> /\ \A i \in DOMAIN t.of : Matches(t.of[i], msg)
                            /\ Len(t.of) > 0

-----------------------------------------------------------------------------
(***************************************************************************)
(* Parsing.  A parse is the statements read and where it ended, or fails.  *)
(***************************************************************************)
Failed == [ok |-> FALSE, body |-> <<>>, next |-> 0]

Read(body, next) == [ok |-> TRUE, body |-> body, next |-> next]

RECURSIVE ParseBlock(_, _, _), ParseConditional(_, _, _)

(***************************************************************************)
(* "{", a block, "}".                                                      *)
(***************************************************************************)
ReadBraced(lines, i) ==
    IF i > Len(lines) \/ lines[i] # Open
    THEN Failed
    ELSE LET block == ParseBlock(lines, i + 1, <<>>)
         IN  IF block.ok /\ block.next <= Len(lines)
                         /\ lines[block.next] = Shut
             THEN Read(block.body, block.next + 1)
             ELSE Failed

(***************************************************************************)
(* An if and everything chained to it: elsif, else, and an if that follows *)
(* at once.                                                                *)
(***************************************************************************)
ParseConditional(lines, i, branches) ==
    LET head == IF i > Len(lines) THEN "" ELSE lines[i].head
        body == ReadBraced(lines, i + 1)
        cond(fallback) == [op |-> "cond", branches |-> branches,
                           fallback |-> fallback]
    IN  CASE head \in {"if", "elsif", "else"} /\ ~body.ok -> Failed
          [] head \in {"if", "elsif"} /\ body.ok ->
                ParseConditional(lines, body.next,
                    Append(branches, [test |-> ParseTest(lines[i].test),
                                      body |-> body.body]))
          [] head = "else" /\ body.ok -> Read(cond(body.body), body.next)
          [] OTHER -> Read(cond(<<>>), i)

ParseStatement(lines, i) ==
    CASE lines[i].head = "if"        -> ParseConditional(lines, i, <<>>)
      [] lines[i].head \in Actions   -> Read([op |-> "do", piece |-> lines[i]],
                                             i + 1)
      [] lines[i].head = "require"   -> Read([op |-> "skip"], i + 1)
      [] OTHER                       -> Failed

ParseBlock(lines, i, body) ==
    IF i > Len(lines) \/ lines[i] = Shut
    THEN Read(body, i)
    ELSE LET st == ParseStatement(lines, i)
         IN  IF st.ok THEN ParseBlock(lines, st.next, Append(body, st.body))
                      ELSE Failed

(***************************************************************************)
(* A script that has pieces left over, a stray "}", does not parse.        *)
(***************************************************************************)
Parse(lines) ==
    LET script == ParseBlock(lines, 1, <<>>)
    IN  IF Len(lines) <= MaxRules /\ script.ok /\ script.next = Len(lines) + 1
        THEN script ELSE Failed

-----------------------------------------------------------------------------
Undecided == [folder |-> "", discard |-> FALSE, flags |-> {},
              vacation |-> "", stopped |-> FALSE]

(***************************************************************************)
(* No automatic answer to mail that is itself automatic, or from no one.   *)
(***************************************************************************)
shouldAutoReply(msg) == Automatic \notin msg

\* Mutant of Applied: a later rule overwrites the folder.
AppliedLastFolder(piece, msg, out) ==
    CASE piece.head = "fileinto" -> [out EXCEPT !.folder = piece.arg]
      [] piece.head = "addflag"  -> [out EXCEPT !.flags = @ \cup {piece.arg}]
      [] piece.head = "vacation" ->
            [out EXCEPT !.vacation = IF shouldAutoReply(msg) THEN piece.arg ELSE @]
      [] piece.head = "discard"  -> [out EXCEPT !.discard = TRUE]
      [] piece.head = "stop"     -> [out EXCEPT !.stopped = TRUE]
      [] piece.head = "keep"     -> out

(***************************************************************************)
(* What a statement adds to the outcome.  The first fileinto decides; keep *)
(* takes nothing back.                                                     *)
(***************************************************************************)
Applied(piece, msg, out) ==
    CASE piece.head = "fileinto" ->
            [out EXCEPT !.folder = IF @ = "" THEN piece.arg ELSE @]
      [] piece.head = "addflag"  -> [out EXCEPT !.flags = @ \cup {piece.arg}]
      [] piece.head = "vacation" ->
            [out EXCEPT !.vacation = IF shouldAutoReply(msg) THEN piece.arg ELSE @]
      [] piece.head = "discard"  -> [out EXCEPT !.discard = TRUE]
      [] piece.head = "stop"     -> [out EXCEPT !.stopped = TRUE]
      [] piece.head = "keep"     -> out

RECURSIVE Run(_, _, _)

Chosen(cond, msg) ==
    LET hits == {i \in DOMAIN cond.branches :
                    Matches(cond.branches[i].test, msg)}
    IN  IF hits = {} THEN cond.fallback ELSE cond.branches[Min(hits)].body

Run(body, msg, out) ==
    IF body = <<>> \/ out.stopped
    THEN out
    ELSE LET st == Head(body)
         IN  Run(Tail(body), msg,
                 CASE st.op = "do"   -> Applied(st.piece, msg, out)
                   [] st.op = "skip" -> out
                   [] st.op = "cond" -> Run(Chosen(st, msg), msg, out))

(***************************************************************************)
(* ApplyRules.For: a script that does not parse decides nothing.           *)
(***************************************************************************)
For(lines, msg) ==
    LET script == Parse(lines)
    IN  IF script.ok THEN Run(script.body, msg, Undecided) ELSE Undecided

(***************************************************************************)
(* ValidateSieveScript looks at the structure only: braces that balance.   *)
(***************************************************************************)
Validate(lines) ==
    LET depth(n) == Cardinality({i \in 1..n : lines[i] = Open})
                    - Cardinality({i \in 1..n : lines[i] = Shut})
    IN  /\ lines # <<>>
        /\ \A n \in DOMAIN lines : depth(n) >= 0
        /\ depth(Len(lines)) = 0

-----------------------------------------------------------------------------
(***************************************************************************)
(* wildcardMatch, the loop: vi and pi are the positions in the value and   *)
(* the pattern, star the last "*" met and mark where its match began.      *)
(***************************************************************************)
Escaped(p, i) == p[i] = "\\" /\ i < Len(p)

Char(p, i) == IF Escaped(p, i) THEN p[i + 1] ELSE p[i]

Width(p, i) == IF Escaped(p, i) THEN 2 ELSE 1

RECURSIVE OnlyStars(_, _)
OnlyStars(p, i) ==
    \/ i > Len(p)
    \/ ~Escaped(p, i) /\ p[i] = "*" /\ OnlyStars(p, i + 1)

RECURSIVE Scan(_, _, _, _, _, _)

\* Mutant of Backtrack: the star's match is not lengthened past the mark.
BacktrackOnce(v, p, star, mark) == Scan(v, p, mark + 1, star + 1, 0, mark + 1)

Backtrack(v, p, star, mark) ==
    Scan(v, p, mark + 1, star + 1, star, mark + 1)

Scan(v, p, vi, pi, star, mark) ==
    LET literal == \/ Char(p, pi) = v[vi]
                   \/ ~Escaped(p, pi) /\ p[pi] = "?"
        isStar  == ~Escaped(p, pi) /\ p[pi] = "*"
    IN  CASE vi > Len(v) -> OnlyStars(p, pi)
          [] vi <= Len(v) /\ pi <= Len(p) /\ literal
                -> Scan(v, p, vi + 1, pi + Width(p, pi), star, mark)
          [] vi <= Len(v) /\ pi <= Len(p) /\ ~literal /\ isStar
                -> Scan(v, p, vi, pi + 1, pi, vi)
          [] OTHER -> star > 0 /\ Backtrack(v, p, star, mark)

WildcardMatch(v, p) == Scan(v, p, 1, 1, 0, 1)
=============================================================================
