---------------------------- MODULE SieveScripts ----------------------------
(***************************************************************************)
(* ManageSieve with the check of PUTSCRIPT as the engine makes it, and the *)
(* engine on inputs of its own: what parsing and running a script decides, *)
(* and what a pattern matches, against what each of them means.            *)
(***************************************************************************)
EXTENDS ManageSieve, SieveEngine

CONSTANTS
    Trials,            \* scripts the engine is tried on
    Facts,             \* header tests that may hold of a message
    Values, Patterns   \* header values and :matches patterns tried

ASSUME AcceptedAssumption == Accepted = {s \in Scripts : Validate(s)}

VARIABLE tried         \* the script and the pattern the engine is tried on

vars == <<sieveVars, tried>>

(***************************************************************************)
(* The engine keeps no state: each input it is tried on is an initial      *)
(* state of its own, in which nothing else happens.                        *)
(***************************************************************************)
NoTrial == [lines |-> <<>>, pattern |-> <<>>]

Inputs == {NoTrial} \cup {[NoTrial EXCEPT !.lines = l] : l \in Trials}
                    \cup {[NoTrial EXCEPT !.pattern = p] : p \in Patterns}

Init == SieveInit /\ tried \in Inputs

Next == tried = NoTrial /\ UNCHANGED tried /\ SieveNext

Spec == Init /\ [][Next]_vars

-----------------------------------------------------------------------------
(***************************************************************************)
(* Properties                                                              *)
(***************************************************************************)

(***************************************************************************)
(* What RFC 5228 says a test is and which statements of a script count.    *)
(* This reading has no parser: it is one pass over the pieces with a stack *)
(* of open blocks.  A block is live when its statements count; after it,   *)
(* its chain of branches has been taken, is still open, or is over.  Every *)
(* if begins a chain, elsif and else go on with one.                       *)
(***************************************************************************)
RECURSIVE Holds(_, _)
Holds(t, msg) ==
    CASE t.is = "true"   -> TRUE
      [] t.is = "header" -> t.header \in msg
      [] t.is = "not"    -> ~Holds(t.of[1], msg)
      [] t.is = "anyof"  -> \E i \in DOMAIN t.of : Holds(t.of[i], msg)
      [] t.is = "allof"  -> \A i \in DOMAIN t.of : Holds(t.of[i], msg)

RECURSIVE HasTrue(_)
HasTrue(t) ==
    \/ t.is = "true"
    \/ t.is # "header" /\ \E i \in DOMAIN t.of : HasTrue(t.of[i])

NoHead == [live |-> FALSE, after |-> ""]

(***************************************************************************)
(* The two places where the engine is known to read a script otherwise: an *)
(* if right after a chain that was taken, which parseConditional takes for *)
(* one more branch of it, and a test that asks for true.                   *)
(***************************************************************************)
ReadApart(st, piece) ==
    /\ Last(st.stack).live
    /\ \/ piece.head = "if" /\ (st.chain = "taken" \/ HasTrue(piece.test))
       \/ piece.head = "elsif" /\ st.chain = "open" /\ HasTrue(piece.test)

Pass(st0, piece, msg) ==
    LET st    == [st0 EXCEPT !.apart = @ \/ ReadApart(st0, piece)]
        top   == Last(st.stack)
        taken == st.chain = "taken"
        hit   == piece.head \in {"if", "elsif"} /\ Holds(piece.test, msg)
        head(live, then) == [st EXCEPT !.pending = [live |-> live,
                                                    after |-> then]]
    IN  CASE st.pending # NoHead /\ piece = Open ->
                [st EXCEPT !.stack = Append(@, st.pending),
                           !.pending = NoHead, !.chain = "over"]
          [] st.pending = NoHead /\ piece.head = "if" ->
                head(top.live /\ hit, IF hit THEN "taken" ELSE "open")
          [] st.pending = NoHead /\ piece.head = "elsif" /\ st.chain # "over" ->
                head(top.live /\ ~taken /\ hit,
                     IF taken \/ hit THEN "taken" ELSE "open")
          [] st.pending = NoHead /\ piece.head = "else" /\ st.chain # "over" ->
                head(top.live /\ ~taken, "over")
          [] st.pending = NoHead /\ piece = Shut /\ Len(st.stack) > 1 ->
                [st EXCEPT !.stack = Front(@), !.chain = top.after]
          [] st.pending = NoHead /\ piece.head \in Actions \cup {"require"} ->
                [st EXCEPT !.chain = "over",
                           !.does = IF top.live THEN Append(@, piece) ELSE @]
          [] OTHER -> [st EXCEPT !.ok = FALSE]

(***************************************************************************)
(* The outcome of the statements that count, up to the first stop, as the  *)
(* comments on fileInto and shouldAutoReply have it.                       *)
(***************************************************************************)
OutcomeOf(does, msg) ==
    LET stops == {i \in DOMAIN does : does[i].head = "stop"}
        last  == IF stops = {} THEN Len(does) ELSE Min(stops)
        of(h) == {i \in 1..last : does[i].head = h}
    IN  [folder   |-> IF of("fileinto") = {} THEN ""
                      ELSE does[Min(of("fileinto"))].arg,
         discard  |-> of("discard") # {},
         flags    |-> {does[i].arg : i \in of("addflag")},
         vacation |-> IF of("vacation") = {} \/ Automatic \in msg THEN ""
                      ELSE does[Max(of("vacation"))].arg,
         stopped  |-> stops # {}]

Meaning(lines, msg) ==
    LET end == FoldLeft(LAMBDA st, piece : Pass(st, piece, msg),
                        [ok |-> Len(lines) <= MaxRules, does |-> <<>>,
                         stack |-> <<[live |-> TRUE, after |-> "over"]>>,
                         pending |-> NoHead, chain |-> "over", apart |-> FALSE],
                        lines)
        ok == end.ok /\ end.pending = NoHead /\ Len(end.stack) = 1
    IN  [outcome |-> IF ok THEN OutcomeOf(end.does, msg) ELSE Undecided,
         apart   |-> ok /\ end.apart]

\* Parsing and running a script decides what its text says: every statement
\* not in a branch left out counts, in order, up to the first stop, the first
\* fileinto decides the folder, automatic mail is not answered, and a script
\* with a block unclosed, an else without an if, a stray brace or an unknown
\* word decides nothing at all.  Nothing is claimed of a message for which the
\* script comes to an if right after a chain that was taken, or to a true.
RulesMeanWhatTheySay ==
    \A msg \in SUBSET Facts :
        LET meaning == Meaning(tried.lines, msg)
        IN  meaning.apart \/ For(tried.lines, msg) = meaning.outcome

\* What the comment on package sieve says: the engine runs a subset of
\* RFC 5228, so a script that it accepts decides what the RFC says it does.
RulesAreSieve ==
    \A msg \in SUBSET Facts :
        For(tried.lines, msg) = Meaning(tried.lines, msg).outcome

(***************************************************************************)
(* The definition :matches has: "*" is any run of characters, "?" is one,  *)
(* anything else, and anything after a backslash, is itself.               *)
(***************************************************************************)
RECURSIVE Pieces(_)
Pieces(p) ==
    CASE p = <<>> -> <<>>
      [] Len(p) > 1 /\ p[1] = "\\" ->
            <<[is |-> "char", of |-> p[2]]>> \o Pieces(SubSeq(p, 3, Len(p)))
      [] OTHER ->
            <<[is |-> IF p[1] \in {"*", "?"} THEN p[1] ELSE "char",
               of |-> p[1]]>> \o Pieces(Tail(p))

RECURSIVE Covers(_, _)
Covers(pieces, v) ==
    IF pieces = <<>> THEN v = <<>>
    ELSE IF pieces[1].is = "*"
    THEN \E n \in 0..Len(v) : Covers(Tail(pieces), SubSeq(v, n + 1, Len(v)))
    ELSE /\ v # <<>>
         /\ pieces[1].is = "?" \/ pieces[1].of = v[1]
         /\ Covers(Tail(pieces), Tail(v))

HasStar(p) == \E i \in DOMAIN Pieces(p) : Pieces(p)[i].is = "*"

\* What the backtracking loop of wildcardMatch takes is what that definition
\* takes, escapes and several stars included, whatever positions it goes back
\* to.  It misses nothing either, but where the value has an asterisk and the
\* pattern one that is not escaped: the loop compares the characters before it
\* looks for a star.
WildcardsMatch ==
    \A v \in Values :
        LET taken   == WildcardMatch(v, tried.pattern)
            defined == Covers(Pieces(tried.pattern), v)
        IN  /\ taken => defined
            /\ defined => taken \/ ("*" \in Range(v) /\ HasStar(tried.pattern))

\* What the comment on wildcardMatch says of every value: "*" is any run of
\* characters.
StarIsAnyRun ==
    \A v \in Values :
        WildcardMatch(v, tried.pattern) = Covers(Pieces(tried.pattern), v)
=============================================================================
