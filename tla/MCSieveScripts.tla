--------------------------- MODULE MCSieveScripts ---------------------------
(***************************************************************************)
(* Two connections and a settings page on three scripts; the engine on     *)
(* every script of three parts, and on short values and patterns.          *)
(***************************************************************************)
EXTENDS SieveScripts

Block(head, body) == <<head, Open>> \o body \o <<Shut>>

Heads == {If(True), If(Header("a")), If(Not(Header("b"))), Elsif(Header("b")),
          Elsif(AllOf(<<Header("a"), Header("b")>>)), Else}

Bodies == {<<>>, <<FileInto("x")>>, <<FileInto("y"), Word("stop")>>,
           Block(If(Header("b")), <<AddFlag("s")>>)}

Lines == {Block(h, b) : h \in Heads, b \in Bodies}
         \cup {<<FileInto("z")>>, <<Word("keep")>>, <<Word("discard")>>,
               <<Word("stop")>>, <<Vacation("v")>>, <<Word("reject")>>,
               <<Shut>>, <<Else>>,
               <<If(Header("a"))>>, <<If(AnyOf(<<Header("b")>>)), Open>>}

MCTrials == {<<>>} \cup Lines
            \cup {x \o y : x \in Lines, y \in Lines}
            \cup {x \o y \o z : x \in Lines, y \in Lines, z \in Lines}

MCScripts == {<<FileInto("x")>>, <<Shut>>}

MCAccepted == {s \in MCScripts : Validate(s)}

Words(letters, n) == UNION {[1..k -> letters] : k \in 0..n}

\* Header values in which a wildcard or a backslash may stand for itself.
MCValues == Words({"a", "b"}, 4) \cup Words({"a", "*", "?", "\\"}, 3)

MCPatterns == Words({"a", "b", "*", "?", "\\"}, 4)

\* Two rules of the rules screen, one if after the other.
MCTwoRules == {Block(If(Header("a")), <<FileInto("x")>>)
               \o Block(If(Header("b")), <<AddFlag("s")>>)}

Symmetry == Permutations(Conns)
=============================================================================
