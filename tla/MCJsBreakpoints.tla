-------------------------- MODULE MCJsBreakpoints --------------------------
(* JsBreakpoints with one or two sources.  The source a has a script that  *)
(* is set by id, and one that overlays it and is set by URL, in which both *)
(* lines are at one position, which is where the first was.                *)
EXTENDS JsBreakpoints

CONSTANTS a, b, a1, a2, b1, u

OneSource == {a}
TwoSources == {a, b}
OneLine == {1}
TwoLines == {1, 2}
OneOrNone == {{}, {1}}
BothOrLast == {{1, 2}, {2}}
Sourced == [s \in Scripts |-> IF s = b1 THEN b ELSE a]
Places == [s \in Scripts |-> IF s = a2 THEN u ELSE s]
Folded == [p \in {a1, u} |-> [l \in Lines |-> IF p = a1 THEN l ELSE 1]]
Elsewhere == [p \in Scripts |-> [l \in Lines |-> 3]]
=============================================================================
