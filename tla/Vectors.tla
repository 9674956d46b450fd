------------------------------ MODULE Vectors ------------------------------
(***************************************************************************)
(* What Vec::retain, Vec::drain and Vec::remove leave of a vector, the     *)
(* elements at some positions, in order; and what Vec::sort makes of       *)
(* elements that differ.  Places are counted, and not found by a search    *)
(* through all arrangements, so that what is at them can be proved.        *)
(***************************************************************************)
EXTENDS Integers, FiniteSets

\* The i-th smallest position.
Nth(S, i) == CHOOSE k \in S : Cardinality({x \in S : x <= k}) = i

retain(entries, keep) == [i \in 1 .. Cardinality(keep) |-> entries[Nth(keep, i)]]
\* An element's place is how many elements do not come after it.
sorted(S, before(_, _)) ==
  [i \in 1 .. Cardinality(S) |-> CHOOSE x \in S : Cardinality({y \in S : ~before(x, y)}) = i]
=============================================================================
