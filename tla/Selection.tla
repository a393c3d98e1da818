------------------------------ MODULE Selection ------------------------------
(***************************************************************************)
(* The elements of a sequence that are in a set, in their order: what the  *)
(* histories of jobs and of waiting tasks keep of what they held.  It is   *)
(* SelectSeq, defined by the ranks of the positions kept rather than by    *)
(* recursion, so that theorems can be stated about it.                     *)
(***************************************************************************)
EXTENDS Integers, Sequences, FiniteSets

Positions(s, S) == {i \in DOMAIN s : s[i] \in S}

(* The member of I, a finite set of integers, that is nth in their order.  *)
Rank(I, i) == Cardinality({k \in I : k <= i})
Nth(I, n) == CHOOSE i \in I : Rank(I, i) = n

Selected(s, S) ==
  [n \in 1..Cardinality(Positions(s, S)) |-> s[Nth(Positions(s, S), n)]]

Elements(s) == {s[i] : i \in DOMAIN s}
NoRepeats(s) == \A i, k \in DOMAIN s : s[i] = s[k] => i = k
Without(s, js) == Selected(s, Elements(s) \ js)
=============================================================================
