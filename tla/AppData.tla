------------------------------ MODULE AppData ------------------------------
(***************************************************************************)
(* What the applications do with the data that they read: the writes of an *)
(* operation, and the loops that copy a list without an element.  (TLC's   *)
(* :> and @@ and SelectSeq say the same, but the provers know nothing of   *)
(* them.)                                                                  *)
(***************************************************************************)
EXTENDS Naturals, Sequences, FiniteSets

\* The write of v at k.
At(k, v) == [m \in {k} |-> v]

\* The writes, or reads, of f and those of g.
f ++ g == [k \in DOMAIN f \cup DOMAIN g |-> IF k \in DOMAIN f THEN f[k] ELSE g[k]]

\* The elements of q other than x, in their order.
Kept(q, x) == {i \in DOMAIN q : q[i] # x}
KeptUpTo(q, x, i) == Cardinality({m \in Kept(q, x) : m <= i})
Without(q, x) ==
  [j \in 1 .. Cardinality(Kept(q, x)) |-> q[CHOOSE i \in Kept(q, x) : KeptUpTo(q, x, i) = j]]

Holds(q, x) == \E i \in DOMAIN q : q[i] = x
=============================================================================
