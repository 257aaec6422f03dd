--------------------------- MODULE MCTreiberStack ---------------------------
(* Small instances of TreiberStack for TLC. *)
EXTENDS TreiberStack

\* The program of run_stack.cpp:116-124, without the first push of thread 1 and
\* the second pop of thread 3.
ShortProgram == <<<<"push", "pop">>, <<"pop", "push", "pop">>, <<"pop">>>>

\* At most two pushes: sizes 1 and 2 of the store, drawn by threads 1 and 2.
NodeKeys == {0} \cup {n * 10 + t : n \in 1 .. 2, t \in 1 .. 2}

NodeValues == [val : {NoVal, 11, 22}, next : NodeKeys \cup {-1}]

BothLevels == {"causal", "linear"}
=============================================================================
