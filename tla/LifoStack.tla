----------------------------- MODULE LifoStack -----------------------------
(***************************************************************************)
(* What a stack shared by several sessions promises: every operation takes *)
(* effect at one moment, a push on the top, a pop from the top; a pop of   *)
(* the empty stack answers Empty.                                          *)
(***************************************************************************)
EXTENDS Sequences

CONSTANTS Sessions, Elements, Empty

VARIABLES
  stack,    \* the elements, top first
  popped    \* popped[s]: what the pops of session s have answered, in order

Init == stack = <<>> /\ popped = [s \in Sessions |-> <<>>]

Push(v) == stack' = <<v>> \o stack /\ UNCHANGED popped

Pop(s) ==
  /\ stack # <<>>
  /\ stack' = Tail(stack)
  /\ popped' = [popped EXCEPT ![s] = Append(@, Head(stack))]

PopEmpty(s) ==
  /\ stack = <<>>
  /\ popped' = [popped EXCEPT ![s] = Append(@, Empty)]
  /\ UNCHANGED stack

Next ==
  \/ \E v \in Elements : Push(v)
  \/ \E s \in Sessions : Pop(s) \/ PopEmpty(s)

Spec == Init /\ [][Next]_<<stack, popped>>
=============================================================================
