--------------------------- MODULE MCShoppingCart ---------------------------
(* Small instance of ShoppingCart for TLC: its programs, and clients that call anything. *)
EXTENDS ShoppingCart

BothLevels == {"causal", "linear"}
ProgramItems == <<"shoes", "ball">>
AllRuns == {"fixed", "random", "any"}

\* Two calls of each thread in its own session, of any operations on any items, in one
\* bracket or in a bracket each.
CallsOf(t) ==
  UNION {{AddOp(i, 2, t), ChangeOp(i, 3, t), RemoveOp(i, t), QuantityOp(i, t)} : i \in Items}
    \cup {ListOp(t)}
TwoCalls(t) == {<< <<a, b>> >> : a, b \in CallsOf(t)} \cup {<< <<a>>, <<b>> >> : a, b \in CallsOf(t)}
AnyTwoCalls == {<<p, q>> : p \in TwoCalls(1), q \in TwoCalls(2)}
=============================================================================
