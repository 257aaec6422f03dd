---------------------------- MODULE ShoppingCart ----------------------------
(***************************************************************************)
(* applications/shopping_cart: the cart of one user, and the threads of    *)
(* run_shopping_cart that work on it.  A client brackets some operations   *)
(* by tx_start and tx_end and holds the application's mutex meanwhile; an  *)
(* operation is one step, since everything that it does is under the       *)
(* mutex.  The names and prices of the items never change and are left     *)
(* out.                                                                    *)
(***************************************************************************)
EXTENDS SessionStore, AppData, SequencesExt

CONSTANTS
  ItemSeq,    \* the items of do_random_op, in the order it goes through them
  NumOps,     \* NUM_OPS: random operations of each thread
  Clients,    \* the programs of other clients of the class, todo of Init for each
  Runs        \* what the threads may run, of "fixed", "random", "any"

Items == {"shoes", "ball"}
Threads == {1, 2}

Cart == <<"cart">>
Quantity(i) == <<"cart", i, "quantity">>
CartKeys == {Cart} \cup {Quantity(i) : i \in Items}

\* A value is the list of the cart with its count, or a quantity.
List(q) == [list |-> q, n |-> Len(q)]
Number(n) == [list |-> <<>>, n |-> n]
CartValues == [list : Seq(Items), n : Nat]

VARIABLES
  todo,      \* todo[t]: the brackets that thread t has still to run
  mtx,       \* the thread inside tx_start .. tx_end, 0 when there is none
  results,   \* results[t]: what the reads of thread t have returned
  run        \* the program of the threads

cartVars == <<todo, mtx, results, run>>
vars == <<storeVars, cartVars>>
-----------------------------------------------------------------------------
Op(op, s, i, n) == [op |-> op, session |-> s, item |-> i, n |-> n]
AddOp(i, n, s) == Op("add_item", s, i, n)
ChangeOp(i, n, s) == Op("change_quantity", s, i, n)
RemoveOp(i, s) == Op("remove_item", s, i, 0)
QuantityOp(i, s) == Op("get_quantity", s, i, 0)
ListOp(s) == Op("get_cart_list", s, "shoes", 0)

Operations ==
  [op : {"add_item", "change_quantity", "remove_item", "get_quantity", "get_cart_list"},
   session : Sessions, item : Items, n : Nat]

\* What clients call: they add a quantity of an item, and change one to a quantity,
\* that is above 0.  A bracket is a list of calls between tx_start and tx_end.
Calls == {o \in Operations : o.op \in {"add_item", "change_quantity"} => o.n > 0}
Brackets == Seq(Calls) \ {<<>>}

ASSUME CartAssumption ==
  /\ ItemSeq \in Seq(Items) \ {<<>>} /\ NumOps \in Nat
  /\ Runs # {} /\ Runs \subseteq {"fixed", "random", "any"}
  /\ Clients \subseteq [Threads -> Seq(Brackets)]
  /\ Threads \subseteq Sessions

TypeOK ==
  /\ StoreTypeOK
  /\ todo \in [Threads -> Seq(Seq(Operations))]
  /\ mtx \in Threads \cup {0}
  /\ results \in [Threads -> Seq(Seq(Items \X Nat))]
  /\ run \in Runs

\* do_op
Fixed == [t \in Threads |->
  << <<IF t = 1 THEN RemoveOp("shoes", t) ELSE AddOp("shoes", 3, t)>>,
     <<ListOp(t)>>, <<ListOp(t)>> >>]

\* do_random_op.  Its add_item(items[idx], t_id) is the overload that takes an
\* int, the quantity: it adds t_id items, and it does so in the default session 1.
RandomOp(t, choice, i) ==
  CASE choice = 0 -> ListOp(t)
    [] choice = 1 -> AddOp(i, t, 1)
    [] choice = 2 -> RemoveOp(i, t)

\* random_fill seeds the generator alike for both threads: both get the choices c.
Random(c) == [t \in Threads |->
  [j \in 1 .. NumOps |-> <<RandomOp(t, c[j], ItemSeq[((j - 1) % Len(ItemSeq)) + 1])>>]
    \o << <<ListOp(t)>> >>]

Programs(r) ==
  CASE r = "fixed" -> {Fixed}
    [] r = "random" -> {Random(c) : c \in [1 .. NumOps -> 0 .. 2]}
    [] r = "any" -> Clients

\* run_iteration has added one pair of shoes, in session 1.
Init ==
  /\ versions = (At(Cart, <<List(<<"shoes">>)>>) ++ At(Quantity("shoes"), <<Number(1)>>)
                   ++ At(Quantity("ball"), <<>>))
  /\ floor = [s \in Sessions |-> [k \in Keys |-> IF s = 1 /\ Present(k) THEN 1 ELSE 0]]
  /\ level \in Levels
  /\ run \in Runs
  /\ todo \in Programs(run)
  /\ mtx = 0
  /\ results = [t \in Threads |-> <<>>]
-----------------------------------------------------------------------------
ListRead(r) == IF Cart \in DOMAIN r THEN versions[Cart][r[Cart]].list ELSE <<>>
\* _get_quantity
QuantityRead(i, r) ==
  IF Quantity(i) \in DOMAIN r THEN versions[Quantity(i)][r[Quantity(i)]].n ELSE 0

\* Thread t is inside a bracket, or may enter its next one, whose next operation
\* is op; the bracket's last operation lets the others in again.
Performs(t, op) ==
  /\ mtx \in {0, t} /\ todo[t] # <<>>
  /\ op = Head(Head(todo[t])).op
  /\ LET rest == Tail(Head(todo[t]))
     IN IF rest = <<>> THEN todo' = [todo EXCEPT ![t] = Tail(@)] /\ mtx' = 0
        ELSE todo' = [todo EXCEPT ![t] = <<rest>> \o Tail(@)] /\ mtx' = t
  /\ UNCHANGED run

Arg(t) == Head(Head(todo[t]))
Returns(t, result) == results' = [results EXCEPT ![t] = Append(@, result)]

\* Mistakes: the quantity replaces the old one, or is taken away.
AddingItem(t, quantity(_, _)) ==
  LET s == Arg(t).session
      i == Arg(t).item
      insert(list) == IF Contains(list, i) THEN list ELSE Append(list, i)
  IN /\ Performs(t, "add_item")
     /\ \E r \in ReadChoices(s, {Cart, Quantity(i)}) :
          Transact(s, r, At(Quantity(i), Number(quantity(QuantityRead(i, r), Arg(t).n)))
                           ++ At(Cart, List(insert(ListRead(r)))))
     /\ UNCHANGED results
AddItemSetting(t) == AddingItem(t, LAMBDA old, n : n)
AddItemSubtracting(t) == AddingItem(t, LAMBDA old, n : old - n)

\* The cart is written only if the item is not in the list that was read.
AddItem(t) ==
  LET s == Arg(t).session
      i == Arg(t).item
  IN /\ Performs(t, "add_item")
     /\ \E r \in ReadChoices(s, {Cart, Quantity(i)}) :
          LET quantity == At(Quantity(i), Number(QuantityRead(i, r) + Arg(t).n))
              insert == At(Cart, List(Append(ListRead(r), i)))
          IN Transact(s, r, IF Contains(ListRead(r), i) THEN quantity ELSE quantity ++ insert)
     /\ UNCHANGED results

ChangeQuantity(t) ==
  LET s == Arg(t).session
      i == Arg(t).item
  IN /\ Performs(t, "change_quantity")
     /\ \E r \in ReadChoices(s, {Quantity(i)}) :
          Transact(s, r, IF QuantityRead(i, r) # 0 THEN At(Quantity(i), Number(Arg(t).n))
                         ELSE NoWrites)
     /\ UNCHANGED results

\* Mistake: the quantity of the removed item is not set to 0.
RemoveFromListOnly(t) ==
  /\ Performs(t, "remove_item")
  /\ \E r \in ReadChoices(Arg(t).session, {Cart}) :
       Transact(Arg(t).session, r,
                At(Cart, List(Without(ListRead(r), Arg(t).item))))
  /\ UNCHANGED results

\* The quantity is set to 0 if the item is in the list that was read; a cart that
\* is there is written in any case.
RemoveItem(t) ==
  LET s == Arg(t).session
      i == Arg(t).item
  IN /\ Performs(t, "remove_item")
     /\ \E r \in ReadChoices(s, {Cart}) :
          LET cart == At(Cart, List(Without(ListRead(r), i)))
              none == At(Quantity(i), Number(0))
          IN Transact(s, r, IF ~ Present(Cart) THEN NoWrites
                            ELSE IF Contains(ListRead(r), i) THEN cart ++ none ELSE cart)
     /\ UNCHANGED results

GetQuantity(t) ==
  LET s == Arg(t).session
      i == Arg(t).item
  IN /\ Performs(t, "get_quantity")
     /\ \E r \in ReadChoices(s, {Quantity(i)}) :
          Transact(s, r, NoWrites) /\ Returns(t, <<<<i, QuantityRead(i, r)>>>>)

\* The list, and then the quantity of each item that it names.
GetCartList(t) ==
  LET s == Arg(t).session
  IN /\ Performs(t, "get_cart_list")
     /\ \E r \in ReadChoices(s, {Cart}) :
          \E q \in ReadChoices(s, {Quantity(i) : i \in ToSet(ListRead(r))}) :
            /\ Transact(s, r ++ q, NoWrites)
            /\ Returns(t, [j \in DOMAIN ListRead(r) |->
                             <<ListRead(r)[j], QuantityRead(ListRead(r)[j], q)>>])

Next ==
  \E t \in Threads :
    AddItem(t) \/ ChangeQuantity(t) \/ RemoveItem(t) \/ GetQuantity(t) \/ GetCartList(t)

Spec == Init /\ [][Next]_vars
-----------------------------------------------------------------------------
Done == \A t \in Threads : todo[t] = <<>>
Latest(k) == versions[k][Len(versions[k])]
LatestQuantity(i) == IF Present(Quantity(i)) THEN Latest(Quantity(i)).n ELSE 0

\* On a linearizable store the two records of an item agree: it has a quantity
\* exactly if the cart lists it, whatever brackets of operations the clients
\* interleave, as long as they add and change to quantities above 0
\* (shopping_cart.h:105-136, 189-223).
QuantityIffListed ==
  level = "linear" =>
    \A i \in Items : LatestQuantity(i) > 0 <=> Contains(Latest(Cart).list, i)

\* What do_op puts in results: the first quantity of each of the four reads.
FirstQuantity(list) == IF list = <<>> THEN 0 ELSE list[1][2]
DoOpResults == [j \in 1 .. 4 |-> FirstQuantity(results[(j + 1) \div 2][((j - 1) % 2) + 1])]

\* serial_results, and the reappear_results that main counts as violations
SerialTable == {<<0, 0, 0, 0>>, <<0, 0, 4, 0>>, <<0, 0, 4, 4>>,
                <<3, 3, 3, 3>>, <<0, 0, 3, 3>>, <<0, 3, 3, 3>>}
ReappearTable == {<<0, 4, 4, 4>>, <<4, 4, 4, 4>>}

\* add_item has put the shoes back into the list that remove_item had emptied, and
\* added to the quantity from before the removal.
RemovedReappeared ==
  /\ \E i, j, k \in DOMAIN versions[Cart] :
       /\ i < j /\ j < k
       /\ versions[Cart][j].list = <<>>
       /\ Contains(versions[Cart][i].list, "shoes") /\ Contains(versions[Cart][k].list, "shoes")
  /\ \E i, j, k \in DOMAIN versions[Quantity("shoes")] :
       LET n(v) == versions[Quantity("shoes")][v].n
       IN i < j /\ j < k /\ n(j) = 0 /\ n(k) = n(i) + 3

\* On a linearizable store the fixed program ends with results that a serial
\* execution has; and whatever main counts at any level is an item that was removed
\* and came back with its old quantity (run_shopping_cart.cpp:22-34, 79-87).
FixedResults ==
  run = "fixed" /\ Done =>
    /\ level = "linear" => DoOpResults \in SerialTable
    /\ DoOpResults \in ReappearTable => RemovedReappeared
=============================================================================
