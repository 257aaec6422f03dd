------------------------- MODULE ShoppingCartProofs -------------------------
(***************************************************************************)
(* The theorems about ShoppingCart: its types; on a linearizable store the *)
(* agreement of the cart's list with the quantities of the items, for any  *)
(* programs that the clients of the class run; and the results of do_op,   *)
(* serial on a linearizable store and a reappeared item where main counts  *)
(* one.                                                                    *)
(***************************************************************************)
EXTENDS ShoppingCart, SessionStoreProofs

\* The store of this application: its own keys, with its own values.
CartStore == Keys = CartKeys /\ Values = CartValues

ProgramsTyped ==
  /\ todo \in [Threads -> Seq(Brackets)]
  /\ mtx \in Threads \cup {0}
  /\ run \in Runs

ResultsTyped == results \in [Threads -> Seq(Seq(Items \X Nat))]

CartInv ==
  StoreSound /\ ProgramsTyped /\ ResultsTyped /\ Present(Cart) /\ QuantityIffListed
-----------------------------------------------------------------------------
(* Keys, values and lists *)

LEMMA KeysTyped ==
  ASSUME CartStore
  PROVE  Cart \in Keys /\ (\A i \in Items : Quantity(i) \in Keys)
  BY DEF CartStore, CartKeys

LEMMA KeysDiffer ==
  \A i : Quantity(i) # Cart /\ \A j : Quantity(i) = Quantity(j) => i = j
  BY DEF Cart, Quantity

LEMMA ValuesTyped ==
  ASSUME CartStore
  PROVE  /\ \A q \in Seq(Items) : List(q) \in Values /\ List(q).list = q
         /\ \A n \in Nat : Number(n) \in Values /\ Number(n).n = n
         /\ \A v \in Values : v.list \in Seq(Items) /\ v.n \in Nat
  BY DEF CartStore, CartValues, List, Number

LEMMA ContainsHolds ==
  ASSUME NEW S, NEW q \in Seq(S), NEW x
  PROVE  Contains(q, x) <=> Holds(q, x)
  BY DEF Contains, Holds

LEMMA ContainsAppend ==
  ASSUME NEW S, NEW q \in Seq(S), NEW x \in S
  PROVE  /\ Append(q, x) \in Seq(S)
         /\ \A y : Contains(Append(q, x), y) <=> y = x \/ Contains(q, y)
<1>1. /\ Append(q, x) \in Seq(S) /\ Len(Append(q, x)) = Len(q) + 1 /\ Len(q) \in Nat
      /\ Append(q, x)[Len(q) + 1] = x /\ \A i \in 1 .. Len(q) : Append(q, x)[i] = q[i]
  OBVIOUS
<1>2. ASSUME NEW y, Contains(Append(q, x), y) PROVE y = x \/ Contains(q, y)
  <2>1. PICK i \in 1 .. Len(Append(q, x)) : Append(q, x)[i] = y BY <1>2 DEF Contains
  <2>2. CASE i = Len(q) + 1 BY <1>1, <2>1, <2>2
  <2>3. CASE i # Len(q) + 1
    <3>1. i \in 1 .. Len(q) BY <1>1, <2>1, <2>3
    <3> QED BY <1>1, <2>1, <3>1 DEF Contains
  <2> QED BY <2>2, <2>3
<1>3. Contains(Append(q, x), x)
  <2>1. Len(q) + 1 \in 1 .. Len(Append(q, x)) BY <1>1
  <2> QED BY <1>1, <2>1 DEF Contains
<1>4. ASSUME NEW y, Contains(q, y) PROVE Contains(Append(q, x), y)
  <2>1. PICK i \in 1 .. Len(q) : q[i] = y BY <1>4 DEF Contains
  <2>2. i \in 1 .. Len(Append(q, x)) BY <1>1, <2>1
  <2> QED BY <1>1, <2>1, <2>2 DEF Contains
<1> QED BY <1>1, <1>2, <1>3, <1>4

LEMMA ContainsWithout ==
  ASSUME NEW S, NEW q \in Seq(S), NEW x
  PROVE  /\ Without(q, x) \in Seq(S)
         /\ \A y : Contains(Without(q, x), y) <=> y # x /\ Contains(q, y)
<1>1. /\ Without(q, x) \in Seq(S)
      /\ \A y : Holds(Without(q, x), y) <=> y # x /\ Holds(q, y)
  BY WithoutHolds
<1> QED BY <1>1, ContainsHolds
-----------------------------------------------------------------------------
(* The store under an operation that keeps list and quantities in agreement *)

\* The quantity and the list that are the newest ones when w has been written.
QuantityAfter(i, w) == IF Quantity(i) \in DOMAIN w THEN w[Quantity(i)].n ELSE LatestQuantity(i)
ListAfter(w) == IF Cart \in DOMAIN w THEN w[Cart].list ELSE Latest(Cart).list

Writable(w) == DOMAIN w \subseteq Keys /\ \A k \in DOMAIN w : w[k] \in Values
Agreeing(w) ==
  level = "linear" => \A i \in Items : QuantityAfter(i, w) > 0 <=> Contains(ListAfter(w), i)

CartAct ==
  \E s \in Sessions : \E r, w : Transact(s, r, w) /\ Reads(s, r) /\ Writable(w) /\ Agreeing(w)

\* What a step with the writes w leaves as the newest records.
LEMMA RecordsAfter ==
  ASSUME CartStore, StoreSound, NEW s \in Sessions, NEW r, NEW w,
         Transact(s, r, w), Reads(s, r), Writable(w)
  PROVE  /\ Latest(Cart)'.list = ListAfter(w)
         /\ \A i \in Items : LatestQuantity(i)' = QuantityAfter(i, w)
         /\ Present(Cart) => Present(Cart)'
<1>1. DOMAIN r \subseteq Keys /\ DOMAIN w \subseteq Keys /\ \A k \in DOMAIN w : w[k] \in Values
  BY DEF Reads, Writable
<1>2. /\ \A k \in DOMAIN w : /\ Len(versions'[k]) = Len(versions[k]) + 1
                             /\ versions'[k][Len(versions[k]) + 1] = w[k]
      /\ \A k \in Keys \ DOMAIN w : versions'[k] = versions[k]
  BY <1>1, TransactEffect
<1>3. ASSUME NEW k \in DOMAIN w PROVE versions'[k] # <<>> /\ versions'[k][Len(versions'[k])] = w[k]
  <2>1. k \in Keys BY <1>1
  <2>2. Len(versions[k]) \in Nat BY <2>1, VersionsTyped DEF StoreSound
  <2>3. Len(versions'[k]) # 0 BY <1>2, <2>2
  <2> QED BY <1>2, <2>3
<1>4. Present(Cart) => Present(Cart)' BY <1>2, <1>3, KeysTyped DEF Present
<1>5. ASSUME NEW i \in Items PROVE LatestQuantity(i)' = QuantityAfter(i, w)
  <2>1. Quantity(i) \in Keys BY KeysTyped
  <2>2. CASE Quantity(i) \in DOMAIN w
    BY <1>3, <2>2 DEF LatestQuantity, QuantityAfter, Present, Latest
  <2>3. CASE Quantity(i) \notin DOMAIN w
    BY <1>2, <2>1, <2>3 DEF LatestQuantity, QuantityAfter, Present, Latest
  <2> QED BY <2>2, <2>3
<1>6. Latest(Cart)'.list = ListAfter(w)
  <2>1. Cart \in Keys BY KeysTyped
  <2>2. CASE Cart \in DOMAIN w BY <1>3, <2>2 DEF Latest, ListAfter
  <2>3. CASE Cart \notin DOMAIN w BY <1>2, <2>1, <2>3 DEF Latest, ListAfter
  <2> QED BY <2>2, <2>3
<1> QED BY <1>4, <1>5, <1>6

LEMMA CartStep ==
  ASSUME CartStore, StoreSound, Present(Cart), NEW s \in Sessions, NEW r, NEW w,
         Transact(s, r, w), Reads(s, r), Writable(w), Agreeing(w)
  PROVE  StoreSound' /\ Present(Cart)' /\ QuantityIffListed'
<1>1. DOMAIN r \subseteq Keys /\ DOMAIN w \subseteq Keys /\ \A k \in DOMAIN w : w[k] \in Values
  BY DEF Reads, Writable
<1>2. StoreSound' /\ level' = level BY <1>1, TransactEffect
<1>3. /\ Latest(Cart)'.list = ListAfter(w) /\ Present(Cart)'
      /\ \A i \in Items : LatestQuantity(i)' = QuantityAfter(i, w)
  BY RecordsAfter
<1>4. QuantityIffListed' BY <1>2, <1>3 DEF QuantityIffListed, Agreeing
<1> QED BY <1>2, <1>3, <1>4

\* The newest records, and on a linearizable store what is read of them.
LEMMA LatestTyped ==
  ASSUME CartStore, StoreSound, Present(Cart)
  PROVE  /\ Latest(Cart).list \in Seq(Items)
         /\ \A i \in Items : LatestQuantity(i) \in Nat
<1>1. ASSUME NEW k \in Keys, Present(k) PROVE Latest(k) \in Values
  <2>1. Len(versions[k]) \in DOMAIN versions[k] BY <1>1, VersionsTyped DEF StoreSound
  <2> QED BY <2>1, VersionsTyped DEF StoreSound, Latest
<1>2. Latest(Cart).list \in Seq(Items) BY <1>1, KeysTyped, ValuesTyped
<1>3. \A i \in Items : LatestQuantity(i) \in Nat BY <1>1, KeysTyped, ValuesTyped DEF LatestQuantity
<1> QED BY <1>2, <1>3

LEMMA ReadTyped ==
  ASSUME CartStore, StoreSound, NEW s \in Sessions, NEW r, Reads(s, r)
  PROVE  /\ ListRead(r) \in Seq(Items)
         /\ \A i \in Items : QuantityRead(i, r) \in Nat
<1>1. ASSUME NEW k \in DOMAIN r PROVE versions[k][r[k]] \in Values
  <2>1. k \in Keys /\ r[k] \in DOMAIN versions[k] BY VisibleAboveFloor DEF Reads
  <2> QED BY <2>1, VersionsTyped DEF StoreSound
<1>2. ListRead(r) \in Seq(Items)
  <2>1. <<>> \in Seq(Items) OBVIOUS
  <2> QED BY <1>1, <2>1, ValuesTyped DEF ListRead
<1>3. \A i \in Items : QuantityRead(i, r) \in Nat BY <1>1, ValuesTyped DEF QuantityRead
<1> QED BY <1>2, <1>3

LEMMA NewestRead ==
  ASSUME CartStore, StoreSound, NEW s \in Sessions, NEW ks \in SUBSET Keys,
         NEW r \in ReadChoices(s, ks), \A k \in DOMAIN r : r[k] = Len(versions[k])
  PROVE  /\ Present(Cart) /\ Cart \in ks => ListRead(r) = Latest(Cart).list
         /\ \A i \in Items : Quantity(i) \in ks => QuantityRead(i, r) = LatestQuantity(i)
<1>1. DOMAIN r = {k \in ks : Present(k)} BY ReadsOfChoices
<1>2. Present(Cart) /\ Cart \in ks => ListRead(r) = Latest(Cart).list
  BY <1>1 DEF ListRead, Latest
<1>3. \A i \in Items : Quantity(i) \in ks => QuantityRead(i, r) = LatestQuantity(i)
  BY <1>1 DEF QuantityRead, LatestQuantity, Latest
<1> QED BY <1>2, <1>3

LEMMA LinearRead ==
  ASSUME CartStore, StoreSound, level = "linear", NEW s \in Sessions, NEW ks \in SUBSET Keys,
         NEW r \in ReadChoices(s, ks)
  PROVE  /\ Present(Cart) /\ Cart \in ks => ListRead(r) = Latest(Cart).list
         /\ \A i \in Items : Quantity(i) \in ks => QuantityRead(i, r) = LatestQuantity(i)
<1>1. Reads(s, r) BY ReadsOfChoices
<1>2. \A k \in DOMAIN r : k \in Keys /\ r[k] \in Visible(s, k) BY <1>1 DEF Reads
<1>3. \A k \in DOMAIN r : r[k] = Len(versions[k]) BY <1>2, VisibleAboveFloor
<1> QED BY <1>3, NewestRead

\* The next operation of thread t, and what is left when it has been performed.
LEMMA PerformsTyped ==
  ASSUME ProgramsTyped, NEW t \in Threads, NEW op, Performs(t, op)
  PROVE  /\ Arg(t) \in Calls /\ Arg(t).op = op
         /\ ProgramsTyped'
<1> DEFINE h == Head(todo[t])
           rest == Tail(h)
<1>1. todo \in [Threads -> Seq(Brackets)] /\ todo[t] # <<>> /\ todo[t] \in Seq(Brackets)
  BY DEF ProgramsTyped, Performs
<1>2. h \in Brackets /\ Tail(todo[t]) \in Seq(Brackets) BY <1>1
<1>3. h \in Seq(Calls) /\ h # <<>> BY <1>2 DEF Brackets
<1>4. Head(h) \in Calls /\ rest \in Seq(Calls) BY <1>3
<1>5. Arg(t) \in Calls /\ Arg(t).op = op BY <1>4 DEF Arg, Performs
<1>6. IF rest = <<>> THEN todo' = [todo EXCEPT ![t] = Tail(@)] /\ mtx' = 0
      ELSE todo' = [todo EXCEPT ![t] = <<rest>> \o Tail(@)] /\ mtx' = t
  BY DEF Performs
<1>7. run' = run BY DEF Performs
<1> HIDE DEF h, rest
<1>8. ASSUME rest = <<>> PROVE ProgramsTyped'
  BY <1>1, <1>2, <1>6, <1>7, <1>8 DEF ProgramsTyped
<1>9. ASSUME rest # <<>> PROVE ProgramsTyped'
  <2>1. rest \in Brackets BY <1>4, <1>9 DEF Brackets
  <2>2. <<rest>> \in Seq(Brackets) BY <2>1
  <2>3. <<rest>> \o Tail(todo[t]) \in Seq(Brackets) BY <1>2, <2>2
  <2>4. todo' = [todo EXCEPT ![t] = <<rest>> \o Tail(todo[t])] /\ mtx' = t BY <1>1, <1>6, <1>9
  <2>5. todo' \in [Threads -> Seq(Brackets)] BY <1>1, <2>3, <2>4
  <2> QED BY <1>7, <2>4, <2>5 DEF ProgramsTyped
<1> QED BY <1>5, <1>8, <1>9

\* The arguments of an operation.
LEMMA CallTyped ==
  \A o \in Calls : /\ o.session \in Sessions /\ o.item \in Items /\ o.n \in Nat
                   /\ o.op \in {"add_item", "change_quantity"} => o.n > 0
  BY DEF Calls, Operations
-----------------------------------------------------------------------------
(* The writes of the operations *)

LEMMA NothingWritten ==
  /\ Writable(NoWrites) /\ ListAfter(NoWrites) = Latest(Cart).list
  /\ \A j : QuantityAfter(j, NoWrites) = LatestQuantity(j)
<1>1. DOMAIN NoWrites = {} BY DEF NoWrites
<1> QED BY <1>1 DEF Writable, ListAfter, QuantityAfter

LEMMA QuantityWritten ==
  ASSUME CartStore, NEW i \in Items, NEW n \in Nat
  PROVE  /\ Writable(At(Quantity(i), Number(n)))
         /\ ListAfter(At(Quantity(i), Number(n))) = Latest(Cart).list
         /\ \A j : QuantityAfter(j, At(Quantity(i), Number(n))) =
                     IF j = i THEN n ELSE LatestQuantity(j)
<1> DEFINE w == At(Quantity(i), Number(n))
<1>1. DOMAIN w = {Quantity(i)} /\ w[Quantity(i)] = Number(n) BY AtIsOne
<1>2. Quantity(i) \in Keys /\ Number(n) \in Values /\ Number(n).n = n BY KeysTyped, ValuesTyped
<1> HIDE DEF w
<1>3. Writable(w) BY <1>1, <1>2 DEF Writable
<1>4. ListAfter(w) = Latest(Cart).list BY <1>1, KeysDiffer DEF ListAfter
<1>5. \A j : QuantityAfter(j, w) = IF j = i THEN n ELSE LatestQuantity(j)
  BY <1>1, <1>2, KeysDiffer DEF QuantityAfter
<1> QED BY <1>3, <1>4, <1>5 DEF w

LEMMA CartWritten ==
  ASSUME CartStore, NEW q \in Seq(Items)
  PROVE  /\ Writable(At(Cart, List(q))) /\ ListAfter(At(Cart, List(q))) = q
         /\ \A j : QuantityAfter(j, At(Cart, List(q))) = LatestQuantity(j)
<1> DEFINE w == At(Cart, List(q))
<1>1. DOMAIN w = {Cart} /\ w[Cart] = List(q) BY AtIsOne
<1>2. Cart \in Keys /\ List(q) \in Values /\ List(q).list = q BY KeysTyped, ValuesTyped
<1> HIDE DEF w
<1>3. Writable(w) BY <1>1, <1>2 DEF Writable
<1>4. ListAfter(w) = q BY <1>1, <1>2 DEF ListAfter
<1>5. \A j : QuantityAfter(j, w) = LatestQuantity(j) BY <1>1, KeysDiffer DEF QuantityAfter
<1> QED BY <1>3, <1>4, <1>5 DEF w

\* The order in which the two are written does not matter.
BothAre(w, i, n, q) ==
  /\ Writable(w) /\ ListAfter(w) = q
  /\ \A j : QuantityAfter(j, w) = IF j = i THEN n ELSE LatestQuantity(j)

LEMMA BothWritten ==
  ASSUME CartStore, NEW i \in Items, NEW n \in Nat, NEW q \in Seq(Items)
  PROVE  /\ BothAre(At(Quantity(i), Number(n)) ++ At(Cart, List(q)), i, n, q)
         /\ BothAre(At(Cart, List(q)) ++ At(Quantity(i), Number(n)), i, n, q)
<1> DEFINE a == At(Quantity(i), Number(n))
           b == At(Cart, List(q))
<1>1. /\ DOMAIN a = {Quantity(i)} /\ a[Quantity(i)] = Number(n)
      /\ DOMAIN b = {Cart} /\ b[Cart] = List(q)
  BY AtIsOne
<1>2. /\ Quantity(i) \in Keys /\ Number(n) \in Values /\ Number(n).n = n
      /\ Cart \in Keys /\ List(q) \in Values /\ List(q).list = q
  BY KeysTyped, ValuesTyped
<1>3. Quantity(i) # Cart BY KeysDiffer
<1> HIDE DEF a, b
<1>4. ASSUME NEW w, DOMAIN w = {Cart, Quantity(i)}, w[Cart] = List(q), w[Quantity(i)] = Number(n)
      PROVE  BothAre(w, i, n, q)
  <2>1. Writable(w) BY <1>2, <1>4 DEF Writable
  <2>2. ListAfter(w) = q BY <1>2, <1>4 DEF ListAfter
  <2>3. \A j : QuantityAfter(j, w) = IF j = i THEN n ELSE LatestQuantity(j)
    BY <1>2, <1>4, KeysDiffer DEF QuantityAfter
  <2> QED BY <2>1, <2>2, <2>3 DEF BothAre
<1>5. /\ DOMAIN (a ++ b) = {Cart, Quantity(i)}
      /\ (a ++ b)[Cart] = List(q) /\ (a ++ b)[Quantity(i)] = Number(n)
  BY <1>1, <1>3 DEF ++
<1>6. /\ DOMAIN (b ++ a) = {Cart, Quantity(i)}
      /\ (b ++ a)[Cart] = List(q) /\ (b ++ a)[Quantity(i)] = Number(n)
  BY <1>1, <1>3 DEF ++
<1>7. BothAre(a ++ b, i, n, q) BY <1>4, <1>5
<1>8. BothAre(b ++ a, i, n, q) BY <1>4, <1>6
<1> QED BY <1>7, <1>8 DEF a, b
-----------------------------------------------------------------------------
(* The operations *)

\* The invariant without the programs.
CartHolds == StoreSound /\ Present(Cart) /\ QuantityIffListed

\* What is read of the cart and of the quantity of i, and how that relates to the
\* newest records on a linearizable store.
LEMMA CallRead ==
  ASSUME CartStore, CartHolds, NEW s \in Sessions, NEW ks \in SUBSET Keys,
         NEW r \in ReadChoices(s, ks)
  PROVE  /\ Reads(s, r) /\ ListRead(r) \in Seq(Items)
         /\ \A i \in Items : QuantityRead(i, r) \in Nat
         /\ level = "linear" =>
              /\ Cart \in ks => ListRead(r) = Latest(Cart).list
              /\ \A i \in Items : Quantity(i) \in ks => QuantityRead(i, r) = LatestQuantity(i)
<1>1. StoreSound /\ Present(Cart) BY DEF CartHolds
<1>2. Reads(s, r) BY ReadsOfChoices
<1>3. ListRead(r) \in Seq(Items) /\ \A i \in Items : QuantityRead(i, r) \in Nat
  BY <1>1, <1>2, ReadTyped
<1>4. ASSUME level = "linear"
      PROVE  /\ Cart \in ks => ListRead(r) = Latest(Cart).list
             /\ \A i \in Items : Quantity(i) \in ks => QuantityRead(i, r) = LatestQuantity(i)
  BY <1>1, <1>4, LinearRead
<1> QED BY <1>2, <1>3, <1>4

LEMMA AddItemAct ==
  ASSUME CartStore, CartHolds, ProgramsTyped, NEW t \in Threads, AddItem(t)
  PROVE  CartAct /\ ProgramsTyped' /\ UNCHANGED results
<1> DEFINE s == Arg(t).session
           i == Arg(t).item
           n == Arg(t).n
           w(r) == LET quantity == At(Quantity(i), Number(QuantityRead(i, r) + n))
                       insert == At(Cart, List(Append(ListRead(r), i)))
                   IN IF Contains(ListRead(r), i) THEN quantity ELSE quantity ++ insert
<1>1. Performs(t, "add_item") /\ UNCHANGED results BY DEF AddItem
<1>2. ProgramsTyped' /\ s \in Sessions /\ i \in Items /\ n \in Nat /\ n > 0
  BY <1>1, PerformsTyped, CallTyped
<1>3. PICK r \in ReadChoices(s, {Cart, Quantity(i)}) : Transact(s, r, w(r)) BY DEF AddItem
<1> HIDE DEF s, i, n
<1>4. {Cart, Quantity(i)} \in SUBSET Keys BY <1>2, KeysTyped
<1>5. /\ Reads(s, r) /\ ListRead(r) \in Seq(Items) /\ QuantityRead(i, r) \in Nat
      /\ level = "linear" => ListRead(r) = Latest(Cart).list /\ QuantityRead(i, r) = LatestQuantity(i)
  BY <1>2, <1>3, <1>4, CallRead
<1> DEFINE q == ListRead(r)
           m == QuantityRead(i, r) + n
<1>6. m \in Nat /\ m > 0 BY <1>2, <1>5
<1>7. level = "linear" => \A j \in Items : LatestQuantity(j) > 0 <=> Contains(q, j)
  BY <1>5 DEF CartHolds, QuantityIffListed
<1>8. ASSUME Contains(q, i) PROVE Writable(w(r)) /\ Agreeing(w(r))
  <2>1. w(r) = At(Quantity(i), Number(m)) BY <1>8
  <2> HIDE DEF w, m
  <2>2. /\ Writable(w(r)) /\ ListAfter(w(r)) = Latest(Cart).list
        /\ \A j : QuantityAfter(j, w(r)) = IF j = i THEN m ELSE LatestQuantity(j)
    BY <1>2, <1>6, <2>1, QuantityWritten
  <2> QED BY <1>5, <1>6, <1>7, <1>8, <2>2 DEF Agreeing
<1>9. ASSUME ~ Contains(q, i) PROVE Writable(w(r)) /\ Agreeing(w(r))
  <2> DEFINE q1 == Append(q, i)
  <2>1. w(r) = At(Quantity(i), Number(m)) ++ At(Cart, List(q1)) BY <1>9
  <2>2. q1 \in Seq(Items) /\ \A y : Contains(q1, y) <=> y = i \/ Contains(q, y)
    BY <1>2, <1>5, ContainsAppend
  <2> HIDE DEF w, m, q1
  <2>3. BothAre(w(r), i, m, q1) BY <1>2, <1>6, <2>1, <2>2, BothWritten
  <2> QED BY <1>6, <1>7, <2>2, <2>3 DEF Agreeing, BothAre
<1>10. CartAct
  <2> HIDE DEF w
  <2>1. Writable(w(r)) /\ Agreeing(w(r)) BY <1>8, <1>9
  <2> QED BY <1>2, <1>3, <1>5, <2>1 DEF CartAct
<1> QED BY <1>1, <1>2, <1>10

LEMMA ChangeQuantityAct ==
  ASSUME CartStore, CartHolds, ProgramsTyped, NEW t \in Threads, ChangeQuantity(t)
  PROVE  CartAct /\ ProgramsTyped' /\ UNCHANGED results
<1> DEFINE s == Arg(t).session
           i == Arg(t).item
           n == Arg(t).n
           w(r) == IF QuantityRead(i, r) # 0 THEN At(Quantity(i), Number(n)) ELSE NoWrites
<1>1. Performs(t, "change_quantity") /\ UNCHANGED results BY DEF ChangeQuantity
<1>2. ProgramsTyped' /\ s \in Sessions /\ i \in Items /\ n \in Nat /\ n > 0
  BY <1>1, PerformsTyped, CallTyped
<1>3. PICK r \in ReadChoices(s, {Quantity(i)}) : Transact(s, r, w(r)) BY DEF ChangeQuantity
<1> HIDE DEF s, i, n
<1>4. {Quantity(i)} \in SUBSET Keys BY <1>2, KeysTyped
<1>5. /\ Reads(s, r) /\ QuantityRead(i, r) \in Nat
      /\ level = "linear" => QuantityRead(i, r) = LatestQuantity(i)
  BY <1>2, <1>3, <1>4, CallRead
<1>6. level = "linear" => \A j \in Items : LatestQuantity(j) > 0 <=> Contains(Latest(Cart).list, j)
  BY DEF CartHolds, QuantityIffListed
<1>7. ASSUME QuantityRead(i, r) # 0 PROVE Writable(w(r)) /\ Agreeing(w(r))
  <2>1. w(r) = At(Quantity(i), Number(n)) BY <1>7
  <2> HIDE DEF w
  <2>2. /\ Writable(w(r)) /\ ListAfter(w(r)) = Latest(Cart).list
        /\ \A j : QuantityAfter(j, w(r)) = IF j = i THEN n ELSE LatestQuantity(j)
    BY <1>2, <2>1, QuantityWritten
  <2>3. QuantityRead(i, r) > 0 BY <1>5, <1>7
  <2> QED BY <1>2, <1>5, <1>6, <2>2, <2>3 DEF Agreeing
<1>8. ASSUME QuantityRead(i, r) = 0 PROVE Writable(w(r)) /\ Agreeing(w(r))
  <2>1. w(r) = NoWrites BY <1>8
  <2> HIDE DEF w
  <2> QED BY <1>6, <2>1, NothingWritten DEF Agreeing
<1>9. CartAct
  <2> HIDE DEF w
  <2>1. Writable(w(r)) /\ Agreeing(w(r)) BY <1>7, <1>8
  <2> QED BY <1>2, <1>3, <1>5, <2>1 DEF CartAct
<1> QED BY <1>1, <1>2, <1>9

LEMMA RemoveItemAct ==
  ASSUME CartStore, CartHolds, ProgramsTyped, NEW t \in Threads, RemoveItem(t)
  PROVE  CartAct /\ ProgramsTyped' /\ UNCHANGED results
<1> DEFINE s == Arg(t).session
           i == Arg(t).item
           w(r) == LET cart == At(Cart, List(Without(ListRead(r), i)))
                       none == At(Quantity(i), Number(0))
                   IN IF ~ Present(Cart) THEN NoWrites
                      ELSE IF Contains(ListRead(r), i) THEN cart ++ none ELSE cart
<1>1. Performs(t, "remove_item") /\ UNCHANGED results BY DEF RemoveItem
<1>2. ProgramsTyped' /\ s \in Sessions /\ i \in Items BY <1>1, PerformsTyped, CallTyped
<1>3. PICK r \in ReadChoices(s, {Cart}) : Transact(s, r, w(r)) BY DEF RemoveItem
<1> HIDE DEF s, i
<1>4. {Cart} \in SUBSET Keys BY KeysTyped
<1>5. /\ Reads(s, r) /\ ListRead(r) \in Seq(Items)
      /\ level = "linear" => ListRead(r) = Latest(Cart).list
  BY <1>2, <1>3, <1>4, CallRead
<1> DEFINE q == ListRead(r)
           q1 == Without(q, i)
<1>6. q1 \in Seq(Items) /\ \A y : Contains(q1, y) <=> y # i /\ Contains(q, y)
  BY <1>5, ContainsWithout
<1>7. level = "linear" => \A j \in Items : LatestQuantity(j) > 0 <=> Contains(q, j)
  BY <1>5 DEF CartHolds, QuantityIffListed
<1>8. Present(Cart) BY DEF CartHolds
<1>9. ASSUME Contains(q, i) PROVE Writable(w(r)) /\ Agreeing(w(r))
  <2>1. w(r) = At(Cart, List(q1)) ++ At(Quantity(i), Number(0)) BY <1>8, <1>9
  <2> HIDE DEF w, q1
  <2>2. BothAre(w(r), i, 0, q1) BY <1>2, <1>6, <2>1, BothWritten
  <2> QED BY <1>6, <1>7, <2>2 DEF Agreeing, BothAre
<1>10. ASSUME ~ Contains(q, i) PROVE Writable(w(r)) /\ Agreeing(w(r))
  <2>1. w(r) = At(Cart, List(q1)) BY <1>8, <1>10
  <2> HIDE DEF w, q1
  <2>2. /\ Writable(w(r)) /\ ListAfter(w(r)) = q1
        /\ \A j : QuantityAfter(j, w(r)) = LatestQuantity(j)
    BY <1>6, <2>1, CartWritten
  <2> QED BY <1>6, <1>7, <1>10, <2>2 DEF Agreeing
<1>11. CartAct
  <2> HIDE DEF w
  <2>1. Writable(w(r)) /\ Agreeing(w(r)) BY <1>9, <1>10
  <2> QED BY <1>2, <1>3, <1>5, <2>1 DEF CartAct
<1> QED BY <1>1, <1>2, <1>11

\* An operation that only reads.
LEMMA ReadAct ==
  ASSUME CartHolds, NEW s \in Sessions, NEW r, Reads(s, r), Transact(s, r, NoWrites)
  PROVE  CartAct
<1>1. Agreeing(NoWrites) BY NothingWritten DEF CartHolds, QuantityIffListed, Agreeing
<1> QED BY <1>1, NothingWritten DEF CartAct

LEMMA ReturnsTyped ==
  ASSUME ResultsTyped, NEW t \in Threads, NEW q \in Seq(Items \X Nat), Returns(t, q)
  PROVE  ResultsTyped'
  BY DEF ResultsTyped, Returns

LEMMA GetQuantityAct ==
  ASSUME CartStore, CartHolds, ProgramsTyped, ResultsTyped, NEW t \in Threads, GetQuantity(t)
  PROVE  CartAct /\ ProgramsTyped' /\ ResultsTyped'
<1> DEFINE s == Arg(t).session
           i == Arg(t).item
<1>1. Performs(t, "get_quantity") BY DEF GetQuantity
<1>2. ProgramsTyped' /\ s \in Sessions /\ i \in Items BY <1>1, PerformsTyped, CallTyped
<1>3. PICK r \in ReadChoices(s, {Quantity(i)}) :
        Transact(s, r, NoWrites) /\ Returns(t, <<<<i, QuantityRead(i, r)>>>>)
  BY DEF GetQuantity
<1> HIDE DEF s, i
<1>4. {Quantity(i)} \in SUBSET Keys BY <1>2, KeysTyped
<1>5. Reads(s, r) /\ QuantityRead(i, r) \in Nat BY <1>2, <1>3, <1>4, CallRead
<1>6. <<<<i, QuantityRead(i, r)>>>> \in Seq(Items \X Nat) BY <1>2, <1>5
<1> QED BY <1>2, <1>3, <1>5, <1>6, ReadAct, ReturnsTyped

LEMMA GetCartListAct ==
  ASSUME CartStore, CartHolds, ProgramsTyped, ResultsTyped, NEW t \in Threads, GetCartList(t)
  PROVE  CartAct /\ ProgramsTyped' /\ ResultsTyped'
<1> DEFINE s == Arg(t).session
           quantities(list) == {Quantity(i) : i \in ToSet(list)}
           entries(list, q) == [j \in DOMAIN list |-> <<list[j], QuantityRead(list[j], q)>>]
<1>1. Performs(t, "get_cart_list") BY DEF GetCartList
<1>2. ProgramsTyped' /\ s \in Sessions BY <1>1, PerformsTyped, CallTyped
<1>3. PICK r \in ReadChoices(s, {Cart}) :
        \E q \in ReadChoices(s, quantities(ListRead(r))) :
          Transact(s, r ++ q, NoWrites) /\ Returns(t, entries(ListRead(r), q))
  BY DEF GetCartList
<1> HIDE DEF s
<1>4. {Cart} \in SUBSET Keys BY KeysTyped
<1>5. Reads(s, r) /\ ListRead(r) \in Seq(Items) BY <1>2, <1>3, <1>4, CallRead
<1> DEFINE list == ListRead(r)
<1>6. PICK q \in ReadChoices(s, quantities(list)) :
        Transact(s, r ++ q, NoWrites) /\ Returns(t, entries(list, q))
  BY <1>3
<1> HIDE DEF list
<1>7. list \in Seq(Items) BY <1>5 DEF list
<1>8. quantities(list) \in SUBSET Keys BY <1>7, KeysTyped DEF ToSet
<1>9. Reads(s, q) /\ \A i \in Items : QuantityRead(i, q) \in Nat
  <2> HIDE DEF quantities
  <2> QED BY <1>2, <1>6, <1>8, CallRead
<1>10. entries(list, q) \in Seq(Items \X Nat)
  <2>1. DOMAIN list = 1 .. Len(list) /\ Len(list) \in Nat BY <1>7
  <2>2. \A j \in DOMAIN list : list[j] \in Items BY <1>7
  <2> QED BY <1>9, <2>1, <2>2
<1>11. Reads(s, r ++ q) BY <1>5, <1>9, ReadsJoin
<1> HIDE DEF entries
<1>12. ResultsTyped' BY <1>6, <1>10, ReturnsTyped
<1>13. CartAct BY <1>2, <1>6, <1>11, ReadAct
<1> QED BY <1>2, <1>12, <1>13

LEMMA CartStepKeeps ==
  ASSUME CartStore, CartInv, [Next]_vars
  PROVE  CartInv'
<1>1. CartHolds /\ ProgramsTyped /\ ResultsTyped BY DEF CartInv, CartHolds
<1>2. ASSUME CartAct PROVE StoreSound' /\ Present(Cart)' /\ QuantityIffListed'
  BY <1>1, <1>2, CartStep DEF CartAct, CartHolds
<1>3. ASSUME UNCHANGED results PROVE ResultsTyped' BY <1>1, <1>3 DEF ResultsTyped
<1>4. ASSUME NEW t \in Threads, AddItem(t) \/ ChangeQuantity(t) \/ RemoveItem(t)
      PROVE  CartInv'
  <2>1. CartAct /\ ProgramsTyped' /\ UNCHANGED results
    BY <1>1, <1>4, AddItemAct, ChangeQuantityAct, RemoveItemAct
  <2> QED BY <1>2, <1>3, <2>1 DEF CartInv
<1>5. ASSUME NEW t \in Threads, GetQuantity(t) \/ GetCartList(t)
      PROVE  CartInv'
  <2>1. CartAct /\ ProgramsTyped' /\ ResultsTyped'
    BY <1>1, <1>5, GetQuantityAct, GetCartListAct
  <2> QED BY <1>2, <2>1 DEF CartInv
<1>6. CASE UNCHANGED vars
  BY <1>6 DEF vars, storeVars, cartVars, CartInv, ProgramsTyped, ResultsTyped, StoreSound,
              StoreTypeOK, FloorsBounded, Present, QuantityIffListed, LatestQuantity, Latest
<1> QED BY <1>4, <1>5, <1>6 DEF Next
-----------------------------------------------------------------------------
(* The initial states *)

LEMMA OperationsTyped ==
  ASSUME NEW i \in Items, NEW s \in Sessions
  PROVE  /\ \A n \in Nat \ {0} : AddOp(i, n, s) \in Calls
         /\ RemoveOp(i, s) \in Calls /\ ListOp(s) \in Calls
  BY DEF AddOp, RemoveOp, ListOp, Op, Calls, Operations, Items

LEMMA BracketsTyped == \A a \in Calls : <<a>> \in Brackets
  BY DEF Brackets

LEMMA FixedTyped == Fixed \in [Threads -> Seq(Brackets)]
<1> DEFINE first(t) == IF t = 1 THEN RemoveOp("shoes", t) ELSE AddOp("shoes", 3, t)
           program(t) == << <<first(t)>>, <<ListOp(t)>>, <<ListOp(t)>> >>
<1>1. Fixed = [t \in Threads |-> program(t)] BY DEF Fixed
<1>2. ASSUME NEW t \in Threads PROVE program(t) \in Seq(Brackets)
  <2>1. t \in Sessions /\ "shoes" \in Items BY CartAssumption DEF Items
  <2>2. 3 \in Nat \ {0} OBVIOUS
  <2>3. first(t) \in Calls /\ ListOp(t) \in Calls BY <2>1, <2>2, OperationsTyped
  <2> HIDE DEF first
  <2>4. <<first(t)>> \in Brackets /\ <<ListOp(t)>> \in Brackets BY <2>3, BracketsTyped
  <2> QED BY <2>4
<1> HIDE DEF program
<1> QED BY <1>1, <1>2

LEMMA RandomTyped ==
  ASSUME NEW c \in [1 .. NumOps -> 0 .. 2]
  PROVE  Random(c) \in [Threads -> Seq(Brackets)]
<1> DEFINE call(t, j) == RandomOp(t, c[j], ItemSeq[((j - 1) % Len(ItemSeq)) + 1])
           calls(t) == [j \in 1 .. NumOps |-> <<call(t, j)>>]
           program(t) == calls(t) \o << <<ListOp(t)>> >>
<1>1. Random(c) = [t \in Threads |-> program(t)] BY DEF Random
<1>2. NumOps \in Nat /\ ItemSeq \in Seq(Items) /\ Len(ItemSeq) \in Nat /\ Len(ItemSeq) > 0
  BY CartAssumption
<1>3. ASSUME NEW t \in Threads PROVE program(t) \in Seq(Brackets)
  <2>1. t \in Sessions /\ 1 \in Sessions /\ t \in Nat \ {0} BY CartAssumption DEF Threads
  <2>2. ASSUME NEW j \in 1 .. NumOps PROVE <<call(t, j)>> \in Brackets
    <3> DEFINE i == ItemSeq[((j - 1) % Len(ItemSeq)) + 1]
    <3>1. j - 1 \in Nat BY <1>2
    <3>2. ((j - 1) % Len(ItemSeq)) + 1 \in 1 .. Len(ItemSeq) BY <1>2, <3>1
    <3>3. i \in Items BY <1>2, <3>2
    <3> HIDE DEF i
    <3>4. c[j] \in {0, 1, 2} OBVIOUS
    <3>5. RandomOp(t, c[j], i) \in {ListOp(t), AddOp(i, t, 1), RemoveOp(i, t)}
      BY <3>4 DEF RandomOp
    <3>6. RandomOp(t, c[j], i) \in Calls BY <2>1, <3>3, <3>5, OperationsTyped
    <3> QED BY <3>6, BracketsTyped DEF i
  <2> HIDE DEF call
  <2>3. calls(t) \in Seq(Brackets) BY <1>2, <2>2
  <2>4. "shoes" \in Items BY DEF Items
  <2>5. <<ListOp(t)>> \in Brackets BY <2>1, <2>4, OperationsTyped, BracketsTyped
  <2>6. << <<ListOp(t)>> >> \in Seq(Brackets) BY <2>5
  <2> HIDE DEF calls
  <2> QED BY <2>3, <2>6
<1> HIDE DEF program
<1> QED BY <1>1, <1>3

\* run_iteration has added one pair of shoes.
LEMMA InitialVersions ==
  ASSUME CartStore, Init
  PROVE  /\ DOMAIN versions = Keys /\ versions = [k \in Keys |-> versions[k]]
         /\ versions[Cart] = <<List(<<"shoes">>)>>
         /\ versions[Quantity("shoes")] = <<Number(1)>>
         /\ versions[Quantity("ball")] = <<>>
<1> DEFINE cart == <<List(<<"shoes">>)>>
           one == <<Number(1)>>
           v == At(Cart, cart) ++ At(Quantity("shoes"), one)
           c == At(Quantity("ball"), <<>>)
<1>1. versions = v ++ c BY DEF Init
<1>2. Keys = {Cart, Quantity("shoes"), Quantity("ball")} BY DEF CartStore, CartKeys, Items
<1>3. Cart # Quantity("shoes") /\ Cart # Quantity("ball") /\ Quantity("shoes") # Quantity("ball")
  BY KeysDiffer
<1> HIDE DEF cart, one
<1>4. /\ DOMAIN v = {Cart, Quantity("shoes")} /\ v[Cart] = cart /\ v[Quantity("shoes")] = one
  <2> DEFINE a == At(Cart, cart)
             b == At(Quantity("shoes"), one)
  <2>1. /\ DOMAIN a = {Cart} /\ a[Cart] = cart
        /\ DOMAIN b = {Quantity("shoes")} /\ b[Quantity("shoes")] = one
    BY AtIsOne
  <2>2. v = a ++ b OBVIOUS
  <2> HIDE DEF a, b, v
  <2> QED BY <1>3, <2>1, <2>2 DEF ++
<1>5. DOMAIN c = {Quantity("ball")} /\ c[Quantity("ball")] = <<>> BY AtIsOne
<1> HIDE DEF v, c
<1>6. DOMAIN versions = DOMAIN v \cup DOMAIN c /\ versions = [k \in DOMAIN versions |-> versions[k]]
  BY <1>1 DEF ++
<1>7. versions[Cart] = cart BY <1>1, <1>4 DEF ++
<1>8. versions[Quantity("shoes")] = one BY <1>1, <1>4 DEF ++
<1>9. versions[Quantity("ball")] = <<>> BY <1>1, <1>3, <1>4, <1>5 DEF ++
<1>10. DOMAIN versions = Keys BY <1>2, <1>4, <1>5, <1>6
<1> QED BY <1>6, <1>7, <1>8, <1>9, <1>10 DEF cart, one

LEMMA CartInit ==
  ASSUME CartStore, Init
  PROVE  CartInv
<1> DEFINE cart == <<List(<<"shoes">>)>>
           one == <<Number(1)>>
<1>1. /\ floor = [s \in Sessions |-> [k \in Keys |-> IF s = 1 /\ Present(k) THEN 1 ELSE 0]]
      /\ level \in Levels /\ run \in Runs /\ todo \in Programs(run) /\ mtx = 0
      /\ results = [t \in Threads |-> <<>>]
  BY DEF Init
<1>2. <<"shoes">> \in Seq(Items) BY DEF Items
<1>3. /\ List(<<"shoes">>) \in Values /\ List(<<"shoes">>).list = <<"shoes">>
      /\ Number(1) \in Values /\ Number(1).n = 1
  BY <1>2, ValuesTyped
<1>4. cart \in Seq(Values) /\ one \in Seq(Values) /\ <<>> \in Seq(Values)
      /\ Len(cart) = 1 /\ Len(one) = 1 /\ cart[1] = List(<<"shoes">>) /\ one[1] = Number(1)
      /\ cart # <<>> /\ one # <<>>
  BY <1>3
<1> HIDE DEF cart, one
<1>5. Keys = {Cart, Quantity("shoes"), Quantity("ball")} BY DEF CartStore, CartKeys, Items
<1>7. /\ DOMAIN versions = Keys /\ versions = [k \in Keys |-> versions[k]]
      /\ versions[Cart] = cart /\ versions[Quantity("shoes")] = one
      /\ versions[Quantity("ball")] = <<>>
  BY InitialVersions DEF cart, one
<1>8. versions \in [Keys -> Seq(Values)] BY <1>4, <1>5, <1>7
<1>9. StoreSound
  <2>1. StoreTypeOK BY <1>1, <1>8 DEF StoreTypeOK
  <2>2. FloorsBounded
    <3> SUFFICES ASSUME NEW s \in Sessions, NEW k \in Keys
                 PROVE  floor[s][k] <= Len(versions[k])
      BY DEF FloorsBounded
    <3>1. Len(versions[k]) \in Nat /\ (Present(k) <=> Len(versions[k]) > 0)
      BY <2>1, VersionsTyped
    <3>2. floor[s][k] = IF s = 1 /\ Present(k) THEN 1 ELSE 0 BY <1>1
    <3> QED BY <3>1, <3>2
  <2> QED BY <2>1, <2>2 DEF StoreSound
<1>10. Present(Cart) BY <1>4, <1>7 DEF Present
<1>11. QuantityIffListed
  <2>1. Latest(Cart).list = <<"shoes">> BY <1>3, <1>4, <1>7 DEF Latest
  <2>2. Contains(Latest(Cart).list, "shoes") /\ ~ Contains(Latest(Cart).list, "ball")
    BY <2>1 DEF Contains
  <2>3. LatestQuantity("shoes") = 1 BY <1>3, <1>4, <1>7 DEF LatestQuantity, Latest, Present
  <2>4. LatestQuantity("ball") = 0 BY <1>7 DEF LatestQuantity, Present
  <2> QED BY <2>2, <2>3, <2>4 DEF QuantityIffListed, Items
<1>12. todo \in [Threads -> Seq(Brackets)]
  <2>1. run \in {"fixed", "random", "any"} BY <1>1, CartAssumption
  <2>2. CASE run = "fixed"
    <3>1. todo = Fixed BY <1>1, <2>2 DEF Programs
    <3> QED BY <3>1, FixedTyped
  <2>3. CASE run = "random"
    <3>1. PICK c \in [1 .. NumOps -> 0 .. 2] : todo = Random(c) BY <1>1, <2>3 DEF Programs
    <3> QED BY <3>1, RandomTyped
  <2>4. CASE run = "any"
    <3>1. todo \in Clients BY <1>1, <2>4 DEF Programs
    <3> QED BY <3>1, CartAssumption
  <2> QED BY <2>1, <2>2, <2>3, <2>4
<1>13. ProgramsTyped BY <1>1, <1>12 DEF ProgramsTyped
<1>14. ResultsTyped
  <2>1. <<>> \in Seq(Seq(Items \X Nat)) OBVIOUS
  <2> QED BY <1>1, <2>1 DEF ResultsTyped
<1> QED BY <1>9, <1>10, <1>11, <1>13, <1>14 DEF CartInv
-----------------------------------------------------------------------------
(* The theorems *)

\* The inductive invariant of the cart: the cart is there from run_iteration on, the
\* clients only add and change to quantities above 0, and the records agree.
THEOREM CartInvariant ==
  ASSUME CartStore
  PROVE  Spec => []CartInv
<1>1. Init => CartInv BY CartInit
<1>2. CartInv /\ [Next]_vars => CartInv' BY CartStepKeeps
<1> QED BY <1>1, <1>2, PTL DEF Spec

\* The state has its types: whatever stale lists the operations read, what they put
\* back is a list of items or a quantity.
THEOREM CartTypeOK ==
  ASSUME CartStore
  PROVE  Spec => []TypeOK
<1>1. CartInv => TypeOK
  <2> SUFFICES ASSUME CartInv PROVE TypeOK OBVIOUS
  <2>1. ProgramsTyped /\ ResultsTyped /\ StoreTypeOK BY DEF CartInv, StoreSound
  <2>2. Brackets \subseteq Seq(Operations)
    <3> SUFFICES ASSUME NEW b \in Seq(Calls) PROVE b \in Seq(Operations) BY DEF Brackets
    <3>1. Calls \subseteq Operations BY DEF Calls
    <3> HIDE DEF Calls
    <3> QED BY <3>1, SeqWidens
  <2>3. ASSUME NEW t \in Threads PROVE todo[t] \in Seq(Seq(Operations))
    <3>1. todo[t] \in Seq(Brackets) BY <2>1 DEF ProgramsTyped
    <3> QED BY <2>2, <3>1, SeqWidens
  <2>4. todo \in [Threads -> Seq(Seq(Operations))] BY <2>1, <2>3 DEF ProgramsTyped
  <2> QED BY <2>1, <2>4 DEF TypeOK, ProgramsTyped, ResultsTyped
<1> QED BY <1>1, CartInvariant, PTL

\* On a linearizable store an item has a quantity exactly if the cart lists it: for
\* the programs of run_shopping_cart with any number of random operations, and for any
\* other clients that add and change to quantities above 0, whatever they call, in
\* however long brackets and in whichever sessions (shopping_cart.h:105-136, 189-223).
THEOREM QuantitiesAgree ==
  ASSUME CartStore
  PROVE  Spec => []QuantityIffListed
<1>1. CartInv => QuantityIffListed BY DEF CartInv
<1> QED BY <1>1, CartInvariant, PTL
-----------------------------------------------------------------------------
(* What a call is, and what is left to do after it *)

\* Thread t performs its next operation a and has q left of this bracket, and then rest.
LEMMA PerformsTells ==
  ASSUME ProgramsTyped, NEW t \in Threads, NEW op, Performs(t, op)
  PROVE  /\ Arg(t).op = op /\ Arg(t) = Head(Head(todo[t])) /\ todo[t] # <<>> /\ mtx \in {0, t}
         /\ \A u \in Threads \ {t} : todo'[u] = todo[u]
         /\ IF Tail(Head(todo[t])) = <<>> THEN todo'[t] = Tail(todo[t]) /\ mtx' = 0
            ELSE todo'[t] = <<Tail(Head(todo[t]))>> \o Tail(todo[t]) /\ mtx' = t
  BY DEF ProgramsTyped, Performs, Arg

\* Head and Tail of the short sequences that the programs are written as.
LEMMA TuplesOfOne ==
  \A a : Head(<<a>>) = a /\ Tail(<<a>>) = <<>> /\ <<a>> # <<>>
  OBVIOUS

LEMMA TuplesOfTwo ==
  \A a, b : Head(<<a, b>>) = a /\ Tail(<<a, b>>) = <<b>>
  OBVIOUS

LEMMA TuplesOfThree ==
  \A a, b, c : Head(<<a, b, c>>) = a /\ Tail(<<a, b, c>>) = <<b, c>>
  OBVIOUS

\* The five operations.
Performed(t) == AddItem(t) \/ ChangeQuantity(t) \/ RemoveItem(t) \/ GetQuantity(t) \/ GetCartList(t)

\* Which of them the next call is.
LEMMA WhichOperation ==
  ASSUME NEW t \in Threads, Performed(t), Performs(t, Arg(t).op)
  PROVE  /\ Arg(t).op = "add_item" => AddItem(t)
         /\ Arg(t).op = "change_quantity" => ChangeQuantity(t)
         /\ Arg(t).op = "remove_item" => RemoveItem(t)
         /\ Arg(t).op = "get_quantity" => GetQuantity(t)
         /\ Arg(t).op = "get_cart_list" => GetCartList(t)
<1>1. \A op : Performs(t, op) => op = Arg(t).op BY DEF Performs, Arg
<1>2. /\ AddItem(t) => Arg(t).op = "add_item"
      /\ ChangeQuantity(t) => Arg(t).op = "change_quantity"
      /\ RemoveItem(t) => Arg(t).op = "remove_item"
      /\ GetQuantity(t) => Arg(t).op = "get_quantity"
      /\ GetCartList(t) => Arg(t).op = "get_cart_list"
  BY <1>1 DEF AddItem, ChangeQuantity, RemoveItem, GetQuantity, GetCartList
<1> QED BY <1>2 DEF Performed

LEMMA PerformedPerforms ==
  ASSUME NEW t \in Threads, Performed(t)
  PROVE  \E op : Performs(t, op)
  BY DEF Performed, AddItem, ChangeQuantity, RemoveItem, GetQuantity, GetCartList

LEMMA ShoesContained == Contains(<<"shoes">>, "shoes")
  BY DEF Contains

\* An operation that answers appends to its thread's results.
LEMMA ResultAppended ==
  ASSUME ResultsTyped, NEW t \in Threads, NEW a \in Seq(Items \X Nat), Returns(t, a)
  PROVE  /\ Len(results'[t]) = Len(results[t]) + 1 /\ results'[t][Len(results[t]) + 1] = a
         /\ \A i \in 1 .. Len(results[t]) : results'[t][i] = results[t][i]
         /\ \A u \in Threads \ {t} : results'[u] = results[u]
         /\ Len(results[t]) \in Nat
<1>1. results[t] \in Seq(Seq(Items \X Nat)) BY DEF ResultsTyped
<1>2. results'[t] = Append(results[t], a) /\ \A u \in Threads \ {t} : results'[u] = results[u]
  BY DEF Returns, ResultsTyped
<1> QED BY <1>1, <1>2

-----------------------------------------------------------------------------
(* do_op: each thread works in a session of its own *)

First(t) == IF t = 1 THEN RemoveOp("shoes", t) ELSE AddOp("shoes", 3, t)

\* What thread t has still to run.
LeftOfFixed(t) == <<
  << <<First(t)>>, <<ListOp(t)>>, <<ListOp(t)>> >>,
  << <<ListOp(t)>>, <<ListOp(t)>> >>,
  << <<ListOp(t)>> >>,
  <<>> >>

Carts == versions[Cart]
Pairs == versions[Quantity("shoes")]

\* A call takes thread t to its next point.
LEMMA FixedMoves ==
  ASSUME ProgramsTyped, NEW t \in Threads, NEW a \in 1 .. 4, todo[t] = LeftOfFixed(t)[a],
         NEW op, Performs(t, op)
  PROVE  /\ a \in 1 .. 3 /\ Arg(t) = (IF a = 1 THEN First(t) ELSE ListOp(t)) /\ op = Arg(t).op
         /\ todo'[t] = LeftOfFixed(t)[a + 1] /\ \A u \in Threads \ {t} : todo'[u] = todo[u]
<1> DEFINE q == todo[t]
           h == Head(q)
<1>1. /\ Arg(t).op = op /\ Arg(t) = Head(h) /\ q # <<>>
      /\ \A u \in Threads \ {t} : todo'[u] = todo[u]
      /\ Tail(h) = <<>> => todo'[t] = Tail(q)
  BY PerformsTells
<1>2. q = LeftOfFixed(t)[a] OBVIOUS
<1> HIDE DEF q, h
<1>3. h = Head(q) BY DEF h
<1>4. a # 4 BY <1>1, <1>2 DEF LeftOfFixed
<1>5. ASSUME a = 1 PROVE Arg(t) = First(t) /\ todo'[t] = LeftOfFixed(t)[2]
  <2>1. q = << <<First(t)>>, <<ListOp(t)>>, <<ListOp(t)>> >> BY <1>2, <1>5 DEF LeftOfFixed
  <2>2. h = <<First(t)>> /\ Tail(q) = << <<ListOp(t)>>, <<ListOp(t)>> >>
    BY <1>3, <2>1, TuplesOfThree
  <2>3. Head(h) = First(t) /\ Tail(h) = <<>> BY <2>2, TuplesOfOne
  <2> QED BY <1>1, <2>2, <2>3 DEF LeftOfFixed
<1>6. ASSUME a = 2 PROVE Arg(t) = ListOp(t) /\ todo'[t] = LeftOfFixed(t)[3]
  <2>1. q = << <<ListOp(t)>>, <<ListOp(t)>> >> BY <1>2, <1>6 DEF LeftOfFixed
  <2>2. h = <<ListOp(t)>> /\ Tail(q) = << <<ListOp(t)>> >> BY <1>3, <2>1, TuplesOfTwo
  <2>3. Head(h) = ListOp(t) /\ Tail(h) = <<>> BY <2>2, TuplesOfOne
  <2> QED BY <1>1, <2>2, <2>3 DEF LeftOfFixed
<1>7. ASSUME a = 3 PROVE Arg(t) = ListOp(t) /\ todo'[t] = LeftOfFixed(t)[4]
  <2>1. q = << <<ListOp(t)>> >> BY <1>2, <1>7 DEF LeftOfFixed
  <2>2. h = <<ListOp(t)>> /\ Tail(q) = <<>> BY <1>3, <2>1, TuplesOfOne
  <2>3. Head(h) = ListOp(t) /\ Tail(h) = <<>> BY <2>2, TuplesOfOne
  <2> QED BY <1>1, <2>2, <2>3 DEF LeftOfFixed
<1>8. a \in {1, 2, 3} BY <1>4
<1> QED BY <1>1, <1>5, <1>6, <1>7, <1>8

\* No list holds anything but the shoes, and they have had a quantity from the start.
OnlyShoes ==
  /\ StoreSound /\ Present(Cart) /\ Present(Quantity("shoes"))
  /\ \A i \in DOMAIN Carts : Carts[i].list \in {<<"shoes">>, <<>>}

\* A list that is read is empty, or holds the shoes with a quantity that is visible.
ShowsShoes(t, answer) ==
  \E i \in Visible(t, Cart) :
    \/ Carts[i].list = <<>> /\ FirstQuantity(answer) = 0
    \/ /\ Carts[i].list = <<"shoes">>
       /\ \E j \in Visible(t, Quantity("shoes")) : FirstQuantity(answer) = Pairs[j].n

LEMMA WithoutTheShoes == Without(<<"shoes">>, "shoes") = <<>>
<1> DEFINE q == <<"shoes">>
           K == Kept(q, "shoes")
           f(j) == q[CHOOSE i \in K : KeptUpTo(q, "shoes", i) = j]
<1>1. DOMAIN q = 1 .. 1 /\ q[1] = "shoes" /\ \A i \in 1 .. 1 : i = 1 OBVIOUS
<1> HIDE DEF q
<1>2. K = {} BY <1>1 DEF Kept
<1>3. Cardinality(K) = 0 BY <1>2, FS_EmptySet
<1>4. Without(q, "shoes") = [j \in 1 .. Cardinality(K) |-> f(j)] BY DEF Without
<1> HIDE DEF K, f
<1>5. 1 .. 0 = {} OBVIOUS
<1>6. [j \in {} |-> f(j)] = <<>> OBVIOUS
<1> QED BY <1>3, <1>4, <1>5, <1>6 DEF q

\* get_cart_list shows a visible list, with a visible quantity.
LEMMA ListShown ==
  ASSUME CartStore, OnlyShoes, NEW t \in Threads, Arg(t).session = t, GetCartList(t)
  PROVE  /\ StoreSound' /\ UNCHANGED <<versions, level>> /\ FloorsKept
         /\ \E answer \in Seq(Items \X Nat) : Returns(t, answer) /\ ShowsShoes(t, answer)
<1> DEFINE quantities(list) == {Quantity(i) : i \in ToSet(list)}
           entries(list, q) == [j \in DOMAIN list |-> <<list[j], QuantityRead(list[j], q)>>]
<1>1. t \in Sessions /\ StoreSound /\ Present(Cart) /\ Present(Quantity("shoes"))
  BY CartAssumption DEF OnlyShoes
<1>2. PICK r \in ReadChoices(t, {Cart}) :
        \E q \in ReadChoices(t, quantities(ListRead(r))) :
          Transact(t, r ++ q, NoWrites) /\ Returns(t, entries(ListRead(r), q))
  BY DEF GetCartList
<1>3. Cart \in Keys /\ Quantity("shoes") \in Keys /\ {Cart} \in SUBSET Keys /\ "shoes" \in Items
  BY KeysTyped DEF Items
<1>4. Reads(t, r) /\ r[Cart] \in Visible(t, Cart) /\ ListRead(r) = Carts[r[Cart]].list
  <2>1. Reads(t, r) /\ DOMAIN r = {k \in {Cart} : Present(k)} BY <1>1, <1>3, ReadsOfChoices
  <2>2. Cart \in DOMAIN r BY <1>1, <2>1
  <2> QED BY <2>1, <2>2 DEF Reads, ListRead, Carts
<1> DEFINE list == ListRead(r)
<1>5. list \in {<<"shoes">>, <<>>}
  <2>1. r[Cart] \in DOMAIN Carts BY <1>1, <1>3, <1>4, VisibleAboveFloor DEF Carts
  <2> QED BY <1>4, <2>1 DEF OnlyShoes
<1>6. PICK q \in ReadChoices(t, quantities(list)) :
        Transact(t, r ++ q, NoWrites) /\ Returns(t, entries(list, q))
  BY <1>2
<1> HIDE DEF list, quantities, entries
<1>7. quantities(list) = IF list = <<>> THEN {} ELSE {Quantity("shoes")}
  <2>1. CASE list = <<>>
    <3>1. ToSet(list) = {} BY <2>1 DEF ToSet
    <3> QED BY <2>1, <3>1 DEF quantities
  <2>2. CASE list = <<"shoes">>
    <3>1. ToSet(list) = {"shoes"} BY <2>2 DEF ToSet
    <3> QED BY <2>2, <3>1 DEF quantities
  <2> QED BY <1>5, <2>1, <2>2
<1>8. quantities(list) \in SUBSET Keys BY <1>3, <1>7
<1>9. Reads(t, q) /\ DOMAIN q = {k \in quantities(list) : Present(k)}
  BY <1>1, <1>6, <1>8, ReadsOfChoices
<1>10. /\ StoreSound' /\ UNCHANGED <<versions, level>> /\ FloorsKept
  <2>1. Reads(t, r ++ q) BY <1>4, <1>9, ReadsJoin
  <2>2. DOMAIN NoWrites = {} BY DEF NoWrites
  <2>3. DOMAIN (r ++ q) \subseteq Keys BY <2>1 DEF Reads
  <2>4. PICK reads : reads = r ++ q OBVIOUS
  <2>5. Transact(t, reads, NoWrites) /\ DOMAIN reads \subseteq Keys BY <1>6, <2>3, <2>4
  <2>6. /\ StoreSound' /\ FloorsKept /\ level' = level
        /\ \A k \in Keys \ DOMAIN NoWrites : versions'[k] = versions[k]
    BY <1>1, <2>2, <2>5, TransactEffect
  <2>7. versions' = versions
    <3>1. versions \in [Keys -> Seq(Values)] /\ versions' \in [Keys -> Seq(Values)]
      BY <1>1, <2>6 DEF StoreSound, StoreTypeOK
    <3> QED BY <2>2, <2>6, <3>1
  <2> QED BY <2>6, <2>7
<1>11. ShowsShoes(t, entries(list, q))
  <2>1. CASE list = <<>>
    <3>1. entries(list, q) = <<>> BY <2>1 DEF entries
    <3> QED BY <1>4, <2>1, <3>1 DEF ShowsShoes, FirstQuantity, list
  <2>2. CASE list = <<"shoes">>
    <3>1. DOMAIN q = {Quantity("shoes")} BY <1>1, <1>7, <1>9, <2>2
    <3>2. q[Quantity("shoes")] \in Visible(t, Quantity("shoes")) BY <1>9, <3>1 DEF Reads
    <3>3. QuantityRead("shoes", q) = Pairs[q[Quantity("shoes")]].n BY <3>1 DEF QuantityRead, Pairs
    <3>4. /\ DOMAIN list = 1 .. 1 /\ list[1] = "shoes" /\ 1 \in 1 .. 1 BY <2>2
    <3>5. DOMAIN entries(list, q) = 1 .. 1 /\ entries(list, q)[1] = <<"shoes", QuantityRead("shoes", q)>>
      BY <3>4 DEF entries
    <3>6. entries(list, q) # <<>> BY <3>5
    <3>7. FirstQuantity(entries(list, q)) = Pairs[q[Quantity("shoes")]].n
      BY <3>3, <3>5, <3>6 DEF FirstQuantity
    <3> QED BY <1>4, <2>2, <3>2, <3>7 DEF ShowsShoes, list
  <2> QED BY <1>5, <2>1, <2>2
<1>12. entries(list, q) \in Seq(Items \X Nat)
  <2>1. list \in Seq(Items)
    <3>1. <<"shoes">> \in Seq(Items) /\ <<>> \in Seq(Items) BY <1>3
    <3> QED BY <1>5, <3>1
  <2>2. DOMAIN list = 1 .. Len(list) /\ Len(list) \in Nat /\ \A j \in DOMAIN list : list[j] \in Items
    BY <2>1
  <2>3. \A i \in Items : QuantityRead(i, q) \in Nat BY <1>1, <1>9, ReadTyped
  <2> QED BY <2>2, <2>3 DEF entries
<1> QED BY <1>6, <1>10, <1>11, <1>12

\* remove_item in session 1, when the first list is the only one.
LEMMA RemovesShoes ==
  ASSUME CartStore, OnlyShoes, Arg(1) = RemoveOp("shoes", 1), RemoveItem(1),
         Len(Carts) = 1, Carts[1].list = <<"shoes">>
  PROVE  /\ StoreSound' /\ level' = level /\ results' = results
         /\ Carts' = Append(Carts, List(<<>>)) /\ Pairs' = Append(Pairs, Number(0))
         /\ floor'[1][Cart] = 2 /\ floor'[1][Quantity("shoes")] = Len(Pairs) + 1
<1> DEFINE cart == At(Cart, List(<<>>))
           none == At(Quantity("shoes"), Number(0))
<1>1. 1 \in Sessions /\ StoreSound /\ Present(Cart)
  BY CartAssumption DEF OnlyShoes, Threads
<1>2. /\ Cart \in Keys /\ Quantity("shoes") \in Keys /\ {Cart} \in SUBSET Keys
      /\ Cart # Quantity("shoes")
  BY KeysTyped, KeysDiffer DEF Items
<1>3. Arg(1).session = 1 /\ Arg(1).item = "shoes" BY DEF RemoveOp, Op
<1>4. PICK r \in ReadChoices(1, {Cart}) :
        Transact(1, r, IF ~ Present(Cart) THEN NoWrites
                       ELSE IF Contains(ListRead(r), "shoes")
                              THEN At(Cart, List(Without(ListRead(r), "shoes"))) ++ none
                            ELSE At(Cart, List(Without(ListRead(r), "shoes"))))
  BY <1>3 DEF RemoveItem
<1>5. Reads(1, r) /\ DOMAIN r = {Cart} /\ r[Cart] \in Visible(1, Cart)
  <2>1. Reads(1, r) /\ DOMAIN r = {k \in {Cart} : Present(k)} BY <1>1, <1>2, ReadsOfChoices
  <2>2. DOMAIN r = {Cart} BY <1>1, <2>1
  <2> QED BY <2>1, <2>2 DEF Reads
<1>6. ListRead(r) = <<"shoes">>
  <2>1. r[Cart] \in DOMAIN Carts BY <1>1, <1>2, <1>5, VisibleAboveFloor DEF Carts
  <2>2. Carts \in Seq(Values) BY <1>1, <1>2, VersionsTyped DEF StoreSound, Carts
  <2>3. r[Cart] = 1 BY <2>1, <2>2
  <2> QED BY <1>5, <2>3 DEF ListRead, Carts
<1> HIDE DEF cart, none
<1>7. Transact(1, r, cart ++ none)
  BY <1>1, <1>4, <1>6, ShoesContained, WithoutTheShoes DEF cart
<1>8. PICK w : w = cart ++ none OBVIOUS
<1>9. /\ DOMAIN w = {Cart, Quantity("shoes")} /\ w[Cart] = List(<<>>)
      /\ w[Quantity("shoes")] = Number(0)
  <2>1. DOMAIN cart = {Cart} /\ cart[Cart] = List(<<>>) BY AtIsOne DEF cart
  <2>2. DOMAIN none = {Quantity("shoes")} /\ none[Quantity("shoes")] = Number(0)
    BY AtIsOne DEF none
  <2> QED BY <1>2, <1>8, <2>1, <2>2 DEF ++
<1>10. \A k \in DOMAIN w : w[k] \in Values
  <2>1. <<>> \in Seq(Items) /\ 0 \in Nat OBVIOUS
  <2> QED BY <1>9, <2>1, ValuesTyped
<1>11. Transact(1, r, w) /\ DOMAIN r \subseteq Keys /\ DOMAIN w \subseteq Keys
  BY <1>2, <1>5, <1>7, <1>8, <1>9
<1>12. /\ StoreSound' /\ level' = level
       /\ \A k \in DOMAIN w : /\ versions'[k] = Append(versions[k], w[k])
                              /\ floor'[1][k] = Len(versions[k]) + 1
  BY <1>1, <1>10, <1>11, TransactEffect
<1>13. results' = results BY DEF RemoveItem
<1>14. versions'[Cart] = Append(versions[Cart], List(<<>>)) /\ floor'[1][Cart] = Len(Carts) + 1
  BY <1>9, <1>12 DEF Carts
<1>15. /\ versions'[Quantity("shoes")] = Append(versions[Quantity("shoes")], Number(0))
       /\ floor'[1][Quantity("shoes")] = Len(Pairs) + 1
  BY <1>9, <1>12 DEF Pairs
<1>16. floor'[1][Cart] = 2 BY <1>14
<1> QED BY <1>12, <1>13, <1>14, <1>15, <1>16 DEF Carts, Pairs

\* add_item in session 2, whatever versions it reads.
LEMMA AddsThreeShoes ==
  ASSUME CartStore, OnlyShoes, Arg(2) = AddOp("shoes", 3, 2), AddItem(2)
  PROVE  /\ StoreSound' /\ level' = level /\ results' = results /\ floor'[1] = floor[1]
         /\ \E i \in Visible(2, Cart), j \in Visible(2, Quantity("shoes")) :
              /\ Pairs' = Append(Pairs, Number(Pairs[j].n + 3))
              /\ Carts' = IF Carts[i].list = <<"shoes">> THEN Carts
                          ELSE Append(Carts, List(<<"shoes">>))
<1> DEFINE w(r) == LET quantity == At(Quantity("shoes"), Number(QuantityRead("shoes", r) + 3))
                       insert == At(Cart, List(Append(ListRead(r), "shoes")))
                   IN IF Contains(ListRead(r), "shoes") THEN quantity ELSE quantity ++ insert
           ks == {Cart, Quantity("shoes")}
<1>1. /\ 1 \in Sessions /\ 2 \in Sessions /\ StoreSound
      /\ Present(Cart) /\ Present(Quantity("shoes"))
  BY CartAssumption DEF OnlyShoes, Threads
<1>2. /\ Cart \in Keys /\ Quantity("shoes") \in Keys /\ ks \in SUBSET Keys
      /\ Cart # Quantity("shoes") /\ "shoes" \in Items
  BY KeysTyped, KeysDiffer DEF Items
<1>3. Arg(2).session = 2 /\ Arg(2).item = "shoes" /\ Arg(2).n = 3 BY DEF AddOp, Op
<1>4. PICK r \in ReadChoices(2, ks) : Transact(2, r, w(r)) BY <1>3 DEF AddItem
<1>5. Reads(2, r) /\ DOMAIN r = ks
  <2>1. Reads(2, r) /\ DOMAIN r = {k \in ks : Present(k)} BY <1>1, <1>2, ReadsOfChoices
  <2> QED BY <1>1, <2>1
<1> DEFINE i == r[Cart]
           j == r[Quantity("shoes")]
<1>6. /\ i \in Visible(2, Cart) /\ j \in Visible(2, Quantity("shoes"))
      /\ ListRead(r) = Carts[i].list /\ QuantityRead("shoes", r) = Pairs[j].n
  BY <1>5 DEF Reads, ListRead, QuantityRead, Carts, Pairs
<1>7. i \in DOMAIN Carts /\ j \in DOMAIN Pairs
  BY <1>1, <1>2, <1>6, VisibleAboveFloor DEF Carts, Pairs
<1>8. ListRead(r) \in {<<"shoes">>, <<>>} BY <1>6, <1>7 DEF OnlyShoes
<1>9. QuantityRead("shoes", r) \in Nat BY <1>1, <1>2, <1>5, ReadTyped
<1> DEFINE m == QuantityRead("shoes", r) + 3
           a == At(Quantity("shoes"), Number(m))
           b == At(Cart, List(<<"shoes">>))
<1>10. m \in Nat /\ <<"shoes">> \in Seq(Items) BY <1>2, <1>9
<1>11. w(r) = IF ListRead(r) = <<"shoes">> THEN a ELSE a ++ b
  <2>1. CASE ListRead(r) = <<"shoes">> BY <2>1, ShoesContained
  <2>2. CASE ListRead(r) = <<>>
    <3>1. ~ Contains(<<>>, "shoes") /\ <<>> # <<"shoes">> BY DEF Contains
    <3>2. Append(<<>>, "shoes") = <<"shoes">> OBVIOUS
    <3> QED BY <2>2, <3>1, <3>2
  <2> QED BY <1>8, <2>1, <2>2
<1>12. /\ DOMAIN a = {Quantity("shoes")} /\ a[Quantity("shoes")] = Number(m)
       /\ DOMAIN b = {Cart} /\ b[Cart] = List(<<"shoes">>)
  BY AtIsOne
<1> HIDE DEF w, m, a, b, ks
<1>13. PICK v : v = w(r) OBVIOUS
<1>14. /\ DOMAIN v = IF ListRead(r) = <<"shoes">> THEN {Quantity("shoes")}
                     ELSE {Cart, Quantity("shoes")}
       /\ v[Quantity("shoes")] = Number(m)
       /\ ListRead(r) # <<"shoes">> => v[Cart] = List(<<"shoes">>)
  BY <1>2, <1>11, <1>12, <1>13 DEF ++
<1>15. \A k \in DOMAIN v : v[k] \in Values
  <2>1. Number(m) \in Values /\ List(<<"shoes">>) \in Values BY <1>10, ValuesTyped
  <2> QED BY <1>14, <2>1
<1>16. Transact(2, r, v) /\ DOMAIN r \subseteq Keys /\ DOMAIN v \subseteq Keys
  BY <1>2, <1>4, <1>5, <1>13, <1>14 DEF Reads
<1>17. /\ StoreSound' /\ level' = level
       /\ \A k \in DOMAIN v : versions'[k] = Append(versions[k], v[k])
       /\ \A k \in Keys \ DOMAIN v : versions'[k] = versions[k]
       /\ \A u \in Sessions \ {2} : floor'[u] = floor[u]
  BY <1>1, <1>15, <1>16, TransactEffect
<1>18. results' = results BY DEF AddItem
<1>19. versions'[Quantity("shoes")] = Append(versions[Quantity("shoes")], Number(m))
  BY <1>14, <1>17
<1>20. versions'[Cart] = IF ListRead(r) = <<"shoes">> THEN versions[Cart]
                         ELSE Append(versions[Cart], List(<<"shoes">>))
  BY <1>2, <1>14, <1>17
<1>21. floor'[1] = floor[1] BY <1>1, <1>17
<1> QED BY <1>6, <1>17, <1>18, <1>19, <1>20, <1>21 DEF Carts, Pairs, m

\* What the threads have done to the store, in which order, and the newest versions
\* that is left by it.
Orders(a, b) ==
  IF a = 1 THEN IF b = 1 THEN {"neither"} ELSE {"add"}
  ELSE IF b = 1 THEN {"remove"} ELSE {"add_remove", "remove_add"}

Story(o) ==
  /\ Carts[1].list = <<"shoes">> /\ Pairs[1].n = 1
  /\ o \in {"neither", "add"} => Len(Carts) = 1
  /\ o \in {"remove", "add_remove"} => Len(Carts) = 2
  /\ o = "remove_add" => Len(Carts) \in {2, 3}
  /\ Len(Pairs) = (IF o = "neither" THEN 1 ELSE IF o \in {"remove", "add"} THEN 2 ELSE 3)
  /\ o \in {"remove", "add_remove", "remove_add"} => Carts[2].list = <<>> /\ floor[1][Cart] >= 2
  /\ o \in {"remove", "remove_add"} => Pairs[2].n = 0 /\ floor[1][Quantity("shoes")] >= 2
  /\ o \in {"add", "add_remove"} => Pairs[2].n = 4
  /\ o = "add_remove" => Pairs[3].n = 0
  /\ o = "remove_add" =>
       /\ Pairs[3].n \in {3, 4}
       /\ Len(Carts) = 3 => Carts[3].list = <<"shoes">>
       /\ level = "linear" => Len(Carts) = 3 /\ Pairs[3].n = 3

\* The second list of the first thread has the old quantity only if the item is back.
Reappeared(o) == o = "remove_add" /\ Len(Carts) = 3 /\ Pairs[3].n = 4

\* What one list may show to each thread.
FirstMayShow(o, x) ==
  /\ x = 4 => Reappeared(o)
  /\ level = "linear" => IF o = "remove_add" THEN x = 3 ELSE x = 0
SecondMayShow(o, x) ==
  level = "linear" => x = (IF o = "add" THEN 4 ELSE IF o = "add_remove" THEN 0 ELSE 3)

Shown(t, j) == FirstQuantity(results[t][j])

FirstAnswers(o) ==
  /\ \A j \in 1 .. Len(results[1]) : Shown(1, j) = 4 => Reappeared(o)
  /\ level = "linear" =>
       /\ \A j \in 1 .. Len(results[1]) : Shown(1, j) \in (IF o = "remove_add" THEN {0, 3} ELSE {0})
       /\ Len(results[1]) = 2 /\ Shown(1, 1) = 3 => Shown(1, 2) = 3
SecondAnswers(o) ==
  level = "linear" =>
    /\ \A j \in 1 .. Len(results[2]) :
         Shown(2, j) \in (IF o = "add" THEN {4} ELSE IF o = "add_remove" THEN {0, 4} ELSE {3})
    /\ Len(results[2]) = 2 /\ Shown(2, 1) = 0 => Shown(2, 2) = 0

FixedPlaces(a, b) ==
  /\ todo[1] = LeftOfFixed(1)[a] /\ todo[2] = LeftOfFixed(2)[b]
  /\ Len(results[1]) = (IF a < 3 THEN 0 ELSE a - 2)
  /\ Len(results[2]) = (IF b < 3 THEN 0 ELSE b - 2)

FixedHolds(a, b, o) ==
  FixedPlaces(a, b) /\ o \in Orders(a, b) /\ Story(o) /\ FirstAnswers(o) /\ SecondAnswers(o)

\* The invariant of do_op.
FixedInv ==
  run = "fixed" => /\ Present(Quantity("shoes"))
                   /\ \E a, b \in 1 .. 4 : \E o \in Orders(a, b) : FixedHolds(a, b, o)

OrderNames == {"neither", "add", "remove", "add_remove", "remove_add"}

\* In every story the lists hold the shoes or nothing.
LEMMA StoryTyped ==
  ASSUME CartStore, StoreSound, Present(Cart), Present(Quantity("shoes")),
         NEW o \in OrderNames, Story(o)
  PROVE  /\ OnlyShoes /\ Carts \in Seq(Values) /\ Pairs \in Seq(Values)
         /\ Len(Carts) \in {1, 2, 3}
<1>1. Carts \in Seq(Values) /\ Pairs \in Seq(Values)
  BY KeysTyped, VersionsTyped DEF StoreSound, Carts, Pairs, Items
<1>2. Len(Carts) \in {1, 2, 3} BY DEF Story, OrderNames
<1>3. \A i \in DOMAIN Carts : Carts[i].list \in {<<"shoes">>, <<>>}
  <2> SUFFICES ASSUME NEW i \in DOMAIN Carts PROVE Carts[i].list \in {<<"shoes">>, <<>>}
    OBVIOUS
  <2>1. i \in 1 .. Len(Carts) BY <1>1
  <2>2. CASE i = 1 BY <2>2 DEF Story
  <2>3. CASE i = 2
    <3>1. o \notin {"neither", "add"} BY <2>1, <2>3 DEF Story
    <3> QED BY <2>3, <3>1 DEF Story, OrderNames
  <2>4. CASE i = 3
    <3>1. Len(Carts) = 3 BY <1>2, <2>1, <2>4
    <3>2. o = "remove_add" BY <3>1 DEF Story, OrderNames
    <3> QED BY <2>4, <3>1, <3>2 DEF Story
  <2> QED BY <1>2, <2>1, <2>2, <2>3, <2>4
<1> QED BY <1>1, <1>2, <1>3 DEF OnlyShoes

\* What the story lets the first thread see.
LEMMA FirstShows ==
  ASSUME CartStore, StoreSound, Present(Cart), Present(Quantity("shoes")),
         NEW o \in {"remove", "add_remove", "remove_add"}, Story(o),
         NEW answer, ShowsShoes(1, answer)
  PROVE  FirstMayShow(o, FirstQuantity(answer))
<1>1. Carts \in Seq(Values) /\ Pairs \in Seq(Values) BY StoryTyped DEF OrderNames
<1>2. 1 \in Sessions /\ Cart \in Keys /\ Quantity("shoes") \in Keys
  BY CartAssumption, KeysTyped DEF Threads, Items
<1>3. floor[1][Cart] \in Nat /\ floor[1][Quantity("shoes")] \in Nat
  BY <1>2 DEF StoreSound, StoreTypeOK
<1>4. PICK i \in Visible(1, Cart) :
        \/ Carts[i].list = <<>> /\ FirstQuantity(answer) = 0
        \/ /\ Carts[i].list = <<"shoes">>
           /\ \E j \in Visible(1, Quantity("shoes")) : FirstQuantity(answer) = Pairs[j].n
  BY DEF ShowsShoes
<1>5. /\ i \in Nat /\ i <= Len(Carts) /\ floor[1][Cart] <= i
      /\ level = "linear" => i = Len(Carts)
  BY <1>2, VisibleAboveFloor DEF Carts
<1>6. floor[1][Cart] >= 2 /\ Carts[2].list = <<>> BY DEF Story
<1>7. i = 2 \/ (i = 3 /\ Len(Carts) = 3 /\ o = "remove_add")
  <2>1. Len(Carts) = 2 \/ (Len(Carts) = 3 /\ o = "remove_add") BY DEF Story
  <2>2. i >= 2 BY <1>3, <1>5, <1>6
  <2>3. CASE Len(Carts) = 2 BY <1>5, <2>2, <2>3
  <2>4. CASE Len(Carts) = 3 /\ o = "remove_add" BY <1>5, <2>2, <2>4
  <2> QED BY <2>1, <2>3, <2>4
<1>8. <<>> # <<"shoes">> OBVIOUS
<1>9. CASE i = 2
  <2>1. FirstQuantity(answer) = 0 BY <1>4, <1>6, <1>8, <1>9
  <2>2. level = "linear" => Len(Carts) = 2 BY <1>5, <1>9
  <2>3. level = "linear" /\ o = "remove_add" => Len(Carts) = 3 BY DEF Story
  <2> QED BY <2>1, <2>2, <2>3 DEF FirstMayShow
<1>10. CASE i = 3 /\ Len(Carts) = 3 /\ o = "remove_add"
  <2>1. Carts[3].list = <<"shoes">> /\ Pairs[2].n = 0 /\ Len(Pairs) = 3
        /\ floor[1][Quantity("shoes")] >= 2
    BY <1>10 DEF Story
  <2>2. PICK j \in Visible(1, Quantity("shoes")) : FirstQuantity(answer) = Pairs[j].n
    BY <1>4, <1>8, <1>10, <2>1
  <2>3. /\ j \in Nat /\ j <= Len(Pairs) /\ floor[1][Quantity("shoes")] <= j
        /\ level = "linear" => j = Len(Pairs)
    BY <1>2, VisibleAboveFloor DEF Pairs
  <2>4. j = 2 \/ j = 3 BY <1>3, <2>1, <2>3
  <2>5. Pairs[3].n \in {3, 4} /\ (level = "linear" => Pairs[3].n = 3) BY <1>10 DEF Story
  <2> QED BY <1>10, <2>1, <2>2, <2>3, <2>4, <2>5 DEF FirstMayShow, Reappeared
<1> QED BY <1>7, <1>9, <1>10

\* What the story lets the second thread see.
LEMMA SecondShows ==
  ASSUME CartStore, StoreSound, Present(Cart), Present(Quantity("shoes")),
         NEW o \in {"add", "add_remove", "remove_add"}, Story(o),
         NEW answer, ShowsShoes(2, answer)
  PROVE  SecondMayShow(o, FirstQuantity(answer))
<1> SUFFICES ASSUME level = "linear"
             PROVE  FirstQuantity(answer) =
                      IF o = "add" THEN 4 ELSE IF o = "add_remove" THEN 0 ELSE 3
  BY DEF SecondMayShow
<1>1. Carts \in Seq(Values) /\ Pairs \in Seq(Values) BY StoryTyped DEF OrderNames
<1>2. 2 \in Sessions /\ Cart \in Keys /\ Quantity("shoes") \in Keys
  BY CartAssumption, KeysTyped DEF Threads, Items
<1>3. PICK i \in Visible(2, Cart) :
        \/ Carts[i].list = <<>> /\ FirstQuantity(answer) = 0
        \/ /\ Carts[i].list = <<"shoes">>
           /\ \E j \in Visible(2, Quantity("shoes")) : FirstQuantity(answer) = Pairs[j].n
  BY DEF ShowsShoes
<1>4. i = Len(Carts) /\ \A j \in Visible(2, Quantity("shoes")) : j = Len(Pairs)
  BY <1>2, VisibleAboveFloor DEF Carts, Pairs
<1>5. <<>> # <<"shoes">> OBVIOUS
<1>6. CASE o = "add"
  <2>1. i = 1 /\ Len(Pairs) = 2 /\ Carts[1].list = <<"shoes">> /\ Pairs[2].n = 4
    BY <1>4, <1>6 DEF Story
  <2> QED BY <1>3, <1>4, <1>5, <1>6, <2>1
<1>7. CASE o = "add_remove"
  <2>1. i = 2 /\ Carts[2].list = <<>> BY <1>4, <1>7 DEF Story
  <2> QED BY <1>3, <1>5, <1>7, <2>1
<1>8. CASE o = "remove_add"
  <2>1. i = 3 /\ Len(Pairs) = 3 /\ Carts[3].list = <<"shoes">> /\ Pairs[3].n = 3
    BY <1>4, <1>8 DEF Story
  <2> QED BY <1>3, <1>4, <1>5, <1>8, <2>1
<1> QED BY <1>6, <1>7, <1>8

\* remove_item of the first thread continues the story.
LEMMA RemoveStep ==
  ASSUME CartStore, StoreSound, Present(Cart), Present(Quantity("shoes")), ProgramsTyped,
         NEW a \in 1 .. 4, NEW b \in 1 .. 4, NEW o \in OrderNames, FixedHolds(a, b, o), a = 1,
         RemoveItem(1)
  PROVE  /\ Present(Quantity("shoes"))'
         /\ \E p \in Orders(2, b) : FixedHolds(2, b, p)'
<1>1. Story(o) /\ FixedPlaces(1, b) /\ o \in Orders(1, b) /\ FirstAnswers(o) /\ SecondAnswers(o)
  BY DEF FixedHolds
<1>2. OnlyShoes /\ Carts \in Seq(Values) /\ Pairs \in Seq(Values) BY <1>1, StoryTyped
<1>3. PICK op : Performs(1, op) BY DEF RemoveItem
<1>4. 1 \in Threads /\ 2 \in Threads \ {1} BY DEF Threads
<1>5. todo[1] = LeftOfFixed(1)[1] BY <1>1 DEF FixedPlaces
<1>6. Arg(1) = First(1) /\ todo'[1] = LeftOfFixed(1)[2] /\ todo'[2] = todo[2]
  BY <1>3, <1>4, <1>5, FixedMoves
<1>7. First(1) = RemoveOp("shoes", 1) BY DEF First
<1>8. o \in {"neither", "add"} /\ (o = "neither" <=> b = 1) BY <1>1 DEF Orders
<1>9. Len(Carts) = 1 /\ Carts[1].list = <<"shoes">> BY <1>1, <1>8 DEF Story
<1>10. /\ StoreSound' /\ level' = level /\ results' = results
       /\ Carts' = Append(Carts, List(<<>>)) /\ Pairs' = Append(Pairs, Number(0))
       /\ floor'[1][Cart] = 2 /\ floor'[1][Quantity("shoes")] = Len(Pairs) + 1
  BY <1>2, <1>6, <1>7, <1>9, RemovesShoes
<1>11. Len(Carts') = 2 /\ Carts'[1].list = <<"shoes">> /\ Carts'[2].list = <<>>
  <2>1. Len(Carts') = Len(Carts) + 1 /\ Carts'[Len(Carts) + 1] = List(<<>>)
        /\ \A i \in 1 .. Len(Carts) : Carts'[i] = Carts[i]
    BY <1>2, <1>10
  <2>2. List(<<>>).list = <<>> BY DEF List
  <2> QED BY <1>9, <2>1, <2>2
<1>12. /\ Len(Pairs) \in Nat /\ Len(Pairs') = Len(Pairs) + 1 /\ Pairs'[Len(Pairs) + 1].n = 0
       /\ \A i \in 1 .. Len(Pairs) : Pairs'[i] = Pairs[i]
  <2>1. Number(0).n = 0 BY DEF Number
  <2> QED BY <1>2, <1>10, <2>1
<1> DEFINE p == IF o = "neither" THEN "remove" ELSE "add_remove"
<1>13. p \in Orders(2, b) BY <1>8 DEF Orders
<1>14. Story(p)'
  <2>1. CASE o = "neither"
    <3>1. Len(Pairs) = 1 /\ Pairs[1].n = 1 BY <1>1, <2>1 DEF Story
    <3>2. Len(Pairs') = 2 /\ Pairs'[1].n = 1 /\ Pairs'[2].n = 0
          /\ floor'[1][Quantity("shoes")] = 2
      BY <1>10, <1>12, <3>1
    <3> QED BY <1>10, <1>11, <2>1, <3>2 DEF Story
  <2>2. CASE o = "add"
    <3>1. Len(Pairs) = 2 /\ Pairs[1].n = 1 /\ Pairs[2].n = 4 BY <1>1, <2>2 DEF Story
    <3>2. Len(Pairs') = 3 /\ Pairs'[1].n = 1 /\ Pairs'[2].n = 4 /\ Pairs'[3].n = 0
      BY <1>12, <3>1
    <3> QED BY <1>10, <1>11, <2>2, <3>2 DEF Story
  <2> QED BY <1>8, <2>1, <2>2
<1>15. FixedPlaces(2, b)' BY <1>1, <1>6, <1>10 DEF FixedPlaces
<1>16. FirstAnswers(p)'
  <2>1. Len(results'[1]) = 0 BY <1>1, <1>10 DEF FixedPlaces
  <2> QED BY <2>1 DEF FirstAnswers
<1>17. SecondAnswers(p)'
  <2>1. CASE o = "neither"
    <3>1. Len(results'[2]) = 0 BY <1>1, <1>8, <1>10, <2>1 DEF FixedPlaces
    <3> QED BY <3>1 DEF SecondAnswers
  <2>2. CASE o = "add" BY <1>1, <1>10, <2>2 DEF SecondAnswers, Shown
  <2> QED BY <1>8, <2>1, <2>2
<1>18. Present(Quantity("shoes"))'
  <2>1. Pairs' # <<>> BY <1>12
  <2> QED BY <2>1 DEF Present, Pairs
<1> QED BY <1>13, <1>14, <1>15, <1>16, <1>17, <1>18 DEF FixedHolds

\* add_item of the second thread continues the story.
LEMMA AddStep ==
  ASSUME CartStore, StoreSound, Present(Cart), Present(Quantity("shoes")), ProgramsTyped,
         NEW a \in 1 .. 4, NEW b \in 1 .. 4, NEW o \in OrderNames, FixedHolds(a, b, o), b = 1,
         AddItem(2)
  PROVE  /\ Present(Quantity("shoes"))'
         /\ \E p \in Orders(a, 2) : FixedHolds(a, 2, p)'
<1>1. Story(o) /\ FixedPlaces(a, 1) /\ o \in Orders(a, 1) /\ FirstAnswers(o) /\ SecondAnswers(o)
  BY DEF FixedHolds
<1>2. OnlyShoes /\ Carts \in Seq(Values) /\ Pairs \in Seq(Values) BY <1>1, StoryTyped
<1>3. PICK op : Performs(2, op) BY DEF AddItem
<1>4. 2 \in Threads /\ 1 \in Threads \ {2} BY DEF Threads
<1>5. todo[2] = LeftOfFixed(2)[1] BY <1>1 DEF FixedPlaces
<1>6. Arg(2) = First(2) /\ todo'[2] = LeftOfFixed(2)[2] /\ todo'[1] = todo[1]
  BY <1>3, <1>4, <1>5, FixedMoves
<1>7. First(2) = AddOp("shoes", 3, 2) BY DEF First
<1>8. o \in {"neither", "remove"} /\ (o = "neither" <=> a = 1) BY <1>1 DEF Orders
<1>9. /\ StoreSound' /\ level' = level /\ results' = results /\ floor'[1] = floor[1]
      /\ \E i \in Visible(2, Cart), j \in Visible(2, Quantity("shoes")) :
           /\ Pairs' = Append(Pairs, Number(Pairs[j].n + 3))
           /\ Carts' = IF Carts[i].list = <<"shoes">> THEN Carts
                       ELSE Append(Carts, List(<<"shoes">>))
  BY <1>2, <1>6, <1>7, AddsThreeShoes
<1>10. PICK i \in Visible(2, Cart), j \in Visible(2, Quantity("shoes")) :
         /\ Pairs' = Append(Pairs, Number(Pairs[j].n + 3))
         /\ Carts' = IF Carts[i].list = <<"shoes">> THEN Carts
                     ELSE Append(Carts, List(<<"shoes">>))
  BY <1>9
<1>11. 2 \in Sessions /\ Cart \in Keys /\ Quantity("shoes") \in Keys
  BY CartAssumption, KeysTyped DEF Threads, Items
<1>12. /\ i \in Nat /\ i > 0 /\ i <= Len(Carts) /\ (level = "linear" => i = Len(Carts))
       /\ j \in Nat /\ j > 0 /\ j <= Len(Pairs) /\ (level = "linear" => j = Len(Pairs))
  BY <1>11, VisibleAboveFloor DEF Carts, Pairs
<1>13. /\ Len(Pairs) \in Nat /\ Len(Pairs') = Len(Pairs) + 1
       /\ Pairs'[Len(Pairs) + 1].n = Pairs[j].n + 3
       /\ \A k \in 1 .. Len(Pairs) : Pairs'[k] = Pairs[k]
  <2>1. Number(Pairs[j].n + 3).n = Pairs[j].n + 3 BY DEF Number
  <2> QED BY <1>2, <1>10, <2>1
<1> DEFINE p == IF o = "neither" THEN "add" ELSE "remove_add"
<1>14. p \in Orders(a, 2) BY <1>8 DEF Orders
<1>15. Story(p)'
  <2>1. CASE o = "neither"
    <3>1. Len(Pairs) = 1 /\ Pairs[1].n = 1 /\ Len(Carts) = 1 /\ Carts[1].list = <<"shoes">>
      BY <1>1, <2>1 DEF Story
    <3>2. i = 1 /\ j = 1 BY <1>12, <3>1
    <3>3. Carts' = Carts BY <1>10, <3>1, <3>2
    <3>4. Len(Pairs') = 2 /\ Pairs'[1].n = 1 /\ Pairs'[2].n = 4 BY <1>13, <3>1, <3>2
    <3> QED BY <2>1, <3>1, <3>3, <3>4 DEF Story
  <2>2. CASE o = "remove"
    <3>1. /\ Len(Pairs) = 2 /\ Pairs[1].n = 1 /\ Pairs[2].n = 0
          /\ Len(Carts) = 2 /\ Carts[1].list = <<"shoes">> /\ Carts[2].list = <<>>
          /\ floor[1][Cart] >= 2 /\ floor[1][Quantity("shoes")] >= 2
      BY <1>1, <2>2 DEF Story
    <3>2. /\ Len(Pairs') = 3 /\ Pairs'[1].n = 1 /\ Pairs'[2].n = 0
          /\ Pairs'[3].n = Pairs[j].n + 3
      BY <1>13, <3>1
    <3>3. Pairs'[3].n \in {3, 4} /\ (level = "linear" => Pairs'[3].n = 3)
      <4>1. j = 1 \/ j = 2 BY <1>12, <3>1
      <4> QED BY <1>12, <3>1, <3>2, <4>1
    <3>4. CASE Carts[i].list = <<"shoes">>
      <4>1. Carts' = Carts BY <1>10, <3>4
      <4>2. level # "linear"
        <5>1. <<>> # <<"shoes">> OBVIOUS
        <5> QED BY <1>12, <3>1, <3>4, <5>1
      <4> QED BY <1>9, <2>2, <3>1, <3>2, <3>3, <4>1, <4>2 DEF Story
    <3>5. CASE Carts[i].list # <<"shoes">>
      <4>1. Carts' = Append(Carts, List(<<"shoes">>)) BY <1>10, <3>5
      <4>2. List(<<"shoes">>).list = <<"shoes">> BY DEF List
      <4>3. Len(Carts') = Len(Carts) + 1 /\ Carts'[Len(Carts) + 1] = List(<<"shoes">>)
            /\ \A k \in 1 .. Len(Carts) : Carts'[k] = Carts[k]
        BY <1>2, <4>1
      <4>4. /\ Len(Carts') = 3 /\ Carts'[1].list = <<"shoes">> /\ Carts'[2].list = <<>>
            /\ Carts'[3].list = <<"shoes">>
        BY <3>1, <4>2, <4>3
      <4> QED BY <1>9, <2>2, <3>1, <3>2, <3>3, <4>4 DEF Story
    <3> QED BY <3>4, <3>5
  <2> QED BY <1>8, <2>1, <2>2
<1>16. FixedPlaces(a, 2)' BY <1>1, <1>6, <1>9 DEF FixedPlaces
<1>17. SecondAnswers(p)'
  <2>1. Len(results'[2]) = 0 BY <1>1, <1>9 DEF FixedPlaces
  <2> QED BY <2>1 DEF SecondAnswers
<1>18. FirstAnswers(p)'
  <2>1. CASE o = "neither"
    <3>1. Len(results'[1]) = 0 BY <1>1, <1>8, <1>9, <2>1 DEF FixedPlaces
    <3> QED BY <3>1 DEF FirstAnswers
  <2>2. CASE o = "remove"
    <3>1. \A k \in 1 .. Len(results[1]) : Shown(1, k) # 4
      BY <1>1, <2>2 DEF FirstAnswers, Reappeared
    <3>2. level = "linear" => \A k \in 1 .. Len(results[1]) : Shown(1, k) = 0
      BY <1>1, <2>2 DEF FirstAnswers
    <3>3. level = "linear" => ~ (Len(results[1]) = 2 /\ Shown(1, 1) = 3)
      <4> SUFFICES ASSUME level = "linear", Len(results[1]) = 2 PROVE Shown(1, 1) # 3
        OBVIOUS
      <4>1. 1 \in 1 .. Len(results[1]) OBVIOUS
      <4>2. Shown(1, 1) = 0 BY <3>2, <4>1
      <4> QED BY <4>2
    <3> QED BY <1>9, <2>2, <3>1, <3>2, <3>3 DEF FirstAnswers, Shown
  <2> QED BY <1>8, <2>1, <2>2
<1>19. Present(Quantity("shoes"))'
  <2>1. Pairs' # <<>> BY <1>13
  <2> QED BY <2>1 DEF Present, Pairs
<1> QED BY <1>14, <1>15, <1>16, <1>17, <1>18, <1>19 DEF FixedHolds

\* Reading does not change the story.
LEMMA StoryKept ==
  ASSUME CartStore, StoreSound, StoreSound', UNCHANGED <<versions, level>>, FloorsKept,
         NEW o \in OrderNames, Story(o)
  PROVE  Story(o)' /\ (Reappeared(o)' <=> Reappeared(o))
<1>1. 1 \in Sessions /\ Cart \in Keys /\ Quantity("shoes") \in Keys
  BY CartAssumption, KeysTyped DEF Threads, Items
<1>2. \A k \in Keys : floor[1][k] \in Nat /\ floor'[1][k] \in Nat /\ floor'[1][k] >= floor[1][k]
  BY <1>1 DEF FloorsKept, StoreSound, StoreTypeOK
<1>3. \A k \in Keys : floor[1][k] >= 2 => floor'[1][k] >= 2 BY <1>2
<1>4. Carts' = Carts /\ Pairs' = Pairs /\ level' = level BY DEF Carts, Pairs
<1>5. /\ floor[1][Cart] >= 2 => floor'[1][Cart] >= 2
      /\ floor[1][Quantity("shoes")] >= 2 => floor'[1][Quantity("shoes")] >= 2
  BY <1>1, <1>3
<1> QED BY <1>4, <1>5 DEF Story, Reappeared

\* A list of the first thread shows what the story allows.
LEMMA FirstListStep ==
  ASSUME CartStore, StoreSound, Present(Cart), Present(Quantity("shoes")), ProgramsTyped,
         ResultsTyped, NEW a \in 2 .. 4, NEW b \in 1 .. 4, NEW o \in OrderNames,
         FixedHolds(a, b, o), GetCartList(1)
  PROVE  /\ Present(Quantity("shoes"))'
         /\ \E c \in 1 .. 4 : \E p \in Orders(c, b) : FixedHolds(c, b, p)'
<1>1. Story(o) /\ FixedPlaces(a, b) /\ o \in Orders(a, b) /\ FirstAnswers(o) /\ SecondAnswers(o)
  BY DEF FixedHolds
<1>2. OnlyShoes BY <1>1, StoryTyped
<1>3. PICK op : Performs(1, op) BY DEF GetCartList
<1>4. 1 \in Threads /\ 2 \in Threads \ {1} /\ a \in 1 .. 4 BY DEF Threads
<1>5. todo[1] = LeftOfFixed(1)[a] BY <1>1 DEF FixedPlaces
<1>6. /\ a \in 2 .. 3 /\ Arg(1) = ListOp(1)
      /\ todo'[1] = LeftOfFixed(1)[a + 1] /\ todo'[2] = todo[2]
  <2>1. /\ a \in 1 .. 3 /\ Arg(1) = (IF a = 1 THEN First(1) ELSE ListOp(1))
        /\ todo'[1] = LeftOfFixed(1)[a + 1] /\ \A u \in Threads \ {1} : todo'[u] = todo[u]
    BY <1>3, <1>4, <1>5, FixedMoves
  <2> QED BY <1>4, <2>1
<1>7. Arg(1).session = 1 BY <1>6 DEF ListOp, Op
<1>8. PICK answer \in Seq(Items \X Nat) :
        /\ StoreSound' /\ UNCHANGED <<versions, level>> /\ FloorsKept
        /\ Returns(1, answer) /\ ShowsShoes(1, answer)
  BY <1>2, <1>4, <1>7, ListShown
<1>9. o \in {"remove", "add_remove", "remove_add"} BY <1>1, <1>6 DEF Orders
<1> DEFINE x == FirstQuantity(answer)
<1>10. FirstMayShow(o, x) BY <1>1, <1>8, <1>9, FirstShows
<1> HIDE DEF x
<1>11. Story(o)' /\ (Reappeared(o)' <=> Reappeared(o)) BY <1>1, <1>8, StoryKept
<1>12. /\ Len(results[1]) = a - 2 /\ Len(results'[1]) = a - 1 /\ results'[1][a - 1] = answer
       /\ \A i \in 1 .. a - 2 : results'[1][i] = results[1][i]
       /\ results'[2] = results[2]
  <2>1. /\ Len(results'[1]) = Len(results[1]) + 1 /\ results'[1][Len(results[1]) + 1] = answer
        /\ \A i \in 1 .. Len(results[1]) : results'[1][i] = results[1][i]
        /\ \A u \in Threads \ {1} : results'[u] = results[u]
    BY <1>4, <1>8, ResultAppended
  <2>2. Len(results[1]) = a - 2 BY <1>1, <1>6 DEF FixedPlaces
  <2>3. (a - 2) + 1 = a - 1 BY <1>6
  <2> QED BY <1>4, <2>1, <2>2, <2>3
<1>13. FixedPlaces(a + 1, b)'
  <2>1. Len(results'[1]) = (IF a + 1 < 3 THEN 0 ELSE (a + 1) - 2) BY <1>6, <1>12
  <2> QED BY <1>1, <1>6, <1>12, <2>1 DEF FixedPlaces
<1>14. o \in Orders(a + 1, b) BY <1>1, <1>6 DEF Orders
<1>15. SecondAnswers(o)' BY <1>1, <1>8, <1>12 DEF SecondAnswers, Shown
<1>16. /\ Shown(1, a - 1)' = x
       /\ \A i \in 1 .. a - 2 : Shown(1, i)' = Shown(1, i)
  BY <1>12 DEF Shown, x
<1>17. FirstAnswers(o)'
  <2>1. \A i \in 1 .. a - 1 : i = a - 1 \/ i \in 1 .. a - 2 BY <1>6
  <2>2. \A i \in 1 .. a - 1 : Shown(1, i)' = 4 => Reappeared(o)'
    BY <1>1, <1>10, <1>11, <1>12, <1>16, <2>1 DEF FirstAnswers, FirstMayShow
  <2>3. ASSUME level = "linear"
        PROVE  \A i \in 1 .. a - 1 : Shown(1, i)' \in (IF o = "remove_add" THEN {0, 3} ELSE {0})
    BY <1>1, <1>10, <1>12, <1>16, <2>1, <2>3 DEF FirstAnswers, FirstMayShow
  <2>4. ASSUME level = "linear", a - 1 = 2, Shown(1, 1)' = 3 PROVE Shown(1, 2)' = 3
    <3>1. a = 3 BY <1>6, <2>4
    <3>2. 1 \in 1 .. a - 1 /\ a - 1 = 2 BY <3>1
    <3>3. o = "remove_add" BY <2>3, <2>4, <3>2
    <3> QED BY <1>10, <1>16, <2>4, <3>2, <3>3 DEF FirstMayShow
  <2> QED BY <1>8, <1>12, <2>2, <2>3, <2>4 DEF FirstAnswers
<1>18. Present(Quantity("shoes"))' BY <1>8 DEF Present
<1>19. FixedHolds(a + 1, b, o)' BY <1>11, <1>13, <1>14, <1>15, <1>17 DEF FixedHolds
<1>20. a + 1 \in 1 .. 4 BY <1>6
<1> QED BY <1>14, <1>18, <1>19, <1>20

\* A list of the second thread shows what the story allows.
LEMMA SecondListStep ==
  ASSUME CartStore, StoreSound, Present(Cart), Present(Quantity("shoes")), ProgramsTyped,
         ResultsTyped, NEW a \in 1 .. 4, NEW b \in 2 .. 4, NEW o \in OrderNames,
         FixedHolds(a, b, o), GetCartList(2)
  PROVE  /\ Present(Quantity("shoes"))'
         /\ \E c \in 1 .. 4 : \E p \in Orders(a, c) : FixedHolds(a, c, p)'
<1>1. Story(o) /\ FixedPlaces(a, b) /\ o \in Orders(a, b) /\ FirstAnswers(o) /\ SecondAnswers(o)
  BY DEF FixedHolds
<1>2. OnlyShoes BY <1>1, StoryTyped
<1>3. PICK op : Performs(2, op) BY DEF GetCartList
<1>4. 2 \in Threads /\ 1 \in Threads \ {2} /\ b \in 1 .. 4 BY DEF Threads
<1>5. todo[2] = LeftOfFixed(2)[b] BY <1>1 DEF FixedPlaces
<1>6. /\ b \in 2 .. 3 /\ Arg(2) = ListOp(2)
      /\ todo'[2] = LeftOfFixed(2)[b + 1] /\ todo'[1] = todo[1]
  <2>1. /\ b \in 1 .. 3 /\ Arg(2) = (IF b = 1 THEN First(2) ELSE ListOp(2))
        /\ todo'[2] = LeftOfFixed(2)[b + 1] /\ \A u \in Threads \ {2} : todo'[u] = todo[u]
    BY <1>3, <1>4, <1>5, FixedMoves
  <2> QED BY <1>4, <2>1
<1>7. Arg(2).session = 2 BY <1>6 DEF ListOp, Op
<1>8. PICK answer \in Seq(Items \X Nat) :
        /\ StoreSound' /\ UNCHANGED <<versions, level>> /\ FloorsKept
        /\ Returns(2, answer) /\ ShowsShoes(2, answer)
  BY <1>2, <1>4, <1>7, ListShown
<1>9. o \in {"add", "add_remove", "remove_add"} BY <1>1, <1>6 DEF Orders
<1> DEFINE x == FirstQuantity(answer)
<1>10. SecondMayShow(o, x) BY <1>1, <1>8, <1>9, SecondShows
<1> HIDE DEF x
<1>11. Story(o)' /\ (Reappeared(o)' <=> Reappeared(o)) BY <1>1, <1>8, StoryKept
<1>12. /\ Len(results[2]) = b - 2 /\ Len(results'[2]) = b - 1 /\ results'[2][b - 1] = answer
       /\ \A i \in 1 .. b - 2 : results'[2][i] = results[2][i]
       /\ results'[1] = results[1]
  <2>1. /\ Len(results'[2]) = Len(results[2]) + 1 /\ results'[2][Len(results[2]) + 1] = answer
        /\ \A i \in 1 .. Len(results[2]) : results'[2][i] = results[2][i]
        /\ \A u \in Threads \ {2} : results'[u] = results[u]
    BY <1>4, <1>8, ResultAppended
  <2>2. Len(results[2]) = b - 2 BY <1>1, <1>6 DEF FixedPlaces
  <2>3. (b - 2) + 1 = b - 1 BY <1>6
  <2> QED BY <1>4, <2>1, <2>2, <2>3
<1>13. FixedPlaces(a, b + 1)'
  <2>1. Len(results'[2]) = (IF b + 1 < 3 THEN 0 ELSE (b + 1) - 2) BY <1>6, <1>12
  <2> QED BY <1>1, <1>6, <1>12, <2>1 DEF FixedPlaces
<1>14. o \in Orders(a, b + 1) BY <1>1, <1>6 DEF Orders
<1>15. FirstAnswers(o)' BY <1>1, <1>8, <1>11, <1>12 DEF FirstAnswers, Shown
<1>16. /\ Shown(2, b - 1)' = x
       /\ \A i \in 1 .. b - 2 : Shown(2, i)' = Shown(2, i)
  BY <1>12 DEF Shown, x
<1>17. SecondAnswers(o)'
  <2> SUFFICES ASSUME level = "linear" PROVE SecondAnswers(o)'
    BY <1>8 DEF SecondAnswers
  <2>1. \A i \in 1 .. b - 1 : i = b - 1 \/ i \in 1 .. b - 2 BY <1>6
  <2>2. \A i \in 1 .. b - 1 :
          Shown(2, i)' \in (IF o = "add" THEN {4} ELSE IF o = "add_remove" THEN {0, 4} ELSE {3})
    BY <1>1, <1>10, <1>12, <1>16, <2>1 DEF SecondAnswers, SecondMayShow
  <2>3. ASSUME b - 1 = 2, Shown(2, 1)' = 0 PROVE Shown(2, 2)' = 0
    <3>1. b = 3 BY <1>6, <2>3
    <3>2. 1 \in 1 .. b - 1 /\ b - 1 = 2 BY <3>1
    <3>3. o = "add_remove" BY <1>9, <2>2, <2>3, <3>2
    <3> QED BY <1>10, <1>16, <3>2, <3>3 DEF SecondMayShow
  <2> QED BY <1>12, <2>2, <2>3 DEF SecondAnswers
<1>18. Present(Quantity("shoes"))' BY <1>8 DEF Present
<1>19. FixedHolds(a, b + 1, o)' BY <1>11, <1>13, <1>14, <1>15, <1>17 DEF FixedHolds
<1>20. b + 1 \in 1 .. 4 BY <1>6
<1> QED BY <1>14, <1>18, <1>19, <1>20

\* do_op starts before the story.
LEMMA FixedInit ==
  ASSUME CartStore, Init
  PROVE  FixedInv
<1> SUFFICES ASSUME run = "fixed"
             PROVE  Present(Quantity("shoes")) /\ FixedHolds(1, 1, "neither")
  BY DEF FixedInv, Orders
<1>1. todo = Fixed /\ results = [t \in Threads |-> <<>>] BY DEF Init, Programs
<1>2. versions[Cart] = <<List(<<"shoes">>)>> /\ versions[Quantity("shoes")] = <<Number(1)>>
  BY InitialVersions
<1>3. List(<<"shoes">>).list = <<"shoes">> /\ Number(1).n = 1 BY DEF List, Number
<1>4. \A x : Len(<<x>>) = 1 /\ <<x>> # <<>> /\ <<x>>[1] = x OBVIOUS
<1>5. Story("neither") BY <1>2, <1>3, <1>4 DEF Story, Carts, Pairs
<1>6. results[1] = <<>> /\ results[2] = <<>> BY <1>1 DEF Threads
<1>7. FixedPlaces(1, 1)
  <2>1. todo[1] = << <<RemoveOp("shoes", 1)>>, <<ListOp(1)>>, <<ListOp(1)>> >>
        /\ todo[2] = << <<AddOp("shoes", 3, 2)>>, <<ListOp(2)>>, <<ListOp(2)>> >>
    BY <1>1 DEF Fixed, Threads
  <2>2. todo[1] = LeftOfFixed(1)[1] /\ todo[2] = LeftOfFixed(2)[1]
    BY <2>1 DEF LeftOfFixed, First
  <2> QED BY <1>6, <2>2 DEF FixedPlaces
<1>8. FirstAnswers("neither") /\ SecondAnswers("neither")
  BY <1>6 DEF FirstAnswers, SecondAnswers
<1>9. "neither" \in Orders(1, 1) BY DEF Orders
<1>10. Present(Quantity("shoes")) BY <1>2, <1>4 DEF Present
<1> QED BY <1>5, <1>7, <1>8, <1>9, <1>10 DEF FixedHolds

\* Every step keeps the invariant of do_op.
LEMMA FixedStep ==
  ASSUME CartStore, CartInv, FixedInv, [Next]_vars
  PROVE  FixedInv'
<1> SUFFICES ASSUME run' = "fixed"
             PROVE  /\ Present(Quantity("shoes"))'
                    /\ \E a, b \in 1 .. 4 : \E o \in Orders(a, b) : FixedHolds(a, b, o)'
  BY DEF FixedInv
<1>1. run = "fixed"
  <2>1. \A t, op : Performs(t, op) => run' = run BY DEF Performs
  <2>2. ASSUME Next PROVE run' = run
    BY <2>1, <2>2 DEF Next, AddItem, ChangeQuantity, RemoveItem, GetQuantity, GetCartList
  <2>3. ASSUME UNCHANGED vars PROVE run' = run BY <2>3 DEF vars, cartVars
  <2> QED BY <2>2, <2>3
<1>2. /\ StoreSound /\ Present(Cart) /\ ProgramsTyped /\ ResultsTyped
      /\ Present(Quantity("shoes"))
  BY <1>1 DEF FixedInv, CartInv
<1>3. PICK a \in 1 .. 4, b \in 1 .. 4 : \E o \in Orders(a, b) : FixedHolds(a, b, o)
  BY <1>1 DEF FixedInv
<1>4. PICK o \in Orders(a, b) : FixedHolds(a, b, o) BY <1>3
<1>5. o \in OrderNames BY <1>4 DEF Orders, OrderNames
<1>6. todo[1] = LeftOfFixed(1)[a] /\ todo[2] = LeftOfFixed(2)[b]
  BY <1>4 DEF FixedHolds, FixedPlaces
<1>7. CASE UNCHANGED vars
  <2>1. /\ versions' = versions /\ floor' = floor /\ level' = level /\ todo' = todo
        /\ results' = results
    BY <1>7 DEF vars, storeVars, cartVars
  <2>2. Present(Quantity("shoes"))' BY <1>2, <2>1 DEF Present
  <2>3. FixedHolds(a, b, o)'
    BY <1>4, <2>1 DEF FixedHolds, FixedPlaces, Story, FirstAnswers, SecondAnswers, Shown,
                      Reappeared, Carts, Pairs
  <2> QED BY <1>4, <2>2, <2>3
<1>8. CASE Performed(1)
  <2>1. 1 \in Threads BY DEF Threads
  <2>2. PICK op : Performs(1, op) BY <1>8, <2>1, PerformedPerforms
  <2>3. Arg(1) = (IF a = 1 THEN First(1) ELSE ListOp(1)) /\ op = Arg(1).op
    BY <1>2, <1>6, <2>1, <2>2, FixedMoves
  <2>4. First(1).op = "remove_item" /\ ListOp(1).op = "get_cart_list"
    BY DEF First, RemoveOp, ListOp, Op
  <2>5. /\ Arg(1).op = "remove_item" => RemoveItem(1)
        /\ Arg(1).op = "get_cart_list" => GetCartList(1)
    BY <1>8, <2>1, <2>2, <2>3, WhichOperation
  <2>6. CASE a = 1
    <3>1. RemoveItem(1) BY <2>3, <2>4, <2>5, <2>6
    <3>2. 2 \in 1 .. 4 OBVIOUS
    <3> QED BY <1>2, <1>4, <1>5, <2>6, <3>1, <3>2, RemoveStep
  <2>7. CASE a # 1
    <3>1. GetCartList(1) BY <2>3, <2>4, <2>5, <2>7
    <3>2. a \in 2 .. 4 BY <2>7
    <3> QED BY <1>2, <1>4, <1>5, <3>1, <3>2, FirstListStep
  <2> QED BY <2>6, <2>7
<1>9. CASE Performed(2)
  <2>1. 2 \in Threads BY DEF Threads
  <2>2. PICK op : Performs(2, op) BY <1>9, <2>1, PerformedPerforms
  <2>3. Arg(2) = (IF b = 1 THEN First(2) ELSE ListOp(2)) /\ op = Arg(2).op
    BY <1>2, <1>6, <2>1, <2>2, FixedMoves
  <2>4. First(2).op = "add_item" /\ ListOp(2).op = "get_cart_list"
    BY DEF First, AddOp, ListOp, Op
  <2>5. /\ Arg(2).op = "add_item" => AddItem(2)
        /\ Arg(2).op = "get_cart_list" => GetCartList(2)
    BY <1>9, <2>1, <2>2, <2>3, WhichOperation
  <2>6. CASE b = 1
    <3>1. AddItem(2) BY <2>3, <2>4, <2>5, <2>6
    <3>2. 2 \in 1 .. 4 OBVIOUS
    <3> QED BY <1>2, <1>4, <1>5, <2>6, <3>1, <3>2, AddStep
  <2>7. CASE b # 1
    <3>1. GetCartList(2) BY <2>3, <2>4, <2>5, <2>7
    <3>2. b \in 2 .. 4 BY <2>7
    <3> QED BY <1>2, <1>4, <1>5, <3>1, <3>2, SecondListStep
  <2> QED BY <2>6, <2>7
<1>10. ASSUME Next PROVE Performed(1) \/ Performed(2) BY <1>10 DEF Next, Performed, Threads
<1> QED BY <1>7, <1>8, <1>9, <1>10

\* The invariant of do_op: what the newest versions hold follows from the order in
\* which the one remove_item and the one add_item wrote, and every list that was shown
\* is one that this order allows at this consistency level.
THEOREM FixedInvariant == ASSUME CartStore PROVE Spec => [](CartInv /\ FixedInv)
<1>1. Init => CartInv /\ FixedInv BY CartInit, FixedInit
<1>2. CartInv /\ FixedInv /\ [Next]_vars => CartInv' /\ FixedInv'
  BY CartStepKeeps, FixedStep
<1> QED BY <1>1, <1>2, PTL DEF Spec

\* Where the four reads are in results.
LEMMA WhereTheReadsAre ==
  /\ DoOpResults[1] = Shown(1, 1) /\ DoOpResults[2] = Shown(1, 2)
  /\ DoOpResults[3] = Shown(2, 1) /\ DoOpResults[4] = Shown(2, 2)
  /\ DoOpResults = <<Shown(1, 1), Shown(1, 2), Shown(2, 1), Shown(2, 2)>>
<1>1. /\ (1 + 1) \div 2 = 1 /\ ((1 - 1) % 2) + 1 = 1
      /\ (2 + 1) \div 2 = 1 /\ ((2 - 1) % 2) + 1 = 2
      /\ (3 + 1) \div 2 = 2 /\ ((3 - 1) % 2) + 1 = 1
      /\ (4 + 1) \div 2 = 2 /\ ((4 - 1) % 2) + 1 = 2
  OBVIOUS
<1>2. /\ 1 \in 1 .. 4 /\ 2 \in 1 .. 4 /\ 3 \in 1 .. 4 /\ 4 \in 1 .. 4 OBVIOUS
<1>3. /\ DoOpResults[1] = Shown(1, 1) /\ DoOpResults[2] = Shown(1, 2)
      /\ DoOpResults[3] = Shown(2, 1) /\ DoOpResults[4] = Shown(2, 2)
  BY <1>1, <1>2 DEF DoOpResults, Shown
<1>4. DOMAIN DoOpResults = 1 .. 4 /\ DoOpResults = [j \in 1 .. 4 |-> DoOpResults[j]]
  BY DEF DoOpResults
<1> HIDE DEF DoOpResults
<1>5. \A a, b, c, d :
        <<a, b, c, d>> = [j \in 1 .. 4 |-> <<a, b, c, d>>[j]]
  OBVIOUS
<1>6. \A j \in 1 .. 4 : j \in {1, 2, 3, 4} OBVIOUS
<1> QED BY <1>3, <1>4, <1>5, <1>6

\* What the four reads may be when do_op is done.
LEMMA DoneIsKnown ==
  ASSUME FixedInv, run = "fixed", Done
  PROVE  \E o \in {"add_remove", "remove_add"} :
           /\ Story(o) /\ FirstAnswers(o) /\ SecondAnswers(o)
           /\ Len(results[1]) = 2 /\ Len(results[2]) = 2
<1>1. PICK a \in 1 .. 4, b \in 1 .. 4 : \E o \in Orders(a, b) : FixedHolds(a, b, o)
  BY DEF FixedInv
<1>2. PICK o \in Orders(a, b) : FixedHolds(a, b, o) BY <1>1
<1>3. LeftOfFixed(1)[a] = <<>> /\ LeftOfFixed(2)[b] = <<>>
  BY <1>2 DEF Done, Threads, FixedHolds, FixedPlaces
<1>4. \A t : \A j \in {1, 2, 3} : LeftOfFixed(t)[j] # <<>>
  <2>1. \A x, y, z : <<x>> # <<>> /\ <<x, y>> # <<>> /\ <<x, y, z>> # <<>> OBVIOUS
  <2> SUFFICES ASSUME NEW t PROVE \A j \in {1, 2, 3} : LeftOfFixed(t)[j] # <<>>
    OBVIOUS
  <2>2. LeftOfFixed(t)[1] # <<>> BY <2>1 DEF LeftOfFixed
  <2>3. LeftOfFixed(t)[2] # <<>> BY <2>1 DEF LeftOfFixed
  <2>4. LeftOfFixed(t)[3] # <<>> BY <2>1 DEF LeftOfFixed
  <2> QED BY <2>2, <2>3, <2>4
<1>5. a \in {1, 2, 3, 4} /\ b \in {1, 2, 3, 4} OBVIOUS
<1>6. a = 4 /\ b = 4 BY <1>3, <1>4, <1>5
<1> QED BY <1>2, <1>6 DEF FixedHolds, FixedPlaces, Orders

\* On a linearizable store do_op ends with results that a serial execution has; and
\* whatever main counts as a reappearance at any level is an item that was removed and
\* put back with its old quantity (run_shopping_cart.cpp:22-34, 79-87).
THEOREM FixedProgramIsSerial == ASSUME CartStore PROVE Spec => []FixedResults
<1>1. ASSUME CartInv, FixedInv PROVE FixedResults
  <2> SUFFICES ASSUME run = "fixed", Done
               PROVE  /\ level = "linear" => DoOpResults \in SerialTable
                      /\ DoOpResults \in ReappearTable => RemovedReappeared
    BY DEF FixedResults
  <2>1. PICK o \in {"add_remove", "remove_add"} :
          /\ Story(o) /\ FirstAnswers(o) /\ SecondAnswers(o)
          /\ Len(results[1]) = 2 /\ Len(results[2]) = 2
    BY <1>1, DoneIsKnown
  <2>2. 1 \in 1 .. 2 /\ 2 \in 1 .. 2 OBVIOUS
  <2>3. ASSUME level = "linear" PROVE DoOpResults \in SerialTable
    <3>1. CASE o = "add_remove"
      <4>1. Shown(1, 1) = 0 /\ Shown(1, 2) = 0 BY <2>1, <2>2, <2>3, <3>1 DEF FirstAnswers
      <4>2. Shown(2, 1) \in {0, 4} /\ Shown(2, 2) \in {0, 4} /\ (Shown(2, 1) = 0 => Shown(2, 2) = 0)
        BY <2>1, <2>2, <2>3, <3>1 DEF SecondAnswers
      <4> QED BY <4>1, <4>2, WhereTheReadsAre DEF SerialTable
    <3>2. CASE o = "remove_add"
      <4>1. Shown(1, 1) \in {0, 3} /\ Shown(1, 2) \in {0, 3} /\ (Shown(1, 1) = 3 => Shown(1, 2) = 3)
        BY <2>1, <2>2, <2>3, <3>2 DEF FirstAnswers
      <4>2. Shown(2, 1) = 3 /\ Shown(2, 2) = 3 BY <2>1, <2>2, <2>3, <3>2 DEF SecondAnswers
      <4> QED BY <4>1, <4>2, WhereTheReadsAre DEF SerialTable
    <3> QED BY <2>1, <3>1, <3>2
  <2>4. ASSUME DoOpResults \in ReappearTable PROVE RemovedReappeared
    <3>1. DoOpResults[2] = 4 BY <2>4 DEF ReappearTable
    <3>2. Shown(1, 2) = 4 BY <3>1, WhereTheReadsAre
    <3>3. Reappeared(o) BY <2>1, <2>2, <3>2 DEF FirstAnswers
    <3>4. Carts \in Seq(Values) /\ Pairs \in Seq(Values)
      BY <1>1, KeysTyped, VersionsTyped DEF CartInv, StoreSound, Carts, Pairs, Items
    <3>5. /\ o = "remove_add" /\ Len(Carts) = 3 /\ Len(Pairs) = 3 /\ Pairs[3].n = 4
          /\ Pairs[1].n = 1 /\ Pairs[2].n = 0 /\ Carts[2].list = <<>>
          /\ Carts[1].list = <<"shoes">> /\ Carts[3].list = <<"shoes">>
      BY <2>1, <3>3 DEF Story, Reappeared
    <3>6. /\ 1 \in DOMAIN Carts /\ 2 \in DOMAIN Carts /\ 3 \in DOMAIN Carts
          /\ 1 \in DOMAIN Pairs /\ 2 \in DOMAIN Pairs /\ 3 \in DOMAIN Pairs
      BY <3>4, <3>5
    <3>7. Contains(<<"shoes">>, "shoes") BY ShoesContained
    <3>8. \E i, j, k \in DOMAIN Carts :
            /\ i < j /\ j < k /\ Carts[j].list = <<>>
            /\ Contains(Carts[i].list, "shoes") /\ Contains(Carts[k].list, "shoes")
      BY <3>5, <3>6, <3>7
    <3>9. \E i, j, k \in DOMAIN Pairs :
            i < j /\ j < k /\ Pairs[j].n = 0 /\ Pairs[k].n = Pairs[i].n + 3
      BY <3>5, <3>6
    <3> QED BY <3>8, <3>9 DEF RemovedReappeared, Carts, Pairs
  <2> QED BY <2>3, <2>4
<1> QED BY <1>1, FixedInvariant, PTL
=============================================================================
