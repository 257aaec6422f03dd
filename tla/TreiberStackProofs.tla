-------------------------- MODULE TreiberStackProofs --------------------------
(***************************************************************************)
(* The stack's guarantees for any number of threads, up to nine, and any   *)
(* programs of at most nine operations each.  The first half holds at      *)
(* either level: node ids never collide and no link dangles.  The second   *)
(* half is about a linearizable store: nothing is popped twice, and every  *)
(* step of the stack is a step of the abstract LifoStack or a stutter.     *)
(***************************************************************************)
EXTENDS TreiberStack, SessionStoreProofs, FiniteSetTheorems, WellFoundedInduction

\* Keys and values never run out, as for the program's longs: every id that may
\* be drawn is a key, every cell a value.  (TLC is given those its runs reach.)
StoreIsRoomy ==
  /\ \A n \in Nat, t \in Threads : n * 10 + t \in Keys
  /\ Values = [val : Nat \cup {NoVal}, next : Keys \cup {NoNode}]

PresentKeys == {k \in Keys : Present(k)}

\* The end of the stack, or a node that is in the store.
Linked(n) == n = NoNode \/ n \in PresentKeys \ {HeadKey}

Pushing(t) == pc[t] # "idle" /\ Op(t) = "push"

\* The store's part of the invariant: ids are bounded by the size of the store,
\* and what any version of any key points at is there.
StoreOK ==
  /\ StoreSound
  /\ IsFiniteSet(PresentKeys) /\ HeadKey \in PresentKeys
  /\ \A k \in PresentKeys : k < 10 * GetSize
  /\ \A k \in Keys : \A i \in DOMAIN versions[k] :
       Linked(versions[k][i].next) /\ (k # HeadKey => versions[k][i].val \in Nat)

\* The id that a push has drawn: its last digit is the session, and it was at
\* least as large as every id of the store at that time.
Drawn(t) ==
  /\ new[t] \in Keys /\ \E n \in Nat : new[t] = n * 10 + t
  /\ new[t] < 10 * (GetSize + 1)
  /\ pc[t] = "insert" <=> new[t] \notin PresentKeys

\* What the steps that led thread t to its place have established.
ThreadOK(t) ==
  /\ pc[t] # "idle" => done[t] < Len(Program[t])
  /\ pc[t] \in {"insert", "readHead", "link"} => Op(t) = "push"
  /\ pc[t] \in {"popHead", "popNode"} => Op(t) = "pop"
  /\ pc[t] \in {"insert", "readHead", "link", "compare", "swing"} => val[t] \in Nat
  /\ pc[t] \in {"link", "popNode", "compare", "swing"} => Linked(cur[t])
  /\ pc[t] = "popNode" => cur[t] # NoNode
  /\ pc[t] \in {"compare", "swing"} => Linked(new[t])
  /\ Pushing(t) => Drawn(t)

Mutex == \A t \in Threads : pc[t] = "swing" <=> mtx = t

StackInv == TypeOK /\ StoreOK /\ Mutex /\ \A t \in Threads : ThreadOK(t)
-----------------------------------------------------------------------------
LEMMA KeysTyped ==
  /\ HeadKey \in Keys /\ HeadKey \in Int /\ NoNode \in Int
  /\ \A k \in Keys : k \in Nat /\ k # NoNode
  /\ \A t \in Threads : t \in Sessions /\ t \in Nat /\ 1 <= t /\ t <= 9 /\ t # NoThread
  /\ DefaultSession \in Sessions
  BY StackAssumption DEF HeadKey, NoNode, DefaultSession

LEMMA SizeTyped ==
  ASSUME StoreOK
  PROVE  GetSize \in Nat /\ GetSize = Cardinality(PresentKeys)
  BY FS_CardinalityType DEF StoreOK, GetSize, PresentKeys

\* A step that reads, or leaves the store alone.
LEMMA ReadKeeps ==
  ASSUME StackInv, \/ UNCHANGED storeVars
                   \/ \E s \in Sessions, k \in Keys : \E i : Get(s, k, i)
  PROVE  /\ StoreTypeOK' /\ StoreOK' /\ UNCHANGED <<versions, level>>
         /\ PresentKeys' = PresentKeys /\ GetSize' = GetSize
<1>1. StoreOK /\ StoreSound BY DEF StackInv, StoreOK
<1>2. StoreSound' /\ UNCHANGED <<versions, level>>
  <2>1. CASE UNCHANGED storeVars
    BY <1>1, <2>1 DEF storeVars, StoreSound, StoreTypeOK, FloorsBounded
  <2>2. ASSUME NEW s \in Sessions, NEW k \in Keys, NEW i, Get(s, k, i)
        PROVE  StoreSound' /\ UNCHANGED <<versions, level>>
    BY <1>1, <2>2, GetEffect
  <2> QED BY <2>1, <2>2
<1>3. PresentKeys' = PresentKeys BY <1>2 DEF PresentKeys, Present
<1>4. GetSize' = GetSize BY <1>2 DEF GetSize, Present
<1>5. \A n : Linked(n)' <=> Linked(n) BY <1>3 DEF Linked
<1>6. StoreOK' BY <1>1, <1>2, <1>3, <1>4, <1>5 DEF StoreOK
<1> QED BY <1>2, <1>3, <1>4, <1>6 DEF StoreSound

\* A step that writes a cell.
LEMMA WriteKeeps ==
  ASSUME StackInv, NEW s \in Sessions, NEW k \in Keys, NEW v \in Values, Put(s, k, v),
         Linked(v.next), k # HeadKey => v.val \in Nat,
         k \in PresentKeys \/ k < 10 * (GetSize + 1)
  PROVE  /\ StoreTypeOK' /\ StoreOK' /\ level' = level
         /\ PresentKeys' = PresentKeys \cup {k} /\ GetSize <= GetSize'
         /\ Latest(k)' = v
         /\ \A m \in Keys \ {k} : versions'[m] = versions[m]
         /\ Len(versions'[k]) = Len(versions[k]) + 1
         /\ \A i \in DOMAIN versions'[k] :
              versions'[k][i] = v \/ (i \in DOMAIN versions[k] /\ versions'[k][i] = versions[k][i])
<1>1. StoreOK /\ StoreSound BY DEF StackInv, StoreOK
<1>2. /\ StoreSound' /\ VersionsKept /\ level' = level
      /\ Len(versions'[k]) = Len(versions[k]) + 1 /\ versions'[k][Len(versions[k]) + 1] = v
      /\ \A m \in Keys \ {k} : versions'[m] = versions[m]
  BY <1>1, PutEffect
<1>3. Len(versions[k]) \in Nat /\ DOMAIN versions[k] = 1 .. Len(versions[k])
  BY <1>1, VersionsTyped DEF StoreSound
<1>4. StoreTypeOK' => DOMAIN versions'[k] = 1 .. Len(versions'[k]) BY DEF StoreTypeOK
<1>5. \A i \in DOMAIN versions'[k] :
        versions'[k][i] = v \/ (i \in DOMAIN versions[k] /\ versions'[k][i] = versions[k][i])
  BY <1>2, <1>3, <1>4 DEF StoreSound, VersionsKept
<1>6. PresentKeys' = PresentKeys \cup {k}
  <2>1. versions'[k] # <<>> BY <1>2, <1>3
  <2> QED BY <1>2, <2>1 DEF PresentKeys, Present
<1>7. /\ GetSize \in Nat /\ IsFiniteSet(PresentKeys') /\ GetSize' = Cardinality(PresentKeys')
      /\ GetSize' = IF k \in PresentKeys THEN GetSize ELSE GetSize + 1
  <2>1. GetSize \in Nat /\ GetSize = Cardinality(PresentKeys) BY <1>1, SizeTyped
  <2>2. GetSize' = Cardinality(PresentKeys') BY DEF GetSize, PresentKeys
  <2>3. IsFiniteSet(PresentKeys) BY <1>1 DEF StoreOK
  <2>4. /\ IsFiniteSet(PresentKeys \cup {k})
        /\ Cardinality(PresentKeys \cup {k}) =
             IF k \in PresentKeys THEN Cardinality(PresentKeys) ELSE Cardinality(PresentKeys) + 1
    BY <2>3, FS_AddElement
  <2> QED BY <1>6, <2>1, <2>2, <2>4
<1>8. \A n : Linked(n) => Linked(n)' BY <1>6 DEF Linked
<1>9. StoreOK'
  <2>1. \A m \in PresentKeys' : m < 10 * GetSize'
    <3> SUFFICES ASSUME NEW m \in PresentKeys' PROVE m < 10 * GetSize'
      OBVIOUS
    <3>1. m \in Nat BY KeysTyped DEF PresentKeys
    <3>2. CASE m \in PresentKeys BY <1>1, <1>7, <3>1, <3>2 DEF StoreOK
    <3>3. CASE m \notin PresentKeys BY <1>6, <1>7, <3>1, <3>3
    <3> QED BY <3>2, <3>3
  <2>2. ASSUME NEW m \in Keys, NEW i \in DOMAIN versions'[m]
        PROVE  /\ versions'[m][i].next = NoNode \/ versions'[m][i].next \in PresentKeys' \ {HeadKey}
               /\ m # HeadKey => versions'[m][i].val \in Nat
    <3>1. CASE m # k
      <4>1. i \in DOMAIN versions[m] /\ versions'[m][i] = versions[m][i] BY <1>2, <2>2, <3>1
      <4>2. Linked(versions[m][i].next) /\ (m # HeadKey => versions[m][i].val \in Nat)
        BY <1>1, <4>1 DEF StoreOK
      <4> QED BY <1>6, <4>1, <4>2 DEF Linked
    <3>2. CASE m = k /\ versions'[k][i] = v BY <1>6, <3>2 DEF Linked
    <3>3. CASE m = k /\ i \in DOMAIN versions[k] /\ versions'[k][i] = versions[k][i]
      <4>1. Linked(versions[m][i].next) /\ (m # HeadKey => versions[m][i].val \in Nat)
        BY <1>1, <3>3 DEF StoreOK
      <4> QED BY <1>6, <3>3, <4>1 DEF Linked
    <3> QED BY <1>5, <2>2, <3>1, <3>2, <3>3
  <2>3. HeadKey \in PresentKeys' BY <1>1, <1>6 DEF StoreOK
  <2> QED BY <1>2, <1>7, <2>1, <2>2, <2>3 DEF StoreOK, Linked
<1>10. Latest(k)' = v BY <1>2 DEF Latest
<1> QED BY <1>2, <1>5, <1>6, <1>7, <1>9, <1>10 DEF StoreSound

-----------------------------------------------------------------------------
\* Thread t moves and the other threads stay.
Only(t) ==
  \A u \in Threads \ {t} :
    /\ pc'[u] = pc[u] /\ done'[u] = done[u] /\ cur'[u] = cur[u]
    /\ new'[u] = new[u] /\ val'[u] = val[u] /\ popped'[u] = popped[u]

LEMMA OthersKeep ==
  ASSUME StackInv, NEW t \in Threads, Only(t), ThreadOK(t)', GetSize \in Nat, GetSize' \in Nat,
         GetSize <= GetSize', PresentKeys \subseteq PresentKeys',
         \A k \in PresentKeys' \ PresentKeys : \E n \in Nat : k = n * 10 + t
  PROVE  \A u \in Threads : ThreadOK(u)'
<1> SUFFICES ASSUME NEW u \in Threads, u # t PROVE ThreadOK(u)'
  OBVIOUS
<1>1. ThreadOK(u) BY DEF StackInv
<1>2. /\ pc'[u] = pc[u] /\ done'[u] = done[u] /\ cur'[u] = cur[u]
      /\ new'[u] = new[u] /\ val'[u] = val[u]
  BY DEF Only
<1>3. \A n : (n = NoNode \/ n \in PresentKeys \ {HeadKey}) =>
             (n = NoNode \/ n \in PresentKeys' \ {HeadKey})
  OBVIOUS
<1>4. Linked(cur[u]) => Linked(cur[u])' BY <1>2, <1>3 DEF Linked
<1>5. Linked(new[u]) => Linked(new[u])' BY <1>2, <1>3 DEF Linked
<1>6. Op(u)' = Op(u) /\ (Pushing(u)' <=> Pushing(u)) BY <1>2 DEF Op, Pushing
<1>7. Drawn(u) => Drawn(u)'
  <2> SUFFICES ASSUME Drawn(u) PROVE Drawn(u)'
    OBVIOUS
  <2>1. new[u] \in Keys /\ new[u] < 10 * (GetSize + 1) /\ \E n \in Nat : new[u] = n * 10 + u
    BY DEF Drawn
  <2>2. new'[u] < 10 * (GetSize' + 1) BY <1>2, <2>1, KeysTyped
  <2>3. new[u] \in PresentKeys' => new[u] \in PresentKeys BY <2>1, KeysTyped
  <2>4. (pc[u] = "insert" <=> new[u] \notin PresentKeys) BY DEF Drawn
  <2> QED BY <1>2, <2>1, <2>2, <2>3, <2>4 DEF Drawn
<1> QED BY <1>1, <1>2, <1>4, <1>5, <1>6, <1>7 DEF ThreadOK

\* The types of the stack's own variables.
StackTyped ==
  /\ mtx \in Threads \cup {NoThread}
  /\ pc \in [Threads -> {"idle", "insert", "readHead", "link", "popHead", "popNode",
                         "compare", "swing"}]
  /\ DOMAIN done = Threads
  /\ \A t \in Threads : done[t] \in 0 .. Len(Program[t])
  /\ cur \in [Threads -> Keys \cup {NoNode}]
  /\ new \in [Threads -> Keys \cup {NoNode}]
  /\ val \in [Threads -> Nat \cup {NoVal}]
  /\ popped \in [Threads -> Seq(Nat)]

LEMMA TypedIff == TypeOK <=> StoreTypeOK /\ StackTyped
  BY DEF TypeOK, StackTyped

Places == {"insert", "readHead", "link", "popHead", "popNode", "compare", "swing"}

LEMMA GotoTyped ==
  ASSUME StackTyped, NEW t \in Threads, NEW place \in Places, Goto(t, place),
         mtx' \in Threads \cup {NoThread},
         UNCHANGED cur \/ \E c \in Keys \cup {NoNode} : cur' = [cur EXCEPT ![t] = c],
         UNCHANGED new \/ \E n \in Keys \cup {NoNode} : new' = [new EXCEPT ![t] = n],
         UNCHANGED val \/ \E v \in Nat \cup {NoVal} : val' = [val EXCEPT ![t] = v]
  PROVE  StackTyped' /\ Only(t) /\ pc'[t] = place /\ done' = done /\ popped' = popped
<1>1. /\ pc' = [pc EXCEPT ![t] = place] /\ done' = done /\ popped' = popped
  BY DEF Goto
<1>2. /\ cur' \in [Threads -> Keys \cup {NoNode}]
      /\ \A u \in Threads \ {t} : cur'[u] = cur[u]
  BY DEF StackTyped
<1>3. /\ new' \in [Threads -> Keys \cup {NoNode}]
      /\ \A u \in Threads \ {t} : new'[u] = new[u]
  BY DEF StackTyped
<1>4. /\ val' \in [Threads -> Nat \cup {NoVal}]
      /\ \A u \in Threads \ {t} : val'[u] = val[u]
  BY DEF StackTyped
<1>5. StackTyped' BY <1>1, <1>2, <1>3, <1>4 DEF StackTyped, Places
<1>6. Only(t) BY <1>1, <1>2, <1>3, <1>4 DEF StackTyped, Only
<1> QED BY <1>1, <1>5, <1>6 DEF StackTyped

LEMMA ReturnTyped ==
  ASSUME StackTyped, NEW t \in Threads, Return(t), done[t] < Len(Program[t]),
         mtx' \in Threads \cup {NoThread},
         \/ UNCHANGED popped
         \/ \E v \in Nat : popped' = [popped EXCEPT ![t] = Append(@, v)]
  PROVE  /\ StackTyped' /\ Only(t)
         /\ pc'[t] = "idle" /\ done'[t] = done[t] + 1
<1>1. /\ pc' = [pc EXCEPT ![t] = "idle"] /\ done' = [done EXCEPT ![t] = @ + 1]
      /\ cur' = [cur EXCEPT ![t] = NoNode] /\ new' = [new EXCEPT ![t] = NoNode]
      /\ val' = [val EXCEPT ![t] = NoVal]
  BY DEF Return
<1>2. Len(Program[t]) \in Nat BY StackAssumption
<1>3. /\ popped' \in [Threads -> Seq(Nat)]
      /\ \A u \in Threads \ {t} : popped'[u] = popped[u]
  <2>1. popped \in [Threads -> Seq(Nat)] BY DEF StackTyped
  <2>2. CASE UNCHANGED popped BY <2>1, <2>2
  <2>3. ASSUME NEW v \in Nat, popped' = [popped EXCEPT ![t] = Append(@, v)]
        PROVE  /\ popped' \in [Threads -> Seq(Nat)]
               /\ \A u \in Threads \ {t} : popped'[u] = popped[u]
    <3>1. Append(popped[t], v) \in Seq(Nat) BY <2>1
    <3> QED BY <2>1, <2>3, <3>1
  <2> QED BY <2>2, <2>3
<1>4. DOMAIN done' = Threads /\ \A u \in Threads : done'[u] \in 0 .. Len(Program[u])
  BY <1>1, <1>2 DEF StackTyped
<1>5. /\ pc' \in [Threads -> {"idle", "insert", "readHead", "link", "popHead", "popNode",
                              "compare", "swing"}]
      /\ cur' \in [Threads -> Keys \cup {NoNode}] /\ new' \in [Threads -> Keys \cup {NoNode}]
      /\ val' \in [Threads -> Nat \cup {NoVal}]
  BY <1>1 DEF StackTyped
<1>6. StackTyped' BY <1>3, <1>4, <1>5 DEF StackTyped
<1>7. pc'[t] = "idle" /\ done'[t] = done[t] + 1 BY <1>1 DEF StackTyped
<1>8. Only(t) BY <1>1, <1>3 DEF StackTyped, Only
<1> QED BY <1>6, <1>7, <1>8

\* A thread between two operations has nothing to keep.
LEMMA IdleOK ==
  ASSUME NEW t \in Threads, pc'[t] = "idle"
  PROVE  ThreadOK(t)'
  BY DEF ThreadOK, Pushing
-----------------------------------------------------------------------------
LEMMA CellTyped ==
  ASSUME StoreIsRoomy, NEW v \in Nat \cup {NoVal}, NEW n \in Keys \cup {NoNode}
  PROVE  Cell(v, n) \in Values /\ Cell(v, n).val = v /\ Cell(v, n).next = n
  BY DEF StoreIsRoomy, Cell

\* Any version of any key is a cell.
LEMMA VersionIsCell ==
  ASSUME StoreIsRoomy, StackInv, NEW k \in Keys, NEW i \in DOMAIN versions[k]
  PROVE  /\ versions[k][i].next \in Keys \cup {NoNode}
         /\ Linked(versions[k][i].next)
         /\ k # HeadKey => versions[k][i].val \in Nat
<1>1. versions[k][i] \in Values BY VersionsTyped DEF StackInv, TypeOK
<1>2. versions[k][i].next \in Keys \cup {NoNode} BY <1>1 DEF StoreIsRoomy
<1> QED BY <1>2 DEF StackInv, StoreOK

\* What thread t has to show after a step in which it does not take the mutex or
\* already holds it and releases it.
LEMMA StackStep ==
  ASSUME StackInv, NEW t \in Threads, StackTyped', Only(t), ThreadOK(t)',
         StoreTypeOK', StoreOK', PresentKeys \subseteq PresentKeys', GetSize <= GetSize',
         \A k \in PresentKeys' \ PresentKeys : \E n \in Nat : k = n * 10 + t,
         \/ mtx' = mtx /\ pc[t] # "swing" /\ pc'[t] # "swing"
         \/ mtx = NoThread /\ mtx' = t /\ pc'[t] = "swing"
         \/ pc[t] = "swing" /\ mtx' = NoThread /\ pc'[t] # "swing"
  PROVE  StackInv'
<1>1. GetSize \in Nat BY SizeTyped DEF StackInv
<1>2. GetSize' \in Nat /\ IsFiniteSet(PresentKeys') BY FS_CardinalityType DEF StoreOK, GetSize, PresentKeys
<1>3. \A u \in Threads : ThreadOK(u)' BY <1>1, <1>2, OthersKeep
<1>4. Mutex'
  <2>1. \A u \in Threads : pc[u] = "swing" <=> mtx = u BY DEF StackInv, Mutex
  <2>2. \A u \in Threads \ {t} : pc'[u] = pc[u] BY DEF Only
  <2> QED BY <2>1, <2>2, KeysTyped DEF Mutex
<1> QED BY <1>3, <1>4, TypedIff DEF StackInv, TypeOK, StackTyped
-----------------------------------------------------------------------------
\* The lemmas that follow, one per action, state what stays true and what the
\* proof about a linearizable store needs to know of the action.
LEMMA StartPushStep ==
  ASSUME StoreIsRoomy, StackInv, NEW t \in Threads, StartPush(t)
  PROVE  /\ StackInv' /\ Only(t) /\ UNCHANGED <<storeVars, mtx>>
         /\ pc[t] = "idle" /\ pc'[t] = "insert" /\ done' = done /\ popped' = popped
         /\ new'[t] \notin PresentKeys /\ new'[t] # HeadKey /\ val'[t] = t * 10 + done[t] + 1
<1>1. StackTyped /\ StoreOK BY TypedIff DEF StackInv
<1>2. /\ pc[t] = "idle" /\ done[t] < Len(Program[t]) /\ Op(t) = "push"
      /\ new' = [new EXCEPT ![t] = GetSize * 10 + t]
      /\ val' = [val EXCEPT ![t] = t * 10 + done[t] + 1]
      /\ Goto(t, "insert") /\ UNCHANGED <<storeVars, mtx, cur>>
  BY DEF StartPush, CanStart
<1>3. GetSize \in Nat BY <1>1, SizeTyped
<1>4. PICK id : id = GetSize * 10 + t OBVIOUS
<1>5. id \in Keys /\ id \notin PresentKeys /\ id # HeadKey /\ id < 10 * (GetSize + 1)
  <2>1. id \in Keys BY <1>3, <1>4 DEF StoreIsRoomy
  <2>2. id >= 10 * GetSize /\ id < 10 * (GetSize + 1) /\ id # HeadKey
    BY <1>3, <1>4, KeysTyped DEF HeadKey
  <2>3. ASSUME id \in PresentKeys PROVE FALSE
    <3>1. id < 10 * GetSize BY <1>1, <2>3 DEF StoreOK
    <3> QED BY <1>3, <1>4, <2>2, <3>1, KeysTyped
  <2> QED BY <2>1, <2>2, <2>3
<1>6. done[t] \in Nat BY <1>1 DEF StackTyped
<1>7. PICK v : v = t * 10 + done[t] + 1 OBVIOUS
<1>8. v \in Nat BY <1>6, <1>7, KeysTyped
<1>9. StackTyped' /\ Only(t) /\ pc'[t] = "insert" /\ done' = done /\ popped' = popped
  <2>1. mtx' \in Threads \cup {NoThread} /\ "insert" \in Places BY <1>1, <1>2 DEF StackTyped, Places
  <2>2. new' = [new EXCEPT ![t] = id] /\ val' = [val EXCEPT ![t] = v] BY <1>2, <1>4, <1>7
  <2>3. id \in Keys \cup {NoNode} /\ v \in Nat \cup {NoVal} BY <1>5, <1>8
  <2> QED BY <1>1, <1>2, <2>1, <2>2, <2>3, GotoTyped
<1>15. cur'[t] = cur[t] /\ new'[t] = id /\ val'[t] = v BY <1>1, <1>2, <1>4, <1>7 DEF StackTyped
<1>10. StoreTypeOK' /\ StoreOK' /\ PresentKeys' = PresentKeys /\ GetSize' = GetSize
  BY <1>2, ReadKeeps
<1>11. Op(t)' = "push" BY <1>2, <1>9 DEF Op
<1>12. Drawn(t)' BY <1>3, <1>4, <1>5, <1>9, <1>10, <1>15 DEF Drawn
<1>13. ThreadOK(t)' BY <1>2, <1>8, <1>9, <1>11, <1>12, <1>15 DEF ThreadOK
<1>14. StackInv' BY <1>2, <1>3, <1>9, <1>10, <1>13, StackStep
<1> QED BY <1>2, <1>5, <1>7, <1>9, <1>14, <1>15

LEMMA InsertStep ==
  ASSUME StoreIsRoomy, StackInv, NEW t \in Threads, Insert(t)
  PROVE  /\ StackInv' /\ Only(t) /\ UNCHANGED <<level, mtx>>
         /\ pc[t] = "insert" /\ pc'[t] = "readHead" /\ done' = done /\ popped' = popped
         /\ cur' = cur /\ new' = new /\ val' = val
         /\ new[t] \in Keys \ PresentKeys /\ new[t] # HeadKey
         /\ \A m \in Keys \ {new[t]} : versions'[m] = versions[m]
<1>0. mtx \in Threads \cup {NoThread} /\ "readHead" \in Places
  BY TypedIff DEF StackInv, StackTyped, Places
<1>1. StackTyped /\ StoreOK /\ ThreadOK(t) BY TypedIff DEF StackInv
<1>2. /\ pc[t] = "insert" /\ Put(DefaultSession, new[t], Cell(val[t], NoNode))
      /\ Goto(t, "readHead") /\ UNCHANGED <<mtx, cur, new, val>>
  BY DEF Insert
<1>3. /\ Op(t) = "push" /\ val[t] \in Nat /\ Drawn(t) /\ done[t] < Len(Program[t])
  BY <1>1, <1>2 DEF ThreadOK, Pushing
<1>4. new[t] \in Keys \ PresentKeys /\ new[t] < 10 * (GetSize + 1) BY <1>2, <1>3 DEF Drawn
<1>5. PICK v : v = Cell(val[t], NoNode) OBVIOUS
<1>6. v \in Values /\ v.val = val[t] /\ v.next = NoNode BY <1>3, <1>5, CellTyped
<1>7. /\ StoreTypeOK' /\ StoreOK' /\ level' = level
      /\ PresentKeys' = PresentKeys \cup {new[t]} /\ GetSize <= GetSize'
      /\ \A m \in Keys \ {new[t]} : versions'[m] = versions[m]
  BY <1>2, <1>3, <1>4, <1>5, <1>6, KeysTyped, WriteKeeps DEF Linked
<1>8. /\ StackTyped' /\ Only(t) /\ pc'[t] = "readHead" /\ done' = done /\ popped' = popped
  BY <1>1, <1>2, <1>0, GotoTyped
<1>9. GetSize \in Nat /\ GetSize' \in Nat
  BY <1>1, <1>7, FS_CardinalityType, SizeTyped DEF StoreOK, GetSize, PresentKeys
<1>10. Drawn(t)' BY <1>2, <1>3, <1>4, <1>7, <1>8, <1>9, KeysTyped DEF Drawn
<1>11. ThreadOK(t)' BY <1>2, <1>3, <1>8, <1>10 DEF ThreadOK, Op
<1>12. StackInv'
  <2>1. \A k \in PresentKeys' \ PresentKeys : \E n \in Nat : k = n * 10 + t
    BY <1>3, <1>7 DEF Drawn
  <2> QED BY <1>2, <1>7, <1>8, <1>11, <2>1, StackStep
<1>13. new[t] # HeadKey BY <1>1, <1>4 DEF StoreOK
<1> QED BY <1>2, <1>4, <1>7, <1>8, <1>12, <1>13

LEMMA PushReadHeadStep ==
  ASSUME StoreIsRoomy, StackInv, NEW t \in Threads, PushReadHead(t)
  PROVE  /\ StackInv' /\ Only(t) /\ UNCHANGED <<versions, level, mtx>>
         /\ pc[t] = "readHead" /\ pc'[t] = "link" /\ done' = done /\ popped' = popped
         /\ new' = new /\ val' = val
<1>0. mtx \in Threads \cup {NoThread} /\ "link" \in Places
  BY TypedIff DEF StackInv, StackTyped, Places
<1>1. StackTyped /\ StoreOK /\ ThreadOK(t) BY TypedIff DEF StackInv
<1>2. /\ pc[t] = "readHead" /\ Goto(t, "link") /\ UNCHANGED <<mtx, new, val>>
  BY DEF PushReadHead
<1>3. PICK i \in Visible(t, HeadKey) : /\ Get(t, HeadKey, i)
                                       /\ cur' = [cur EXCEPT ![t] = versions[HeadKey][i].next]
  BY DEF PushReadHead
<1>4. PICK top : top = versions[HeadKey][i].next OBVIOUS
<1>5. top \in Keys \cup {NoNode} /\ Linked(top)
  BY <1>3, <1>4, KeysTyped, VersionIsCell DEF Visible
<1>6. StoreTypeOK' /\ StoreOK' /\ UNCHANGED <<versions, level>> /\ PresentKeys' = PresentKeys
      /\ GetSize' = GetSize
  BY <1>3, KeysTyped, ReadKeeps
<1>7. /\ StackTyped' /\ Only(t) /\ pc'[t] = "link" /\ done' = done /\ popped' = popped
      /\ cur'[t] = top
  <2>1. cur' = [cur EXCEPT ![t] = top] BY <1>3, <1>4
  <2>2. StackTyped' /\ Only(t) /\ pc'[t] = "link" /\ done' = done /\ popped' = popped
    BY <1>0, <1>1, <1>2, <1>5, <2>1, GotoTyped
  <2> QED BY <1>1, <2>1, <2>2 DEF StackTyped
<1>8. /\ Op(t) = "push" /\ val[t] \in Nat /\ Drawn(t) /\ done[t] < Len(Program[t])
  BY <1>1, <1>2 DEF ThreadOK, Pushing
<1>9. Drawn(t)' BY <1>2, <1>6, <1>7, <1>8 DEF Drawn
<1>10. Linked(cur[t])' BY <1>5, <1>6, <1>7 DEF Linked
<1>11. ThreadOK(t)' BY <1>2, <1>7, <1>8, <1>9, <1>10 DEF ThreadOK, Op
<1>12. GetSize \in Nat BY <1>1, SizeTyped
<1>13. StackInv' BY <1>2, <1>6, <1>7, <1>11, <1>12, StackStep
<1> QED BY <1>2, <1>6, <1>7, <1>13

LEMMA LinkStep ==
  ASSUME StoreIsRoomy, StackInv, NEW t \in Threads, Link(t)
  PROVE  /\ StackInv' /\ Only(t) /\ UNCHANGED <<level, mtx>>
         /\ pc[t] = "link" /\ pc'[t] = "compare" /\ done' = done /\ popped' = popped
         /\ cur' = cur /\ new' = new /\ val' = val
         /\ Op(t) = "push" /\ new[t] \in Keys /\ new[t] # HeadKey
         /\ \A m \in Keys \ {new[t]} : versions'[m] = versions[m]
         /\ Latest(new[t])' = Cell(val[t], cur[t])
<1>0. mtx \in Threads \cup {NoThread} /\ "compare" \in Places
  BY TypedIff DEF StackInv, StackTyped, Places
<1>1. StackTyped /\ StoreOK /\ ThreadOK(t) BY TypedIff DEF StackInv
<1>2. /\ pc[t] = "link" /\ Put(DefaultSession, new[t], Cell(val[t], cur[t]))
      /\ Goto(t, "compare") /\ UNCHANGED <<mtx, cur, new, val>>
  BY DEF Link
<1>3. /\ Op(t) = "push" /\ val[t] \in Nat /\ Drawn(t) /\ done[t] < Len(Program[t])
      /\ Linked(cur[t])
  BY <1>1, <1>2 DEF ThreadOK, Pushing
<1>4. new[t] \in PresentKeys /\ new[t] \in Keys BY <1>2, <1>3 DEF Drawn
<1>5. new[t] # HeadKey BY <1>3, KeysTyped DEF Drawn, HeadKey
<1>6. PICK v : v = Cell(val[t], cur[t]) OBVIOUS
<1>7. v \in Values /\ v.val = val[t] /\ v.next = cur[t]
  BY <1>1, <1>3, <1>6, CellTyped DEF StackTyped
<1>8. PICK n : n = new[t] OBVIOUS
<1>9. /\ StoreTypeOK' /\ StoreOK' /\ level' = level
      /\ PresentKeys' = PresentKeys \cup {n} /\ GetSize <= GetSize'
      /\ \A m \in Keys \ {n} : versions'[m] = versions[m]
      /\ Latest(n)' = v
  <2>1. n \in Keys /\ n \in PresentKeys /\ DefaultSession \in Sessions BY <1>4, <1>8, KeysTyped
  <2>2. Put(DefaultSession, n, v) BY <1>2, <1>6, <1>8
  <2>3. Linked(v.next) /\ v.val \in Nat BY <1>3, <1>7
  <2> QED BY <1>7, <2>1, <2>2, <2>3, WriteKeeps
<1>10. /\ StackTyped' /\ Only(t) /\ pc'[t] = "compare" /\ done' = done /\ popped' = popped
  BY <1>1, <1>2, <1>0, GotoTyped
<1>11. GetSize \in Nat /\ GetSize' \in Nat
  BY <1>1, <1>9, FS_CardinalityType, SizeTyped DEF StoreOK, GetSize, PresentKeys
<1>12. Drawn(t)' BY <1>2, <1>3, <1>4, <1>8, <1>9, <1>10, <1>11, KeysTyped DEF Drawn
<1>13. Linked(cur[t])' /\ Linked(new[t])' BY <1>2, <1>3, <1>4, <1>5, <1>9 DEF Linked
<1>14. ThreadOK(t)' BY <1>2, <1>3, <1>10, <1>12, <1>13 DEF ThreadOK, Op
<1>15. StackInv' BY <1>2, <1>4, <1>8, <1>9, <1>10, <1>14, StackStep
<1>16. Latest(new[t])' = Cell(val[t], cur[t]) BY <1>2, <1>6, <1>8, <1>9
<1> QED BY <1>2, <1>3, <1>4, <1>5, <1>8, <1>9, <1>10, <1>15, <1>16

LEMMA PopReadHeadStep ==
  ASSUME StoreIsRoomy, StackInv, NEW t \in Threads, PopReadHead(t)
  PROVE  /\ StackInv' /\ Only(t) /\ UNCHANGED <<versions, level, mtx>>
         /\ pc[t] \in {"idle", "popHead"} /\ Op(t) = "pop" /\ done[t] < Len(Program[t])
         /\ \E i \in Visible(t, HeadKey) :
              \/ /\ pc'[t] = "idle" /\ done'[t] = done[t] + 1
                 /\ popped' = [popped EXCEPT ![t] = Append(@, EMPTY)]
                 /\ versions[HeadKey][i].next = NoNode
              \/ /\ pc'[t] = "popNode" /\ done' = done /\ popped' = popped
                 /\ cur'[t] = versions[HeadKey][i].next /\ cur'[t] # NoNode
<1>0. mtx \in Threads \cup {NoThread} /\ "popNode" \in Places /\ EMPTY \in Nat
  BY TypedIff DEF StackInv, StackTyped, Places, EMPTY
<1>1. StackTyped /\ StoreOK /\ ThreadOK(t) BY TypedIff DEF StackInv
<1>2. mtx' = mtx /\ (CanStart(t, "pop") \/ pc[t] = "popHead") BY DEF PopReadHead
<1>3. PICK i \in Visible(t, HeadKey) :
        LET top == versions[HeadKey][i].next
        IN /\ Get(t, HeadKey, i)
           /\ IF top = NoNode
                THEN ReturnPopped(t, EMPTY)
                ELSE /\ cur' = [cur EXCEPT ![t] = top]
                     /\ Goto(t, "popNode")
                     /\ UNCHANGED <<new, val>>
  BY DEF PopReadHead
<1>4. PICK top : top = versions[HeadKey][i].next OBVIOUS
<1>5. top \in Keys \cup {NoNode} /\ Linked(top)
  BY <1>3, <1>4, KeysTyped, VersionIsCell DEF Visible
<1>6. StoreTypeOK' /\ StoreOK' /\ UNCHANGED <<versions, level>> /\ PresentKeys' = PresentKeys
      /\ GetSize' = GetSize
  BY <1>3, KeysTyped, ReadKeeps
<1>7. /\ pc[t] \in {"idle", "popHead"} /\ Op(t) = "pop" /\ done[t] < Len(Program[t])
  BY <1>1, <1>2 DEF CanStart, ThreadOK
<1>8. GetSize \in Nat BY <1>1, SizeTyped
<1>9. CASE top = NoNode
  <2>1. Return(t) /\ popped' = [popped EXCEPT ![t] = Append(@, EMPTY)]
    BY <1>3, <1>4, <1>9 DEF ReturnPopped
  <2>2. StackTyped' /\ Only(t) /\ pc'[t] = "idle" /\ done'[t] = done[t] + 1
    BY <1>0, <1>1, <1>2, <1>7, <2>1, ReturnTyped
  <2>3. ThreadOK(t)' BY <2>2, IdleOK
  <2>4. StackInv' BY <1>2, <1>6, <1>7, <1>8, <2>2, <2>3, StackStep
  <2> QED BY <1>2, <1>3, <1>4, <1>6, <1>7, <1>9, <2>1, <2>2, <2>4
<1>10. CASE top # NoNode
  <2>1. cur' = [cur EXCEPT ![t] = top] /\ Goto(t, "popNode") /\ UNCHANGED <<new, val>>
    BY <1>3, <1>4, <1>10
  <2>2. StackTyped' /\ Only(t) /\ pc'[t] = "popNode" /\ done' = done /\ popped' = popped
    BY <1>0, <1>1, <1>2, <1>5, <2>1, GotoTyped
  <2>3. cur'[t] = top BY <1>1, <2>1 DEF StackTyped
  <2>4. Op(t)' = "pop" /\ ~ Pushing(t)' BY <1>7, <2>2 DEF Op, Pushing
  <2>5. Linked(cur[t])' BY <1>5, <1>6, <2>3 DEF Linked
  <2>6. ThreadOK(t)' BY <1>7, <1>10, <2>2, <2>3, <2>4, <2>5 DEF ThreadOK
  <2>7. StackInv' BY <1>2, <1>6, <1>7, <1>8, <2>2, <2>6, StackStep
  <2> QED BY <1>2, <1>3, <1>4, <1>6, <1>7, <1>10, <2>2, <2>3, <2>7
<1> QED BY <1>9, <1>10

LEMMA PopReadNodeStep ==
  ASSUME StoreIsRoomy, StackInv, NEW t \in Threads, PopReadNode(t)
  PROVE  /\ StackInv' /\ Only(t) /\ UNCHANGED <<versions, level, mtx>>
         /\ pc[t] = "popNode" /\ pc'[t] = "compare" /\ Op(t) = "pop"
         /\ done' = done /\ popped' = popped /\ cur' = cur
         /\ cur[t] \in Keys /\ cur[t] # HeadKey /\ cur[t] # NoNode
         /\ \E i \in Visible(t, cur[t]) :
              val'[t] = versions[cur[t]][i].val /\ new'[t] = versions[cur[t]][i].next
<1>0. mtx \in Threads \cup {NoThread} /\ "compare" \in Places
  BY TypedIff DEF StackInv, StackTyped, Places
<1>1. StackTyped /\ StoreOK /\ ThreadOK(t) BY TypedIff DEF StackInv
<1>2. pc[t] = "popNode" /\ mtx' = mtx BY DEF PopReadNode
<1>3. /\ Op(t) = "pop" /\ done[t] < Len(Program[t])
      /\ cur[t] \in Keys /\ cur[t] # HeadKey /\ cur[t] # NoNode /\ Present(cur[t])
      /\ Linked(cur[t])
  BY <1>1, <1>2 DEF ThreadOK, Linked, PresentKeys
<1>4. PICK i \in Visible(t, cur[t]) :
        /\ Get(t, cur[t], i)
        /\ val' = [val EXCEPT ![t] = versions[cur[t]][i].val]
        /\ new' = [new EXCEPT ![t] = versions[cur[t]][i].next]
        /\ Goto(t, "compare") /\ cur' = cur
  BY <1>3 DEF PopReadNode
<1>5. PICK v, n : v = versions[cur[t]][i].val /\ n = versions[cur[t]][i].next OBVIOUS
<1>6. n \in Keys \cup {NoNode} /\ Linked(n) /\ v \in Nat
  BY <1>3, <1>4, <1>5, VersionIsCell DEF Visible
<1>7. StoreTypeOK' /\ StoreOK' /\ UNCHANGED <<versions, level>> /\ PresentKeys' = PresentKeys
      /\ GetSize' = GetSize
  BY <1>3, <1>4, KeysTyped, ReadKeeps
<1>8. val' = [val EXCEPT ![t] = v] /\ new' = [new EXCEPT ![t] = n] BY <1>4, <1>5
<1>9. StackTyped' /\ Only(t) /\ pc'[t] = "compare" /\ done' = done /\ popped' = popped
  BY <1>0, <1>1, <1>2, <1>4, <1>6, <1>8, GotoTyped
<1>10. val'[t] = v /\ new'[t] = n BY <1>1, <1>8 DEF StackTyped
<1>11. Op(t)' = "pop" /\ ~ Pushing(t)' BY <1>3, <1>9 DEF Op, Pushing
<1>12. Linked(cur[t])' /\ Linked(new[t])' BY <1>3, <1>4, <1>6, <1>7, <1>10 DEF Linked
<1>13. ThreadOK(t)' BY <1>3, <1>6, <1>9, <1>10, <1>11, <1>12 DEF ThreadOK
<1>14. GetSize \in Nat BY <1>1, SizeTyped
<1>15. StackInv' BY <1>2, <1>7, <1>9, <1>13, <1>14, StackStep
<1> QED BY <1>2, <1>3, <1>4, <1>5, <1>7, <1>9, <1>10, <1>15

LEMMA CompareHeadStep ==
  ASSUME StoreIsRoomy, StackInv, NEW t \in Threads, CompareHead(t)
  PROVE  /\ StackInv' /\ Only(t) /\ UNCHANGED <<versions, level>>
         /\ pc[t] = "compare" /\ done' = done /\ popped' = popped
         /\ cur' = cur /\ new' = new /\ val' = val
         /\ \E i \in Visible(t, HeadKey) :
              \/ pc'[t] = "swing" /\ versions[HeadKey][i].next = cur[t]
              \/ pc'[t] \in {"readHead", "popHead"}
<1>0. mtx \in Threads \cup {NoThread} /\ {"swing", "readHead", "popHead"} \subseteq Places
  BY TypedIff DEF StackInv, StackTyped, Places
<1>1. StackTyped /\ StoreOK /\ ThreadOK(t) BY TypedIff DEF StackInv
<1>2. pc[t] = "compare" /\ mtx = NoThread /\ UNCHANGED <<cur, new, val>> BY DEF CompareHead
<1>3. PICK i \in Visible(t, HeadKey) :
        /\ Get(t, HeadKey, i)
        /\ IF versions[HeadKey][i].next = cur[t]
             THEN mtx' = t /\ Goto(t, "swing")
             ELSE /\ Goto(t, IF Op(t) = "push" THEN "readHead" ELSE "popHead")
                  /\ UNCHANGED mtx
  BY DEF CompareHead
<1>4. StoreTypeOK' /\ StoreOK' /\ UNCHANGED <<versions, level>> /\ PresentKeys' = PresentKeys
      /\ GetSize' = GetSize
  BY <1>3, KeysTyped, ReadKeeps
<1>5. /\ done[t] < Len(Program[t]) /\ val[t] \in Nat /\ Linked(cur[t]) /\ Linked(new[t])
      /\ Op(t) = "push" => Drawn(t)
  BY <1>1, <1>2 DEF ThreadOK, Pushing
<1>6. Op(t) \in {"push", "pop"}
  <2>1. Program[t] \in Seq({"push", "pop"}) /\ done[t] \in Nat BY <1>1, StackAssumption DEF StackTyped
  <2> QED BY <1>5, <2>1 DEF Op
<1>7. PICK place \in {"swing", "readHead", "popHead"} :
        /\ Goto(t, place)
        /\ \/ place = "swing" /\ mtx' = t /\ versions[HeadKey][i].next = cur[t]
           \/ place = "readHead" /\ Op(t) = "push" /\ mtx' = mtx
           \/ place = "popHead" /\ Op(t) = "pop" /\ mtx' = mtx
  BY <1>3, <1>6
<1>8. StackTyped' /\ Only(t) /\ pc'[t] = place /\ done' = done /\ popped' = popped
  BY <1>0, <1>1, <1>2, <1>7, GotoTyped
<1>9. Op(t)' = Op(t) BY <1>8 DEF Op
<1>10. Op(t) = "push" => Drawn(t)' BY <1>2, <1>4, <1>5, <1>8 DEF Drawn
<1>11. Linked(cur[t])' /\ Linked(new[t])' BY <1>2, <1>4, <1>5 DEF Linked
<1>12. ThreadOK(t)' BY <1>2, <1>5, <1>7, <1>8, <1>9, <1>10, <1>11 DEF ThreadOK, Pushing
<1>13. GetSize \in Nat BY <1>1, SizeTyped
<1>14. StackInv' BY <1>2, <1>4, <1>7, <1>8, <1>12, <1>13, StackStep
<1> QED BY <1>2, <1>4, <1>7, <1>8, <1>14

LEMMA SwingHeadStep ==
  ASSUME StoreIsRoomy, StackInv, NEW t \in Threads, SwingHead(t)
  PROVE  /\ StackInv' /\ Only(t) /\ level' = level
         /\ pc[t] = "swing" /\ pc'[t] = "idle" /\ done'[t] = done[t] + 1
         /\ done[t] < Len(Program[t])
         /\ \A m \in Keys \ {HeadKey} : versions'[m] = versions[m]
         /\ Latest(HeadKey)' = Cell(NoVal, new[t]) /\ new[t] \in Keys \cup {NoNode}
         /\ \A j \in DOMAIN versions'[HeadKey] :
              \/ versions'[HeadKey][j] = Cell(NoVal, new[t])
              \/ j \in DOMAIN versions[HeadKey] /\ versions'[HeadKey][j] = versions[HeadKey][j]
         /\ \/ Op(t) = "push" /\ popped' = popped
            \/ Op(t) = "pop" /\ popped' = [popped EXCEPT ![t] = Append(@, val[t])]
<1>1. StackTyped /\ StoreOK /\ ThreadOK(t) BY TypedIff DEF StackInv
<1>2. /\ pc[t] = "swing" /\ Put(t, HeadKey, Cell(NoVal, new[t])) /\ mtx' = NoThread
      /\ Return(t)
      /\ IF Op(t) = "push" THEN popped' = popped
                           ELSE popped' = [popped EXCEPT ![t] = Append(@, val[t])]
  BY DEF SwingHead, ReturnPopped
<1>3. done[t] < Len(Program[t]) /\ val[t] \in Nat /\ Linked(new[t]) BY <1>1, <1>2 DEF ThreadOK
<1>4. Op(t) \in {"push", "pop"}
  <2>1. Program[t] \in Seq({"push", "pop"}) /\ done[t] \in Nat BY <1>1, StackAssumption DEF StackTyped
  <2> QED BY <1>3, <2>1 DEF Op
<1>5. new[t] \in Keys \cup {NoNode} BY <1>1 DEF StackTyped
<1>6. PICK v : v = Cell(NoVal, new[t]) OBVIOUS
<1>7. v \in Values /\ v.next = new[t] BY <1>5, <1>6, CellTyped
<1>8. HeadKey \in PresentKeys BY <1>1 DEF StoreOK
<1>9. /\ StoreTypeOK' /\ StoreOK' /\ level' = level
      /\ PresentKeys' = PresentKeys \cup {HeadKey} /\ GetSize <= GetSize'
      /\ Latest(HeadKey)' = v
      /\ \A m \in Keys \ {HeadKey} : versions'[m] = versions[m]
      /\ \A j \in DOMAIN versions'[HeadKey] :
           \/ versions'[HeadKey][j] = v
           \/ j \in DOMAIN versions[HeadKey] /\ versions'[HeadKey][j] = versions[HeadKey][j]
  BY <1>2, <1>3, <1>6, <1>7, <1>8, KeysTyped, WriteKeeps
<1>10. StackTyped' /\ Only(t) /\ pc'[t] = "idle" /\ done'[t] = done[t] + 1
  BY <1>1, <1>2, <1>3, ReturnTyped
<1>11. ThreadOK(t)' BY <1>10, IdleOK
<1>12. StackInv' BY <1>2, <1>8, <1>9, <1>10, <1>11, StackStep
<1> QED BY <1>2, <1>3, <1>4, <1>5, <1>6, <1>9, <1>10, <1>12
-----------------------------------------------------------------------------
LEMMA StackInit ==
  ASSUME StoreIsRoomy, Init
  PROVE  StackInv
<1>1. PICK c : c = Cell(NoVal, NoNode) OBVIOUS
<1>2. c \in Values /\ c.next = NoNode /\ c = Cell(NoVal, NoNode)
  BY <1>1, CellTyped
<1>3. /\ versions = [k \in Keys |-> IF k = HeadKey THEN <<c>> ELSE <<>>]
      /\ floor = [s \in Sessions |-> [k \in Keys |->
                    IF s = DefaultSession /\ k = HeadKey THEN 1 ELSE 0]]
      /\ level \in Levels
      /\ mtx = NoThread /\ pc = [t \in Threads |-> "idle"] /\ done = [t \in Threads |-> 0]
      /\ cur = [t \in Threads |-> NoNode] /\ new = [t \in Threads |-> NoNode]
      /\ val = [t \in Threads |-> NoVal] /\ popped = [t \in Threads |-> <<>>]
  BY <1>1 DEF Init
<1>4. StoreTypeOK /\ FloorsBounded
  <2>0. <<c>> \in Seq(Values) /\ <<>> \in Seq(Values) /\ Len(<<c>>) = 1
    BY <1>2
  <2>1. \A k \in Keys : versions[k] \in Seq(Values)
    <3> SUFFICES ASSUME NEW k \in Keys PROVE versions[k] \in Seq(Values)
      OBVIOUS
    <3>1. versions[k] = <<c>> \/ versions[k] = <<>> BY <1>3
    <3> QED BY <2>0, <3>1
  <2>2. versions \in [Keys -> Seq(Values)] BY <1>3, <2>1
  <2>3. floor \in [Sessions -> [Keys -> Nat]] BY <1>3
  <2>4. FloorsBounded
    <3> SUFFICES ASSUME NEW s \in Sessions, NEW k \in Keys PROVE floor[s][k] <= Len(versions[k])
      BY DEF FloorsBounded
    <3>1. CASE k = HeadKey
      <4>1. versions[k] = <<c>> /\ floor[s][k] \in {0, 1} BY <1>3, <3>1
      <4> QED BY <2>0, <4>1
    <3>2. CASE k # HeadKey
      <4>1. Len(versions[k]) \in Nat /\ floor[s][k] = 0 BY <1>3, <2>1, <3>2
      <4> QED BY <4>1
    <3> QED BY <3>1, <3>2
  <2> QED BY <1>3, <2>2, <2>3, <2>4 DEF StoreTypeOK
<1>5. PresentKeys = {HeadKey}
  BY <1>3, KeysTyped DEF PresentKeys, Present
<1>6. IsFiniteSet(PresentKeys) /\ GetSize = 1
  <2>1. IsFiniteSet({HeadKey}) /\ Cardinality({HeadKey}) = 1 BY FS_Singleton
  <2> QED BY <1>5, <2>1 DEF GetSize, PresentKeys
<1>7. StoreOK
  <2>1. ASSUME NEW k \in Keys, NEW i \in DOMAIN versions[k]
        PROVE  Linked(versions[k][i].next) /\ (k # HeadKey => versions[k][i].val \in Nat)
    <3>1. k = HeadKey /\ i = 1 /\ versions[k][i] = c BY <1>3, <2>1
    <3> QED BY <1>2, <3>1 DEF Linked
  <2> QED BY <1>4, <1>5, <1>6, <2>1 DEF StoreOK, StoreSound, HeadKey
<1>8. StackTyped
  <2>1. \A t \in Threads : Len(Program[t]) \in Nat BY StackAssumption
  <2> QED BY <1>3, <2>1 DEF StackTyped
<1>9. Mutex BY <1>3, KeysTyped DEF Mutex
<1>10. \A t \in Threads : ThreadOK(t) BY <1>3 DEF ThreadOK, Pushing
<1> QED BY <1>4, <1>7, <1>8, <1>9, <1>10, TypedIff DEF StackInv

LEMMA StackNext ==
  ASSUME StoreIsRoomy, StackInv, [Next]_vars
  PROVE  StackInv'
<1>1. CASE UNCHANGED vars
  <2>1. /\ UNCHANGED storeVars /\ mtx' = mtx /\ pc' = pc /\ done' = done /\ cur' = cur
        /\ new' = new /\ val' = val /\ popped' = popped
    BY <1>1 DEF vars, stackVars
  <2>2. StoreTypeOK' /\ StoreOK' /\ PresentKeys' = PresentKeys /\ GetSize' = GetSize
    BY <2>1, ReadKeeps
  <2>3. StackTyped' BY <2>1, TypedIff DEF StackInv, StackTyped
  <2>4. Mutex' BY <2>1 DEF StackInv, Mutex
  <2>5. ASSUME NEW t \in Threads PROVE ThreadOK(t)'
    <3>1. ThreadOK(t) BY DEF StackInv
    <3> QED BY <2>1, <2>2, <3>1 DEF ThreadOK, Linked, Pushing, Drawn, Op
  <2>6. TypeOK' BY <2>2, <2>3 DEF TypeOK, StackTyped
  <2> QED BY <2>2, <2>4, <2>5, <2>6 DEF StackInv
<1>2. ASSUME NEW t \in Threads, Step(t) PROVE StackInv'
  <2>1. CASE StartPush(t) BY <2>1, StartPushStep
  <2>2. CASE Insert(t) BY <2>2, InsertStep
  <2>3. CASE PushReadHead(t) BY <2>3, PushReadHeadStep
  <2>4. CASE Link(t) BY <2>4, LinkStep
  <2>5. CASE PopReadHead(t) BY <2>5, PopReadHeadStep
  <2>6. CASE PopReadNode(t) BY <2>6, PopReadNodeStep
  <2>7. CASE CompareHead(t) BY <2>7, CompareHeadStep
  <2>8. CASE SwingHead(t) BY <2>8, SwingHeadStep
  <2> QED BY <1>2, <2>1, <2>2, <2>3, <2>4, <2>5, <2>6, <2>7, <2>8 DEF Step
<1> QED BY <1>1, <1>2 DEF Next

\* The inductive invariant of the first half holds in every state.
THEOREM StackInvariant == ASSUME StoreIsRoomy PROVE Spec => []StackInv
<1>1. Init => StackInv BY StackInit
<1>2. StackInv /\ [Next]_vars => StackInv' BY StackNext
<1> QED BY <1>1, <1>2, PTL DEF Spec

\* The stack only gets and puts, at keys and with cells that the store has; after
\* the dummy head of the constructor nothing else touches the store
\* (treiber_stack.h:15-21, 33-119).
THEOREM StackUsesTheStore == ASSUME StoreIsRoomy PROVE Spec => [][StoreNext]_storeVars
<1> SUFFICES ASSUME StoreIsRoomy PROVE Spec => [][StoreNext]_storeVars
  OBVIOUS
<1>1. StackInv /\ [Next]_vars => [StoreNext]_storeVars
  <2> SUFFICES ASSUME StackInv, [Next]_vars PROVE [StoreNext]_storeVars
    OBVIOUS
  <2>1. TypeOK /\ StoreOK /\ \A t \in Threads : ThreadOK(t) /\ t \in Sessions
    BY KeysTyped DEF StackInv
  <2>2. ASSUME NEW s \in Sessions, NEW k \in Keys, NEW i \in Visible(s, k), Get(s, k, i)
        PROVE  StoreNext
    BY <2>2 DEF StoreNext, Visible
  <2>3. ASSUME NEW s \in Sessions, NEW k \in Keys, NEW v \in Nat \cup {NoVal},
               NEW n \in Keys \cup {NoNode}, Put(s, k, Cell(v, n))
        PROVE  StoreNext
    <3>1. Cell(v, n) \in Values BY DEF StoreIsRoomy, Cell
    <3> QED BY <2>3, <3>1 DEF StoreNext
  <2>4. HeadKey \in Keys /\ DefaultSession \in Sessions BY KeysTyped
  <2>5. ASSUME NEW t \in Threads PROVE Step(t) => StoreNext \/ UNCHANGED storeVars
    <3>1. /\ val[t] \in Nat \cup {NoVal} /\ cur[t] \in Keys \cup {NoNode}
          /\ new[t] \in Keys \cup {NoNode} /\ t \in Sessions
      BY <2>1 DEF TypeOK
    <3>2. ASSUME pc[t] \in {"insert", "link"} PROVE new[t] \in Keys
      BY <2>1, <3>2 DEF ThreadOK, Pushing, Drawn
    <3>3. ASSUME StartPush(t) PROVE UNCHANGED storeVars BY <3>3 DEF StartPush
    <3>4. ASSUME Insert(t) PROVE StoreNext
      <4>1. new[t] \in Keys BY <3>2, <3>4 DEF Insert
      <4>2. Put(DefaultSession, new[t], Cell(val[t], NoNode)) BY <3>4 DEF Insert
      <4> QED BY <2>3, <2>4, <3>1, <4>1, <4>2
    <3>5. ASSUME Link(t) PROVE StoreNext
      <4>1. new[t] \in Keys BY <3>2, <3>5 DEF Link
      <4>2. Put(DefaultSession, new[t], Cell(val[t], cur[t])) BY <3>5 DEF Link
      <4> QED BY <2>3, <2>4, <3>1, <4>1, <4>2
    <3>6. ASSUME PushReadHead(t) \/ PopReadHead(t) \/ CompareHead(t) PROVE StoreNext
      <4>1. \E i \in Visible(t, HeadKey) : Get(t, HeadKey, i)
        BY <3>6 DEF PushReadHead, PopReadHead, CompareHead
      <4> QED BY <2>2, <2>4, <3>1, <4>1
    <3>7. ASSUME PopReadNode(t) PROVE StoreNext \/ UNCHANGED storeVars
      <4>1. cur[t] \in Keys BY <2>1, <3>1, <3>7 DEF ThreadOK, PopReadNode
      <4>2. UNCHANGED storeVars \/ \E i \in Visible(t, cur[t]) : Get(t, cur[t], i)
        BY <3>7 DEF PopReadNode
      <4> QED BY <2>2, <3>1, <4>1, <4>2
    <3>8. ASSUME SwingHead(t) PROVE StoreNext
      <4>1. Put(t, HeadKey, Cell(NoVal, new[t])) BY <3>8 DEF SwingHead
      <4> QED BY <2>3, <2>4, <3>1, <4>1
    <3> QED BY <3>3, <3>4, <3>5, <3>6, <3>7, <3>8 DEF Step
  <2>6. CASE UNCHANGED vars BY <2>6 DEF vars
  <2> QED BY <2>5, <2>6 DEF Next
<1> QED BY <1>1, StackInvariant, PTL DEF Spec

\* The threads' variables keep their types; in particular what a pop returns is a
\* value that was pushed or EMPTY, and never the dummy of the head.
THEOREM StackTypeOK == ASSUME StoreIsRoomy PROVE Spec => []TypeOK
<1>1. StackInv => TypeOK BY DEF StackInv
<1> QED BY <1>1, StackInvariant, PTL

\* The ids that pushes draw from the unlocked size of the store never collide, for
\* any programs of up to nine threads (treiber_stack.h:34-35).
THEOREM IdsNeverCollide == ASSUME StoreIsRoomy PROVE Spec => []NodeIdsUnique
<1>1. StackInv => NodeIdsUnique
  <2> SUFFICES ASSUME StackInv, NEW t \in Threads, pc[t] = "insert"
               PROVE  /\ ~ Present(new[t])
                      /\ \A u \in Threads \ {t} : pc[u] # "idle" /\ Op(u) = "push" => new[u] # new[t]
    BY DEF NodeIdsUnique
  <2>1. \A u \in Threads : Pushing(u) => Drawn(u) BY DEF StackInv, ThreadOK
  <2>2. Pushing(t) BY DEF StackInv, ThreadOK, Pushing
  <2>3. ~ Present(new[t]) BY <2>1, <2>2 DEF Drawn, PresentKeys
  <2>4. ASSUME NEW u \in Threads \ {t}, Pushing(u) PROVE new[u] # new[t]
    <3>1. PICK m \in Nat : new[u] = m * 10 + u BY <2>1, <2>4 DEF Drawn
    <3>2. PICK n \in Nat : new[t] = n * 10 + t BY <2>1, <2>2 DEF Drawn
    <3> QED BY <3>1, <3>2, KeysTyped
  <2> QED BY <2>3, <2>4 DEF Pushing
<1> QED BY <1>1, StackInvariant, PTL

\* What any version of a node names as the next one is the end of the stack or a node
\* that is in the store.
NextNeverDangles ==
  \A k \in Keys \ {HeadKey} : \A i \in DOMAIN versions[k] :
    LET below == versions[k][i].next
    IN below # NoNode => below \in Keys \ {HeadKey} /\ Present(below)

\* Every version of the head, and of the next of every node, that any session may still
\* be shown names a node that is in the store: a pop never takes a missing node for an
\* empty stack, and never installs one (treiber_stack.h:67-76, 81-84).
THEOREM LinksNeverDangle ==
  ASSUME StoreIsRoomy
  PROVE  Spec => [](HeadNeverDangles /\ NextNeverDangles)
<1>1. StackInv => HeadNeverDangles
  BY KeysTyped DEF StackInv, StoreOK, HeadNeverDangles, Linked, PresentKeys
<1>2. StackInv => NextNeverDangles
  BY KeysTyped DEF StackInv, StoreOK, NextNeverDangles, Linked, PresentKeys
<1> QED BY <1>1, <1>2, StackInvariant, PTL
-----------------------------------------------------------------------------
\* From here on the store is linearizable.  The top of the stack, what is below a
\* node and the value of a node, by the latest versions:
Top == Latest(HeadKey).next
Below(n) == Latest(n).next
Val(n) == Latest(n).val

\* The head has pointed at node n.
Installed(n) == n # NoNode /\ \E i \in DOMAIN versions[HeadKey] : versions[HeadKey][i].next = n

\* v is the value of an operation that is over.
Settled(v) == \E u \in Threads : \E i \in 1 .. done[u] : v = u * 10 + i

\* The set A holds the nodes of the stack, and possibly others, that no pop has
\* taken.  No node of it is below two others or above the top, which stands for
\* "reachable from the top" without a recursive definition.
OnStack(A) ==
  /\ Top = NoNode \/ Top \in A
  /\ \A n \in A : (Below(n) = NoNode \/ Below(n) \in A) /\ Below(n) # Top
  /\ \A m, n \in A : m # n => Below(m) # Below(n) /\ Val(m) # Val(n)
  /\ \A n \in A : Settled(Val(n))
  /\ \A n \in A, t \in Threads : \A j \in DOMAIN popped[t] : popped[t][j] # Val(n)
  /\ \A n \in A, t \in Threads : Pushing(t) => new[t] # n

\* What thread t knows while it is about to compare and to swing the head.
Knows(t) ==
  /\ Pushing(t) => val[t] = t * 10 + done[t] + 1 /\ ~ Installed(new[t])
  /\ Pushing(t) /\ pc[t] \in {"compare", "swing"} => Latest(new[t]) = Cell(val[t], cur[t])
  /\ pc[t] = "popNode" => Installed(cur[t])
  /\ ~ Pushing(t) /\ pc[t] \in {"compare", "swing"} =>
       Installed(cur[t]) /\ Latest(cur[t]) = Cell(val[t], new[t])
  /\ pc[t] = "swing" => Top = cur[t]

PoppedSettled ==
  \A t \in Threads : \A j \in DOMAIN popped[t] : popped[t][j] = EMPTY \/ Settled(popped[t][j])

LinearInv ==
  /\ \E A \in SUBSET (PresentKeys \ {HeadKey}) : OnStack(A)
  /\ \A t \in Threads : Knows(t)
  /\ PoppedSettled /\ ~ RepeatValue

LinearStackInv == StackInv /\ (level = "linear" => LinearInv)
-----------------------------------------------------------------------------
LEMMA ThreadFacts ==
  ASSUME StackInv, NEW t \in Threads
  PROVE  /\ done[t] \in Nat /\ Len(Program[t]) \in Nat /\ Len(Program[t]) <= 9
         /\ popped[t] \in Seq(Nat) /\ cur[t] \in Keys \cup {NoNode} /\ new[t] \in Keys \cup {NoNode}
         /\ Pushing(t) => new[t] \in Keys /\ new[t] # HeadKey /\ done[t] < Len(Program[t])
<1>1. StackTyped BY TypedIff DEF StackInv
<1>2. Program[t] \in Seq({"push", "pop"}) BY StackAssumption
<1>3. Pushing(t) => Drawn(t) /\ done[t] < Len(Program[t]) BY DEF StackInv, ThreadOK, Pushing
<1>4. Drawn(t) => new[t] \in Keys /\ new[t] # HeadKey BY KeysTyped DEF Drawn, HeadKey
<1> QED BY <1>1, <1>2, <1>3, <1>4, StackAssumption DEF StackTyped

\* The pushes under way write to different nodes.
LEMMA PushesApart ==
  ASSUME StackInv, NEW t \in Threads, NEW u \in Threads \ {t}, Pushing(t), Pushing(u)
  PROVE  new[t] # new[u]
<1>1. Drawn(t) /\ Drawn(u) BY DEF StackInv, ThreadOK
<1>2. PICK m \in Nat : new[u] = m * 10 + u BY <1>1 DEF Drawn
<1>3. PICK n \in Nat : new[t] = n * 10 + t BY <1>1 DEF Drawn
<1> QED BY <1>2, <1>3, KeysTyped

\* A node that the head has pointed at is in the store.
LEMMA InstalledPresent ==
  ASSUME StackInv, NEW n, Installed(n)
  PROVE  n \in PresentKeys \ {HeadKey}
  BY KeysTyped DEF StackInv, StoreOK, Linked, Installed

\* A step that leaves the head's versions alone and writes at most to the node of
\* thread t's own push keeps what another thread knows ...
LEMMA OthersKnow ==
  ASSUME StackInv, LinearInv, NEW t \in Threads, Only(t),
         \A m \in Keys : versions'[m] = versions[m] \/ (m = new[t] /\ Pushing(t)),
         NEW u \in Threads \ {t}
  PROVE  Knows(u)'
<1>1. Knows(u) BY DEF LinearInv
<1>2. /\ pc'[u] = pc[u] /\ done'[u] = done[u] /\ cur'[u] = cur[u]
      /\ new'[u] = new[u] /\ val'[u] = val[u]
  BY DEF Only
<1>3. (Pushing(u)' <=> Pushing(u)) /\ Op(u)' = Op(u) BY <1>2 DEF Pushing, Op
<1>4. versions'[HeadKey] = versions[HeadKey] BY KeysTyped, ThreadFacts
<1>5. /\ Installed(cur[u]) => Installed(cur[u])'
      /\ ~ Installed(new[u]) => ~ Installed(new[u])'
      /\ Top' = Top
  BY <1>2, <1>4 DEF Installed, Top, Latest
<1>6. Pushing(u) => Latest(new[u])' = Latest(new[u])
  <2>1. Pushing(u) => new[u] \in Keys BY ThreadFacts
  <2>2. Pushing(u) => versions'[new[u]] = versions[new[u]] BY <2>1, PushesApart
  <2> QED BY <1>2, <2>2 DEF Latest
<1>7. Installed(cur[u]) => Latest(cur[u])' = Latest(cur[u])
  <2>1. Installed(cur[u]) => cur[u] \in Keys BY InstalledPresent DEF PresentKeys
  <2>2. Pushing(t) => ~ Installed(new[t]) BY DEF LinearInv, Knows
  <2>3. Installed(cur[u]) => versions'[cur[u]] = versions[cur[u]] BY <2>1, <2>2
  <2> QED BY <1>2, <2>3 DEF Latest
<1> QED BY <1>1, <1>2, <1>3, <1>5, <1>6, <1>7 DEF Knows

\* ... and, while no operation ends, everything that is said of the stack.
LEMMA StackStays ==
  ASSUME StackInv, LinearInv, NEW t \in Threads, Only(t),
         \A m \in Keys : versions'[m] = versions[m] \/ (m = new[t] /\ Pushing(t)),
         done' = done, popped' = popped, Knows(t)',
         Pushing(t)' => (Pushing(t) /\ new'[t] = new[t]) \/ new'[t] \notin PresentKeys
  PROVE  LinearInv'
<1>1. \A u \in Threads : Knows(u)' BY OthersKnow
<1>2. PoppedSettled' /\ ~ RepeatValue'
  BY DEF LinearInv, PoppedSettled, RepeatValue, Settled
<1>3. PICK A \in SUBSET (PresentKeys \ {HeadKey}) : OnStack(A) BY DEF LinearInv
<1>4. versions'[HeadKey] = versions[HeadKey] BY KeysTyped, ThreadFacts
<1>5. \A n \in A : n \in Keys /\ versions'[n] = versions[n] BY <1>3 DEF OnStack, PresentKeys
<1>6. A \in SUBSET (PresentKeys' \ {HeadKey})
  <2> SUFFICES ASSUME NEW n \in A PROVE n \in PresentKeys' \ {HeadKey}
    OBVIOUS
  <2> QED BY <1>3, <1>5 DEF PresentKeys, Present
<1>7. Top' = Top BY <1>4 DEF Top, Latest
<1>8. \A n \in A : Latest(n)' = Latest(n) BY <1>5 DEF Latest
<1>9. \A n \in A : Below(n)' = Below(n) /\ Val(n)' = Val(n) BY <1>8 DEF Below, Val
<1>10. \A n \in A : Settled(Val(n))' BY <1>3, <1>9 DEF OnStack, Settled
<1>11. ASSUME NEW n \in A, NEW u \in Threads, Pushing(u)' PROVE new'[u] # n
  <2>1. CASE u = t BY <1>3, <1>11, <2>1 DEF OnStack
  <2>2. CASE u # t BY <1>3, <1>11, <2>2 DEF OnStack, Only, Pushing, Op
  <2> QED BY <2>1, <2>2
<1>12. OnStack(A)' BY <1>3, <1>7, <1>9, <1>10, <1>11 DEF OnStack
<1> QED BY <1>1, <1>2, <1>6, <1>12 DEF LinearInv
-----------------------------------------------------------------------------
LEMMA LinearStartPush ==
  ASSUME StoreIsRoomy, StackInv, LinearInv, NEW t \in Threads, StartPush(t)
  PROVE  LinearInv'
<1>1. /\ Only(t) /\ UNCHANGED <<storeVars, mtx>> /\ StackInv'
      /\ pc'[t] = "insert" /\ done' = done /\ popped' = popped
      /\ new'[t] \notin PresentKeys /\ new'[t] # HeadKey /\ val'[t] = t * 10 + done[t] + 1
  BY StartPushStep
<1>2. versions' = versions BY <1>1 DEF storeVars
<1>3. PresentKeys' = PresentKeys BY <1>2 DEF PresentKeys, Present
<1>4. PICK n : n = new'[t] OBVIOUS
<1>5. ~ Installed(n) BY <1>1, <1>4, InstalledPresent
<1>6. ~ Installed(new[t])' BY <1>2, <1>4, <1>5 DEF Installed
<1>7. Pushing(t)' BY <1>1 DEF StackInv, ThreadOK, Pushing
<1>8. Knows(t)' BY <1>1, <1>6, <1>7 DEF Knows
<1> QED BY <1>1, <1>2, <1>8, StackStays

LEMMA LinearInsert ==
  ASSUME StoreIsRoomy, StackInv, LinearInv, NEW t \in Threads, Insert(t)
  PROVE  LinearInv'
<1>1. /\ Only(t) /\ pc[t] = "insert" /\ pc'[t] = "readHead" /\ done' = done /\ popped' = popped
      /\ cur' = cur /\ new' = new /\ val' = val /\ new[t] \in Keys \ PresentKeys
      /\ \A m \in Keys \ {new[t]} : versions'[m] = versions[m]
      /\ new[t] # HeadKey
  BY InsertStep
<1>2. Pushing(t) BY <1>1 DEF StackInv, ThreadOK, Pushing
<1>3. Knows(t) BY DEF LinearInv
<1>4. versions'[HeadKey] = versions[HeadKey] BY <1>1, KeysTyped
<1>5. ~ Installed(new[t])' BY <1>1, <1>2, <1>3, <1>4 DEF Knows, Installed
<1>6. Pushing(t)' BY <1>1, <1>2 DEF Pushing, Op
<1>7. Knows(t)' BY <1>1, <1>2, <1>3, <1>5, <1>6 DEF Knows
<1> QED BY <1>1, <1>2, <1>7, StackStays

LEMMA LinearPushReadHead ==
  ASSUME StoreIsRoomy, StackInv, LinearInv, NEW t \in Threads, PushReadHead(t)
  PROVE  LinearInv'
<1>1. /\ Only(t) /\ UNCHANGED <<versions, level, mtx>> /\ pc[t] = "readHead" /\ pc'[t] = "link"
      /\ done' = done /\ popped' = popped /\ new' = new /\ val' = val
  BY PushReadHeadStep
<1>2. Pushing(t) BY <1>1 DEF StackInv, ThreadOK, Pushing
<1>3. Knows(t) BY DEF LinearInv
<1>4. ~ Installed(new[t])' BY <1>1, <1>2, <1>3 DEF Knows, Installed
<1>5. Pushing(t)' BY <1>1, <1>2 DEF Pushing, Op
<1>6. Knows(t)' BY <1>1, <1>2, <1>3, <1>4, <1>5 DEF Knows
<1> QED BY <1>1, <1>2, <1>6, StackStays

LEMMA LinearLink ==
  ASSUME StoreIsRoomy, StackInv, LinearInv, NEW t \in Threads, Link(t)
  PROVE  LinearInv'
<1>1. /\ Only(t) /\ pc[t] = "link" /\ pc'[t] = "compare" /\ done' = done /\ popped' = popped
      /\ cur' = cur /\ new' = new /\ val' = val /\ Op(t) = "push"
      /\ new[t] \in Keys /\ new[t] # HeadKey
      /\ \A m \in Keys \ {new[t]} : versions'[m] = versions[m]
      /\ Latest(new[t])' = Cell(val[t], cur[t])
  BY LinkStep
<1>2. Pushing(t) BY <1>1 DEF Pushing
<1>3. Knows(t) BY DEF LinearInv
<1>4. versions'[HeadKey] = versions[HeadKey] BY <1>1, KeysTyped
<1>5. ~ Installed(new[t])' BY <1>1, <1>2, <1>3, <1>4 DEF Knows, Installed
<1>6. Pushing(t)' BY <1>1, <1>2 DEF Pushing, Op
<1>7. Knows(t)' BY <1>1, <1>2, <1>3, <1>5, <1>6 DEF Knows
<1> QED BY <1>1, <1>2, <1>7, StackStays

\* On a linearizable store a read of the head shows the top.
LEMMA VisibleIsTop ==
  ASSUME StackInv, level = "linear", NEW s \in Sessions, NEW i \in Visible(s, HeadKey)
  PROVE  /\ versions[HeadKey][i].next = Top /\ i \in DOMAIN versions[HeadKey]
         /\ Top # NoNode => Installed(Top)
  BY DEF Visible, Top, Latest, Installed

LEMMA LinearPopReadHead ==
  ASSUME StoreIsRoomy, StackInv, LinearInv, level = "linear", NEW t \in Threads, PopReadHead(t)
  PROVE  LinearInv'
<1>1. /\ StackInv' /\ Only(t) /\ UNCHANGED <<versions, level, mtx>>
      /\ pc[t] \in {"idle", "popHead"} /\ Op(t) = "pop" /\ done[t] < Len(Program[t])
      /\ \E i \in Visible(t, HeadKey) :
           \/ /\ pc'[t] = "idle" /\ done'[t] = done[t] + 1
              /\ popped' = [popped EXCEPT ![t] = Append(@, EMPTY)]
           \/ /\ pc'[t] = "popNode" /\ done' = done /\ popped' = popped
              /\ cur'[t] = versions[HeadKey][i].next /\ cur'[t] # NoNode
  BY PopReadHeadStep
<1>2. PICK i \in Visible(t, HeadKey) :
        \/ /\ pc'[t] = "idle" /\ done'[t] = done[t] + 1
           /\ popped' = [popped EXCEPT ![t] = Append(@, EMPTY)]
        \/ /\ pc'[t] = "popNode" /\ done' = done /\ popped' = popped
           /\ cur'[t] = versions[HeadKey][i].next /\ cur'[t] # NoNode
  BY <1>1
<1>3. t \in Sessions BY KeysTyped
<1>4. CASE /\ pc'[t] = "popNode" /\ done' = done /\ popped' = popped
           /\ cur'[t] = versions[HeadKey][i].next /\ cur'[t] # NoNode
  <2>1. ~ Pushing(t)' BY <1>1, <1>4 DEF Pushing, Op
  <2>2. cur'[t] = Top /\ Installed(Top) BY <1>3, <1>4, VisibleIsTop
  <2>3. Installed(cur[t])' BY <1>1, <2>2 DEF Installed
  <2>4. Knows(t)' BY <1>4, <2>1, <2>3 DEF Knows
  <2> QED BY <1>1, <1>4, <2>1, <2>4, StackStays
<1>5. CASE /\ pc'[t] = "idle" /\ done'[t] = done[t] + 1
           /\ popped' = [popped EXCEPT ![t] = Append(@, EMPTY)]
  <2>1. Knows(t)' BY <1>5 DEF Knows, Pushing
  <2>2. \A u \in Threads : Knows(u)' BY <1>1, <2>1, OthersKnow
  <2>3. \A u \in Threads : done[u] \in Nat /\ done[u] <= done'[u] /\ done'[u] \in Nat
    BY <1>1, <1>5, ThreadFacts DEF Only
  <2>4. \A v : Settled(v) => Settled(v)'
    BY <2>3 DEF Settled
  <2>5. popped \in [Threads -> Seq(Nat)] BY TypedIff DEF StackInv, StackTyped
  <2>6. ASSUME NEW u \in Threads, NEW j \in DOMAIN popped'[u]
        PROVE  popped'[u][j] = EMPTY \/ (j \in DOMAIN popped[u] /\ popped'[u][j] = popped[u][j])
    BY <1>5, <2>5, <2>6
  <2>7. PoppedSettled'
    <3> SUFFICES ASSUME NEW u \in Threads, NEW j \in DOMAIN popped'[u], popped'[u][j] # EMPTY
                 PROVE  \E v : v = popped'[u][j] /\ Settled(v)'
      BY DEF PoppedSettled, Settled
    <3>1. j \in DOMAIN popped[u] /\ popped'[u][j] = popped[u][j] BY <2>6
    <3>2. Settled(popped[u][j]) BY <3>1 DEF LinearInv, PoppedSettled
    <3> QED BY <2>4, <3>1, <3>2
  <2>8. ~ RepeatValue' BY <2>6 DEF LinearInv, RepeatValue
  <2>9. PICK A \in SUBSET (PresentKeys \ {HeadKey}) : OnStack(A) BY DEF LinearInv
  <2>10. PresentKeys' = PresentKeys BY <1>1 DEF PresentKeys, Present
  <2>11. Top' = Top /\ \A n \in A : Below(n)' = Below(n) /\ Val(n)' = Val(n)
    BY <1>1 DEF Top, Latest, Below, Val
  <2>12. \A n \in A : Settled(Val(n))'
    <3> SUFFICES ASSUME NEW n \in A PROVE Settled(Val(n))'
      OBVIOUS
    <3>1. PICK v : v = Val(n) OBVIOUS
    <3>2. Settled(v)' BY <2>4, <2>9, <3>1 DEF OnStack
    <3> QED BY <2>11, <3>1, <3>2 DEF Settled
  <2>13. \A n \in A : Val(n) # EMPTY
    <3>1. \A n \in A : n \in Keys /\ Present(n) BY <2>9 DEF PresentKeys
    <3>2. \A n \in A : Settled(Val(n)) BY <2>9 DEF OnStack
    <3>3. \A v : Settled(v) => v # EMPTY BY KeysTyped, ThreadFacts DEF Settled, EMPTY
    <3> QED BY <3>2, <3>3
  <2>14. ASSUME NEW n \in A, NEW u \in Threads, NEW j \in DOMAIN popped'[u]
         PROVE  popped'[u][j] # Val(n)
    BY <2>6, <2>9, <2>13 DEF OnStack
  <2>15. ASSUME NEW n \in A, NEW u \in Threads, Pushing(u)' PROVE new'[u] # n
    <3>1. u # t BY <1>5, <2>15 DEF Pushing
    <3> QED BY <1>1, <2>9, <2>15, <3>1 DEF OnStack, Only, Pushing, Op
  <2>16. OnStack(A)' BY <2>9, <2>11, <2>12, <2>14, <2>15 DEF OnStack
  <2> QED BY <2>2, <2>7, <2>8, <2>10, <2>16 DEF LinearInv
<1> QED BY <1>2, <1>4, <1>5

LEMMA LinearPopReadNode ==
  ASSUME StoreIsRoomy, StackInv, LinearInv, level = "linear", NEW t \in Threads, PopReadNode(t)
  PROVE  LinearInv'
<1>1. /\ Only(t) /\ UNCHANGED <<versions, level, mtx>>
      /\ pc[t] = "popNode" /\ pc'[t] = "compare" /\ Op(t) = "pop"
      /\ done' = done /\ popped' = popped /\ cur' = cur
      /\ cur[t] \in Keys /\ cur[t] # HeadKey /\ cur[t] # NoNode
      /\ \E i \in Visible(t, cur[t]) :
           val'[t] = versions[cur[t]][i].val /\ new'[t] = versions[cur[t]][i].next
  BY PopReadNodeStep
<1>2. PICK i \in Visible(t, cur[t]) :
        val'[t] = versions[cur[t]][i].val /\ new'[t] = versions[cur[t]][i].next
  BY <1>1
<1>3. i \in DOMAIN versions[cur[t]] /\ versions[cur[t]][i] = Latest(cur[t])
  BY DEF Visible, Latest
<1>4. Latest(cur[t]) \in Values BY <1>1, <1>3, VersionsTyped DEF StackInv, TypeOK
<1>5. Latest(cur[t]) = Cell(val'[t], new'[t]) BY <1>2, <1>3, <1>4 DEF StoreIsRoomy, Cell
<1>6. Installed(cur[t]) BY <1>1 DEF LinearInv, Knows
<1>7. Installed(cur[t])' /\ Latest(cur[t])' = Latest(cur[t]) BY <1>1, <1>6 DEF Installed, Latest
<1>8. ~ Pushing(t)' BY <1>1 DEF Pushing, Op
<1>9. Knows(t)' BY <1>1, <1>5, <1>7, <1>8 DEF Knows
<1> QED BY <1>1, <1>8, <1>9, StackStays

LEMMA LinearCompareHead ==
  ASSUME StoreIsRoomy, StackInv, LinearInv, level = "linear", NEW t \in Threads, CompareHead(t)
  PROVE  LinearInv'
<1>1. /\ StackInv' /\ Only(t) /\ UNCHANGED <<versions, level>>
      /\ pc[t] = "compare" /\ done' = done /\ popped' = popped
      /\ cur' = cur /\ new' = new /\ val' = val
      /\ \E i \in Visible(t, HeadKey) :
           \/ pc'[t] = "swing" /\ versions[HeadKey][i].next = cur[t]
           \/ pc'[t] \in {"readHead", "popHead"}
  BY CompareHeadStep
<1>2. \/ pc'[t] = "swing" /\ Top = cur[t]
      \/ pc'[t] \in {"readHead", "popHead"}
  BY <1>1, KeysTyped, VisibleIsTop
<1>3. Pushing(t)' <=> Pushing(t) BY <1>1, <1>2 DEF Pushing, Op
<1>4. Knows(t) BY DEF LinearInv
<1>5. /\ Installed(new[t])' <=> Installed(new[t])
      /\ Installed(cur[t])' <=> Installed(cur[t])
  BY <1>1 DEF Installed
<1>6. Latest(new[t])' = Latest(new[t]) /\ Latest(cur[t])' = Latest(cur[t]) /\ Top' = Top
  BY <1>1 DEF Latest, Top
<1>7. Knows(t)' BY <1>1, <1>2, <1>3, <1>4, <1>5, <1>6 DEF Knows
<1> QED BY <1>1, <1>3, <1>7, StackStays

\* The value that a push under way brings differs from those of the operations
\* that are over.
LEMMA FreshValue ==
  ASSUME StackInv, NEW t \in Threads, done[t] < Len(Program[t])
  PROVE  ~ Settled(t * 10 + done[t] + 1) /\ t * 10 + done[t] + 1 # EMPTY
<1>1. done[t] \in Nat /\ done[t] + 1 <= 9 /\ t \in 1 .. 9
  <2>1. done[t] \in Nat /\ Len(Program[t]) \in Nat /\ Len(Program[t]) <= 9 BY ThreadFacts
  <2>2. done[t] + 1 <= 9 BY <2>1
  <2> QED BY <2>1, <2>2, KeysTyped
<1>2. ASSUME NEW u \in Threads, NEW i \in 1 .. done[u], t * 10 + done[t] + 1 = u * 10 + i
      PROVE  FALSE
  <2>1. done[u] \in Nat /\ done[u] <= 9 /\ u \in 1 .. 9
    <3>1. PICK n : n = Len(Program[u]) OBVIOUS
    <3>2. n \in Nat /\ n <= 9 BY <3>1, ThreadFacts
    <3>3. done[u] \in 0 .. n BY <3>1 DEF StackInv, TypeOK
    <3>4. u \in Nat /\ 1 <= u /\ u <= 9 BY KeysTyped
    <3> QED BY <3>2, <3>3, <3>4
  <2>2. i \in 1 .. 9 BY <2>1
  <2>3. u = t BY <1>1, <1>2, <2>1, <2>2
  <2> QED BY <1>1, <1>2, <2>1, <2>2, <2>3
<1> QED BY <1>1, <1>2 DEF Settled, EMPTY
-----------------------------------------------------------------------------
LEMMA LinearSwingHead ==
  ASSUME StoreIsRoomy, StackInv, LinearInv, NEW t \in Threads, SwingHead(t)
  PROVE  LinearInv'
<1>1. /\ StackInv' /\ Only(t)
      /\ pc[t] = "swing" /\ pc'[t] = "idle" /\ done'[t] = done[t] + 1
      /\ done[t] < Len(Program[t])
      /\ \A m \in Keys \ {HeadKey} : versions'[m] = versions[m]
      /\ Latest(HeadKey)' = Cell(NoVal, new[t]) /\ new[t] \in Keys \cup {NoNode}
      /\ \A j \in DOMAIN versions'[HeadKey] :
           \/ versions'[HeadKey][j] = Cell(NoVal, new[t])
           \/ j \in DOMAIN versions[HeadKey] /\ versions'[HeadKey][j] = versions[HeadKey][j]
      /\ \/ Op(t) = "push" /\ popped' = popped
         \/ Op(t) = "pop" /\ popped' = [popped EXCEPT ![t] = Append(@, val[t])]
  BY SwingHeadStep
<1>2. PICK A \in SUBSET (PresentKeys \ {HeadKey}) : OnStack(A) BY DEF LinearInv
<1>3. Knows(t) /\ Top = cur[t] BY <1>1 DEF LinearInv, Knows
<1>4. PICK c, n, v : c = cur[t] /\ n = new[t] /\ v = val[t] OBVIOUS
<1>5. Top' = n
  <2>1. PICK h : h = Cell(NoVal, n) OBVIOUS
  <2>2. Latest(HeadKey)' = h /\ h.next = n BY <1>1, <1>4, <2>1 DEF Cell
  <2> QED BY <2>2 DEF Top
<1>6. \A x : Installed(x)' => Installed(x) \/ x = n
  <2>1. Cell(NoVal, n).next = n BY DEF Cell
  <2> QED BY <1>1, <1>4, <2>1 DEF Installed
<1>7. \A x : Installed(x) => Installed(x)'
  <2>1. /\ DOMAIN versions[HeadKey] \subseteq DOMAIN versions'[HeadKey]
        /\ \A j \in DOMAIN versions[HeadKey] : versions'[HeadKey][j] = versions[HeadKey][j]
    <3>1. Put(t, HeadKey, Cell(NoVal, new[t])) /\ t \in Sessions /\ StoreSound
      BY KeysTyped DEF SwingHead, StackInv, StoreOK
    <3>2. Cell(NoVal, new[t]) \in Values BY <1>1, CellTyped
    <3>3. VersionsKept BY <3>1, <3>2, KeysTyped, PutEffect
    <3> QED BY <3>3, KeysTyped DEF VersionsKept
  <2> QED BY <2>1 DEF Installed
<1>8. /\ A \subseteq PresentKeys' \ {HeadKey}
      /\ \A m \in Keys \ {HeadKey} : Latest(m)' = Latest(m) /\ Below(m)' = Below(m) /\ Val(m)' = Val(m)
      /\ \A m \in PresentKeys \ {HeadKey} : m \in PresentKeys'
  BY <1>1, <1>2 DEF PresentKeys, Present, Latest, Below, Val
<1>9. A \subseteq Keys \ {HeadKey} BY <1>2 DEF PresentKeys
\* What the operation that ends does to the set of nodes.
<1>10. \E B \in SUBSET (PresentKeys' \ {HeadKey}) :
         /\ n = NoNode \/ n \in B
         /\ \A x \in B : (Below(x) = NoNode \/ Below(x) \in B) /\ Below(x) # n
         /\ \A x, y \in B : x # y => Below(x) # Below(y) /\ Val(x) # Val(y)
         /\ \A x \in B : x \in A \/ (Pushing(t) /\ x = n /\ Val(x) = t * 10 + done[t] + 1)
         /\ Pushing(t) \/ (Val(c) = v /\ c \in A \ B)
         /\ n \in A \/ n = NoNode \/ Pushing(t)
  <2>1. CASE Pushing(t)
    <3>1. /\ Latest(n) = Cell(v, c) /\ v = t * 10 + done[t] + 1 /\ n \in Keys \ {HeadKey}
      BY <1>1, <1>3, <1>4, <2>1, ThreadFacts DEF Knows
    <3>2. Below(n) = Top /\ Val(n) = t * 10 + done[t] + 1 BY <1>3, <1>4, <3>1 DEF Below, Val, Cell
    <3>3. n \notin A BY <1>2, <1>4, <2>1 DEF OnStack
    <3>4. n \in PresentKeys' \ {HeadKey} /\ n # Top
      <4>1. Drawn(t) BY <2>1 DEF StackInv, ThreadOK
      <4>2. n \in PresentKeys BY <1>1, <1>4, <4>1 DEF Drawn
      <4>3. n # NoNode BY <3>1, KeysTyped
      <4> QED BY <1>2, <1>8, <3>1, <3>3, <4>2, <4>3 DEF OnStack
    <3>5. \A x \in A : Val(x) # Val(n)
      <4>1. \A x \in A : Settled(Val(x)) BY <1>2 DEF OnStack
      <4> QED BY <1>1, <3>2, <4>1, FreshValue
    <3> DEFINE B == A \cup {n}
    <3>6. B \in SUBSET (PresentKeys' \ {HeadKey}) BY <1>8, <3>4
    <3>7. \A x \in B : (Below(x) = NoNode \/ Below(x) \in B) /\ Below(x) # n
      <4>1. n # NoNode BY <3>1, KeysTyped
      <4> QED BY <1>2, <3>2, <3>3, <3>4, <4>1 DEF OnStack
    <3>8. \A x, y \in B : x # y => Below(x) # Below(y) /\ Val(x) # Val(y)
      BY <1>2, <3>2, <3>5 DEF OnStack
    <3>9. \A x \in B : x \in A \/ (Pushing(t) /\ x = n /\ Val(x) = t * 10 + done[t] + 1)
      BY <2>1, <3>2
    <3> QED BY <2>1, <3>6, <3>7, <3>8, <3>9
  <2>2. CASE ~ Pushing(t)
    <3>1. Installed(c) /\ Latest(c) = Cell(v, n) BY <1>1, <1>3, <1>4, <2>2 DEF Knows
    <3>2. Below(c) = n /\ Val(c) = v /\ c # NoNode BY <3>1 DEF Below, Val, Cell, Installed
    <3>3. c \in A BY <1>2, <1>3, <1>4, <3>2 DEF OnStack
    <3> DEFINE B == A \ {c}
    <3>4. \A x \in A : Below(x) # c BY <1>2, <1>3, <1>4 DEF OnStack
    <3>5. n = NoNode \/ n \in B BY <1>2, <3>2, <3>3, <3>4 DEF OnStack
    <3>6. \A x \in B : (Below(x) = NoNode \/ Below(x) \in B) /\ Below(x) # n
      BY <1>2, <3>2, <3>3, <3>4 DEF OnStack
    <3>7. \A x, y \in B : x # y => Below(x) # Below(y) /\ Val(x) # Val(y)
      BY <1>2 DEF OnStack
    <3>8. B \in SUBSET (PresentKeys' \ {HeadKey}) BY <1>8
    <3> QED BY <2>2, <3>2, <3>3, <3>5, <3>6, <3>7, <3>8
  <2> QED BY <2>1, <2>2
<1>11. PICK B \in SUBSET (PresentKeys' \ {HeadKey}) :
         /\ n = NoNode \/ n \in B
         /\ \A x \in B : (Below(x) = NoNode \/ Below(x) \in B) /\ Below(x) # n
         /\ \A x, y \in B : x # y => Below(x) # Below(y) /\ Val(x) # Val(y)
         /\ \A x \in B : x \in A \/ (Pushing(t) /\ x = n /\ Val(x) = t * 10 + done[t] + 1)
         /\ Pushing(t) \/ (Val(c) = v /\ c \in A \ B)
         /\ n \in A \/ n = NoNode \/ Pushing(t)
  BY <1>10
<1>12. ASSUME NEW u \in Threads \ {t} PROVE Knows(u)'
  <2>1. Knows(u) BY DEF LinearInv
  <2>2. /\ pc'[u] = pc[u] /\ done'[u] = done[u] /\ cur'[u] = cur[u]
        /\ new'[u] = new[u] /\ val'[u] = val[u]
    BY <1>1 DEF Only
  <2>3. (Pushing(u)' <=> Pushing(u)) /\ Op(u)' = Op(u) BY <2>2 DEF Pushing, Op
  <2>4. pc[u] # "swing" BY <1>1 DEF StackInv, Mutex
  <2>5. Pushing(u) => new[u] \in Keys \ {HeadKey} BY ThreadFacts
  <2>6. Pushing(u) => new[u] # n
    <3>1. CASE Pushing(t) BY <1>4, <3>1, PushesApart
    <3>2. CASE ~ Pushing(t)
      <4>1. n \in A \/ n = NoNode BY <1>11, <3>2
      <4> QED BY <1>2, <2>5, <4>1, KeysTyped DEF OnStack
    <3> QED BY <3>1, <3>2
  <2>7. Pushing(u) /\ ~ Installed(new[u]) => ~ Installed(new[u])'
    <3>1. PICK x : x = new[u] OBVIOUS
    <3>2. Installed(x)' => Installed(x) \/ x = n BY <1>6
    <3> QED BY <2>2, <2>6, <3>1, <3>2 DEF Installed
  <2>8. Installed(cur[u]) => Installed(cur[u])'
    <3>1. PICK x : x = cur[u] OBVIOUS
    <3>2. Installed(x) => Installed(x)' BY <1>7
    <3> QED BY <2>2, <3>1, <3>2 DEF Installed
  <2>9. Pushing(u) => Latest(new[u])' = Latest(new[u]) BY <1>8, <2>2, <2>5 DEF Latest
  <2>10. Installed(cur[u]) => Latest(cur[u])' = Latest(cur[u])
    <3>1. Installed(cur[u]) => cur[u] \in Keys \ {HeadKey} BY InstalledPresent DEF PresentKeys
    <3> QED BY <1>8, <2>2, <3>1 DEF Latest
  <2> QED BY <2>1, <2>2, <2>3, <2>4, <2>7, <2>8, <2>9, <2>10 DEF Knows
<1>13. Knows(t)' BY <1>1 DEF Knows, Pushing
<1>14. \A x : Settled(x) => Settled(x)'
  <2>1. \A u \in Threads : done[u] \in Nat /\ done[u] <= done'[u] /\ done'[u] \in Nat
    BY <1>1, ThreadFacts DEF Only
  <2> QED BY <2>1 DEF Settled
<1>15. \A x : x = t * 10 + done[t] + 1 => Settled(x)'
  <2>1. done[t] + 1 \in 1 .. done'[t] BY <1>1, ThreadFacts
  <2>2. PICK i : i = done[t] + 1 OBVIOUS
  <2>3. t * 10 + done[t] + 1 = t * 10 + i BY <2>2, KeysTyped, ThreadFacts
  <2> QED BY <2>1, <2>2, <2>3 DEF Settled
<1>16. ASSUME NEW u \in Threads, NEW j \in DOMAIN popped'[u]
       PROVE  \/ j \in DOMAIN popped[u] /\ popped'[u][j] = popped[u][j]
              \/ /\ u = t /\ j = Len(popped[t]) + 1 /\ popped'[u][j] = v
                 /\ Val(c) = v /\ c \in A \ B
  <2>1. popped \in [Threads -> Seq(Nat)] BY TypedIff DEF StackInv, StackTyped
  <2>2. CASE popped' = popped BY <2>2, <1>16
  <2>3. CASE Op(t) = "pop" /\ popped' = [popped EXCEPT ![t] = Append(@, val[t])]
    <3>1. Val(c) = v /\ c \in A \ B BY <1>11, <2>3 DEF Pushing
    <3>2. CASE u # t BY <1>16, <2>1, <2>3, <3>2
    <3>3. CASE u = t
      <4>1. popped'[u] = Append(popped[t], v) /\ popped[t] \in Seq(Nat)
        BY <1>4, <2>1, <2>3, <3>3
      <4> QED BY <1>16, <3>1, <3>3, <4>1
    <3> QED BY <3>2, <3>3
  <2> QED BY <1>1, <2>2, <2>3
<1>17. PoppedSettled'
  <2> SUFFICES ASSUME NEW u \in Threads, NEW j \in DOMAIN popped'[u]
               PROVE  popped'[u][j] = EMPTY \/ \E x : x = popped'[u][j] /\ Settled(x)'
    BY DEF PoppedSettled, Settled
  <2>1. CASE j \in DOMAIN popped[u] /\ popped'[u][j] = popped[u][j]
    BY <1>14, <2>1 DEF LinearInv, PoppedSettled
  <2>2. CASE popped'[u][j] = v /\ Val(c) = v /\ c \in A \ B
    <3>1. Settled(v) BY <1>2, <2>2 DEF OnStack
    <3> QED BY <1>14, <2>2, <3>1
  <2> QED BY <1>16, <2>1, <2>2
<1>18. ~ RepeatValue'
  <2> SUFFICES ASSUME NEW u \in Threads, NEW w \in Threads,
                      NEW i \in DOMAIN popped'[u], NEW j \in DOMAIN popped'[w],
                      <<u, i>> # <<w, j>>, popped'[u][i] = popped'[w][j], popped'[u][i] # EMPTY
               PROVE  FALSE
    BY DEF RepeatValue
  <2>1. CASE /\ i \in DOMAIN popped[u] /\ popped'[u][i] = popped[u][i]
             /\ j \in DOMAIN popped[w] /\ popped'[w][j] = popped[w][j]
    <3>1. popped[u][i] = popped[w][j] /\ popped[u][i] # EMPTY BY <2>1
    <3>2. RepeatValue BY <2>1, <3>1 DEF RepeatValue
    <3> QED BY <3>2 DEF LinearInv
  <2>2. CASE /\ i \in DOMAIN popped[u] /\ popped'[u][i] = popped[u][i]
             /\ popped'[w][j] = v /\ Val(c) = v /\ c \in A
    BY <1>2, <2>2 DEF OnStack
  <2>3. CASE /\ j \in DOMAIN popped[w] /\ popped'[w][j] = popped[w][j]
             /\ popped'[u][i] = v /\ Val(c) = v /\ c \in A
    BY <1>2, <2>3 DEF OnStack
  <2>4. CASE u = t /\ w = t /\ i = Len(popped[t]) + 1 /\ j = Len(popped[t]) + 1
    BY <2>4
  <2> QED BY <1>16, <2>1, <2>2, <2>3, <2>4
<1>19. OnStack(B)'
  <2>1. \A x \in B : x \in Keys \ {HeadKey} BY <1>4, <1>9, <1>11, ThreadFacts
  <2>2. \A x \in B : Below(x)' = Below(x) /\ Val(x)' = Val(x) BY <1>8, <2>1
  <2>3. ASSUME NEW x \in B PROVE Settled(Val(x))'
    <3>1. PICK y : y = Val(x) OBVIOUS
    <3>2. Settled(y)'
      <4>1. CASE x \in A
        <5>1. Settled(y) BY <1>2, <3>1, <4>1 DEF OnStack
        <5> QED BY <1>14, <5>1
      <4>2. CASE Val(x) = t * 10 + done[t] + 1 BY <1>15, <3>1, <4>2
      <4> QED BY <1>11, <4>1, <4>2
    <3> QED BY <2>2, <3>1, <3>2 DEF Settled
  <2>4. ASSUME NEW x \in B, NEW u \in Threads, NEW j \in DOMAIN popped'[u]
        PROVE  popped'[u][j] # Val(x)
    <3>1. CASE x \in A
      <4>1. CASE j \in DOMAIN popped[u] /\ popped'[u][j] = popped[u][j]
        BY <1>2, <3>1, <4>1 DEF OnStack
      <4>2. CASE popped'[u][j] = v /\ Val(c) = v /\ c \in A \ B
        BY <1>2, <2>4, <3>1, <4>2 DEF OnStack
      <4> QED BY <1>16, <2>4, <4>1, <4>2
    <3>2. CASE Pushing(t) /\ Val(x) = t * 10 + done[t] + 1
      <4>1. popped' = popped BY <1>1, <3>2 DEF Pushing
      <4>2. popped[u][j] = EMPTY \/ Settled(popped[u][j])
        BY <2>4, <4>1 DEF LinearInv, PoppedSettled
      <4>3. ~ Settled(Val(x)) /\ Val(x) # EMPTY BY <1>1, <3>2, FreshValue
      <4> QED BY <4>1, <4>2, <4>3
    <3> QED BY <1>11, <2>4, <3>1, <3>2
  <2>5. ASSUME NEW x \in B, NEW u \in Threads, Pushing(u)' PROVE new'[u] # x
    <3>1. u # t BY <1>1, <2>5 DEF Pushing
    <3>2. Pushing(u) /\ new'[u] = new[u] BY <1>1, <2>5, <3>1 DEF Only, Pushing, Op
    <3>3. CASE x \in A BY <1>2, <3>2, <3>3 DEF OnStack
    <3>4. CASE Pushing(t) /\ x = n BY <1>4, <3>1, <3>2, <3>4, PushesApart
    <3> QED BY <1>11, <2>5, <3>3, <3>4
  <2> QED BY <1>5, <1>11, <2>2, <2>3, <2>4, <2>5 DEF OnStack
<1> QED BY <1>11, <1>12, <1>13, <1>17, <1>18, <1>19 DEF LinearInv
-----------------------------------------------------------------------------
LEMMA LinearInit ==
  ASSUME StoreIsRoomy, Init
  PROVE  LinearStackInv
<1>1. StackInv BY StackInit
<1>2. /\ pc = [t \in Threads |-> "idle"] /\ popped = [t \in Threads |-> <<>>]
      /\ versions = [k \in Keys |-> IF k = HeadKey THEN <<Cell(NoVal, NoNode)>> ELSE <<>>]
  BY DEF Init
<1>3. \A t \in Threads : Knows(t) BY <1>2 DEF Knows, Pushing
<1>4. PoppedSettled /\ ~ RepeatValue BY <1>2 DEF PoppedSettled, RepeatValue
<1>5. Top = NoNode
  <2>1. PICK c : c = Cell(NoVal, NoNode) OBVIOUS
  <2>2. versions[HeadKey] = <<c>> BY <1>2, <2>1, KeysTyped
  <2>3. Latest(HeadKey) = c /\ c.next = NoNode BY <2>1, <2>2 DEF Latest, Cell
  <2> QED BY <2>3 DEF Top
<1>6. OnStack({}) BY <1>5 DEF OnStack
<1> QED BY <1>1, <1>3, <1>4, <1>6 DEF LinearStackInv, LinearInv

LEMMA LinearNext ==
  ASSUME StoreIsRoomy, LinearStackInv, [Next]_vars
  PROVE  LinearStackInv'
<1>1. StackInv /\ StackInv' BY StackNext DEF LinearStackInv
<1> SUFFICES ASSUME level' = "linear" PROVE LinearInv'
  BY <1>1 DEF LinearStackInv
<1>2. CASE UNCHANGED vars
  <2>1. /\ UNCHANGED storeVars /\ mtx' = mtx /\ pc' = pc /\ done' = done /\ cur' = cur
        /\ new' = new /\ val' = val /\ popped' = popped
    BY <1>2 DEF vars, stackVars
  <2>2. versions' = versions /\ level = "linear" BY <2>1 DEF storeVars
  <2>3. LinearInv BY <2>2 DEF LinearStackInv
  <2>4. PresentKeys' = PresentKeys BY <2>2 DEF PresentKeys, Present
  <2>5. ASSUME NEW A, OnStack(A) PROVE OnStack(A)'
    BY <2>1, <2>2, <2>5 DEF OnStack, Top, Below, Val, Latest, Settled, Pushing, Op
  <2>6. ASSUME NEW t \in Threads PROVE Knows(t)'
    <3>1. Knows(t) BY <2>3 DEF LinearInv
    <3> QED BY <2>1, <2>2, <3>1 DEF Knows, Top, Latest, Installed, Pushing, Op
  <2>7. PoppedSettled' /\ ~ RepeatValue'
    BY <2>1, <2>3 DEF LinearInv, PoppedSettled, RepeatValue, Settled
  <2> QED BY <2>3, <2>4, <2>5, <2>6, <2>7 DEF LinearInv
<1>3. ASSUME NEW t \in Threads, Step(t) PROVE LinearInv'
  <2>0. level = "linear" /\ LinearInv
    <3>1. level' = level
      BY <1>1, <1>3, StartPushStep, InsertStep, PushReadHeadStep, LinkStep, PopReadHeadStep,
         PopReadNodeStep, CompareHeadStep, SwingHeadStep DEF Step, storeVars
    <3> QED BY <3>1 DEF LinearStackInv
  <2>1. CASE StartPush(t) BY <1>1, <2>0, <2>1, LinearStartPush
  <2>2. CASE Insert(t) BY <1>1, <2>0, <2>2, LinearInsert
  <2>3. CASE PushReadHead(t) BY <1>1, <2>0, <2>3, LinearPushReadHead
  <2>4. CASE Link(t) BY <1>1, <2>0, <2>4, LinearLink
  <2>5. CASE PopReadHead(t) BY <1>1, <2>0, <2>5, LinearPopReadHead
  <2>6. CASE PopReadNode(t) BY <1>1, <2>0, <2>6, LinearPopReadNode
  <2>7. CASE CompareHead(t) BY <1>1, <2>0, <2>7, LinearCompareHead
  <2>8. CASE SwingHead(t) BY <1>1, <2>0, <2>8, LinearSwingHead
  <2> QED BY <1>3, <2>1, <2>2, <2>3, <2>4, <2>5, <2>6, <2>7, <2>8 DEF Step
<1> QED BY <1>2, <1>3 DEF Next

\* On a linearizable store no value that was pushed is ever popped twice, by any
\* number of threads and in any interleaving of their calls on the store: the
\* violation that run_stack counts (run_stack.cpp:31-45) shows a weaker store.
THEOREM NothingPoppedTwice == ASSUME StoreIsRoomy PROVE Spec => []NoRepeatedPop
<1>1. Init => LinearStackInv BY LinearInit
<1>2. LinearStackInv /\ [Next]_vars => LinearStackInv' BY LinearNext
<1>3. LinearStackInv => NoRepeatedPop BY DEF LinearStackInv, LinearInv, NoRepeatedPop
<1> QED BY <1>1, <1>2, <1>3, PTL DEF Spec
-----------------------------------------------------------------------------
\* The stack implements LifoStack.  What the refinement mapping shows of the state
\* is one sequence: it exists, there is no other, and it has no cycle.
LinksExist == \E q \in Seq(Nodes) : IsChain(q)

LifoInv == LinearStackInv /\ (level = "linear" => LinksExist)

\* A set of numbers that has an element has a smallest one: the set of those at
\* or below a is smallest for the smallest a.
LEMMA LeastExists ==
  ASSUME NEW n \in Nat, NEW S \in SUBSET (0 .. n), S # {}
  PROVE  \E a \in S : \A b \in S : a <= b
<1> DEFINE UpTo(a) == {b \in S : b <= a}
           T == {U \in SUBSET S : \E a \in S : U = UpTo(a)}
<1>1. IsFiniteSet(S)
  <2>1. IsFiniteSet(0 .. n) BY FS_Interval
  <2> QED BY <2>1, FS_Subset
<1>2. FiniteSubsetsOf(S) = SUBSET S BY <1>1, FS_FiniteSubsetsOfFinite
<1>3. T \subseteq FiniteSubsetsOf(S) BY <1>2
<1>4. T # {}
  <2>1. PICK a \in S : TRUE OBVIOUS
  <2>2. UpTo(a) \in T OBVIOUS
  <2> QED BY <2>2
<1> HIDE DEF T
<1>5. PICK U \in T : \A V \in T : ~ (<<V, U>> \in StrictSubsetOrdering(S))
  BY <1>3, <1>4, FS_StrictSubsetOrderingWellFounded, WFMin
<1>6. PICK a \in S : U = UpTo(a) BY DEF T
<1>7. ASSUME NEW b \in S, ~ (a <= b) PROVE FALSE
  <2>1. UpTo(b) \subseteq UpTo(a) /\ a \in UpTo(a) /\ a \notin UpTo(b)
    <3>1. a \in Nat /\ b \in Nat /\ b < a /\ \A c \in S : c \in Nat BY <1>7
    <3>2. a \notin UpTo(b) BY <3>1
    <3>3. a \in UpTo(a) BY <3>1
    <3>4. \A c \in S : c <= b => c <= a BY <3>1
    <3> QED BY <3>2, <3>3, <3>4
  <2>2. UpTo(b) \in T BY DEF T
  <2>3. <<UpTo(b), UpTo(a)>> \in StrictSubsetOrdering(S)
    <3>1. UpTo(b) \in SUBSET S /\ UpTo(a) \in SUBSET S OBVIOUS
    <3> HIDE DEF UpTo
    <3> QED BY <2>1, <3>1 DEF StrictSubsetOrdering
  <2> QED BY <1>5, <1>6, <2>2, <2>3
<1> QED BY <1>7

LEMMA NodesTyped ==
  /\ Nodes = PresentKeys \ {HeadKey} /\ Nodes \subseteq Keys
  /\ HeadKey \notin Nodes /\ NoNode \notin Nodes
  BY KeysTyped DEF Nodes, PresentKeys

\* q lists nodes.
Lists(q) == Len(q) \in Nat /\ DOMAIN q = 1 .. Len(q) /\ \A i \in 1 .. Len(q) : q[i] \in Nodes

\* What IsChain says at the head and at a node.
LEMMA ChainLinks ==
  ASSUME NEW q \in Seq(Nodes)
  PROVE  /\ Lists(q)
         /\ IsChain(q) <=>
              /\ Top = IF Len(q) = 0 THEN NoNode ELSE q[1]
              /\ \A i \in 1 .. Len(q) : Below(q[i]) = IF i = Len(q) THEN NoNode ELSE q[i + 1]
<1>1. Len(q) \in Nat /\ DOMAIN q = 1 .. Len(q) /\ Lists(q) BY DEF Lists
<1>2. NodeAt(q, 0) = HeadKey /\ NodeAt(q, 1) = IF Len(q) = 0 THEN NoNode ELSE q[1]
  <2>1. 1 \in DOMAIN q <=> Len(q) # 0 BY <1>1
  <2> QED BY <2>1 DEF NodeAt
<1>3. ASSUME NEW i \in 1 .. Len(q)
      PROVE  NodeAt(q, i) = q[i] /\ NodeAt(q, i + 1) = IF i = Len(q) THEN NoNode ELSE q[i + 1]
  <2>1. PICK m \in Nat : m = Len(q) BY <1>1
  <2>2. i \in 1 .. m /\ i # 0 /\ i + 1 # 0 /\ (i + 1 \in 1 .. m <=> i # m) BY <2>1
  <2> QED BY <1>1, <2>1, <2>2 DEF NodeAt
<1>4. \A i : i \in 0 .. Len(q) <=> i = 0 \/ i \in 1 .. Len(q) BY <1>1
<1>5. IsChain(q) <=> /\ Latest(NodeAt(q, 0)).next = NodeAt(q, 1)
                     /\ \A i \in 1 .. Len(q) : Latest(NodeAt(q, i)).next = NodeAt(q, i + 1)
  BY <1>4 DEF IsChain
<1> QED BY <1>1, <1>2, <1>3, <1>5 DEF Top, Below

\* A place of a list that is not the first comes after another.
LEMMA PlaceBefore ==
  ASSUME NEW n \in Nat, NEW i \in 1 .. n, i # 1
  PROVE  i - 1 \in 1 .. n /\ i - 1 # n /\ i - 1 + 1 = i /\ ~ (i <= i - 1)
  OBVIOUS

\* Two ways down the stack are the same: they start at the same node, and at the
\* first place where they differed they would come from the same node.
LEMMA ChainsAgree ==
  ASSUME NEW q \in Seq(Nodes), NEW r \in Seq(Nodes), IsChain(q), IsChain(r)
  PROVE  /\ \A i \in 1 .. Len(q) : i <= Len(r) => q[i] = r[i]
         /\ ~ (Len(q) < Len(r))
<1>1. Lists(q) /\ Lists(r) BY ChainLinks
<1>2. Top = (IF Len(q) = 0 THEN NoNode ELSE q[1]) /\ Top = (IF Len(r) = 0 THEN NoNode ELSE r[1])
  BY ChainLinks
<1>3. \A i \in 1 .. Len(q) : Below(q[i]) = IF i = Len(q) THEN NoNode ELSE q[i + 1] BY ChainLinks
<1>4. \A i \in 1 .. Len(r) : Below(r[i]) = IF i = Len(r) THEN NoNode ELSE r[i + 1] BY ChainLinks
<1>5. PICK m \in Nat, n \in Nat : m = Len(q) /\ n = Len(r) BY <1>1 DEF Lists
<1>6. \A i \in 1 .. m : i <= n => q[i] = r[i]
  <2> DEFINE S == {i \in 1 .. m : i <= n /\ q[i] # r[i]}
  <2> SUFFICES ASSUME S # {} PROVE FALSE
    OBVIOUS
  <2>1. S \in SUBSET (0 .. m) BY <1>5
  <2>2. PICK a \in S : \A b \in S : a <= b BY <1>5, <2>1, LeastExists
  <2>3. a \in 1 .. m /\ a \in 1 .. n /\ q[a] # r[a] BY <1>5, <2>2
  <2>4. CASE a = 1
    <3>1. m # 0 /\ n # 0 BY <1>5, <2>3
    <3> QED BY <1>2, <1>5, <2>3, <2>4, <3>1
  <2>5. CASE a # 1
    <3>1. a - 1 \in 1 .. m /\ a - 1 \in 1 .. n /\ a - 1 # m /\ a - 1 # n /\ a - 1 + 1 = a
          /\ ~ (a <= a - 1) /\ a - 1 <= n
      BY <1>5, <2>3, <2>5
    <3>2. a - 1 \notin S BY <2>2, <3>1
    <3>3. q[a - 1] = r[a - 1] BY <3>1, <3>2
    <3>4. Below(q[a - 1]) = q[a] BY <1>3, <1>5, <3>1
    <3>5. Below(r[a - 1]) = r[a] BY <1>4, <1>5, <3>1
    <3> QED BY <2>3, <3>3, <3>4, <3>5
  <2> QED BY <2>4, <2>5
<1>7. ASSUME m < n PROVE FALSE
  <2>1. m + 1 \in 1 .. n BY <1>5, <1>7
  <2>2. r[m + 1] # NoNode
    <3>1. r[m + 1] \in Nodes BY <1>1, <1>5, <2>1 DEF Lists
    <3> QED BY <3>1, NodesTyped
  <2>3. CASE m = 0
    <3>1. m + 1 = 1 /\ n # 0 BY <1>5, <1>7, <2>3
    <3> QED BY <1>2, <1>5, <2>2, <2>3, <3>1
  <2>4. CASE m # 0
    <3>1. m \in 1 .. m /\ m \in 1 .. n /\ m # n /\ m <= n BY <1>5, <1>7, <2>4
    <3>2. q[m] = r[m] BY <1>6, <3>1
    <3>3. Below(q[m]) = NoNode BY <1>3, <1>5, <3>1
    <3>4. Below(r[m]) = r[m + 1] BY <1>4, <1>5, <3>1
    <3> QED BY <2>2, <3>2, <3>3, <3>4
  <2> QED BY <2>3, <2>4
<1> QED BY <1>5, <1>6, <1>7

LEMMA ChainUnique ==
  ASSUME NEW q \in Seq(Nodes), NEW r \in Seq(Nodes), IsChain(q), IsChain(r)
  PROVE  q = r
<1>1. Lists(q) /\ Lists(r) BY ChainLinks
<1>2. \A i \in 1 .. Len(q) : i <= Len(r) => q[i] = r[i] BY ChainsAgree
<1>3. ~ (Len(q) < Len(r)) /\ ~ (Len(r) < Len(q)) BY ChainsAgree
<1>4. Len(q) = Len(r)
  <2>1. PICK m \in Nat, n \in Nat : m = Len(q) /\ n = Len(r) BY <1>1 DEF Lists
  <2> QED BY <1>3, <2>1
<1>5. \A i \in 1 .. Len(q) : q[i] = r[i] BY <1>1, <1>2, <1>4 DEF Lists
<1> QED BY <1>1, <1>4, <1>5 DEF Lists

\* Every node on the way down is one that no pop has taken and no push is about to
\* write.
LEMMA ChainOnStack ==
  ASSUME NEW q \in Seq(Nodes), IsChain(q), NEW A, OnStack(A)
  PROVE  \A i \in 1 .. Len(q) : q[i] \in A
<1>1. PICK m \in Nat : m = Len(q) BY ChainLinks DEF Lists
<1>2. \A i \in 1 .. m : q[i] # NoNode BY <1>1, ChainLinks, NodesTyped DEF Lists
<1>3. m # 0 => Top = q[1] BY <1>1, ChainLinks
<1>4. \A i \in 1 .. m : Below(q[i]) = IF i = m THEN NoNode ELSE q[i + 1] BY <1>1, ChainLinks
<1> DEFINE S == {i \in 1 .. m : q[i] \notin A}
<1> SUFFICES ASSUME S # {} PROVE FALSE
  BY <1>1
<1>5. S \in SUBSET (0 .. m) BY <1>1
<1>6. PICK a \in S : \A b \in S : a <= b BY <1>1, <1>5, LeastExists
<1>7. a \in 1 .. m /\ q[a] \notin A /\ q[a] # NoNode BY <1>2, <1>6
<1>8. CASE a = 1
  <2>1. m # 0 BY <1>1, <1>7
  <2> QED BY <1>3, <1>7, <1>8, <2>1 DEF OnStack
<1>9. CASE a # 1
  <2>1. a - 1 \in 1 .. m /\ a - 1 # m /\ a - 1 + 1 = a /\ ~ (a <= a - 1)
    BY <1>1, <1>7, <1>9, PlaceBefore
  <2>2. a - 1 \notin S BY <1>6, <2>1
  <2>3. q[a - 1] \in A /\ Below(q[a - 1]) = q[a] BY <1>4, <2>1, <2>2
  <2> QED BY <1>7, <2>3 DEF OnStack
<1> QED BY <1>8, <1>9

\* The way down meets no node twice: at the first one it met again, either the top
\* would be below a node, or a node below two.
LEMMA ChainAcyclic ==
  ASSUME NEW q \in Seq(Nodes), IsChain(q), NEW A, OnStack(A),
         NEW i \in 1 .. Len(q), NEW j \in 1 .. Len(q), i < j
  PROVE  q[i] # q[j]
<1>1. PICK m \in Nat : m = Len(q) BY ChainLinks DEF Lists
<1>2. \A k \in 1 .. m : q[k] \in A BY <1>1, ChainOnStack
<1>3. m # 0 => Top = q[1] BY <1>1, ChainLinks
<1>4. \A k \in 1 .. m : Below(q[k]) = IF k = m THEN NoNode ELSE q[k + 1] BY <1>1, ChainLinks
<1> DEFINE S == {k \in 1 .. m : \E l \in 1 .. m : k < l /\ q[k] = q[l]}
<1> SUFFICES ASSUME S # {} PROVE FALSE
  BY <1>1
<1>5. S \in SUBSET (0 .. m) BY <1>1
<1>6. PICK a \in S : \A b \in S : a <= b BY <1>1, <1>5, LeastExists
<1>7. PICK c \in 1 .. m : a < c /\ q[a] = q[c] BY <1>6
<1>8. a \in 1 .. m BY <1>6
<1>9. c - 1 \in 1 .. m /\ c - 1 # m /\ c - 1 + 1 = c
  <2>1. c # 1 BY <1>7, <1>8
  <2> QED BY <1>1, <1>7, <2>1, PlaceBefore
<1>10. Below(q[c - 1]) = q[c] /\ q[c - 1] \in A BY <1>2, <1>4, <1>9
<1>11. CASE a = 1
  <2>1. m # 0 BY <1>1, <1>8
  <2> QED BY <1>3, <1>7, <1>10, <1>11, <2>1 DEF OnStack
<1>12. CASE a # 1
  <2>1. a - 1 \in 1 .. m /\ a - 1 # m /\ a - 1 + 1 = a /\ ~ (a <= a - 1)
    BY <1>1, <1>8, <1>12, PlaceBefore
  <2>2. Below(q[a - 1]) = q[a] /\ q[a - 1] \in A BY <1>2, <1>4, <2>1
  <2>3. q[a - 1] = q[c - 1] BY <1>7, <1>10, <2>2 DEF OnStack
  <2>4. a - 1 < c - 1 BY <1>7, <1>8
  <2>5. a - 1 \in S BY <1>9, <2>1, <2>3, <2>4
  <2> QED BY <1>6, <2>1, <2>5
<1> QED BY <1>11, <1>12

\* So there are at most as many nodes on it as in the store, and Chain finds it.
LEMMA ChainIsUnique ==
  LinearStackInv /\ level = "linear" => \A q \in Seq(Nodes) : IsChain(q) => Chain = q
<1> SUFFICES ASSUME LinearStackInv, level = "linear", NEW q \in Seq(Nodes), IsChain(q)
             PROVE  Chain = q
  OBVIOUS
<1>1. PICK A : OnStack(A) BY DEF LinearStackInv, LinearInv
<1>2. PICK m \in Nat : m = Len(q) BY ChainLinks DEF Lists
<1>3. q \in [1 .. m -> Nodes] BY <1>2
<1>4. IsFiniteSet(Nodes)
  <2>1. IsFiniteSet(PresentKeys) BY DEF LinearStackInv, StackInv, StoreOK
  <2>2. Nodes \subseteq PresentKeys BY NodesTyped
  <2> QED BY <2>1, <2>2, FS_Subset
<1>5. m <= Cardinality(Nodes) /\ Cardinality(Nodes) \in Nat
  <2>1. Cardinality(Nodes) \in Nat BY <1>4, FS_CardinalityType
  <2>2. IsFiniteSet(1 .. m) /\ Cardinality(1 .. m) = m
    <3>1. \A a, b \in Int : Cardinality(a .. b) = (IF a > b THEN 0 ELSE b - a + 1) /\ IsFiniteSet(a .. b)
      BY FS_Interval
    <3>2. Cardinality(1 .. m) = (IF 1 > m THEN 0 ELSE m - 1 + 1) /\ IsFiniteSet(1 .. m) BY <3>1
    <3> QED BY <3>2
  <2>3. ASSUME Cardinality(Nodes) < m PROVE FALSE
    <3>1. PICK i \in 1 .. m, j \in 1 .. m : i # j /\ q[i] = q[j]
      BY <1>3, <1>4, <2>2, <2>3, FS_PigeonHole
    <3>2. i < j \/ j < i BY <3>1
    <3> QED BY <1>1, <1>2, <3>1, <3>2, ChainAcyclic
  <2> QED BY <2>1, <2>3
<1> DEFINE Lines == UNION {[1 .. n -> Nodes] : n \in 0 .. Cardinality(Nodes)}
<1>6. q \in Lines
  <2>1. m \in 0 .. Cardinality(Nodes) BY <1>5
  <2> QED BY <1>3, <2>1
<1>7. Chain \in Lines /\ IsChain(Chain)
  <2> HIDE DEF Lines
  <2>1. (CHOOSE r \in Lines : IsChain(r)) \in Lines /\ IsChain(CHOOSE r \in Lines : IsChain(r))
    BY <1>6
  <2>2. Chain = CHOOSE r \in Lines : IsChain(r) BY DEF Chain, Lines
  <2> QED BY <2>1, <2>2
<1>8. Chain \in Seq(Nodes)
  <2>1. PICK n \in 0 .. Cardinality(Nodes) : Chain \in [1 .. n -> Nodes] BY <1>7
  <2>2. n \in Nat BY <1>5
  <2> QED BY <2>1, <2>2
<1> QED BY <1>7, <1>8, ChainUnique

\* The values along q.
ValuesAlong(q) == [i \in 1 .. Len(q) |-> Val(q[i])]

\* What the lemmas above say of a state, in a form that can be said of the next one.
ChainsDescribed ==
  \A q \in Seq(Nodes) :
    /\ Lists(q)
    /\ IsChain(q) <=>
         /\ Top = IF Len(q) = 0 THEN NoNode ELSE q[1]
         /\ \A i \in 1 .. Len(q) : Below(q[i]) = IF i = Len(q) THEN NoNode ELSE q[i + 1]
    /\ LinearStackInv /\ level = "linear" /\ IsChain(q) => Contents = ValuesAlong(q)

LEMMA ChainsAreDescribed == ChainsDescribed
<1> SUFFICES ASSUME NEW q \in Seq(Nodes), LinearStackInv, level = "linear", IsChain(q)
             PROVE  Contents = ValuesAlong(q)
  BY ChainLinks DEF ChainsDescribed
<1>1. Chain = q BY ChainIsUnique
<1>2. DOMAIN q = 1 .. Len(q) BY ChainLinks DEF Lists
<1> QED BY <1>1, <1>2 DEF Contents, ValuesAlong, Val

\* A step that leaves the head alone and writes at most to the node of a push under
\* way, which is not on the stack, changes nothing that the stack shows.
LEMMA ChainStays ==
  ASSUME LifoInv, LinearStackInv', level = "linear", level' = "linear", NEW t \in Threads,
         \A m \in Keys : versions'[m] = versions[m] \/ (m = new[t] /\ Pushing(t))
  PROVE  LinksExist' /\ Contents' = Contents
<1>1. PICK q \in Seq(Nodes) : IsChain(q) BY DEF LifoInv, LinksExist
<1>2. LinearStackInv /\ StackInv BY DEF LifoInv, LinearStackInv
<1>3. PICK A \in SUBSET (PresentKeys \ {HeadKey}) : OnStack(A)
  BY <1>2 DEF LinearStackInv, LinearInv
<1>4. versions'[HeadKey] = versions[HeadKey] BY <1>2, KeysTyped, ThreadFacts
<1>5. \A n \in A : n \in Keys /\ versions'[n] = versions[n] BY <1>3 DEF OnStack, PresentKeys
<1>6. \A i \in 1 .. Len(q) : q[i] \in A BY <1>1, <1>3, ChainOnStack
<1>7. Top' = Top /\ \A i \in 1 .. Len(q) : Below(q[i])' = Below(q[i]) /\ Val(q[i])' = Val(q[i])
  BY <1>4, <1>5, <1>6 DEF Top, Below, Val, Latest
<1>8. Lists(q) /\ Contents = ValuesAlong(q) /\ IsChain(q)
  BY <1>1, <1>2, ChainsAreDescribed DEF ChainsDescribed
<1>9. q \in Seq(Nodes')
  <2>1. \A i \in 1 .. Len(q) : q[i] \in Nodes'
    BY <1>3, <1>5, <1>6 DEF Nodes, Present, PresentKeys
  <2> QED BY <1>8, <2>1 DEF Lists
<1>10. ChainsDescribed' BY ChainsAreDescribed, PTL
<1>11. IsChain(q)'
  <2>1. /\ Top = IF Len(q) = 0 THEN NoNode ELSE q[1]
        /\ \A i \in 1 .. Len(q) : Below(q[i]) = IF i = Len(q) THEN NoNode ELSE q[i + 1]
    BY <1>1, ChainsAreDescribed DEF ChainsDescribed
  <2> QED BY <1>7, <1>9, <1>10, <2>1 DEF ChainsDescribed
<1>12. ValuesAlong(q)' = ValuesAlong(q) BY <1>7 DEF ValuesAlong
<1>13. Contents' = ValuesAlong(q)' BY <1>9, <1>10, <1>11 DEF ChainsDescribed
<1> QED BY <1>8, <1>9, <1>11, <1>12, <1>13 DEF LinksExist

\* The step that swings the head: what a push puts on top, and what a pop takes.
LEMMA ChainSwings ==
  ASSUME StoreIsRoomy, LifoInv, LinearStackInv', level = "linear", level' = "linear",
         NEW t \in Threads, SwingHead(t)
  PROVE  /\ LinksExist'
         /\ \/ /\ Op(t) = "push" /\ popped' = popped
               /\ val[t] \in 1 .. 99 /\ Contents' = <<val[t]>> \o Contents
            \/ /\ Op(t) = "pop" /\ popped' = [popped EXCEPT ![t] = Append(@, val[t])]
               /\ Contents # <<>> /\ val[t] = Head(Contents) /\ Contents' = Tail(Contents)
<1>1. StackInv /\ LinearInv /\ LinksExist /\ LinearStackInv
  BY DEF LifoInv, LinearStackInv
<1>2. /\ pc[t] = "swing" /\ done[t] < Len(Program[t])
      /\ \A m \in Keys \ {HeadKey} : versions'[m] = versions[m]
      /\ Latest(HeadKey)' = Cell(NoVal, new[t]) /\ new[t] \in Keys \cup {NoNode}
      /\ \/ Op(t) = "push" /\ popped' = popped
         \/ Op(t) = "pop" /\ popped' = [popped EXCEPT ![t] = Append(@, val[t])]
  BY <1>1, SwingHeadStep
<1>3. PICK q \in Seq(Nodes) : IsChain(q) BY <1>1 DEF LinksExist
<1>4. /\ Lists(q) /\ Contents = ValuesAlong(q)
      /\ Top = IF Len(q) = 0 THEN NoNode ELSE q[1]
      /\ \A i \in 1 .. Len(q) : Below(q[i]) = IF i = Len(q) THEN NoNode ELSE q[i + 1]
  BY <1>1, <1>3, ChainsAreDescribed DEF ChainsDescribed
<1>5. PICK m \in Nat : m = Len(q) BY <1>4 DEF Lists
<1>6. Knows(t) /\ Top = cur[t] BY <1>1, <1>2 DEF LinearInv, Knows
<1>7. PICK c, n, v : c = cur[t] /\ n = new[t] /\ v = val[t] OBVIOUS
<1>8. Top' = n
  <2>1. PICK h : h = Cell(NoVal, n) OBVIOUS
  <2>2. Latest(HeadKey)' = h /\ h.next = n BY <1>2, <1>7, <2>1 DEF Cell
  <2> QED BY <2>2 DEF Top
<1>9. /\ Nodes' = Nodes
      /\ \A x \in Nodes : Below(x)' = Below(x) /\ Val(x)' = Val(x)
  BY <1>2 DEF Nodes, Present, Below, Val, Latest
<1>10. ChainsDescribed' BY ChainsAreDescribed, PTL
<1>11. \A i \in 1 .. m : q[i] \in Nodes BY <1>4, <1>5 DEF Lists
<1>12. CASE Op(t) = "push"
  <2>1. Pushing(t) BY <1>2, <1>12 DEF Pushing
  <2>2. /\ Latest(n) = Cell(v, c) /\ v = t * 10 + done[t] + 1 /\ n \in Keys \ {HeadKey}
    BY <1>1, <1>2, <1>6, <1>7, <2>1, ThreadFacts DEF Knows
  <2>3. Below(n) = c /\ Val(n) = v BY <2>2 DEF Below, Val, Cell
  <2>4. n \in Nodes
    <3>1. Drawn(t) BY <1>1, <2>1 DEF StackInv, ThreadOK
    <3>2. n \in PresentKeys BY <1>2, <1>7, <3>1 DEF Drawn
    <3> QED BY <2>2, <3>2, NodesTyped
  <2>5. PICK r : r = <<n>> \o q OBVIOUS
  <2>6. /\ r \in Seq(Nodes') /\ Len(r) = m + 1 /\ r[1] = n
        /\ \A i \in 1 .. m : r[i + 1] = q[i]
    BY <1>5, <1>9, <2>4, <2>5
  <2>7. \A i \in 1 .. m + 1 : Below(r[i])' = IF i = m + 1 THEN NoNode ELSE r[i + 1]
    <3> SUFFICES ASSUME NEW i \in 1 .. m + 1
                 PROVE  Below(r[i])' = IF i = m + 1 THEN NoNode ELSE r[i + 1]
      OBVIOUS
    <3>1. CASE i = 1
      <4>1. Below(r[i])' = Top BY <1>6, <1>7, <1>9, <2>3, <2>4, <2>6, <3>1
      <4>2. CASE m = 0 BY <1>4, <1>5, <3>1, <4>1, <4>2
      <4>3. CASE m # 0
        <5>1. 1 \in 1 .. m /\ i # m + 1 BY <3>1, <4>3
        <5> QED BY <1>4, <1>5, <2>6, <3>1, <4>1, <4>3, <5>1
      <4> QED BY <4>2, <4>3
    <3>2. CASE i # 1
      <4>1. PICK j \in 1 .. m : i = j + 1
        <5>1. i - 1 \in 1 .. m /\ i = i - 1 + 1 BY <3>2
        <5> QED BY <5>1
      <4>2. r[i] = q[j] /\ q[j] \in Nodes BY <1>11, <2>6, <4>1
      <4>3. Below(r[i])' = Below(q[j]) BY <1>9, <4>2
      <4>4. Below(q[j]) = IF j = m THEN NoNode ELSE q[j + 1] BY <1>4, <1>5
      <4>5. i = m + 1 <=> j = m BY <4>1
      <4>6. j # m => q[j + 1] = r[i + 1]
        <5>1. j # m => j + 1 \in 1 .. m BY <4>1
        <5> QED BY <2>6, <4>1, <5>1
      <4> QED BY <4>3, <4>4, <4>5, <4>6
    <3> QED BY <3>1, <3>2
  <2>8. IsChain(r)'
    <3>1. Top' = r[1] /\ Len(r) # 0 BY <1>8, <2>6
    <3> QED BY <1>10, <2>6, <2>7, <3>1 DEF ChainsDescribed
  <2>9. Contents' = ValuesAlong(r)' BY <1>10, <2>6, <2>8 DEF ChainsDescribed
  <2>10. ValuesAlong(r)' = <<v>> \o ValuesAlong(q)
    <3> DEFINE lhs == [i \in 1 .. m + 1 |-> Val(r[i])']
               rhs == <<v>> \o ValuesAlong(q)
    <3>1. ValuesAlong(r)' = lhs BY <2>6 DEF ValuesAlong
    <3>2. ValuesAlong(q) = [i \in 1 .. m |-> Val(q[i])] BY <1>5 DEF ValuesAlong
    <3>3. /\ DOMAIN rhs = 1 .. m + 1 /\ rhs = [i \in 1 .. m + 1 |-> rhs[i]]
          /\ rhs[1] = v /\ \A i \in 1 .. m : rhs[i + 1] = Val(q[i])
      <4>1. \A f : f = [i \in 1 .. m |-> Val(q[i])] =>
              /\ DOMAIN (<<v>> \o f) = 1 .. m + 1
              /\ <<v>> \o f = [i \in 1 .. m + 1 |-> (<<v>> \o f)[i]]
              /\ (<<v>> \o f)[1] = v
              /\ \A i \in 1 .. m : (<<v>> \o f)[i + 1] = f[i] /\ f[i] = Val(q[i])
        OBVIOUS
      <4> QED BY <3>2, <4>1
    <3>4. ASSUME NEW i \in 1 .. m + 1 PROVE lhs[i] = rhs[i]
      <4>1. CASE i = 1 BY <1>9, <2>3, <2>4, <2>6, <3>3, <4>1
      <4>2. CASE i # 1
        <5>1. PICK j \in 1 .. m : i = j + 1
          <6>1. i - 1 \in 1 .. m /\ i = i - 1 + 1 BY <4>2
          <6> QED BY <6>1
        <5>2. r[i] = q[j] /\ q[j] \in Nodes BY <1>11, <2>6, <5>1
        <5> QED BY <1>9, <3>3, <5>1, <5>2
      <4> QED BY <4>1, <4>2
    <3>5. lhs = [i \in 1 .. m + 1 |-> lhs[i]] OBVIOUS
    <3> HIDE DEF lhs, rhs
    <3>6. lhs = rhs BY <3>3, <3>4, <3>5
    <3> QED BY <3>1, <3>6 DEF rhs
  <2>11. v \in 1 .. 99
    <3>1. done[t] \in Nat /\ Len(Program[t]) \in Nat /\ Len(Program[t]) <= 9 BY <1>1, ThreadFacts
    <3>2. PICK d \in Nat : d = done[t] /\ d < 9 BY <1>2, <3>1
    <3>3. t \in Nat /\ 1 <= t /\ t <= 9 BY KeysTyped
    <3>4. v = t * 10 + d + 1 BY <2>2, <3>2
    <3>5. v \in Nat /\ 1 <= v /\ v <= 99 BY <3>2, <3>3, <3>4
    <3> QED BY <3>5
  <2> QED BY <1>2, <1>4, <1>7, <1>12, <2>6, <2>8, <2>9, <2>10, <2>11 DEF LinksExist
<1>13. CASE Op(t) = "pop"
  <2>1. Installed(c) /\ Latest(c) = Cell(v, n) BY <1>2, <1>6, <1>7, <1>13 DEF Knows, Pushing
  <2>2. Below(c) = n /\ Val(c) = v /\ c # NoNode BY <2>1 DEF Below, Val, Cell, Installed
  <2>3. m # 0 /\ q[1] = c /\ 1 \in 1 .. m BY <1>4, <1>5, <1>6, <1>7, <2>2
  <2>4. PICK r : r = Tail(q) OBVIOUS
  <2>5. PICK l \in Nat : m = l + 1
    <3>1. m - 1 \in Nat /\ m = m - 1 + 1 BY <2>3
    <3> QED BY <3>1
  <2>6. r \in Seq(Nodes') /\ Len(r) = l /\ \A i \in 1 .. l : r[i] = q[i + 1]
    <3>1. q # <<>> BY <1>5, <2>3
    <3>2. /\ Tail(q) \in Seq(Nodes) /\ Len(Tail(q)) = Len(q) - 1
          /\ \A i \in 1 .. Len(q) - 1 : Tail(q)[i] = q[i + 1]
      BY <3>1
    <3>3. Len(q) - 1 = l BY <1>5, <2>5
    <3> QED BY <1>9, <2>4, <3>2, <3>3
  <2>7. Top' = IF l = 0 THEN NoNode ELSE r[1]
    <3>1. n = IF 1 = m THEN NoNode ELSE q[1 + 1] BY <1>4, <1>5, <2>2, <2>3
    <3>2. l # 0 => 1 \in 1 .. l BY <2>5
    <3>3. 1 = m <=> l = 0 BY <2>5
    <3> QED BY <1>8, <2>6, <3>1, <3>2, <3>3
  <2>8. ASSUME NEW i \in 1 .. l
        PROVE  Below(r[i])' = IF i = l THEN NoNode ELSE r[i + 1]
    <3>1. i + 1 \in 1 .. m /\ (i + 1 = m <=> i = l) /\ (i # l => i + 1 \in 1 .. l) BY <2>5
    <3>2. Below(r[i])' = Below(q[i + 1]) BY <1>9, <1>11, <2>6, <3>1
    <3> QED BY <1>4, <1>5, <2>6, <3>1, <3>2
  <2>9. IsChain(r)' BY <1>10, <2>6, <2>7, <2>8 DEF ChainsDescribed
  <2>10. Contents' = ValuesAlong(r)' BY <1>10, <2>6, <2>9 DEF ChainsDescribed
  <2>11. ValuesAlong(q) = [i \in 1 .. m |-> Val(q[i])] BY <1>5 DEF ValuesAlong
  <2>12. ValuesAlong(r)' = [i \in 1 .. l |-> Val(q[i + 1])]
    <3>1. ValuesAlong(r)' = [i \in 1 .. l |-> Val(r[i])'] BY <2>6 DEF ValuesAlong
    <3>2. ASSUME NEW i \in 1 .. l PROVE Val(r[i])' = Val(q[i + 1])
      <4>1. i + 1 \in 1 .. m BY <2>5
      <4> QED BY <1>9, <1>11, <2>6, <4>1
    <3> QED BY <3>1, <3>2
  <2>13. /\ Contents # <<>> /\ Head(Contents) = v /\ Contents' = Tail(Contents)
    <3>1. \A f : f = [i \in 1 .. m |-> Val(q[i])] =>
            f # <<>> /\ Head(f) = Val(q[1]) /\ Tail(f) = [i \in 1 .. l |-> Val(q[i + 1])]
      BY <2>3, <2>5
    <3> QED BY <1>4, <2>2, <2>3, <2>10, <2>11, <2>12, <3>1
  <2> QED BY <1>2, <1>7, <1>13, <2>6, <2>9, <2>13 DEF LinksExist
<1> QED BY <1>2, <1>12, <1>13
-----------------------------------------------------------------------------
\* The stack starts empty.
LEMMA LifoInit ==
  ASSUME StoreIsRoomy, Init
  PROVE  LifoInv /\ Lifo!Init
<1>1. LinearStackInv BY LinearInit
<1>2. popped = [t \in Threads |-> <<>>] BY DEF Init
<1>3. Top = NoNode
  <2>1. PICK c : c = Cell(NoVal, NoNode) OBVIOUS
  <2>2. versions[HeadKey] = <<c>> BY <2>1, KeysTyped DEF Init
  <2>3. Latest(HeadKey) = c /\ c.next = NoNode BY <2>1, <2>2 DEF Latest, Cell
  <2> QED BY <2>3 DEF Top
<1>4. PICK q : q = <<>> OBVIOUS
<1>5. q \in Seq(Nodes) /\ Len(q) = 0 /\ IsChain(q)
  <2>1. q \in Seq(Nodes) /\ Len(q) = 0 BY <1>4
  <2>2. \A i \in 1 .. 0 : FALSE OBVIOUS
  <2> QED BY <1>3, <2>1, <2>2, ChainLinks
<1>6. level = "linear" => Contents = <<>>
  <2> SUFFICES ASSUME level = "linear" PROVE Contents = <<>>
    OBVIOUS
  <2>1. Contents = ValuesAlong(q) BY <1>1, <1>5, ChainsAreDescribed DEF ChainsDescribed
  <2>2. ValuesAlong(q) = [i \in 1 .. 0 |-> Val(q[i])] BY <1>5 DEF ValuesAlong
  <2>3. \A f : f = [i \in 1 .. 0 |-> Val(q[i])] => f = <<>> OBVIOUS
  <2> QED BY <2>1, <2>2, <2>3
<1>7. Contents = <<>> BY <1>6 DEF Contents
<1>8. Answers = [t \in Threads |-> <<>>] BY <1>2 DEF Answers
<1> QED BY <1>1, <1>5, <1>7, <1>8 DEF LifoInv, LinksExist, Lifo!Init

\* One of the threads' steps, on a linearizable store: it pushes, it pops, or the
\* stack shows nothing of it.
LEMMA LifoStep ==
  ASSUME StoreIsRoomy, LifoInv, LinearStackInv', level = "linear", level' = "linear",
         NEW t \in Threads, Step(t)
  PROVE  LinksExist' /\ (Lifo!Next \/ UNCHANGED <<Contents, Answers>>)
<1>1. StackInv /\ LinearInv /\ LinearStackInv /\ popped \in [Threads -> Seq(Nat)]
  BY TypedIff DEF LifoInv, LinearStackInv, StackInv, StackTyped
<1>2. Answers = popped /\ Answers' = popped' BY DEF Answers
<1>3. CASE /\ popped' = popped
           /\ \A m \in Keys : versions'[m] = versions[m] \/ (m = new[t] /\ Pushing(t))
  BY <1>2, <1>3, ChainStays
<1>4. CASE StartPush(t) BY <1>1, <1>3, <1>4, StartPushStep DEF storeVars
<1>5. CASE Insert(t)
  <2>1. /\ pc[t] = "insert" /\ popped' = popped
        /\ \A m \in Keys \ {new[t]} : versions'[m] = versions[m]
    BY <1>1, <1>5, InsertStep
  <2>2. Pushing(t) BY <1>1, <2>1 DEF StackInv, ThreadOK, Pushing
  <2> QED BY <1>3, <2>1, <2>2
<1>6. CASE PushReadHead(t) BY <1>1, <1>3, <1>6, PushReadHeadStep
<1>7. CASE Link(t)
  <2>1. /\ pc[t] = "link" /\ popped' = popped
        /\ \A m \in Keys \ {new[t]} : versions'[m] = versions[m]
    BY <1>1, <1>7, LinkStep
  <2>2. Pushing(t) BY <1>1, <2>1 DEF StackInv, ThreadOK, Pushing
  <2> QED BY <1>3, <2>1, <2>2
<1>8. CASE PopReadHead(t)
  <2>1. /\ versions' = versions
        /\ \E i \in Visible(t, HeadKey) :
             \/ /\ popped' = [popped EXCEPT ![t] = Append(@, EMPTY)]
                /\ versions[HeadKey][i].next = NoNode
             \/ popped' = popped
    BY <1>1, <1>8, PopReadHeadStep
  <2>2. CASE popped' = popped BY <1>3, <2>1, <2>2
  <2>3. ASSUME NEW i \in Visible(t, HeadKey), versions[HeadKey][i].next = NoNode,
               popped' = [popped EXCEPT ![t] = Append(@, EMPTY)]
        PROVE  LinksExist' /\ Lifo!Next
    <3>1. Top = NoNode BY <1>1, <2>3, KeysTyped, VisibleIsTop
    <3>2. PICK q \in Seq(Nodes) : IsChain(q) BY DEF LifoInv, LinksExist
    <3>3. /\ Lists(q) /\ Contents = ValuesAlong(q)
          /\ Top = IF Len(q) = 0 THEN NoNode ELSE q[1]
      BY <1>1, <3>2, ChainsAreDescribed DEF ChainsDescribed
    <3>4. Len(q) = 0
      <4>1. PICK m \in Nat : m = Len(q) BY <3>3 DEF Lists
      <4>2. m # 0 => q[1] \in Nodes
        <5>1. m # 0 => 1 \in 1 .. m OBVIOUS
        <5> QED BY <3>3, <4>1, <5>1 DEF Lists
      <4> QED BY <3>1, <3>3, <4>1, <4>2, NodesTyped
    <3>5. Contents = <<>>
      <4>1. ValuesAlong(q) = [j \in 1 .. 0 |-> Val(q[j])] BY <3>4 DEF ValuesAlong
      <4>2. \A f : f = [j \in 1 .. 0 |-> Val(q[j])] => f = <<>> OBVIOUS
      <4> QED BY <3>3, <4>1, <4>2
    <3>6. LinksExist' /\ Contents' = Contents BY <2>1, ChainStays
    <3>7. Lifo!PopEmpty(t) BY <1>2, <2>3, <3>5, <3>6 DEF Lifo!PopEmpty
    <3> QED BY <3>6, <3>7 DEF Lifo!Next
  <2> QED BY <2>1, <2>2, <2>3
<1>9. CASE PopReadNode(t) BY <1>1, <1>3, <1>9, PopReadNodeStep
<1>10. CASE CompareHead(t) BY <1>1, <1>3, <1>10, CompareHeadStep
<1>11. CASE SwingHead(t)
  <2>1. /\ LinksExist'
        /\ \/ /\ Op(t) = "push" /\ popped' = popped
              /\ val[t] \in 1 .. 99 /\ Contents' = <<val[t]>> \o Contents
           \/ /\ Op(t) = "pop" /\ popped' = [popped EXCEPT ![t] = Append(@, val[t])]
              /\ Contents # <<>> /\ val[t] = Head(Contents) /\ Contents' = Tail(Contents)
    BY <1>11, ChainSwings
  <2>2. ASSUME popped' = popped, val[t] \in 1 .. 99, Contents' = <<val[t]>> \o Contents
        PROVE  Lifo!Next
    <3>1. Lifo!Push(val[t]) BY <1>2, <2>2 DEF Lifo!Push
    <3> QED BY <2>2, <3>1 DEF Lifo!Next
  <2>3. ASSUME popped' = [popped EXCEPT ![t] = Append(@, val[t])],
               Contents # <<>>, val[t] = Head(Contents), Contents' = Tail(Contents)
        PROVE  Lifo!Next
    <3>1. Lifo!Pop(t) BY <1>2, <2>3 DEF Lifo!Pop
    <3> QED BY <3>1 DEF Lifo!Next
  <2> QED BY <2>1, <2>2, <2>3
<1> QED BY <1>4, <1>5, <1>6, <1>7, <1>8, <1>9, <1>10, <1>11 DEF Step

LEMMA LifoNext ==
  ASSUME StoreIsRoomy, LifoInv, [Next]_vars
  PROVE  LifoInv' /\ (Lifo!Next \/ UNCHANGED <<Contents, Answers>>)
<1>1. LinearStackInv /\ LinearStackInv' /\ StackInv BY LinearNext DEF LifoInv, LinearStackInv
<1>2. level' = level
  <2>1. CASE UNCHANGED vars BY <2>1 DEF vars, storeVars
  <2>2. ASSUME NEW t \in Threads, Step(t) PROVE level' = level
    BY <1>1, <2>2, StartPushStep, InsertStep, PushReadHeadStep, LinkStep, PopReadHeadStep,
       PopReadNodeStep, CompareHeadStep, SwingHeadStep DEF Step, storeVars
  <2> QED BY <2>1, <2>2 DEF Next
<1>3. CASE level # "linear"
  BY <1>1, <1>2, <1>3 DEF LifoInv, Contents, Answers
<1>4. CASE level = "linear" /\ UNCHANGED vars
  <2>1. versions' = versions /\ popped' = popped BY <1>4 DEF vars, storeVars, stackVars
  <2>2. Nodes' = Nodes /\ Chain' = Chain
    BY <2>1 DEF Nodes, Present, Chain, IsChain, NodeAt, Latest
  <2>3. LinksExist' BY <1>4, <2>1, <2>2 DEF LifoInv, LinksExist, IsChain, NodeAt, Latest
  <2>4. Contents' = Contents /\ Answers' = Answers
    BY <1>2, <2>1, <2>2 DEF Contents, Answers, Latest
  <2> QED BY <1>1, <2>3, <2>4 DEF LifoInv
<1>5. CASE level = "linear" /\ \E t \in Threads : Step(t)
  BY <1>1, <1>2, <1>5, LifoStep DEF LifoInv
<1> QED BY <1>3, <1>4, <1>5 DEF Next

\* On a linearizable store the stack of treiber_stack.h is a stack: each push takes
\* effect when it swings the head to its node, each pop when it swings the head to
\* the node below, and a pop answers EMPTY only when it read the head of an empty
\* stack.  Any number of threads, any programs, any interleaving of their calls.
THEOREM StackIsLifo == ASSUME StoreIsRoomy PROVE Spec => ImplementsLifoStack
<1>1. Init => LifoInv /\ Lifo!Init BY LifoInit
<1>2. LifoInv /\ [Next]_vars => LifoInv' /\ [Lifo!Next]_<<Contents, Answers>> BY LifoNext
<1> QED BY <1>1, <1>2, PTL DEF Spec, ImplementsLifoStack, Lifo!Spec
=============================================================================
