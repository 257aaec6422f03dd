-------------------------- MODULE StoreRefinement --------------------------
(***************************************************************************)
(* Proofs that the store implements the session-level interface on which   *)
(* the applications and the HTTP server are modelled, whatever selectors   *)
(* are installed (level "causal"), and for the programs that call it under *)
(* one selector, at the level that the selector is named for; and that the *)
(* assertions of the tests hold whatever the causal selector chooses.      *)
(***************************************************************************)
EXTENDS StoreClients, KVStoreProofs, SequenceTheorems, WellFoundedInduction

-----------------------------------------------------------------------------
(* Floors *)

\* A bounded set of numbers that has an element has a greatest one: the set of
\* those at or above a is smallest for the greatest a.
LEMMA GreatestExists ==
  ASSUME NEW n \in Nat, NEW S \in SUBSET (0 .. n), S # {}
  PROVE  \E a \in S : \A b \in S : b <= a
<1> DEFINE From(a) == {b \in S : a <= b}
           T == {U \in SUBSET S : \E a \in S : U = From(a)}
<1>1. IsFiniteSet(S)
  <2>1. IsFiniteSet(0 .. n) BY FS_Interval
  <2> QED BY <2>1, FS_Subset
<1>2. FiniteSubsetsOf(S) = SUBSET S BY <1>1, FS_FiniteSubsetsOfFinite
<1>3. T \subseteq FiniteSubsetsOf(S) BY <1>2
<1>4. T # {}
  <2>1. PICK a \in S : TRUE OBVIOUS
  <2>2. From(a) \in T OBVIOUS
  <2> QED BY <2>2
<1> HIDE DEF T
<1>5. PICK U \in T : \A V \in T : ~ (<<V, U>> \in StrictSubsetOrdering(S))
  BY <1>3, <1>4, FS_StrictSubsetOrderingWellFounded, WFMin
<1>6. PICK a \in S : U = From(a) BY DEF T
<1>7. ASSUME NEW b \in S, ~ (b <= a) PROVE FALSE
  <2>1. From(b) \subseteq From(a) /\ a \in From(a) /\ a \notin From(b)
    <3>1. a \in Nat /\ b \in Nat /\ a < b /\ \A c \in S : c \in Nat BY <1>7
    <3>2. a \notin From(b) BY <3>1
    <3>3. a \in From(a) BY <3>1
    <3>4. \A c \in S : b <= c => a <= c BY <3>1
    <3> QED BY <3>2, <3>3, <3>4
  <2>2. From(b) \in T BY DEF T
  <2>3. <<From(b), From(a)>> \in StrictSubsetOrdering(S)
    <3>1. From(b) \in SUBSET S /\ From(a) \in SUBSET S OBVIOUS
    <3> HIDE DEF From
    <3> QED BY <2>1, <3>1 DEF StrictSubsetOrdering
  <2> QED BY <1>5, <1>6, <2>2, <2>3
<1> QED BY <1>7

\* Where session s has read or written k.
OnKey(s, k) == {a \in DOMAIN sessionOrder[s] : sessionOrder[s][a].key = k}

IsLastOn(a, s, k) == a \in OnKey(s, k) /\ \A b \in OnKey(s, k) : b <= a

\* The version that the last transaction of a session on a key touched, and no
\* other, is its floor.
FloorsDetermined ==
  \A s \in Sessions, k \in Keys :
    /\ OnKey(s, k) = {} => Floor(s, k) = 0
    /\ OnKey(s, k) # {} => \E a : IsLastOn(a, s, k)
    /\ \A a, i : IsLastOn(a, s, k) /\ Touches(sessionOrder[s][a], i) => Floor(s, k) = i

LEMMA FloorIs == StoreInv => FloorsDetermined
<1> SUFFICES ASSUME StoreInv, NEW s \in Sessions, NEW k \in Keys
             PROVE  /\ OnKey(s, k) = {} => Floor(s, k) = 0
                    /\ OnKey(s, k) # {} => \E a : IsLastOn(a, s, k)
                    /\ \A a, i : IsLastOn(a, s, k) /\ Touches(sessionOrder[s][a], i)
                         => Floor(s, k) = i
  BY DEF FloorsDetermined
<1>1. OnKey(s, k) = {} => Floor(s, k) = 0 BY DEF OnKey, Floor
<1>2. DOMAIN sessionOrder[s] = 1 .. Len(sessionOrder[s]) /\ Len(sessionOrder[s]) \in Nat
  BY DEF StoreInv, TypeOK
<1>3. OnKey(s, k) # {} => \E a : IsLastOn(a, s, k)
  <2>1. OnKey(s, k) \in SUBSET (0 .. Len(sessionOrder[s])) BY <1>2 DEF OnKey
  <2> QED BY <1>2, <2>1, GreatestExists DEF IsLastOn
<1>4. ASSUME NEW a, NEW i, IsLastOn(a, s, k), Touches(sessionOrder[s][a], i)
      PROVE  Floor(s, k) = i
  <2> DEFINE last == CHOOSE b \in OnKey(s, k) : \A c \in OnKey(s, k) : c <= b
  <2>1. last = a
    <3>1. IsLastOn(last, s, k) BY <1>4 DEF IsLastOn
    <3>2. last <= a /\ a <= last /\ a \in Nat /\ last \in Nat
      BY <1>2, <1>4, <3>1 DEF IsLastOn, OnKey
    <3> QED BY <3>2
  <2>2. i \in DOMAIN kvMap[k] /\ sessionOrder[s][a].key = k /\ OnKey(s, k) # {}
    BY <1>4 DEF IsLastOn, OnKey, Touches
  <2>3. \A j \in DOMAIN kvMap[k] : Touches(sessionOrder[s][a], j) => j = i
    BY <1>4, <2>2, VersionIdsUnique DEF Touches
  <2>4. (CHOOSE j \in DOMAIN kvMap[k] : Touches(sessionOrder[s][a], j)) = i
    BY <1>4, <2>2, <2>3
  <2>5. Floor(s, k) = CHOOSE j \in DOMAIN kvMap[k] : Touches(sessionOrder[s][last], j)
    BY <2>2 DEF Floor, OnKey
  <2> HIDE DEF last
  <2> QED BY <2>1, <2>4, <2>5
<1> QED BY <1>1, <1>3, <1>4

\* A floor is 0, or a version that the session has touched.
LEMMA FloorTouched ==
  ASSUME StoreInv, NEW s \in Sessions, NEW k \in Keys
  PROVE  /\ Floor(s, k) = 0 \/ Floor(s, k) \in Touched(s, k)
         /\ Floor(s, k) \in Nat
<1>1. FloorsDetermined BY FloorIs
<1>2. CASE OnKey(s, k) = {} BY <1>1, <1>2 DEF FloorsDetermined
<1>3. CASE OnKey(s, k) # {}
  <2>1. PICK a : IsLastOn(a, s, k) BY <1>1, <1>3 DEF FloorsDetermined
  <2>2. a \in DOMAIN sessionOrder[s] /\ sessionOrder[s][a].key = k
    BY <2>1 DEF IsLastOn, OnKey
  <2>3. PICK i \in DOMAIN kvMap[k] : Touches(sessionOrder[s][a], i)
    BY <2>2, SessionTouches
  <2>4. Floor(s, k) = i BY <1>1, <2>1, <2>3 DEF FloorsDetermined
  <2>5. i \in Nat BY <2>3 DEF StoreInv, TypeOK
  <2> QED BY <2>2, <2>3, <2>4, <2>5 DEF Touched
<1> QED BY <1>2, <1>3

\* What a commit of x, which touches version w of its key, does to the floors.
LEMMA FloorsAfter ==
  ASSUME StoreInv, StoreInv', NEW x \in Transactions, Commit(x),
         \A k \in Keys : \A i \in DOMAIN kvMap[k] :
           i \in DOMAIN kvMap'[k] /\ kvMap'[k][i] = kvMap[k][i],
         NEW w, Touches(x, w)',
         NEW s \in Sessions, NEW k \in Keys
  PROVE  Floor(s, k)' = IF s = x.session /\ k = x.key THEN w ELSE Floor(s, k)
<1>1. FloorsDetermined /\ FloorsDetermined'
  <2>1. StoreInv' => FloorsDetermined' BY FloorIs, PTL
  <2> QED BY <2>1, FloorIs
<1>2. sessionOrder[s] \in Seq(Transactions) BY DEF StoreInv, TypeOK
<1>3. CASE s = x.session /\ k = x.key
  <2>1. PICK top : top = Len(sessionOrder[s]) + 1 OBVIOUS
  <2>2. sessionOrder'[s] = Append(sessionOrder[s], x)
    BY <1>3 DEF Commit, StoreInv, TypeOK
  <2>3. /\ top \in DOMAIN sessionOrder'[s] /\ sessionOrder'[s][top] = x
        /\ \A b \in DOMAIN sessionOrder'[s] : b <= top
    BY <1>2, <2>1, <2>2
  <2>4. IsLastOn(top, s, k)' BY <1>3, <2>3 DEF IsLastOn, OnKey
  <2>5. Touches(sessionOrder[s][top], w)' BY <2>3 DEF Touches, Writer
  <2>6. Floor(s, k)' = w BY <1>1, <2>4, <2>5 DEF FloorsDetermined
  <2> QED BY <1>3, <2>6
<1>4. CASE ~ (s = x.session /\ k = x.key)
  <2>1. /\ DOMAIN sessionOrder[s] \subseteq DOMAIN sessionOrder'[s]
        /\ \A a \in DOMAIN sessionOrder[s] : sessionOrder'[s][a] = sessionOrder[s][a]
        /\ \A a \in DOMAIN sessionOrder'[s] \ DOMAIN sessionOrder[s] :
             s = x.session /\ sessionOrder'[s][a] = x
    <3>1. CASE s = x.session
      <4>1. sessionOrder'[s] = Append(sessionOrder[s], x)
        BY <3>1 DEF Commit, StoreInv, TypeOK
      <4> QED BY <1>2, <3>1, <4>1
    <3>2. CASE s # x.session
      <4>1. sessionOrder'[s] = sessionOrder[s] BY <3>2 DEF Commit, StoreInv, TypeOK
      <4> QED BY <4>1
    <3> QED BY <3>1, <3>2
  <2>2. OnKey(s, k)' = OnKey(s, k) BY <1>4, <2>1 DEF OnKey
  <2>3. CASE OnKey(s, k) = {} BY <1>1, <1>4, <2>2, <2>3 DEF FloorsDetermined
  <2>4. CASE OnKey(s, k) # {}
    <3>1. PICK a : IsLastOn(a, s, k) BY <1>1, <2>4 DEF FloorsDetermined
    <3>2. a \in DOMAIN sessionOrder[s] /\ sessionOrder[s][a].key = k
      BY <3>1 DEF IsLastOn, OnKey
    <3>3. PICK i \in DOMAIN kvMap[k] : Touches(sessionOrder[s][a], i)
      BY <3>2, SessionTouches
    <3>4. IsLastOn(a, s, k)' BY <2>2, <3>1 DEF IsLastOn
    <3>5. Touches(sessionOrder[s][a], i)' BY <2>1, <3>2, <3>3 DEF Touches, Writer
    <3>6. Floor(s, k) = i BY <1>1, <3>1, <3>3 DEF FloorsDetermined
    <3>7. Floor(s, k)' = i BY <1>1, <3>4, <3>5 DEF FloorsDetermined
    <3> QED BY <1>4, <3>6, <3>7
  <2> QED BY <2>3, <2>4
<1> QED BY <1>3, <1>4
-----------------------------------------------------------------------------
(* What a step does to the mapped versions and floors *)

MappedVersions == [k \in Keys |-> [i \in DOMAIN kvMap[k] |-> kvMap[k][i].value]]
MappedFloor == [s \in Sessions |-> [k \in Keys |-> Floor(s, k)]]

LEMMA MappedTypes ==
  ASSUME TypeOK, NEW k \in Keys
  PROVE  /\ MappedVersions[k] \in Seq(Values)
         /\ Len(MappedVersions[k]) = Len(kvMap[k])
         /\ DOMAIN MappedVersions[k] = DOMAIN kvMap[k]
         /\ Len(kvMap[k]) \in Nat
<1>1. kvMap[k] \in Seq(Versions) BY DEF TypeOK
<1>2. ASSUME NEW i \in DOMAIN kvMap[k] PROVE kvMap[k][i].value \in Values
  <2>1. kvMap[k][i] \in Versions BY <1>1
  <2> QED BY <2>1 DEF Versions
<1> QED BY <1>1, <1>2 DEF MappedVersions

LEMMA GetMaps ==
  ASSUME StoreInv, StoreInv', NEW x, NEW i, CommitsGet(x, i)
  PROVE  /\ x.session \in Sessions /\ x.key \in Keys
         /\ i \in DOMAIN MappedVersions[x.key]
         /\ MappedFloor[x.session][x.key] <= i
         /\ selector = "linear" => i = Len(MappedVersions[x.key])
         /\ MappedVersions' = MappedVersions
         /\ MappedFloor' = [MappedFloor EXCEPT ![x.session][x.key] = i]
<1> USE KVAssumption
<1>0. TypeOK BY DEF StoreInv
<1>1. /\ x \in Transactions /\ x.op = "GET" /\ Commit(x) /\ UNCHANGED kvMap
      /\ i \in DOMAIN kvMap[x.key] /\ i \in Choices(selector, x.session, x.key)
      /\ x.from = kvMap[x.key][i].tx
  BY DEF CommitsGet
<1>2. x.session \in Sessions /\ x.key \in Keys BY <1>1 DEF Transactions
<1>3. i \in Nat BY <1>0, <1>1, <1>2 DEF TypeOK
<1>4. MappedFloor[x.session][x.key] <= i
  <2>1. selector \in Selectors BY <1>0 DEF TypeOK
  <2>2. \A j \in Touched(x.session, x.key) : j <= i
    BY <1>1, <1>2, <2>1, ChoicesAboveFloor
  <2>3. Floor(x.session, x.key) <= i BY <1>2, <1>3, <2>2, FloorTouched
  <2> QED BY <1>2, <2>3 DEF MappedFloor
<1>5. selector = "linear" => i = Len(kvMap[x.key]) BY <1>1 DEF Choices, LinearChoices
<1>6. MappedVersions' = MappedVersions BY <1>1 DEF MappedVersions
<1>7. Touches(x, i)' BY <1>1 DEF Touches, Writer
<1>8. \A s \in Sessions, k \in Keys :
        Floor(s, k)' = IF s = x.session /\ k = x.key THEN i ELSE Floor(s, k)
  BY <1>1, <1>7, FloorsAfter
<1>9. MappedFloor' = [MappedFloor EXCEPT ![x.session][x.key] = i]
  BY <1>2, <1>8 DEF MappedFloor
<1> QED BY <1>0, <1>1, <1>2, <1>4, <1>5, <1>6, <1>9, MappedTypes

LEMMA PutMaps ==
  ASSUME StoreInv, StoreInv', NEW x, CommitsPut(x)
  PROVE  /\ x.session \in Sessions /\ x.key \in Keys /\ x.value \in Values
         /\ MappedVersions' = [MappedVersions EXCEPT ![x.key] = Append(@, x.value)]
         /\ MappedFloor' = [MappedFloor EXCEPT ![x.session][x.key]
                                                 = Len(MappedVersions[x.key]) + 1]
<1> DEFINE w == Len(kvMap[x.key]) + 1
<1>0. TypeOK BY DEF StoreInv
<1>1. x \in Transactions /\ x.op = "PUT" /\ Commit(x) /\ x.value \in Values
  BY DEF CommitsPut
<1>2. x.session \in Sessions /\ x.key \in Keys BY <1>1 DEF Transactions
<1>3. /\ \A k \in Keys \ {x.key} : kvMap'[k] = kvMap[k]
      /\ DOMAIN kvMap'[x.key] = DOMAIN kvMap[x.key] \cup {w}
      /\ kvMap'[x.key][w] = [value |-> x.value, tx |-> x.id]
      /\ \A i \in DOMAIN kvMap[x.key] : kvMap'[x.key][i] = kvMap[x.key][i]
  BY <1>0, PutExtends
<1>4. /\ MappedVersions[x.key] \in Seq(Values) /\ Len(MappedVersions[x.key]) = Len(kvMap[x.key])
      /\ DOMAIN MappedVersions[x.key] = DOMAIN kvMap[x.key] /\ Len(kvMap[x.key]) \in Nat
  BY <1>0, <1>2, MappedTypes
<1> HIDE DEF w
<1>5. MappedVersions'[x.key] = Append(MappedVersions[x.key], x.value)
  <2> DEFINE q == Append(MappedVersions[x.key], x.value)
  <2>1. /\ DOMAIN q = DOMAIN kvMap[x.key] \cup {w} /\ q[w] = x.value
        /\ \A i \in DOMAIN kvMap[x.key] : q[i] = MappedVersions[x.key][i]
        /\ q \in Seq(Values)
    BY <1>1, <1>4 DEF w
  <2>2. MappedVersions'[x.key] = [i \in DOMAIN kvMap'[x.key] |-> kvMap'[x.key][i].value]
    BY <1>2 DEF MappedVersions
  <2>3. \A i \in DOMAIN kvMap[x.key] : MappedVersions[x.key][i] = kvMap[x.key][i].value
    BY <1>2 DEF MappedVersions
  <2>4. \A i \in DOMAIN kvMap'[x.key] : kvMap'[x.key][i].value = q[i]
    BY <1>3, <2>1, <2>3
  <2>5. q = [i \in DOMAIN q |-> q[i]] BY <2>1
  <2> HIDE DEF q
  <2> QED BY <1>3, <2>1, <2>2, <2>4, <2>5 DEF q
<1>6. \A k \in Keys \ {x.key} : MappedVersions'[k] = MappedVersions[k]
  BY <1>3 DEF MappedVersions
<1>7. MappedVersions' = [MappedVersions EXCEPT ![x.key] = Append(@, x.value)]
  <2>1. MappedVersions' = [k \in Keys |-> MappedVersions'[k]]
          /\ MappedVersions = [k \in Keys |-> MappedVersions[k]]
    BY DEF MappedVersions
  <2> QED BY <1>2, <1>5, <1>6, <2>1
<1>8. \A k \in Keys : \A i \in DOMAIN kvMap[k] : i \in DOMAIN kvMap'[k] /\ kvMap'[k][i] = kvMap[k][i]
  BY <1>3
<1>9. PICK n : n = w OBVIOUS
<1>10. Touches(x, n)' BY <1>1, <1>3, <1>9 DEF Touches, Writer
<1>11. \A s \in Sessions, k \in Keys :
         Floor(s, k)' = IF s = x.session /\ k = x.key THEN n ELSE Floor(s, k)
  BY <1>1, <1>8, <1>10, FloorsAfter
<1>12. MappedFloor' = [MappedFloor EXCEPT ![x.session][x.key] = n]
  BY <1>2, <1>11 DEF MappedFloor
<1> QED BY <1>1, <1>2, <1>4, <1>7, <1>9, <1>12 DEF w

LEMMA NothingMaps ==
  ASSUME CommitsNothing
  PROVE  UNCHANGED <<MappedVersions, MappedFloor>>
  BY DEF CommitsNothing, MappedVersions, MappedFloor, Floor, Touches

LEMMA InitMaps ==
  ASSUME Init
  PROVE  /\ MappedVersions = [k \in Keys |-> <<>>]
         /\ MappedFloor = [s \in Sessions |-> [k \in Keys |-> 0]]
<1>1. \A k \in Keys : [i \in DOMAIN kvMap[k] |-> kvMap[k][i].value] = <<>>
  BY DEF Init
<1>2. \A s \in Sessions, k \in Keys : Floor(s, k) = 0
  BY DEF Init, Floor
<1> QED BY <1>1, <1>2 DEF MappedVersions, MappedFloor
-----------------------------------------------------------------------------
(* The store implements SessionStore *)

LEMMA AbsStep ==
  ASSUME StoreInv, StoreInv', [Next]_vars
  PROVE  [Abs!StoreNext]_(Abs!storeVars)
<1> DEFINE lvl == IF Selectors = {"linear"} THEN "linear" ELSE "causal"
<1>1. CASE CommitsNothing
  <2>1. UNCHANGED <<MappedVersions, MappedFloor>> BY <1>1, NothingMaps
  <2> QED BY <2>1 DEF Abs!storeVars, MappedVersions, MappedFloor
<1>2. ASSUME NEW x, NEW i, CommitsGet(x, i) PROVE Abs!StoreNext
  <2>1. selector \in Selectors BY DEF StoreInv, TypeOK
  <2>2. Abs!Get(x.session, x.key, i)
    <3>1. lvl = "linear" => selector = "linear" BY <2>1
    <3>2. i \in Abs!Visible(x.session, x.key)
      BY <1>2, <3>1, GetMaps DEF Abs!Visible, MappedVersions, MappedFloor
    <3>3. MappedVersions' = MappedVersions
            /\ MappedFloor' = [MappedFloor EXCEPT ![x.session][x.key] = i]
      BY <1>2, GetMaps
    <3> QED BY <3>2, <3>3 DEF Abs!Get, MappedVersions, MappedFloor
  <2>3. x.session \in Sessions /\ x.key \in Keys /\ i \in DOMAIN MappedVersions[x.key]
    BY <1>2, GetMaps
  <2> QED BY <2>2, <2>3 DEF Abs!StoreNext, MappedVersions
<1>3. ASSUME NEW x, CommitsPut(x) PROVE Abs!StoreNext
  <2>1. Abs!Put(x.session, x.key, x.value)
    BY <1>3, PutMaps DEF Abs!Put, MappedVersions, MappedFloor
  <2>2. x.session \in Sessions /\ x.key \in Keys /\ x.value \in Values BY <1>3, PutMaps
  <2> QED BY <2>1, <2>2 DEF Abs!StoreNext
<1> QED BY <1>1, <1>2, <1>3, StepCommits

\* The store, under any selectors swapped at any time, implements the interface of
\* SessionStore: what the applications and the server are proved to do on that
\* interface they do on this store.  A store that only has the linearizable
\* selector implements the interface at the level "linear".
THEOREM StoreImplementsSessionStore == Spec => ImplementsSessionStore
<1>1. Init => Abs!StoreInit
  BY InitMaps DEF Abs!StoreInit, MappedVersions, MappedFloor
<1>2. StoreInv /\ StoreInv' /\ [Next]_vars => [Abs!StoreNext]_(Abs!storeVars)
  BY AbsStep
<1> QED BY <1>1, <1>2, StoreInvariant, PTL DEF Spec, Abs!StoreSpec, ImplementsSessionStore
-----------------------------------------------------------------------------
(* The programs that call the store *)

Calls == [op : {"GET", "PUT"}, key : Keys, value : Values \cup {NoValue}, session : Sessions]
WellFormedCalls == {c \in Calls : IF c.op = "GET" THEN c.value = NoValue ELSE c.value \in Values}

TodoOK == todo \in [Threads -> Seq(WellFormedCalls)]

LEMMA CallsWellFormed ==
  ASSUME NEW k \in ClientKeys, NEW v \in ClientValues, NEW s \in ClientSessions
  PROVE  GetCall(k, s) \in WellFormedCalls /\ PutCall(k, v, s) \in WellFormedCalls
<1>1. k \in Keys /\ v \in Values /\ s \in Sessions
  BY ClientsAssumption DEF ClientsAssumption
<1> QED BY <1>1 DEF GetCall, PutCall, WellFormedCalls, Calls

\* The sequences that the programs are made of, in the store's own alphabet.
LEMMA ProgramsWellFormed ==
  ASSUME NEW c \in Clients
  PROVE  Program(c) \in [Threads -> Seq(WellFormedCalls)]
<1> USE CallsWellFormed DEF ClientKeys, ClientValues, ClientSessions
<1>1. /\ PutCall("a", 10, 1) \in WellFormedCalls /\ GetCall("a", 1) \in WellFormedCalls
      /\ PutCall("b", 12, 1) \in WellFormedCalls /\ PutCall("a", 20, 2) \in WellFormedCalls
      /\ PutCall("b", 21, 2) \in WellFormedCalls /\ GetCall("b", 2) \in WellFormedCalls
      /\ GetCall("a", 3) \in WellFormedCalls /\ GetCall("b", 3) \in WellFormedCalls
      /\ PutCall("b", 32, 3) \in WellFormedCalls
  OBVIOUS
<1>2. SimpleReadWrite \in Seq(WellFormedCalls)
  <2>1. /\ PutCall("a", 50, 123) \in WellFormedCalls /\ GetCall("a", 123) \in WellFormedCalls
        /\ PutCall("b", 100, 123) \in WellFormedCalls /\ PutCall("c", 150, 123) \in WellFormedCalls
        /\ GetCall("b", 123) \in WellFormedCalls /\ GetCall("c", 123) \in WellFormedCalls
    OBVIOUS
  <2> QED BY <2>1 DEF SimpleReadWrite
<1>3. FourClients \in Seq(WellFormedCalls)
  <2>1. /\ PutCall("x", 5, 1) \in WellFormedCalls /\ GetCall("x", 2) \in WellFormedCalls
        /\ PutCall("x", 10, 2) \in WellFormedCalls /\ GetCall("x", 3) \in WellFormedCalls
        /\ GetCall("x", 4) \in WellFormedCalls
    OBVIOUS
  <2> QED BY <2>1 DEF FourClients
<1>4. VersionNumber \in Seq(WellFormedCalls)
  <2>1. /\ PutCall("key1", 50, 123) \in WellFormedCalls
        /\ GetCall("key1", DefaultSession) \in WellFormedCalls
        /\ PutCall("key1", 100, 345) \in WellFormedCalls
    BY DEF DefaultSession
  <2> QED BY <2>1 DEF VersionNumber
<1>5. Threads = {1, 2, 3} /\ NumOps \in 1 .. 3
  BY ClientsAssumption DEF ClientsAssumption, ClientThreads
<1> HIDE CallsWellFormed DEF ClientKeys, ClientValues, ClientSessions
<1>6. SimpleApp \in [Threads -> Seq(WellFormedCalls)]
  <2> DEFINE o1 == <<PutCall("a", 10, 1), GetCall("a", 1), PutCall("b", 12, 1)>>
             o2 == <<PutCall("a", 20, 2), PutCall("b", 21, 2), GetCall("b", 2)>>
             o3 == <<GetCall("a", 3), GetCall("b", 3), PutCall("b", 32, 3)>>
  <2>1. /\ o1 \in Seq(WellFormedCalls) /\ o2 \in Seq(WellFormedCalls)
        /\ o3 \in Seq(WellFormedCalls) /\ Len(o1) = 3 /\ Len(o2) = 3 /\ Len(o3) = 3
    BY <1>1
  <2>2. SimpleApp = [t \in Threads |-> SubSeq(<<o1, o2, o3>>[t], 1, NumOps)]
    BY DEF SimpleApp
  <2> HIDE DEF o1, o2, o3
  <2>3. \A t \in {1, 2, 3} : <<o1, o2, o3>>[t] \in Seq(WellFormedCalls) /\ Len(<<o1, o2, o3>>[t]) = 3
    BY <2>1
  <2>4. ASSUME NEW q \in Seq(WellFormedCalls), Len(q) = 3
        PROVE  SubSeq(q, 1, NumOps) \in Seq(WellFormedCalls)
    <3>1. NumOps \in Int /\ \A i \in 1 .. NumOps : q[i] \in WellFormedCalls BY <1>5, <2>4
    <3> QED BY <3>1, SubSeqProperties
  <2>5. \A t \in Threads : SubSeq(<<o1, o2, o3>>[t], 1, NumOps) \in Seq(WellFormedCalls)
    BY <1>5, <2>3, <2>4
  <2> QED BY <2>2, <2>5
<1>7. ASSUME NEW q \in Seq(WellFormedCalls)
      PROVE  <<q, <<>>, <<>>>> \in [Threads -> Seq(WellFormedCalls)]
  <2>1. <<>> \in Seq(WellFormedCalls) OBVIOUS
  <2> DEFINE p == <<q, <<>>, <<>>>>
  <2>2. p \in Seq(Seq(WellFormedCalls)) /\ Len(p) = 3 BY <2>1
  <2> HIDE DEF p
  <2>3. DOMAIN p = Threads BY <1>5, <2>2
  <2>4. p \in [1 .. Len(p) -> Seq(WellFormedCalls)] BY <2>2, LenProperties
  <2> QED BY <2>3, <2>4 DEF p
<1>8. SimpleReadWrite \o FourClients \in Seq(WellFormedCalls)
  BY <1>2, <1>3, ConcatProperties
<1>9. c \in {"simple_app", "causal_test", "etag_test", "linearizable_test"}
  BY ClientsAssumption DEF ClientsAssumption
<1> QED BY <1>3, <1>4, <1>6, <1>7, <1>8, <1>9 DEF Program

\* The calls of the programs are calls that the store of KVStore is specified for.
LEMMA ClientsStep ==
  ASSUME TodoOK, [ClientsNext]_allVars
  PROVE  TodoOK' /\ [Next]_vars /\ selector' = selector
<1>1. ASSUME NEW t \in Threads, Invoke(t) PROVE TodoOK' /\ Next /\ selector' = selector
  <2>1. todo[t] \in Seq(WellFormedCalls) /\ todo[t] # <<>> BY <1>1 DEF TodoOK, Invoke
  <2>2. Head(todo[t]) \in WellFormedCalls /\ Tail(todo[t]) \in Seq(WellFormedCalls) BY <2>1
  <2>3. PICK call \in WellFormedCalls :
          Create(t, call.session, call.op, call.key, call.value)
    BY <1>1, <2>2 DEF Invoke
  <2>4. call.session \in Sessions /\ call.key \in Keys /\ call.op \in {"GET", "PUT"}
    BY DEF WellFormedCalls, Calls
  <2>5. call.op = "GET" => call.value = NoValue BY DEF WellFormedCalls
  <2>6. call.op = "PUT" => call.value \in Values BY DEF WellFormedCalls
  <2>7. Next BY <2>3, <2>4, <2>5, <2>6 DEF Next, StartGet, StartPut
  <2>8. TodoOK' BY <1>1, <2>2 DEF TodoOK, Invoke
  <2>9. selector' = selector BY <2>3 DEF Create
  <2> QED BY <2>7, <2>8, <2>9
<1>2. ASSUME NEW t \in Threads, Proceed(t) PROVE TodoOK' /\ Next /\ selector' = selector
  BY <1>2 DEF Proceed, Next, ThreadStep, Lock, GetNotFound, GetPresent, PutLocked,
              TodoOK, clientVars
<1>3. CASE UNCHANGED allVars BY <1>3 DEF allVars, clientVars, vars, TodoOK
<1> QED BY <1>1, <1>2, <1>3 DEF ClientsNext

LEMMA ClientsTodo == ClientsSpec => []TodoOK
<1>1. ClientsInit => TodoOK BY ProgramsWellFormed DEF ClientsInit, TodoOK
<1>2. TodoOK /\ [ClientsNext]_allVars => TodoOK' BY ClientsStep
<1> QED BY <1>1, <1>2, PTL DEF ClientsSpec

\* simple_app and the tests of the store are behaviours of the store: whatever
\* invariant of KVStore is proved holds while these programs run.
THEOREM ClientsRunTheStore == ClientsSpec => Spec
<1>1. ClientsInit => Init BY DEF ClientsInit
<1>2. TodoOK /\ [ClientsNext]_allVars => [Next]_vars BY ClientsStep
<1> QED BY <1>1, <1>2, ClientsTodo, PTL DEF ClientsSpec, Spec

LEMMA LevelStep ==
  ASSUME StoreInv, StoreInv', [Next]_vars, selector' = selector
  PROVE  [Level!StoreNext]_(Level!storeVars)
<1>1. CASE CommitsNothing
  <2>1. UNCHANGED <<MappedVersions, MappedFloor>> BY <1>1, NothingMaps
  <2> QED BY <2>1 DEF Level!storeVars, MappedVersions, MappedFloor
<1>2. ASSUME NEW x, NEW i, CommitsGet(x, i) PROVE Level!StoreNext
  <2>1. Level!Get(x.session, x.key, i)
    <3>1. i \in Level!Visible(x.session, x.key)
      BY <1>2, GetMaps DEF Level!Visible, MappedVersions, MappedFloor
    <3>2. MappedVersions' = MappedVersions
            /\ MappedFloor' = [MappedFloor EXCEPT ![x.session][x.key] = i]
      BY <1>2, GetMaps
    <3> QED BY <3>1, <3>2 DEF Level!Get, MappedVersions, MappedFloor
  <2>2. x.session \in Sessions /\ x.key \in Keys /\ i \in DOMAIN MappedVersions[x.key]
    BY <1>2, GetMaps
  <2> QED BY <2>1, <2>2 DEF Level!StoreNext, MappedVersions
<1>3. ASSUME NEW x, CommitsPut(x) PROVE Level!StoreNext
  <2>1. Level!Put(x.session, x.key, x.value)
    BY <1>3, PutMaps DEF Level!Put, MappedVersions, MappedFloor
  <2>2. x.session \in Sessions /\ x.key \in Keys /\ x.value \in Values BY <1>3, PutMaps
  <2> QED BY <2>1, <2>2 DEF Level!StoreNext
<1> QED BY <1>1, <1>2, <1>3, StepCommits

\* Under a selector that stays installed the store implements the level that the
\* selector is named for: simple_app on the linearizable selector has a
\* linearizable store, in any interleaving of its threads.
THEOREM ClientsGetTheirLevel == ClientsSpec => ImplementsLevel
<1>1. ClientsInit => Level!StoreInit
  BY InitMaps DEF ClientsInit, Level!StoreInit, MappedVersions, MappedFloor
<1>2. /\ TodoOK /\ TodoOK' /\ StoreInv /\ StoreInv' /\ [ClientsNext]_allVars
      => [Level!StoreNext]_(Level!storeVars)
  BY ClientsStep, LevelStep
<1>3. ClientsSpec => []StoreInv BY ClientsRunTheStore, StoreInvariant, PTL
<1> QED BY <1>1, <1>2, <1>3, ClientsTodo, PTL DEF ClientsSpec, Level!StoreSpec, ImplementsLevel
-----------------------------------------------------------------------------
(* The tests: one thread, which makes the calls of the program in order *)

Tests == {"causal_test", "etag_test", "linearizable_test"}
TestCalls == Program(client)[1]

\* Transaction x is that of call c.
Makes(x, c) ==
  /\ x.op = c.op /\ x.key = c.key /\ x.session = c.session
  /\ c.op = "PUT" => x.value = c.value

\* The calls made so far, the one in progress included.
Made == IF pc[1] = "idle" THEN Len(history) ELSE Len(history) + 1

\* What is committed are the calls of the test, none left out.
TestInOrder ==
  /\ selector = "causal"
  /\ \A t \in Threads : t # 1 => todo[t] = <<>> /\ pc[t] = "idle"
  /\ Len(todo[1]) = Len(TestCalls) - Made
  /\ \A j \in 1 .. Len(todo[1]) : todo[1][j] = TestCalls[Made + j]
  /\ \A n \in DOMAIN history : Makes(history[n], TestCalls[n])
  /\ pc[1] # "idle" => Makes(tx[1], TestCalls[Made])

TestInv == client \in Tests => TestInOrder

\* No test reads what it has not put.
PutFirst(calls) ==
  \A n \in 1 .. Len(calls) : calls[n].op = "GET" =>
    \E m \in 1 .. n - 1 : calls[m].op = "PUT" /\ calls[m].key = calls[n].key

\* The calls of the tests, one by one.
CallsOfFourClients(q, d) ==
  /\ q[d + 1] = PutCall("x", 5, 1) /\ q[d + 2] = GetCall("x", 2)
  /\ q[d + 3] = PutCall("x", 10, 2) /\ q[d + 4] = GetCall("x", 3)
  /\ q[d + 5] = GetCall("x", 4) /\ q[d + 6] = GetCall("x", 3) /\ q[d + 7] = GetCall("x", 4)

LEMMA LinearizableCalls == Len(FourClients) = 7 /\ CallsOfFourClients(FourClients, 0)
<1>1. CallsOfFourClients(FourClients, 0) <=>
        /\ FourClients[1] = PutCall("x", 5, 1) /\ FourClients[2] = GetCall("x", 2)
        /\ FourClients[3] = PutCall("x", 10, 2) /\ FourClients[4] = GetCall("x", 3)
        /\ FourClients[5] = GetCall("x", 4) /\ FourClients[6] = GetCall("x", 3)
        /\ FourClients[7] = GetCall("x", 4)
  BY DEF CallsOfFourClients
<1> QED BY <1>1 DEF FourClients

LEMMA CausalCalls ==
  LET q == SimpleReadWrite \o FourClients
  IN /\ Len(SimpleReadWrite) = 6 /\ Len(q) = 13
     /\ q[1] = PutCall("a", 50, 123) /\ q[2] = GetCall("a", 123)
     /\ q[3] = PutCall("b", 100, 123) /\ q[4] = PutCall("c", 150, 123)
     /\ q[5] = GetCall("b", 123) /\ q[6] = GetCall("c", 123)
     /\ CallsOfFourClients(q, 6)
<1> DEFINE q == SimpleReadWrite \o FourClients
<1>1. /\ Len(SimpleReadWrite) = 6
      /\ SimpleReadWrite[1] = PutCall("a", 50, 123) /\ SimpleReadWrite[2] = GetCall("a", 123)
      /\ SimpleReadWrite[3] = PutCall("b", 100, 123) /\ SimpleReadWrite[4] = PutCall("c", 150, 123)
      /\ SimpleReadWrite[5] = GetCall("b", 123) /\ SimpleReadWrite[6] = GetCall("c", 123)
  BY DEF SimpleReadWrite
<1> DEFINE S == {SimpleReadWrite[i] : i \in 1 .. 6} \cup {FourClients[i] : i \in 1 .. 7}
<1>2. SimpleReadWrite \in Seq(S) /\ FourClients \in Seq(S)
  BY DEF SimpleReadWrite, FourClients
<1> HIDE DEF S
<1>3. /\ Len(q) = 13
      /\ \A i \in 1 .. 6 : q[i] = SimpleReadWrite[i]
      /\ \A i \in 1 .. 7 : q[6 + i] = FourClients[i]
  <2>1. Len(SimpleReadWrite) = 6 /\ Len(FourClients) = 7 BY <1>1, LinearizableCalls
  <2>2. /\ Len(q) = 6 + 7
        /\ \A i \in 1 .. 6 + 7 : q[i] = IF i <= 6 THEN SimpleReadWrite[i] ELSE FourClients[i - 6]
    <3>1. /\ Len(q) = Len(SimpleReadWrite) + Len(FourClients)
          /\ \A i \in 1 .. Len(SimpleReadWrite) + Len(FourClients) :
               q[i] = IF i <= Len(SimpleReadWrite) THEN SimpleReadWrite[i]
                      ELSE FourClients[i - Len(SimpleReadWrite)]
      BY <1>2, ConcatProperties, ZenonT(30)
    <3> HIDE DEF q
    <3> QED BY <2>1, <3>1
  <2> HIDE DEF q
  <2>3. \A i \in 1 .. 7 : 6 + i \in 1 .. 6 + 7 /\ ~ (6 + i <= 6) /\ (6 + i) - 6 = i OBVIOUS
  <2>4. \A i \in 1 .. 6 : i \in 1 .. 6 + 7 /\ i <= 6 OBVIOUS
  <2>5. \A i \in 1 .. 7 : q[6 + i] = FourClients[i] BY <2>2, <2>3
  <2>6. \A i \in 1 .. 6 : q[i] = SimpleReadWrite[i] BY <2>2, <2>4
  <2> QED BY <2>2, <2>5, <2>6
<1> HIDE DEF q
<1>4. CallsOfFourClients(q, 6) <=>
        /\ q[6 + 1] = PutCall("x", 5, 1) /\ q[6 + 2] = GetCall("x", 2)
        /\ q[6 + 3] = PutCall("x", 10, 2) /\ q[6 + 4] = GetCall("x", 3)
        /\ q[6 + 5] = GetCall("x", 4) /\ q[6 + 6] = GetCall("x", 3)
        /\ q[6 + 7] = GetCall("x", 4)
  BY DEF CallsOfFourClients
<1>5. /\ FourClients[1] = PutCall("x", 5, 1) /\ FourClients[2] = GetCall("x", 2)
      /\ FourClients[3] = PutCall("x", 10, 2) /\ FourClients[4] = GetCall("x", 3)
      /\ FourClients[5] = GetCall("x", 4) /\ FourClients[6] = GetCall("x", 3)
      /\ FourClients[7] = GetCall("x", 4)
  BY DEF FourClients
<1>6. CallsOfFourClients(q, 6) BY <1>3, <1>4, <1>5
<1>7. /\ q[1] = PutCall("a", 50, 123) /\ q[2] = GetCall("a", 123)
      /\ q[3] = PutCall("b", 100, 123) /\ q[4] = PutCall("c", 150, 123)
      /\ q[5] = GetCall("b", 123) /\ q[6] = GetCall("c", 123)
  BY <1>1, <1>3
<1> QED BY <1>1, <1>3, <1>6, <1>7 DEF q

LEMMA EtagCalls ==
  /\ Len(VersionNumber) = 4
  /\ VersionNumber[1] = PutCall("key1", 50, 123)
  /\ VersionNumber[2] = GetCall("key1", DefaultSession)
  /\ VersionNumber[3] = PutCall("key1", 100, 345)
  /\ VersionNumber[4] = GetCall("key1", DefaultSession)
  BY DEF VersionNumber

LEMMA TestPrograms ==
  /\ client = "causal_test" => TestCalls = SimpleReadWrite \o FourClients
  /\ client = "linearizable_test" => TestCalls = FourClients
  /\ client = "etag_test" => TestCalls = VersionNumber
  /\ client \in Tests => \A t \in Threads : t # 1 => Program(client)[t] = <<>>
<1>1. Threads = {1, 2, 3} BY ClientsAssumption DEF ClientsAssumption, ClientThreads
<1> QED BY <1>1 DEF TestCalls, Program, Tests

LEMMA TestsPutFirst ==
  ASSUME client \in Tests
  PROVE  PutFirst(TestCalls) /\ Len(TestCalls) \in Nat
<1> DEFINE Get(q, n, m) == q[n].op = "GET" /\ q[m].op = "PUT" /\ q[m].key = q[n].key
<1> USE DEF GetCall, PutCall
<1>1. CASE client = "causal_test"
  <2> DEFINE q == SimpleReadWrite \o FourClients
  <2>1. /\ Len(q) = 13
        /\ q[1] = PutCall("a", 50, 123) /\ q[2] = GetCall("a", 123)
        /\ q[3] = PutCall("b", 100, 123) /\ q[4] = PutCall("c", 150, 123)
        /\ q[5] = GetCall("b", 123) /\ q[6] = GetCall("c", 123)
        /\ CallsOfFourClients(q, 6)
    BY CausalCalls
  <2> HIDE DEF q
  <2>2. /\ q[7] = PutCall("x", 5, 1) /\ q[8] = GetCall("x", 2)
        /\ q[9] = PutCall("x", 10, 2) /\ q[10] = GetCall("x", 3)
        /\ q[11] = GetCall("x", 4) /\ q[12] = GetCall("x", 3) /\ q[13] = GetCall("x", 4)
    BY <2>1 DEF CallsOfFourClients
  <2>3. /\ Get(q, 2, 1) /\ Get(q, 5, 3) /\ Get(q, 6, 4) /\ Get(q, 8, 7) /\ Get(q, 10, 7)
        /\ Get(q, 11, 7) /\ Get(q, 12, 7) /\ Get(q, 13, 7)
        /\ \A n \in {1, 3, 4, 7, 9} : q[n].op = "PUT"
    BY <2>1, <2>2
  <2>4. \A n \in 1 .. 13 : n \in {1, 3, 4, 7, 9} \/ n \in {2, 5, 6, 8, 10, 11, 12, 13} OBVIOUS
  <2>5. ASSUME NEW n \in 1 .. 13, q[n].op = "GET"
        PROVE  \E m \in 1 .. n - 1 : Get(q, n, m)
    <3>1. CASE n = 2 BY <2>3, <3>1
    <3>2. CASE n = 5 BY <2>3, <3>2
    <3>3. CASE n = 6 BY <2>3, <3>3
    <3>4. CASE n \in {8, 10, 11, 12, 13}
      <4>1. Get(q, n, 7) BY <2>3, <3>4
      <4>2. 7 \in 1 .. n - 1 BY <3>4
      <4> QED BY <4>1, <4>2
    <3> QED BY <2>3, <2>4, <2>5, <3>1, <3>2, <3>3, <3>4
  <2>6. PutFirst(q) BY <2>1, <2>5 DEF PutFirst
  <2>7. TestCalls = q BY <1>1, TestPrograms DEF q
  <2> QED BY <2>1, <2>6, <2>7
<1>2. CASE client = "linearizable_test"
  <2> DEFINE q == FourClients
  <2>1. Len(q) = 7 /\ CallsOfFourClients(q, 0) BY LinearizableCalls
  <2> HIDE DEF q
  <2>2. /\ q[1] = PutCall("x", 5, 1) /\ q[2] = GetCall("x", 2)
        /\ q[3] = PutCall("x", 10, 2) /\ q[4] = GetCall("x", 3)
        /\ q[5] = GetCall("x", 4) /\ q[6] = GetCall("x", 3) /\ q[7] = GetCall("x", 4)
    BY <2>1 DEF CallsOfFourClients
  <2>3. /\ Get(q, 2, 1) /\ Get(q, 4, 1) /\ Get(q, 5, 1) /\ Get(q, 6, 1) /\ Get(q, 7, 1)
        /\ \A n \in {1, 3} : q[n].op = "PUT"
    BY <2>2
  <2>4. \A n \in 1 .. 7 : n \in {1, 3} \/ n \in {2, 4, 5, 6, 7} OBVIOUS
  <2>5. ASSUME NEW n \in 1 .. 7, q[n].op = "GET"
        PROVE  \E m \in 1 .. n - 1 : Get(q, n, m)
    <3>1. n \in {2, 4, 5, 6, 7} BY <2>3, <2>4, <2>5
    <3>2. Get(q, n, 1) BY <2>3, <3>1
    <3>3. 1 \in 1 .. n - 1 BY <3>1
    <3> QED BY <3>2, <3>3
  <2>6. PutFirst(q) BY <2>1, <2>5 DEF PutFirst
  <2> QED BY <1>2, <2>1, <2>6, TestPrograms DEF q
<1>3. CASE client = "etag_test"
  <2> DEFINE q == VersionNumber
  <2>1. /\ Len(q) = 4 /\ Get(q, 2, 1) /\ Get(q, 4, 1)
        /\ \A n \in {1, 3} : q[n].op = "PUT"
    BY EtagCalls
  <2> HIDE DEF q
  <2>2. \A n \in 1 .. 4 : n \in {1, 3} \/ n \in {2, 4} OBVIOUS
  <2>3. ASSUME NEW n \in 1 .. 4, q[n].op = "GET"
        PROVE  \E m \in 1 .. n - 1 : Get(q, n, m)
    <3>1. n \in {2, 4} BY <2>1, <2>2, <2>3
    <3>2. Get(q, n, 1) BY <2>1, <3>1
    <3>3. 1 \in 1 .. n - 1 BY <3>1
    <3> QED BY <3>2, <3>3
  <2>4. PutFirst(q) BY <2>1, <2>3 DEF PutFirst
  <2> QED BY <1>3, <2>1, <2>4, TestPrograms DEF q
<1> QED BY <1>1, <1>2, <1>3 DEF Tests

LEMMA TestInit ==
  ASSUME ClientsInit
  PROVE  TestInv
<1> SUFFICES ASSUME client \in Tests PROVE TestInOrder BY DEF TestInv
<1>1. /\ selector = "causal" /\ history = <<>> /\ todo = Program(client)
      /\ \A t \in Threads : pc[t] = "idle"
  BY DEF ClientsInit, Init, Tests
<1>2. 1 \in Threads BY ClientsAssumption DEF ClientsAssumption, ClientThreads
<1>3. Made = 0 /\ DOMAIN history = {} BY <1>1, <1>2 DEF Made
<1>4. todo[1] = TestCalls BY <1>1 DEF TestCalls
<1>5. Len(TestCalls) \in Nat BY TestsPutFirst
<1>6. \A j \in 1 .. Len(todo[1]) : Made + j = j BY <1>3
<1> QED BY <1>1, <1>2, <1>3, <1>4, <1>5, <1>6, TestPrograms DEF TestInOrder

\* The next call is made.
LEMMA TestInvoke ==
  ASSUME StoreInv, TodoOK, client \in Tests, TestInOrder, NEW t \in Threads, Invoke(t)
  PROVE  TestInOrder'
<1>0. TypeOK BY DEF StoreInv
<1>1. t = 1 BY DEF Invoke, TestInOrder
<1>2. /\ todo[1] \in Seq(WellFormedCalls) /\ todo[1] # <<>> /\ pc[1] = "idle"
      /\ todo' = [todo EXCEPT ![1] = Tail(todo[1])] /\ client' = client
  BY <1>1 DEF Invoke, Create, TodoOK
<1>3. PICK call \in WellFormedCalls :
        call = todo[1][1] /\ Create(1, call.session, call.op, call.key, call.value)
  BY <1>1, <1>2 DEF Invoke
<1>4. /\ pc'[1] = "created" /\ history' = history /\ selector' = selector
      /\ tx'[1].op = call.op /\ tx'[1].key = call.key /\ tx'[1].session = call.session
      /\ tx'[1].value = call.value
      /\ \A u \in Threads \ {1} : pc'[u] = pc[u]
  <2> DEFINE x == [id |-> txCount + 1, session |-> call.session, op |-> call.op,
                   key |-> call.key, value |-> call.value, from |-> 0, version |-> 0,
                   by |-> "none"]
  <2>1. /\ x.op = call.op /\ x.key = call.key /\ x.session = call.session
        /\ x.value = call.value
    OBVIOUS
  <2>2. tx' = [tx EXCEPT ![1] = x] BY <1>3 DEF Create
  <2> HIDE DEF x
  <2>3. tx'[1] = x BY <1>0, <1>1, <2>2 DEF TypeOK
  <2>4. pc' = [pc EXCEPT ![1] = "created"] /\ history' = history /\ selector' = selector
    BY <1>3 DEF Create
  <2>5. pc'[1] = "created" /\ \A u \in Threads \ {1} : pc'[u] = pc[u]
    BY <1>0, <1>1, <2>4 DEF TypeOK
  <2> QED BY <2>1, <2>3, <2>4, <2>5
<1>5. Len(history) \in Nat BY <1>0 DEF TypeOK
<1>6. /\ Made = Len(history) /\ Made' = Len(history) + 1
  BY <1>2, <1>4 DEF Made
<1>7. /\ todo'[1] = Tail(todo[1]) /\ \A u \in Threads \ {1} : todo'[u] = todo[u]
  BY <1>1, <1>2 DEF TodoOK
<1>8. PICK n : n = Len(history) OBVIOUS
<1>9. PICK c : c = Len(todo[1]) OBVIOUS
<1>10. c \in Nat /\ c > 0 /\ Len(todo'[1]) = c - 1
         /\ \A j \in 1 .. c - 1 : todo'[1][j] = todo[1][j + 1]
  <2>1. \A S : \A q \in Seq(S) : q # <<>> =>
          /\ Len(q) \in Nat /\ Len(q) > 0 /\ Len(Tail(q)) = Len(q) - 1
          /\ \A j \in 1 .. Len(q) - 1 : Tail(q)[j] = q[j + 1]
    OBVIOUS
  <2>2. PICK r : r = todo[1] OBVIOUS
  <2>3. r \in Seq(WellFormedCalls) /\ r # <<>> BY <1>2, <2>2
  <2>4. /\ Len(r) \in Nat /\ Len(r) > 0 /\ Len(Tail(r)) = Len(r) - 1
        /\ \A j \in 1 .. Len(r) - 1 : Tail(r)[j] = r[j + 1]
    BY <2>1, <2>3
  <2>5. Len(r) = c /\ todo'[1] = Tail(r) BY <1>7, <1>9, <2>2
  <2> QED BY <2>2, <2>4, <2>5
<1>11. TestCalls' = TestCalls BY <1>2 DEF TestCalls
<1>12. c = Len(TestCalls) - n /\ \A j \in 1 .. c : todo[1][j] = TestCalls[n + j]
  BY <1>6, <1>8, <1>9 DEF TestInOrder
<1>13. Len(TestCalls) \in Nat BY TestsPutFirst
<1>14. Len(todo'[1]) = Len(TestCalls) - (n + 1)
  BY <1>5, <1>8, <1>10, <1>12, <1>13
<1>15. ASSUME NEW j \in 1 .. c - 1 PROVE todo'[1][j] = TestCalls[(n + 1) + j]
  <2>1. j + 1 \in 1 .. c /\ n + (j + 1) = (n + 1) + j BY <1>5, <1>8, <1>10
  <2> QED BY <1>10, <1>12, <2>1
<1>16. TestCalls[n + 1] = call
  <2>1. 1 \in 1 .. c BY <1>10
  <2> QED BY <1>3, <1>12, <2>1
<1>17. Makes(tx'[1], TestCalls[n + 1]) BY <1>4, <1>16 DEF Makes
<1> QED
  BY <1>1, <1>4, <1>6, <1>7, <1>8, <1>10, <1>11, <1>14, <1>15, <1>17 DEF TestInOrder

\* No GET of a test is of an absent key.
LEMMA TestKeyPresent ==
  ASSUME StoreInv, TodoOK, client \in Tests, TestInOrder, pc[1] # "idle", tx[1].op = "GET"
  PROVE  kvMap[tx[1].key] # <<>>
<1>1. 1 \in Threads BY ClientsAssumption DEF ClientsAssumption, ClientThreads
<1>2. tx[1] \in Transactions BY <1>1 DEF StoreInv, TypeOK
<1>3. PICK n : n = Len(history) + 1 OBVIOUS
<1>4. PICK q : q = TestCalls OBVIOUS
<1>5. /\ Makes(tx[1], q[n]) /\ Len(todo[1]) = Len(q) - n
      /\ \A m \in DOMAIN history : Makes(history[m], q[m])
  BY <1>3, <1>4 DEF TestInOrder, Made
<1>6. Len(todo[1]) \in Nat BY <1>1 DEF TodoOK
<1>7. Len(history) \in Nat /\ DOMAIN history = 1 .. Len(history) BY DEF StoreInv, TypeOK
<1>8. PutFirst(q) /\ Len(q) \in Nat BY <1>4, TestsPutFirst
<1>9. n \in 1 .. Len(q) BY <1>3, <1>5, <1>6, <1>7, <1>8
<1>10. q[n].op = "GET" /\ q[n].key = tx[1].key BY <1>5 DEF Makes
<1>11. PICK m \in 1 .. n - 1 : q[m].op = "PUT" /\ q[m].key = q[n].key
  BY <1>8, <1>9, <1>10 DEF PutFirst
<1>12. m \in DOMAIN history BY <1>3, <1>7, <1>11
<1>13. history[m].key = tx[1].key BY <1>5, <1>10, <1>11, <1>12 DEF Makes
<1>14. \E i : i \in DOMAIN kvMap[tx[1].key]
  BY <1>12, <1>13 DEF StoreInv, TransactionsTouch
<1> QED BY <1>14

\* The call in progress is committed.
LEMMA TestCommit ==
  ASSUME StoreInv, TestInOrder, NEW x \in Transactions, Commit(x),
         pc[1] # "idle", Makes(x, TestCalls[Made]),
         pc' = [pc EXCEPT ![1] = "idle"],
         UNCHANGED <<selector, client, todo>>
  PROVE  TestInOrder'
<1>0. TypeOK BY DEF StoreInv
<1>1. 1 \in Threads BY ClientsAssumption DEF ClientsAssumption, ClientThreads
<1>2. pc'[1] = "idle" /\ \A u \in Threads \ {1} : pc'[u] = pc[u]
  BY <1>0, <1>1 DEF TypeOK
<1>3. PICK last : last = Len(history) + 1 OBVIOUS
<1>4. /\ DOMAIN history' = DOMAIN history \cup {last} /\ history'[last] = x
      /\ \A n \in DOMAIN history : history'[n] = history[n]
  BY <1>0, <1>3, CommitExtends
<1>5. Len(history') = last BY <1>0, <1>3 DEF Commit, TypeOK
<1>6. Made = last /\ Made' = last BY <1>2, <1>3, <1>5 DEF Made
<1>7. TestCalls' = TestCalls BY DEF TestCalls
<1>8. Makes(x, TestCalls[last]) BY <1>6
<1>9. \A n \in DOMAIN history' : Makes(history'[n], TestCalls[n])
  BY <1>4, <1>8 DEF TestInOrder
<1> QED BY <1>2, <1>6, <1>7, <1>9 DEF TestInOrder

\* The call in progress goes on: its GET always finds a version to return.
LEMMA TestProceed ==
  ASSUME StoreInv, TodoOK, client \in Tests, TestInOrder, NEW t \in Threads, Proceed(t)
  PROVE  TestInOrder'
<1>0. TypeOK BY DEF StoreInv
<1>1. t = 1 /\ pc[1] # "idle"
  BY DEF Proceed, ThreadStep, Lock, GetNotFound, GetPresent, PutLocked, TestInOrder
<1>2. 1 \in Threads /\ tx[1] \in Transactions BY <1>0, <1>1 DEF TypeOK
<1>3. client' = client /\ todo' = todo BY DEF Proceed, clientVars
<1>4. TestCalls' = TestCalls BY <1>3 DEF TestCalls
<1>5. PICK c : c = TestCalls[Made] OBVIOUS
<1>6. Makes(tx[1], c) BY <1>1, <1>5 DEF TestInOrder
<1>7. CASE Lock(1)
  <2>1. /\ pc'[1] = "locked" /\ UNCHANGED <<tx, history, selector>>
        /\ \A u \in Threads \ {1} : pc'[u] = pc[u]
    BY <1>0, <1>2, <1>7 DEF Lock, TypeOK
  <2>2. Made' = Made BY <1>1, <2>1 DEF Made
  <2> QED BY <1>1, <1>3, <1>4, <2>1, <2>2 DEF TestInOrder
<1>8. CASE GetNotFound(1)
  BY <1>1, <1>8, TestKeyPresent DEF GetNotFound
<1>9. CASE GetPresent(1)
  <2>1. /\ tx[1].op = "GET" /\ kvMap[tx[1].key] # <<>> /\ selector' = selector
        /\ pc' = [pc EXCEPT ![1] = "idle"]
        /\ LET choices == Choices(selector, tx[1].session, tx[1].key)
           IN IF choices = {} THEN UNCHANGED <<history, sessionOrder>>
              ELSE \E i \in choices : Commit(Answered(tx[1], i))
    BY <1>9 DEF GetPresent, Unlock
  <2>2. Choices(selector, tx[1].session, tx[1].key) # {}
    <3>1. tx[1].session \in Sessions /\ tx[1].key \in Keys /\ selector \in Selectors
      BY <1>0, <1>2 DEF TypeOK, Transactions
    <3> QED BY <2>1, <3>1, SelectorsAnswer DEF NoConsistencyException
  <2>3. PICK i \in Choices(selector, tx[1].session, tx[1].key) : Commit(Answered(tx[1], i))
    BY <2>1, <2>2
  <2>4. i \in DOMAIN kvMap[tx[1].key] BY <1>0, KVAssumption, ChoicesAreVersions DEF TypeOK
  <2>5. Answered(tx[1], i) \in Transactions BY <1>0, <1>2, <2>4, KVAssumption, AnsweredType
  <2>6. /\ Answered(tx[1], i).session = tx[1].session /\ Answered(tx[1], i).key = tx[1].key
        /\ Answered(tx[1], i).op = "GET"
    BY <1>2, <2>1, AnsweredFields
  <2>7. Makes(Answered(tx[1], i), c) BY <1>6, <2>1, <2>6 DEF Makes
  <2> QED BY <1>1, <1>3, <1>5, <2>1, <2>3, <2>5, <2>7, TestCommit
<1>10. CASE PutLocked(1)
  <2>1. Commit(tx[1]) /\ pc' = [pc EXCEPT ![1] = "idle"] /\ selector' = selector
    BY <1>10 DEF PutLocked, Unlock
  <2> QED BY <1>1, <1>2, <1>3, <1>5, <1>6, <2>1, TestCommit
<1> QED BY <1>1, <1>7, <1>8, <1>9, <1>10 DEF Proceed, ThreadStep

LEMMA TestStep ==
  ASSUME StoreInv, TodoOK, TestInv, [ClientsNext]_allVars
  PROVE  TestInv'
<1>1. client' = client
  BY DEF ClientsNext, Invoke, Proceed, clientVars, allVars
<1> SUFFICES ASSUME client \in Tests PROVE TestInOrder' BY <1>1 DEF TestInv
<1>2. TestInOrder BY DEF TestInv
<1>3. CASE UNCHANGED allVars
  BY <1>2, <1>3 DEF allVars, vars, clientVars, TestInOrder, Made, TestCalls
<1> QED BY <1>2, <1>3, TestInvoke, TestProceed DEF ClientsNext

\* What holds of the history of a test at its end.
HistoryIs(q) ==
  /\ DOMAIN history = 1 .. Len(q)
  /\ \A n \in 1 .. Len(q) : Makes(history[n], q[n])

LEMMA AtEnd ==
  ASSUME StoreInv, TestInv, client \in Tests, Ended
  PROVE  HistoryIs(TestCalls)
<1>1. 1 \in Threads BY ClientsAssumption DEF ClientsAssumption, ClientThreads
<1>2. todo[1] = <<>> /\ pc[1] = "idle" BY <1>1 DEF Ended
<1>3. TestInOrder BY DEF TestInv
<1>4. 0 = Len(TestCalls) - Len(history) BY <1>2, <1>3 DEF TestInOrder, Made
<1>5. Len(TestCalls) \in Nat BY TestsPutFirst
<1>6. Len(history) \in Nat /\ DOMAIN history = 1 .. Len(history) BY DEF StoreInv, TypeOK
<1>7. Len(history) = Len(TestCalls) BY <1>4, <1>5, <1>6
<1> QED BY <1>3, <1>6, <1>7 DEF HistoryIs, TestInOrder

\* A GET of a test returns the value of an earlier PUT of its key.
LEMMA GetReturns ==
  ASSUME StoreInv, GetsReturnPuts, NEW q, HistoryIs(q), NEW n \in 1 .. Len(q), q[n].op = "GET"
  PROVE  \E m : /\ ReadsFrom(n, m) /\ m \in 1 .. Len(q) /\ m < n
                /\ q[m].op = "PUT" /\ q[m].key = q[n].key
                /\ history[n].value = q[m].value
<1>1. history[n].op = "GET" /\ n \in DOMAIN history /\ history[n].key = q[n].key
  BY DEF HistoryIs, Makes
<1>2. PICK m : ReadsFrom(n, m) BY <1>1 DEF GetsReturnPuts
<1>3. /\ m \in DOMAIN history /\ m < n /\ history[m].op = "PUT"
      /\ history[m].key = history[n].key /\ history[m].value = history[n].value
  BY <1>2 DEF ReadsFrom
<1>4. m \in 1 .. Len(q) /\ Makes(history[m], q[m]) BY <1>3 DEF HistoryIs
<1> QED BY <1>1, <1>2, <1>3, <1>4 DEF Makes

\* The four clients: only the first two put x, the second after it has read 5.
LEMMA FourClientsPass ==
  ASSUME StoreInv, ViewsAgree, GetsReturnPuts, NEW q, HistoryIs(q),
         NEW d \in Nat, Len(q) = d + 7, CallsOfFourClients(q, d),
         \A m \in 1 .. d : q[m].key # "x"
  PROVE  /\ history[d + 2].value = 5
         /\ history[d + 4].value = 10 => history[d + 6].value # 5
         /\ history[d + 5].value = 10 => history[d + 7].value # 5
<1> USE DEF GetCall, PutCall
<1>1. \A i \in 1 .. 7 : d + i \in 1 .. Len(q) OBVIOUS
<1>2. /\ q[d + 1].op = "PUT" /\ q[d + 1].value = 5 /\ q[d + 3].op = "PUT" /\ q[d + 3].value = 10
      /\ \A i \in {2, 4, 5, 6, 7} : q[d + i].op = "GET" /\ q[d + i].key = "x"
      /\ q[d + 4].session = 3 /\ q[d + 6].session = 3
      /\ q[d + 5].session = 4 /\ q[d + 7].session = 4
  BY DEF CallsOfFourClients
<1>3. ASSUME NEW i \in {2, 4, 5, 6, 7}
      PROVE  /\ d + i \in DOMAIN history /\ history[d + i].op = "GET"
             /\ history[d + i].key = "x" /\ history[d + i].session = q[d + i].session
             /\ \E m : /\ ReadsFrom(d + i, m)
                       /\ \/ m = d + 1 /\ history[d + i].value = 5
                          \/ m = d + 3 /\ history[d + i].value = 10
                       /\ m < d + i
  <2>1. PICK n : n = d + i OBVIOUS
  <2>2. n \in 1 .. Len(q) /\ q[n].op = "GET" /\ q[n].key = "x"
    <3>1. q[d + i].op = "GET" /\ q[d + i].key = "x" BY <1>2
    <3>2. d + i \in 1 .. Len(q) OBVIOUS
    <3> QED BY <2>1, <3>1, <3>2
  <2>3. n \in DOMAIN history /\ Makes(history[n], q[n]) BY <2>2 DEF HistoryIs
  <2>4. PICK m : /\ ReadsFrom(n, m) /\ m \in 1 .. Len(q) /\ m < n
                 /\ q[m].op = "PUT" /\ q[m].key = q[n].key
                 /\ history[n].value = q[m].value
    BY <2>2, GetReturns
  <2>5. m \in 1 .. d + 7 /\ m \notin 1 .. d BY <2>2, <2>4
  <2>6. \A p \in 1 .. d + 7 : p \notin 1 .. d => \E j \in 1 .. 7 : p = d + j
    <3> SUFFICES ASSUME NEW p \in 1 .. d + 7, p \notin 1 .. d PROVE \E j \in 1 .. 7 : p = d + j
      OBVIOUS
    <3>1. p - d \in 1 .. 7 /\ p = d + (p - d) OBVIOUS
    <3> QED BY <3>1
  <2>7. PICK j \in 1 .. 7 : m = d + j BY <2>5, <2>6
  <2>8. j \in {1, 3}
    <3>1. j \notin {2, 4, 5, 6, 7} BY <1>2, <2>4, <2>7
    <3> QED BY <3>1
  <2>9. \/ m = d + 1 /\ history[n].value = 5
        \/ m = d + 3 /\ history[n].value = 10
    BY <1>2, <2>4, <2>7, <2>8
  <2> QED BY <2>1, <2>2, <2>3, <2>4, <2>9 DEF Makes
<1>4. history[d + 2].value = 5
  <2>1. PICK m : /\ \/ m = d + 1 /\ history[d + 2].value = 5
                    \/ m = d + 3 /\ history[d + 2].value = 10
                 /\ m < d + 2
    BY <1>3
  <2> QED BY <2>1
<1>5. ASSUME NEW i \in {4, 5}, history[d + i].value = 10, history[d + (i + 2)].value = 5,
             history[d + i].session = history[d + (i + 2)].session
      PROVE  FALSE
  <2>1. i + 2 \in {2, 4, 5, 6, 7} /\ i \in {2, 4, 5, 6, 7} /\ d + i < d + (i + 2) OBVIOUS
  <2>2. PICK m : /\ ReadsFrom(d + i, m)
                 /\ \/ m = d + 1 /\ history[d + i].value = 5
                    \/ m = d + 3 /\ history[d + i].value = 10
    BY <1>3, <2>1
  <2>3. PICK n : /\ ReadsFrom(d + (i + 2), n)
                 /\ \/ n = d + 1 /\ history[d + (i + 2)].value = 5
                    \/ n = d + 3 /\ history[d + (i + 2)].value = 10
    BY <1>3, <2>1
  <2>4. m = d + 3 /\ n = d + 1 BY <1>5, <2>2, <2>3
  <2>5. /\ d + i \in DOMAIN history /\ d + (i + 2) \in DOMAIN history
        /\ history[d + i].op = "GET" /\ history[d + (i + 2)].op = "GET"
        /\ history[d + i].key = history[d + (i + 2)].key
    BY <1>3, <2>1
  <2>6. m <= n BY <1>5, <2>1, <2>2, <2>3, <2>5, ReadsGoForward
  <2> QED BY <2>4, <2>6
<1>6. history[d + 4].session = history[d + 6].session
        /\ history[d + 5].session = history[d + 7].session
  BY <1>2, <1>3
<1>7. 4 + 2 = 6 /\ 5 + 2 = 7 OBVIOUS
<1> QED BY <1>4, <1>5, <1>6, <1>7

\* What the tests assert of the four clients, whose calls come after the first d.
FourPass(d) ==
  /\ history[d + 2].value = 5
  /\ history[d + 4].value = 10 => history[d + 6].value # 5
  /\ history[d + 5].value = 10 => history[d + 7].value # 5

LEMMA CausalTestPasses ==
  ASSUME StoreInv, ViewsAgree, GetsReturnPuts, TestInv, client = "causal_test", Ended
  PROVE  /\ <<history[2].value, history[5].value, history[6].value>> = <<50, 100, 150>>
         /\ FourPass(6)
<1> USE DEF GetCall, PutCall
<1>1. PICK q : q = TestCalls OBVIOUS
<1>2. /\ Len(q) = 13 /\ CallsOfFourClients(q, 6)
      /\ q[1] = PutCall("a", 50, 123) /\ q[2] = GetCall("a", 123)
      /\ q[3] = PutCall("b", 100, 123) /\ q[4] = PutCall("c", 150, 123)
      /\ q[5] = GetCall("b", 123) /\ q[6] = GetCall("c", 123)
  BY <1>1, TestPrograms, CausalCalls
<1>3. HistoryIs(q) BY <1>1, AtEnd DEF Tests
<1>4. \A m \in 1 .. 6 : q[m].key # "x"
  <2>1. \A m \in 1 .. 6 : m \in {1, 2, 3, 4, 5, 6} OBVIOUS
  <2> QED BY <1>2, <2>1
<1>5. FourPass(6)
  <2>1. Len(q) = 6 + 7 /\ 6 \in Nat BY <1>2
  <2> QED BY <1>2, <1>3, <1>4, <2>1, FourClientsPass DEF FourPass
<1>6. ASSUME NEW n \in {2, 5, 6}
      PROVE  \E m \in {1, 2, 3, 4, 5} : /\ q[m].op = "PUT" /\ q[m].key = q[n].key
                                        /\ history[n].value = q[m].value
  <2>1. n \in 1 .. Len(q) /\ q[n].op = "GET" BY <1>2
  <2>2. PICK m : /\ m \in 1 .. Len(q) /\ m < n /\ q[m].op = "PUT" /\ q[m].key = q[n].key
                 /\ history[n].value = q[m].value
    BY <1>3, <2>1, GetReturns
  <2>3. m \in {1, 2, 3, 4, 5} BY <1>2, <2>2
  <2> QED BY <2>2, <2>3
<1>7. history[2].value = 50
  <2>1. PICK m \in {1, 2, 3, 4, 5} : /\ q[m].op = "PUT" /\ q[m].key = "a"
                                     /\ history[2].value = q[m].value
    BY <1>2, <1>6
  <2> QED BY <1>2, <2>1
<1>8. history[5].value = 100
  <2>1. PICK m \in {1, 2, 3, 4, 5} : /\ q[m].op = "PUT" /\ q[m].key = "b"
                                     /\ history[5].value = q[m].value
    BY <1>2, <1>6
  <2> QED BY <1>2, <2>1
<1>9. history[6].value = 150
  <2>1. PICK m \in {1, 2, 3, 4, 5} : /\ q[m].op = "PUT" /\ q[m].key = "c"
                                     /\ history[6].value = q[m].value
    BY <1>2, <1>6
  <2> QED BY <1>2, <2>1
<1> QED BY <1>5, <1>7, <1>8, <1>9

LEMMA LinearizableTestPasses ==
  ASSUME StoreInv, ViewsAgree, GetsReturnPuts, TestInv, client = "linearizable_test", Ended
  PROVE  FourPass(0)
<1>1. PICK q : q = TestCalls OBVIOUS
<1>2. Len(q) = 0 + 7 /\ CallsOfFourClients(q, 0) BY <1>1, TestPrograms, LinearizableCalls
<1>3. HistoryIs(q) BY <1>1, AtEnd DEF Tests
<1>4. \A m \in 1 .. 0 : q[m].key # "x" OBVIOUS
<1> QED BY <1>2, <1>3, <1>4, FourClientsPass DEF FourPass

\* The key is put twice: the number of a version is 1 with the first value and 2
\* with the second.
LEMMA EtagTestPasses ==
  ASSUME StoreInv, ViewsAgree, VersionNumberStable, GetsReturnPuts, TestInv,
         client = "etag_test", Ended
  PROVE  /\ history[2].value = 50 /\ history[2].version = 1
         /\ \/ history[4].value = 50 /\ history[4].version = 1
            \/ history[4].value = 100 /\ history[4].version = 2
<1>1. PICK q : q = TestCalls OBVIOUS
<1>2. Len(q) = 4 /\ HistoryIs(q) BY <1>1, TestPrograms, EtagCalls, AtEnd DEF Tests
<1>3. /\ q[1] = PutCall("key1", 50, 123) /\ q[3] = PutCall("key1", 100, 345)
      /\ q[2] = GetCall("key1", DefaultSession) /\ q[4] = GetCall("key1", DefaultSession)
  BY <1>1, TestPrograms, EtagCalls
<1>4. /\ q[1].op = "PUT" /\ q[1].value = 50 /\ q[3].op = "PUT" /\ q[3].value = 100
      /\ q[2].op = "GET" /\ q[4].op = "GET" /\ \A n \in {1, 2, 3, 4} : q[n].key = "key1"
  BY <1>3 DEF GetCall, PutCall
<1>5. DOMAIN history = {1, 2, 3, 4}
        /\ \A n \in {1, 2, 3, 4} : history[n].op = q[n].op /\ history[n].key = q[n].key
  BY <1>2 DEF HistoryIs, Makes
<1>6. PutsOf("key1") = {1, 3} BY <1>4, <1>5 DEF PutsOf
<1>7. Rank(1, {1, 3}) = 1
  <2>1. {m \in {1, 3} : m <= 1} = {1} OBVIOUS
  <2> QED BY <2>1, FS_Singleton DEF Rank
<1>8. Rank(3, {1, 3}) = 2
  <2>1. {m \in {1, 3} : m <= 3} = {1} \cup {3} OBVIOUS
  <2>2. Cardinality({1}) = 1 /\ IsFiniteSet({1}) BY FS_Singleton
  <2>3. Cardinality({1} \cup {3}) = 2 BY <2>2, FS_AddElement
  <2> QED BY <2>1, <2>3 DEF Rank
<1>9. ASSUME NEW n \in {2, 4}
      PROVE  \E m \in {1, 3} : /\ m < n /\ history[n].value = q[m].value
                               /\ history[n].version = Rank(m, {1, 3})
  <2>1. n \in 1 .. Len(q) /\ q[n].op = "GET" BY <1>2, <1>4
  <2>2. PICK m : /\ ReadsFrom(n, m) /\ m \in 1 .. Len(q) /\ m < n /\ q[m].op = "PUT"
                 /\ history[n].value = q[m].value
    BY <1>2, <2>1, GetReturns
  <2>3. m \in {1, 3} BY <1>2, <1>4, <2>2
  <2>4. n \in DOMAIN history /\ history[n].op = "GET" /\ history[n].key = "key1"
    BY <1>4, <1>5
  <2>5. history[n].version = Rank(m, {1, 3}) BY <1>6, <2>2, <2>4, VersionCounts
  <2> QED BY <2>2, <2>3, <2>5
<1>10. history[2].value = 50 /\ history[2].version = 1
  <2>1. PICK m \in {1, 3} : /\ m < 2 /\ history[2].value = q[m].value
                            /\ history[2].version = Rank(m, {1, 3})
    BY <1>9
  <2> QED BY <1>4, <1>7, <2>1
<1>11. \/ history[4].value = 50 /\ history[4].version = 1
       \/ history[4].value = 100 /\ history[4].version = 2
  <2>1. PICK m \in {1, 3} : /\ history[4].value = q[m].value
                            /\ history[4].version = Rank(m, {1, 3})
    BY <1>9
  <2> QED BY <1>4, <1>7, <1>8, <2>1
<1> QED BY <1>10, <1>11

LEMMA PassAtEnd ==
  ASSUME StoreInv, ViewsAgree, VersionNumberStable, GetsReturnPuts, TestInv
  PROVE  TestsPass
<1> SUFFICES ASSUME Ended PROVE TestsPass BY DEF TestsPass
<1>1. ASSUME client = "causal_test"
      PROVE  /\ <<history[2].value, history[5].value, history[6].value>> = <<50, 100, 150>>
             /\ FourPass(Len(SimpleReadWrite))
  BY <1>1, CausalTestPasses, CausalCalls
<1>2. ASSUME client = "linearizable_test" PROVE FourPass(0)
  BY <1>2, LinearizableTestPasses
<1>3. ASSUME client = "etag_test"
      PROVE  /\ <<history[2].value, history[2].version>> = <<50, 1>>
             /\ <<history[4].value, history[4].version>> \in {<<50, 1>>, <<100, 2>>}
  BY <1>3, EtagTestPasses
<1> QED BY <1>1, <1>2, <1>3 DEF TestsPass, Result, FourPass

\* The assertions of src/test hold whatever versions the causal selector chooses: a
\* test that puts before it reads gets what it put, clients that have read 10 do not
\* read 5 again, and a version comes with the number that counts the PUTs of its key.
THEOREM TestsAlwaysPass == ClientsSpec => []TestsPass
<1>1. Spec => []GetsReturnPuts BY ReadsReturnPuts
<1>2. Spec => []ViewsAgree BY ViewsInit, ViewsStep, StoreInvariant, PTL DEF Spec
<1>3. ClientsSpec => [](StoreInv /\ ViewsAgree /\ VersionNumberStable /\ GetsReturnPuts)
  BY <1>1, <1>2, ClientsRunTheStore, StoreInvariant, VersionNumbersStable, PTL
<1>4. ClientsSpec => []TestInv
  <2>1. ClientsInit => TestInv BY TestInit
  <2>2. StoreInv /\ TodoOK /\ TestInv /\ [ClientsNext]_allVars => TestInv' BY TestStep
  <2> QED BY <1>3, <2>1, <2>2, ClientsTodo, PTL DEF ClientsSpec
<1>5. StoreInv /\ ViewsAgree /\ VersionNumberStable /\ GetsReturnPuts /\ TestInv => TestsPass
  BY PassAtEnd
<1> QED BY <1>3, <1>4, <1>5, PTL
=============================================================================
