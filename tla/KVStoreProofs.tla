---------------------------- MODULE KVStoreProofs ----------------------------
(***************************************************************************)
(* Proofs about KVStore for every number of keys, sessions and threads.    *)
(***************************************************************************)
EXTENDS KVStoreProps, FiniteSetTheorems, TLAPS

LEMMA AppendExtends ==
  ASSUME NEW S, NEW q \in Seq(S), NEW e \in S
  PROVE  /\ DOMAIN Append(q, e) = DOMAIN q \cup {Len(q) + 1}
         /\ Append(q, e)[Len(q) + 1] = e
         /\ \A i \in DOMAIN q : Append(q, e)[i] = q[i] /\ i <= Len(q) + 1
  OBVIOUS

\* The transaction a call creates, and the one a GET commits, are transactions.
LEMMA NewTransaction ==
  ASSUME NEW s \in Sessions, NEW k \in Keys, NEW op \in {"GET", "PUT"},
         NEW v \in Values \cup {NoValue}, NEW n \in Nat
  PROVE  [id |-> n, session |-> s, op |-> op, key |-> k, value |-> v, from |-> 0,
          version |-> 0, by |-> "none"] \in Transactions
  BY DEF Transactions

LEMMA AnsweredType ==
  ASSUME KVAssumption, TypeOK, NEW x \in Transactions, NEW i \in DOMAIN kvMap[x.key]
  PROVE  Answered(x, i) \in Transactions
<1>1. x.key \in Keys /\ kvMap[x.key] \in Seq(Versions) BY DEF TypeOK, Transactions
<1>2. kvMap[x.key][i] \in Versions /\ i \in Nat BY <1>1
<1> DEFINE v == kvMap[x.key][i].value
           f == kvMap[x.key][i].tx
<1>3. v \in Values /\ f \in Nat BY <1>2 DEF Versions
<1>4. selector \in SelectorNames BY DEF TypeOK, KVAssumption
<1>5. Answered(x, i) = [x EXCEPT !.value = v, !.from = f, !.version = i, !.by = selector]
  BY DEF Answered
<1> HIDE DEF v, f
<1> QED BY <1>2, <1>3, <1>4, <1>5 DEF Transactions

LEMMA AnsweredFields ==
  ASSUME NEW x \in Transactions, NEW i
  PROVE  LET y == Answered(x, i)
         IN /\ y.id = x.id /\ y.session = x.session /\ y.op = x.op /\ y.key = x.key
            /\ y.value = kvMap[x.key][i].value /\ y.from = kvMap[x.key][i].tx
            /\ y.version = i /\ y.by = selector
<1> DEFINE v == kvMap[x.key][i].value
           f == kvMap[x.key][i].tx
<1>5. Answered(x, i) = [x EXCEPT !.value = v, !.from = f, !.version = i, !.by = selector]
  BY DEF Answered
<1> HIDE DEF v, f
<1>6. LET y == Answered(x, i)
      IN /\ y.id = x.id /\ y.session = x.session /\ y.op = x.op /\ y.key = x.key
         /\ y.value = v /\ y.from = f /\ y.version = i /\ y.by = selector
  BY <1>5 DEF Transactions
<1> QED BY <1>6 DEF v, f

\* Every choice of every selector is a candidate, a version of the key.
LEMMA ChoicesAreVersions ==
  ASSUME KVAssumption, NEW sel \in Selectors, NEW s, NEW k
  PROVE  Choices(sel, s, k) \subseteq DOMAIN kvMap[k]
  BY DEF Choices, CausalChoices, LinearChoices, KCausalChoices, KVAssumption, SelectorNames

LEMMA TypeInit == Init => TypeOK
<1> SUFFICES ASSUME Init PROVE TypeOK OBVIOUS
<1>1. kReadIds \in SUBSET (1 .. TotalReads) BY DEF Init
<1> QED BY <1>1 DEF Init, TypeOK

LEMMA TypeStep == TypeOK /\ [Next]_vars => TypeOK'
<1> SUFFICES ASSUME TypeOK, [Next]_vars PROVE TypeOK' OBVIOUS
<1> USE KVAssumption
<1>1. ASSUME NEW t \in Threads, NEW s \in Sessions, NEW k \in Keys,
             NEW op \in {"GET", "PUT"}, NEW v \in Values \cup {NoValue},
             op = "PUT" => v \in Values, Create(t, s, op, k, v)
      PROVE TypeOK'
  <2> DEFINE new == [id |-> txCount + 1, session |-> s, op |-> op, key |-> k, value |-> v,
                     from |-> 0, version |-> 0, by |-> "none"]
  <2>0. txCount + 1 \in Nat BY DEF TypeOK
  <2>1. new \in Transactions BY <2>0, NewTransaction
  <2>2. tx' = [tx EXCEPT ![t] = new] BY <1>1 DEF Create
  <2>3. new.op = op /\ new.value = v OBVIOUS
  <2> HIDE DEF new
  <2>4. tx' \in [Threads -> Transactions \cup {NoTx}] BY <2>1, <2>2 DEF TypeOK
  <2>5. pc' \in [Threads -> {"idle", "created", "locked"}] BY <1>1 DEF Create, TypeOK
  <2>6. \A u \in Threads : pc'[u] # "idle" =>
          tx'[u] \in Transactions /\ (tx'[u].op = "PUT" => tx'[u].value \in Values)
    BY <1>1, <2>1, <2>2, <2>3 DEF Create, TypeOK
  <2>7. txCount' \in Nat /\ UNCHANGED <<mtx, kvMap, history, sessionOrder, selector,
                                          readCount, kReadIds>>
    BY <1>1, <2>0 DEF Create
  <2> QED BY <2>4, <2>5, <2>6, <2>7 DEF TypeOK
<1>2. ASSUME NEW t \in Threads, Lock(t) PROVE TypeOK'
  BY <1>2 DEF Lock, TypeOK
<1>3. ASSUME NEW t \in Threads, Unlock(t)
      PROVE /\ mtx' \in Threads \cup {NoThread}
            /\ pc' \in [Threads -> {"idle", "created", "locked"}]
            /\ tx' \in [Threads -> Transactions \cup {NoTx}]
            /\ \A u \in Threads : pc'[u] # "idle" =>
                 tx'[u] \in Transactions /\ (tx'[u].op = "PUT" => tx'[u].value \in Values)
  BY <1>3 DEF Unlock, TypeOK
<1>4. ASSUME NEW x \in Transactions, Commit(x)
      PROVE history' \in Seq(Transactions) /\ sessionOrder' \in [Sessions -> Seq(Transactions)]
  <2>1. x.session \in Sessions BY DEF Transactions
  <2>2. Append(history, x) \in Seq(Transactions) BY DEF TypeOK
  <2>3. Append(sessionOrder[x.session], x) \in Seq(Transactions) BY <2>1 DEF TypeOK
  <2> QED BY <1>4, <2>1, <2>2, <2>3 DEF Commit, TypeOK
<1>5. ASSUME NEW t \in Threads, GetNotFound(t) PROVE TypeOK'
  BY <1>5, <1>3 DEF GetNotFound, TypeOK
<1>6. ASSUME NEW t \in Threads, GetPresent(t) PROVE TypeOK'
  <2>1. tx[t] \in Transactions BY <1>6 DEF GetPresent, TypeOK
  <2>2. history' \in Seq(Transactions) /\ sessionOrder' \in [Sessions -> Seq(Transactions)]
    <3>1. CASE Choices(selector, tx[t].session, tx[t].key) = {}
      BY <3>1, <1>6 DEF GetPresent, TypeOK
    <3>2. CASE Choices(selector, tx[t].session, tx[t].key) # {}
      <4>1. PICK i \in Choices(selector, tx[t].session, tx[t].key) :
              Commit(Answered(tx[t], i))
        BY <3>2, <1>6 DEF GetPresent
      <4>2. i \in DOMAIN kvMap[tx[t].key] BY ChoicesAreVersions DEF TypeOK
      <4> QED BY <4>1, <4>2, <2>1, <1>4, AnsweredType
    <3> QED BY <3>1, <3>2
  <2> QED BY <1>6, <1>3, <2>2 DEF GetPresent, TypeOK
<1>7. ASSUME NEW t \in Threads, PutLocked(t) PROVE TypeOK'
  <2> DEFINE x == tx[t]
  <2>1. x \in Transactions /\ x.value \in Values BY <1>7 DEF PutLocked, TypeOK
  <2>2. x.key \in Keys /\ [value |-> x.value, tx |-> x.id] \in Versions
    BY <2>1 DEF Transactions, Versions
  <2>3. Append(kvMap[x.key], [value |-> x.value, tx |-> x.id]) \in Seq(Versions)
    BY <2>2 DEF TypeOK
  <2>4. kvMap' \in [Keys -> Seq(Versions)] BY <1>7, <2>2, <2>3 DEF PutLocked, TypeOK
  <2> QED BY <1>7, <1>3, <1>4, <2>1, <2>4 DEF PutLocked, TypeOK
<1>8. ASSUME NEW sel \in Selectors, SetSelector(sel) PROVE TypeOK'
  BY <1>8 DEF SetSelector, TypeOK
<1>9. CASE UNCHANGED vars BY <1>9 DEF vars, TypeOK
<1> QED BY <1>1, <1>2, <1>5, <1>6, <1>7, <1>8, <1>9
        DEF Next, ThreadStep, StartGet, StartPut

\* Every variable keeps its type: no call stores a value, an id or a session
\* outside what the store's containers hold.
THEOREM TypeCorrect == Spec => []TypeOK
<1> QED BY TypeInit, TypeStep, PTL DEF Spec
-----------------------------------------------------------------------------
(* What the checker computes *)

\* Counting the dependents in a prefix of the history finds them all exactly
\* when each of them is in the prefix (consistency_checker.h:69-80).
LEMMA CountFindsAll ==
  ASSUME TypeOK, IdsUnique, NEW n \in DOMAIN history, NEW D, IsFiniteSet(D)
  PROVE  CommittedCount(n, D) = Cardinality(D)
           <=> \A d \in D : \E m \in 1 .. n : history[m].id = d
<1> DEFINE S == {m \in 1 .. n : history[m].id \in D}
           f == [m \in S |-> history[m].id]
<1>1. n \in Nat /\ 1 .. n \subseteq DOMAIN history BY DEF TypeOK
<1>2. f \in Injection(S, D)
  <2>1. f \in [S -> D] OBVIOUS
  <2>2. \A a, b \in S : f[a] = f[b] => a = b BY <1>1 DEF IdsUnique
  <2> QED BY <2>1, <2>2 DEF Injection, IsInjective
<1>3. Cardinality(S) = Cardinality(D) <=> f \in Surjection(S, D) BY <1>2, FS_Injection
<1>4. f \in Surjection(S, D) <=> \A d \in D : \E m \in S : f[m] = d
  BY <1>2 DEF Surjection, Injection
<1>5. (\A d \in D : \E m \in S : f[m] = d) <=> \A d \in D : \E m \in 1 .. n : history[m].id = d
  OBVIOUS
<1> QED BY <1>3, <1>4, <1>5 DEF CommittedCount

LEMMA DependentsFinite ==
  ASSUME TypeOK, NEW s \in Sessions, NEW k \in Keys
  PROVE  IsFiniteSet(DependentTxs(s, k))
<1> DEFINE onKey == {a \in DOMAIN sessionOrder[s] : sessionOrder[s][a].key = k}
           f == [a \in onKey |-> Writer(sessionOrder[s][a])]
<1>1. Len(sessionOrder[s]) \in Nat /\ DOMAIN sessionOrder[s] = 1 .. Len(sessionOrder[s])
  BY DEF TypeOK
<1>2. IsFiniteSet(1 .. Len(sessionOrder[s])) BY <1>1, FS_Interval
<1>3. IsFiniteSet(onKey)
  <2>1. onKey \in SUBSET (1 .. Len(sessionOrder[s])) BY <1>1
  <2> QED BY <1>2, <2>1, FS_Subset
<1>4. f \in Surjection(onKey, DependentTxs(s, k)) BY DEF Surjection, DependentTxs
<1> QED BY <1>3, <1>4, FS_Surjection

\* is_consistent accepts what w wrote exactly when every transaction that s
\* depends on for k was committed no later than w.
LEMMA ConsistentIffLater ==
  ASSUME TypeOK, IdsUnique, NEW s \in Sessions, NEW k \in Keys, NEW n \in DOMAIN history
  PROVE  IsConsistent(s, k, history[n].id)
           <=> \A d \in DependentTxs(s, k) : \E m \in 1 .. n : history[m].id = d
<1> DEFINE D == DependentTxs(s, k)
<1>1. DOMAIN history = 1 .. Len(history) /\ Len(history) \in Nat BY DEF TypeOK
<1>2. \A p \in DOMAIN history : history[p].id = history[n].id <=> p = n BY DEF IdsUnique
<1>3. \A m \in 1 .. n - 1 : history[m].id # history[n].id BY <1>1, <1>2
<1>4. IsConsistent(s, k, history[n].id) <=> D = {} \/ CommittedCount(n, D) = Cardinality(D)
  BY <1>2, <1>3 DEF IsConsistent
<1>5. IsFiniteSet(D) BY DependentsFinite
<1> HIDE DEF D
<1>6. CommittedCount(n, D) = Cardinality(D) <=> \A d \in D : \E m \in 1 .. n : history[m].id = d
  BY <1>5, CountFindsAll
<1> QED BY <1>4, <1>6 DEF D
-----------------------------------------------------------------------------
(* Consequences of the invariant *)

LEMMA WriterDecides ==
  ASSUME StoreInv, NEW k \in Keys, NEW i \in DOMAIN kvMap[k], NEW j \in DOMAIN kvMap[k],
         NEW m \in DOMAIN history, NEW n \in DOMAIN history,
         history[m].id = kvMap[k][i].tx, history[n].id = kvMap[k][j].tx
  PROVE  i <= j <=> m <= n
<1>1. i \in Nat /\ j \in Nat /\ m \in Nat /\ n \in Nat BY DEF StoreInv, TypeOK
<1>2. Wrote(m, k, i) /\ Wrote(n, k, j)
  BY DEF StoreInv, VersionsCommitted, IdsUnique, Wrote
<1>3. i < j => m < n BY <1>2 DEF StoreInv, VersionsOrdered
<1>4. j < i => n < m BY <1>2 DEF StoreInv, VersionsOrdered
<1>5. i = j => m = n BY DEF StoreInv, IdsUnique
<1> QED BY <1>1, <1>3, <1>4, <1>5

\* Two versions of a key were written by different transactions.
LEMMA VersionIdsUnique ==
  ASSUME StoreInv, NEW k \in Keys, NEW i \in DOMAIN kvMap[k], NEW j \in DOMAIN kvMap[k],
         kvMap[k][i].tx = kvMap[k][j].tx
  PROVE  i = j
<1>1. PICK n \in DOMAIN history : Wrote(n, k, i) BY DEF StoreInv, VersionsCommitted
<1>2. history[n].id = kvMap[k][i].tx /\ history[n].id = kvMap[k][j].tx BY <1>1 DEF Wrote
<1>3. i <= j /\ j <= i BY <1>2, WriterDecides DEF StoreInv, TypeOK
<1>4. i \in Nat /\ j \in Nat BY DEF StoreInv, TypeOK
<1> QED BY <1>3, <1>4

\* Every transaction of a session touches exactly one version of its key.
LEMMA SessionTouches ==
  ASSUME StoreInv, NEW s \in Sessions, NEW a \in DOMAIN sessionOrder[s]
  PROVE  /\ sessionOrder[s][a] \in Transactions
         /\ sessionOrder[s][a].key \in Keys
         /\ \E i \in DOMAIN kvMap[sessionOrder[s][a].key] : Touches(sessionOrder[s][a], i)
<1>1. sessionOrder[s][a] \in Transactions BY DEF StoreInv, TypeOK
<1>2. sessionOrder[s][a].key \in Keys BY <1>1 DEF Transactions
<1>3. PICK n \in DOMAIN history : history[n] = sessionOrder[s][a]
  BY DEF StoreInv, SessionsCommitted
<1> QED BY <1>1, <1>2, <1>3 DEF StoreInv, TransactionsTouch

\* The dependents of a session on a key are the writers of what it touched.
LEMMA DependentsAreWriters ==
  ASSUME StoreInv, NEW s \in Sessions, NEW k \in Keys
  PROVE  DependentTxs(s, k) = {kvMap[k][j].tx : j \in Touched(s, k)}
<1>1. ASSUME NEW d \in DependentTxs(s, k) PROVE \E j \in Touched(s, k) : d = kvMap[k][j].tx
  <2>1. PICK a \in DOMAIN sessionOrder[s] :
          sessionOrder[s][a].key = k /\ d = Writer(sessionOrder[s][a])
    BY <1>1 DEF DependentTxs
  <2>2. PICK j \in DOMAIN kvMap[k] : Touches(sessionOrder[s][a], j)
    BY <2>1, SessionTouches
  <2> QED BY <2>1, <2>2 DEF Touched, Touches
<1>2. ASSUME NEW j \in Touched(s, k) PROVE kvMap[k][j].tx \in DependentTxs(s, k)
  BY <1>2 DEF Touched, Touches, DependentTxs
<1> QED BY <1>1, <1>2

\* The checker accepts exactly the versions no older than any the session has
\* touched, although it decides from the history of all keys and sessions.
THEOREM CheckerIsExact == StoreInv => CheckerExact
<1> SUFFICES ASSUME StoreInv, NEW s \in Sessions, NEW k \in Keys, NEW i \in DOMAIN kvMap[k]
             PROVE  IsConsistent(s, k, kvMap[k][i].tx) <=> \A j \in Touched(s, k) : j <= i
  BY DEF CheckerExact, CausalChoices
<1>1. PICK n \in DOMAIN history : Wrote(n, k, i) BY DEF StoreInv, VersionsCommitted
<1>2. history[n].id = kvMap[k][i].tx BY <1>1 DEF Wrote
<1>3. IsConsistent(s, k, kvMap[k][i].tx)
        <=> \A j \in Touched(s, k) : \E m \in 1 .. n : history[m].id = kvMap[k][j].tx
  BY <1>2, ConsistentIffLater, DependentsAreWriters DEF StoreInv
<1>4. ASSUME NEW j \in Touched(s, k)
      PROVE  (\E m \in 1 .. n : history[m].id = kvMap[k][j].tx) <=> j <= i
  <2>1. j \in DOMAIN kvMap[k] BY <1>4 DEF Touched
  <2>2. PICK m \in DOMAIN history : Wrote(m, k, j) BY <2>1 DEF StoreInv, VersionsCommitted
  <2>3. history[m].id = kvMap[k][j].tx BY <2>2 DEF Wrote
  <2>4. j <= i <=> m <= n BY <1>2, <2>1, <2>3, WriterDecides
  <2>5. DOMAIN history = 1 .. Len(history) /\ Len(history) \in Nat BY DEF StoreInv, TypeOK
  <2>6. \A p \in 1 .. n : history[p].id = kvMap[k][j].tx => p = m
    BY <2>3, <2>5 DEF StoreInv, IdsUnique
  <2> QED BY <2>3, <2>4, <2>5, <2>6
<1> QED BY <1>3, <1>4

\* Whatever a selector may choose is no older than what the session has touched.
LEMMA ChoicesAboveFloor ==
  ASSUME KVAssumption, StoreInv, NEW sel \in Selectors, NEW s \in Sessions, NEW k \in Keys,
         NEW i \in Choices(sel, s, k), NEW j \in Touched(s, k)
  PROVE  j <= i
<1>1. CASE i \in CausalChoices(s, k) BY <1>1, CheckerIsExact DEF CheckerExact
<1>2. CASE i \in LinearChoices(k)
  <2>1. kvMap[k] \in Seq(Versions) /\ j \in DOMAIN kvMap[k] BY DEF StoreInv, TypeOK, Touched
  <2> QED BY <1>2, <2>1 DEF LinearChoices
<1> QED BY <1>1, <1>2 DEF Choices, KCausalChoices, KVAssumption, SelectorNames

\* The newest version of a key that is there is a consistent answer for every session,
\* and one that each selector may give (consistency_checker.h:42-81).
THEOREM NewestAlwaysConsistent ==
  ASSUME StoreInv, NEW s \in Sessions, NEW k \in Keys, kvMap[k] # <<>>
  PROVE  /\ IsConsistent(s, k, kvMap[k][Len(kvMap[k])].tx)
         /\ \A sel \in Selectors : Len(kvMap[k]) \in Choices(sel, s, k)
<1>1. kvMap[k] \in Seq(Versions) BY DEF StoreInv, TypeOK
<1>2. Len(kvMap[k]) \in DOMAIN kvMap[k] BY <1>1
<1>3. Len(kvMap[k]) \in LinearChoices(k) BY <1>2 DEF LinearChoices
<1>4. \A j \in Touched(s, k) : j <= Len(kvMap[k]) BY <1>1 DEF Touched
<1>5. Len(kvMap[k]) \in CausalChoices(s, k)
  BY <1>2, <1>4, CheckerIsExact DEF CheckerExact
<1>6. ASSUME NEW sel \in Selectors PROVE Len(kvMap[k]) \in Choices(sel, s, k)
  BY <1>3, <1>5, KVAssumption DEF Choices, KCausalChoices, KVAssumption, SelectorNames
<1> QED BY <1>5, <1>6 DEF CausalChoices

\* So every selector has an answer, and none throws.
LEMMA SelectorsAnswer == StoreInv => NoConsistencyException
  BY NewestAlwaysConsistent DEF NoConsistencyException
-----------------------------------------------------------------------------
(* The invariant is inductive *)

LEMMA StoreInvInit == Init => StoreInv
<1> SUFFICES ASSUME Init PROVE StoreInv OBVIOUS
<1>1. TypeOK BY TypeInit
<1>2. DOMAIN history = {} /\ (\A s \in Sessions : DOMAIN sessionOrder[s] = {})
        /\ (\A k \in Keys : DOMAIN kvMap[k] = {}) /\ (\A t \in Threads : pc[t] = "idle")
  BY DEF Init
<1> QED BY <1>1, <1>2 DEF StoreInv, IdsUnique, SessionsCommitted, VersionsCommitted,
                          VersionsOrdered, TransactionsTouch, MonotonicSession

\* A step that leaves what is committed alone, and draws fresh ids at most.
LEMMA NothingCommitted ==
  ASSUME StoreInv, TypeOK', UNCHANGED <<kvMap, history, sessionOrder>>, IdsUnique'
  PROVE  StoreInv'
<1>1. SessionsCommitted' BY DEF StoreInv, SessionsCommitted
<1>2. VersionsCommitted' BY DEF StoreInv, VersionsCommitted, Wrote
<1>3. VersionsOrdered' BY DEF StoreInv, VersionsOrdered, Wrote
<1>4. TransactionsTouch' BY DEF StoreInv, TransactionsTouch, Touches
<1>5. MonotonicSession' BY DEF StoreInv, MonotonicSession, Touches
<1> QED BY <1>1, <1>2, <1>3, <1>4, <1>5 DEF StoreInv

\* A step that commits x: it may add one version, written by x, at the end of
\* the versions of its key, and x touches a version no older than any its
\* session has touched.
LEMMA Committed ==
  ASSUME StoreInv, TypeOK', NEW x \in Transactions, Commit(x), txCount' = txCount,
         x.id <= txCount,
         \A n \in DOMAIN history : history[n].id # x.id,
         \A t \in Threads : pc'[t] # "idle" =>
           pc[t] # "idle" /\ tx'[t] = tx[t] /\ tx[t].id # x.id,
         \A k \in Keys : \A i \in DOMAIN kvMap[k] :
           i \in DOMAIN kvMap'[k] /\ kvMap'[k][i] = kvMap[k][i],
         \A k \in Keys : \A i \in DOMAIN kvMap'[k] : i \notin DOMAIN kvMap[k] =>
           k = x.key /\ x.op = "PUT" /\ kvMap'[k][i].tx = x.id /\ i = Len(kvMap[k]) + 1,
         NEW w \in DOMAIN kvMap'[x.key], kvMap'[x.key][w].tx = Writer(x),
         \A j \in Touched(x.session, x.key) : j <= w
  PROVE  StoreInv'
<1> DEFINE last == Len(history) + 1
<1>1. /\ DOMAIN history' = DOMAIN history \cup {last} /\ history'[last] = x
      /\ \A n \in DOMAIN history : history'[n] = history[n] /\ n < last
      /\ last \in Nat /\ DOMAIN history \subseteq Nat
  BY DEF StoreInv, TypeOK, Commit
<1>2. x.session \in Sessions /\ x.key \in Keys BY DEF Transactions
<1>3. /\ \A s \in Sessions \ {x.session} : sessionOrder'[s] = sessionOrder[s]
      /\ sessionOrder'[x.session] = Append(sessionOrder[x.session], x)
  BY <1>2 DEF StoreInv, TypeOK, Commit
<1> DEFINE top == Len(sessionOrder[x.session]) + 1
<1>4. /\ DOMAIN sessionOrder'[x.session] = DOMAIN sessionOrder[x.session] \cup {top}
      /\ sessionOrder'[x.session][top] = x
      /\ \A a \in DOMAIN sessionOrder[x.session] :
           a < top /\ sessionOrder'[x.session][a] = sessionOrder[x.session][a]
      /\ top \in Nat /\ DOMAIN sessionOrder[x.session] \subseteq Nat
  <2>1. sessionOrder[x.session] \in Seq(Transactions) BY <1>2 DEF StoreInv, TypeOK
  <2>2. \A q \in Seq(Transactions) :
          /\ DOMAIN Append(q, x) = DOMAIN q \cup {Len(q) + 1} /\ Append(q, x)[Len(q) + 1] = x
          /\ \A a \in DOMAIN q : a < Len(q) + 1 /\ Append(q, x)[a] = q[a]
          /\ Len(q) + 1 \in Nat /\ DOMAIN q \subseteq Nat
    OBVIOUS
  <2> QED BY <1>3, <2>1, <2>2
<1>5. \A k \in Keys : \A i \in DOMAIN kvMap[k] : kvMap[k][i].tx # x.id
  BY DEF StoreInv, VersionsCommitted, Wrote
<1>6. \A k \in Keys : DOMAIN kvMap[k] = 1 .. Len(kvMap[k]) /\ Len(kvMap[k]) \in Nat
  BY DEF StoreInv, TypeOK
<1> HIDE DEF last, top
<1>7. \A k \in Keys : \A i, j \in DOMAIN kvMap'[k] :
        kvMap'[k][i].tx = kvMap'[k][j].tx => i = j
  BY <1>5, VersionIdsUnique
<1>8. IdsUnique'
  <2>1. \A n \in DOMAIN history' : history'[n].id <= txCount'
    BY <1>1 DEF StoreInv, IdsUnique
  <2>2. \A m, n \in DOMAIN history' : history'[m].id = history'[n].id => m = n
    BY <1>1 DEF StoreInv, IdsUnique
  <2>3. \A t \in Threads : pc'[t] # "idle" =>
          tx'[t].id <= txCount' /\ \A n \in DOMAIN history' : history'[n].id # tx'[t].id
    BY <1>1 DEF StoreInv, IdsUnique
  <2>4. \A t, u \in Threads :
          t # u /\ pc'[t] # "idle" /\ pc'[u] # "idle" => tx'[t].id # tx'[u].id
    BY DEF StoreInv, IdsUnique
  <2> QED BY <2>1, <2>2, <2>3, <2>4 DEF IdsUnique
<1>9. SessionsCommitted'
  <2>1. ASSUME NEW s \in Sessions, NEW a \in DOMAIN sessionOrder[s]
        PROVE  \E n \in DOMAIN history' : history'[n] = sessionOrder[s][a]
    BY <1>1 DEF StoreInv, SessionsCommitted
  <2>2. ASSUME NEW s \in Sessions, NEW a \in DOMAIN sessionOrder'[s]
        PROVE  \E n \in DOMAIN history' : history'[n] = sessionOrder'[s][a]
    <3>1. CASE s = x.session /\ a = top BY <1>1, <1>4, <3>1
    <3>2. CASE a \in DOMAIN sessionOrder[s] /\ sessionOrder'[s][a] = sessionOrder[s][a]
      BY <2>1, <3>2
    <3> QED BY <1>3, <1>4, <3>1, <3>2
  <2> QED BY <2>2 DEF SessionsCommitted
<1>10. VersionsCommitted'
  <2> SUFFICES ASSUME NEW k \in Keys, NEW i \in DOMAIN kvMap'[k]
               PROVE  \E n \in DOMAIN history' : Wrote(n, k, i)'
    BY DEF VersionsCommitted
  <2>1. CASE i \in DOMAIN kvMap[k]
    <3>1. PICK n \in DOMAIN history : Wrote(n, k, i)
      BY <2>1 DEF StoreInv, VersionsCommitted
    <3> QED BY <1>1, <2>1, <3>1 DEF Wrote
  <2>2. CASE i \notin DOMAIN kvMap[k] BY <1>1, <2>2 DEF Wrote
  <2> QED BY <2>1, <2>2
<1>11. VersionsOrdered'
  <2> SUFFICES ASSUME NEW k \in Keys, NEW i \in DOMAIN kvMap'[k], NEW j \in DOMAIN kvMap'[k],
                      NEW m \in DOMAIN history', NEW n \in DOMAIN history',
                      i < j, Wrote(m, k, i)', Wrote(n, k, j)'
               PROVE  m < n
    BY DEF VersionsOrdered
  <2>1. i \in DOMAIN kvMap[k] BY <1>6
  <2>2. m \in DOMAIN history BY <1>1, <1>5, <2>1 DEF Wrote
  <2>3. CASE j \in DOMAIN kvMap[k]
    <3>1. n \in DOMAIN history BY <1>1, <1>5, <2>3 DEF Wrote
    <3> QED BY <1>1, <2>1, <2>2, <2>3, <3>1 DEF Wrote, StoreInv, VersionsOrdered
  <2>4. CASE j \notin DOMAIN kvMap[k] BY <1>1, <2>2, <2>4 DEF Wrote
  <2> QED BY <2>3, <2>4
<1>12. TransactionsTouch'
  <2> SUFFICES ASSUME NEW n \in DOMAIN history'
               PROVE  \E i \in DOMAIN kvMap'[history'[n].key] : Touches(history[n], i)'
    BY DEF TransactionsTouch
  <2>1. CASE n \in DOMAIN history
    <3>1. PICK i \in DOMAIN kvMap[history[n].key] : Touches(history[n], i)
      BY <2>1 DEF StoreInv, TransactionsTouch
    <3>2. history[n] \in Transactions BY <2>1 DEF StoreInv, TypeOK
    <3>3. history[n].key \in Keys BY <3>2 DEF Transactions
    <3> QED BY <1>1, <2>1, <3>1, <3>3 DEF Touches, Writer
  <2>2. CASE n = last
    <3>1. history'[n] = x BY <1>1, <2>2
    <3>2. w \in DOMAIN kvMap'[history'[n].key] BY <3>1
    <3>3. Touches(history[n], w)' BY <3>1, <3>2 DEF Touches, Writer
    <3> QED BY <3>2, <3>3
  <2> QED BY <1>1, <2>1, <2>2
<1>13. ASSUME NEW s \in Sessions, NEW a \in DOMAIN sessionOrder[s],
              NEW i \in DOMAIN kvMap'[sessionOrder[s][a].key],
              kvMap'[sessionOrder[s][a].key][i].tx = Writer(sessionOrder[s][a])
       PROVE  Touches(sessionOrder[s][a], i)
  <2> DEFINE y == sessionOrder[s][a]
  <2>1. y.key \in Keys /\ \E j \in DOMAIN kvMap[y.key] : Touches(y, j) BY SessionTouches
  <2>2. PICK j \in DOMAIN kvMap[y.key] : Touches(y, j) BY <2>1
  <2>3. kvMap'[y.key][j].tx = Writer(y) /\ j \in DOMAIN kvMap'[y.key]
    BY <2>1, <2>2 DEF Touches
  <2>4. i = j BY <1>7, <1>13, <2>1, <2>3
  <2> QED BY <2>2, <2>4
<1>14. MonotonicSession'
  <2> SUFFICES ASSUME NEW s \in Sessions,
                      NEW a \in DOMAIN sessionOrder'[s], NEW b \in DOMAIN sessionOrder'[s],
                      a < b, sessionOrder'[s][a].key = sessionOrder'[s][b].key,
                      NEW i \in DOMAIN kvMap'[sessionOrder'[s][a].key],
                      NEW j \in DOMAIN kvMap'[sessionOrder'[s][a].key],
                      Touches(sessionOrder[s][a], i)', Touches(sessionOrder[s][b], j)'
               PROVE  i <= j
    BY DEF MonotonicSession
  <2>1. a \in DOMAIN sessionOrder[s] /\ sessionOrder'[s][a] = sessionOrder[s][a]
    BY <1>3, <1>4
  <2>2. Touches(sessionOrder[s][a], i) BY <1>13, <2>1 DEF Touches, Writer
  <2>3. CASE b \in DOMAIN sessionOrder[s] /\ sessionOrder'[s][b] = sessionOrder[s][b]
    <3>1. Touches(sessionOrder[s][b], j) BY <1>13, <2>1, <2>3 DEF Touches, Writer
    <3>2. sessionOrder[s][a].key = sessionOrder[s][b].key BY <2>1, <2>3
    <3>3. i \in DOMAIN kvMap[sessionOrder[s][a].key] /\ j \in DOMAIN kvMap[sessionOrder[s][a].key]
      BY <2>2, <3>1, <3>2 DEF Touches
    <3> QED BY <2>1, <2>2, <2>3, <3>1, <3>2, <3>3 DEF StoreInv, MonotonicSession
  <2>4. CASE s = x.session /\ b = top
    <3>1. sessionOrder'[s][b] = x BY <1>4, <2>4
    <3>2. i \in Touched(x.session, x.key)
      BY <2>1, <2>2, <2>4, <3>1 DEF Touched, Touches
    <3>3. kvMap'[x.key][j].tx = Writer(x) /\ j \in DOMAIN kvMap'[x.key]
      BY <2>1, <3>1 DEF Touches, Writer
    <3>4. j = w BY <1>2, <1>7, <3>3
    <3> QED BY <3>2, <3>4
  <2> QED BY <1>3, <1>4, <2>3, <2>4
<1> QED BY <1>8, <1>9, <1>10, <1>11, <1>12, <1>14 DEF StoreInv
\* A call that ends makes no id visible that was not fresh.
LEMMA UnlockIds ==
  ASSUME StoreInv, NEW t \in Threads, Unlock(t)
  PROVE  \A u \in Threads : pc'[u] # "idle" => pc[u] # "idle" /\ u # t /\ tx'[u] = tx[u]
  BY DEF StoreInv, TypeOK, Unlock

LEMMA StoreInvStep == StoreInv /\ [Next]_vars => StoreInv'
<1> SUFFICES ASSUME StoreInv, [Next]_vars PROVE StoreInv' OBVIOUS
<1>0. TypeOK' BY TypeStep DEF StoreInv
<1>1. ASSUME NEW t \in Threads, NEW s \in Sessions, NEW k \in Keys,
             NEW op \in {"GET", "PUT"}, NEW v \in Values \cup {NoValue}, Create(t, s, op, k, v)
      PROVE  StoreInv'
  <2> DEFINE new == [id |-> txCount + 1, session |-> s, op |-> op, key |-> k, value |-> v,
                     from |-> 0, version |-> 0, by |-> "none"]
  <2>1. new.id = txCount + 1 OBVIOUS
  <2>2. tx' = [tx EXCEPT ![t] = new] BY <1>1 DEF Create
  <2> HIDE DEF new
  <2>3. txCount' = txCount + 1 /\ UNCHANGED <<kvMap, history, sessionOrder>>
    BY <1>1 DEF Create
  <2>4. txCount \in Nat /\ (\A n \in DOMAIN history : history[n].id \in Nat)
          /\ \A u \in Threads : pc[u] # "idle" => tx[u].id \in Nat
    <3>1. txCount \in Nat BY DEF StoreInv, TypeOK
    <3>2. \A n \in DOMAIN history : history[n] \in Transactions BY DEF StoreInv, TypeOK
    <3>3. \A u \in Threads : pc[u] # "idle" => tx[u] \in Transactions
      BY DEF StoreInv, TypeOK
    <3>4. \A y \in Transactions : y.id \in Nat BY DEF Transactions
    <3> QED BY <3>1, <3>2, <3>3, <3>4
  <2>5. \A u \in Threads : (u = t /\ tx'[u].id = txCount + 1)
                             \/ (u # t /\ tx'[u] = tx[u] /\ pc'[u] = pc[u])
    BY <1>1, <2>1, <2>2 DEF Create, StoreInv, TypeOK
  <2>6. IdsUnique'
    <3>1. \A n \in DOMAIN history' : history'[n].id <= txCount'
      BY <2>3, <2>4 DEF StoreInv, IdsUnique
    <3>2. \A m, n \in DOMAIN history' : history'[m].id = history'[n].id => m = n
      BY <2>3 DEF StoreInv, IdsUnique
    <3>3. \A u \in Threads : pc'[u] # "idle" =>
            tx'[u].id <= txCount' /\ \A n \in DOMAIN history' : history'[n].id # tx'[u].id
      BY <2>3, <2>4, <2>5 DEF StoreInv, IdsUnique
    <3>4. \A u, w \in Threads :
            u # w /\ pc'[u] # "idle" /\ pc'[w] # "idle" => tx'[u].id # tx'[w].id
      BY <2>4, <2>5 DEF StoreInv, IdsUnique
    <3> QED BY <3>1, <3>2, <3>3, <3>4 DEF IdsUnique
  <2> QED BY <1>0, <2>3, <2>6, NothingCommitted
<1>2. ASSUME UNCHANGED <<txCount, kvMap, history, sessionOrder>>,
             \A u \in Threads : pc'[u] # "idle" => pc[u] # "idle" /\ tx'[u] = tx[u]
      PROVE  StoreInv'
  <2>1. IdsUnique' BY <1>2 DEF StoreInv, IdsUnique
  <2> QED BY <1>0, <1>2, <2>1, NothingCommitted
<1>3. ASSUME NEW t \in Threads, Lock(t) PROVE StoreInv'
  <2>1. \A u \in Threads : pc'[u] # "idle" => pc[u] # "idle" /\ tx'[u] = tx[u]
    BY <1>3 DEF Lock, StoreInv, TypeOK
  <2> QED BY <1>2, <1>3, <2>1 DEF Lock
<1>4. ASSUME NEW t \in Threads, GetNotFound(t) PROVE StoreInv'
  BY <1>2, <1>4, UnlockIds DEF GetNotFound
<1>5. ASSUME NEW t \in Threads, GetPresent(t) PROVE StoreInv'
  <2> DEFINE x == tx[t]
             choices == Choices(selector, x.session, x.key)
  <2>1. /\ pc[t] # "idle" /\ x.op = "GET" /\ Unlock(t)
        /\ UNCHANGED <<txCount, kvMap>>
        /\ IF choices = {} THEN UNCHANGED <<history, sessionOrder>>
           ELSE \E i \in choices : Commit(Answered(x, i))
    BY <1>5 DEF GetPresent
  <2>2. x \in Transactions BY <2>1 DEF StoreInv, TypeOK
  <2>3. x.session \in Sessions /\ x.key \in Keys BY <2>2 DEF Transactions
  <2>4. CASE choices = {} BY <1>2, <2>1, <2>4, UnlockIds
  <2>5. CASE choices # {}
    <3>1. PICK i \in choices : Commit(Answered(x, i)) BY <2>1, <2>5
    <3>2. i \in DOMAIN kvMap[x.key] /\ selector \in Selectors
      BY ChoicesAreVersions, KVAssumption DEF StoreInv, TypeOK
    <3> DEFINE y == Answered(x, i)
    <3>3. y \in Transactions BY <2>2, <3>2, AnsweredType, KVAssumption DEF StoreInv
    <3>4. /\ y.id = x.id /\ y.session = x.session /\ y.key = x.key /\ y.op = "GET"
          /\ y.from = kvMap[x.key][i].tx
      BY <2>1, <2>2, AnsweredFields
    <3>5. \A j \in Touched(x.session, x.key) : j <= i
      BY <2>3, <3>1, <3>2, ChoicesAboveFloor, KVAssumption
    <3>6. Commit(y) BY <3>1
    <3>7. x.id <= txCount /\ \A n \in DOMAIN history : history[n].id # x.id
      BY <2>1 DEF StoreInv, IdsUnique
    <3>8. \A u \in Threads : pc'[u] # "idle" =>
            pc[u] # "idle" /\ tx'[u] = tx[u] /\ tx[u].id # x.id
      BY <2>1, UnlockIds DEF StoreInv, IdsUnique
    <3>9. i \in DOMAIN kvMap'[y.key] /\ kvMap'[y.key][i].tx = Writer(y)
      BY <2>1, <3>2, <3>4 DEF Writer
    <3> HIDE DEF x, y
    <3> QED BY <1>0, <2>1, <3>3, <3>4, <3>5, <3>6, <3>7, <3>8, <3>9, Committed
  <2> QED BY <2>4, <2>5
<1>6. ASSUME NEW t \in Threads, PutLocked(t) PROVE StoreInv'
  <2> DEFINE x == tx[t]
             new == [value |-> x.value, tx |-> x.id]
             w == Len(kvMap[x.key]) + 1
  <2>1. /\ pc[t] # "idle" /\ x.op = "PUT" /\ Unlock(t) /\ Commit(x)
        /\ txCount' = txCount
        /\ kvMap' = [kvMap EXCEPT ![x.key] = Append(@, new)]
    BY <1>6 DEF PutLocked
  <2>2. x \in Transactions BY <2>1 DEF StoreInv, TypeOK
  <2>3. x.session \in Sessions /\ x.key \in Keys BY <2>2 DEF Transactions
  <2>4. new.tx = x.id /\ new \in Versions
    BY <2>1, <2>2 DEF StoreInv, TypeOK, Transactions, Versions
  <2>5. x.id <= txCount /\ \A n \in DOMAIN history : history[n].id # x.id
    BY <2>1 DEF StoreInv, IdsUnique
  <2>6. \A u \in Threads : pc'[u] # "idle" =>
          pc[u] # "idle" /\ tx'[u] = tx[u] /\ tx[u].id # x.id
    BY <2>1, UnlockIds DEF StoreInv, IdsUnique
  <2> HIDE DEF new
  <2>7. /\ \A k \in Keys \ {x.key} : kvMap'[k] = kvMap[k]
        /\ kvMap'[x.key] = Append(kvMap[x.key], new)
    BY <2>1, <2>3 DEF StoreInv, TypeOK
  <2>8. kvMap[x.key] \in Seq(Versions) BY <2>3 DEF StoreInv, TypeOK
  <2>9. /\ DOMAIN kvMap'[x.key] = DOMAIN kvMap[x.key] \cup {w}
        /\ kvMap'[x.key][w] = new
        /\ \A i \in DOMAIN kvMap[x.key] : kvMap'[x.key][i] = kvMap[x.key][i] /\ i <= w
    BY <2>4, <2>7, <2>8, AppendExtends
  <2>10. \A k \in Keys : \A i \in DOMAIN kvMap[k] :
           i \in DOMAIN kvMap'[k] /\ kvMap'[k][i] = kvMap[k][i]
    BY <2>7, <2>9
  <2>11. \A k \in Keys : \A i \in DOMAIN kvMap'[k] : i \notin DOMAIN kvMap[k] =>
           k = x.key /\ x.op = "PUT" /\ kvMap'[k][i].tx = x.id /\ i = Len(kvMap[k]) + 1
    BY <2>1, <2>4, <2>7, <2>9
  <2>12. \A j \in Touched(x.session, x.key) : j <= w BY <2>9 DEF Touched
  <2>13. w \in DOMAIN kvMap'[x.key] /\ kvMap'[x.key][w].tx = Writer(x)
    BY <2>1, <2>4, <2>9 DEF Writer
  <2> HIDE DEF x, w
  <2> QED BY <1>0, <2>1, <2>2, <2>5, <2>6, <2>10, <2>11, <2>12, <2>13, Committed
<1>7. ASSUME NEW sel \in Selectors, SetSelector(sel) PROVE StoreInv'
  BY <1>2, <1>7 DEF SetSelector
<1>8. CASE UNCHANGED vars BY <1>2, <1>8 DEF vars
<1> QED BY <1>1, <1>3, <1>4, <1>5, <1>6, <1>7, <1>8
        DEF Next, ThreadStep, StartGet, StartPut

\* What ties the history, the versions and the sessions together always holds.
THEOREM StoreInvariant == Spec => []StoreInv
  BY StoreInvInit, StoreInvStep, PTL DEF Spec

\* Sessions never go back on a key: read your writes and monotonic reads, for
\* any selectors, in any order of the calls.
THEOREM SessionsMonotonic == Spec => []MonotonicSession
<1>1. StoreInv => MonotonicSession BY DEF StoreInv
<1> QED BY <1>1, StoreInvariant, PTL

\* The causal checker is exact in every reachable state.
THEOREM CheckerCorrect == Spec => []CheckerExact
  BY CheckerIsExact, StoreInvariant, PTL

\* The consistency_exception path of _get is never taken.
THEOREM NeverInconsistent == Spec => []NoConsistencyException
  BY SelectorsAnswer, StoreInvariant, PTL
-----------------------------------------------------------------------------
(***************************************************************************)
(* What the committed history says: how far a read may lag behind the PUTs *)
(* before it, and that the history, the versions and the orders of the     *)
(* sessions are three views of the same commits.  Every step either        *)
(* commits nothing, or commits one GET, or one PUT; the properties are     *)
(* proved over these three cases.                                          *)
(***************************************************************************)

\* A GET x is committed with version i of its key as the answer.
CommitsGet(x, i) ==
  /\ x \in Transactions /\ x.op = "GET"
  /\ i \in Choices(selector, x.session, x.key)
  /\ i \in DOMAIN kvMap[x.key]
  /\ x.from = kvMap[x.key][i].tx /\ x.value = kvMap[x.key][i].value
  /\ x.version = i /\ x.by = selector
  /\ Commit(x)
  /\ readCount' = IF selector = "k_causal" THEN readCount + 1 ELSE readCount
  /\ UNCHANGED <<kvMap, selector, kReadIds>>

\* A PUT x is committed as the newest version of its key.
CommitsPut(x) ==
  /\ x \in Transactions /\ x.op = "PUT" /\ x.value \in Values
  /\ kvMap' = [kvMap EXCEPT ![x.key] = Append(@, [value |-> x.value, tx |-> x.id])]
  /\ Commit(x)
  /\ UNCHANGED <<selector, readCount, kReadIds>>

\* Nothing is committed; a call of k_causal may be counted.
CommitsNothing ==
  /\ UNCHANGED <<kvMap, history, sessionOrder, kReadIds>>
  /\ readCount' \in {readCount, readCount + 1}

\* These are all the steps there are: an id is drawn before the mutex is taken,
\* and whatever happens under the mutex commits at most one transaction.
LEMMA StepCommits ==
  ASSUME StoreInv, [Next]_vars
  PROVE  \/ CommitsNothing
         \/ \E x, i : CommitsGet(x, i)
         \/ \E x : CommitsPut(x)
<1> USE KVAssumption
<1>1. ASSUME UNCHANGED <<kvMap, history, sessionOrder, readCount, kReadIds>>
      PROVE  CommitsNothing
  BY <1>1 DEF CommitsNothing
<1>2. ASSUME NEW t \in Threads, GetPresent(t)
      PROVE  CommitsNothing \/ \E x, i : CommitsGet(x, i)
  <2> DEFINE x == tx[t]
             choices == Choices(selector, x.session, x.key)
  <2>1. /\ pc[t] # "idle" /\ x.op = "GET"
        /\ readCount' = IF selector = "k_causal" THEN readCount + 1 ELSE readCount
        /\ UNCHANGED <<kvMap, selector, kReadIds>>
        /\ IF choices = {} THEN UNCHANGED <<history, sessionOrder>>
           ELSE \E i \in choices : Commit(Answered(x, i))
    BY <1>2 DEF GetPresent
  <2>2. x \in Transactions BY <2>1 DEF StoreInv, TypeOK
  <2>3. CASE choices = {} BY <2>1, <2>3 DEF CommitsNothing
  <2>4. CASE choices # {}
    <3>1. PICK i \in choices : Commit(Answered(x, i)) BY <2>1, <2>4
    <3>2. i \in DOMAIN kvMap[x.key] BY ChoicesAreVersions DEF StoreInv, TypeOK
    <3> DEFINE y == Answered(x, i)
    <3>3. y \in Transactions BY <2>2, <3>2, AnsweredType DEF StoreInv
    <3>4. /\ y.session = x.session /\ y.key = x.key /\ y.op = "GET"
          /\ y.value = kvMap[x.key][i].value /\ y.from = kvMap[x.key][i].tx
          /\ y.version = i /\ y.by = selector
      BY <2>1, <2>2, AnsweredFields
    <3>5. Commit(y) /\ i \in Choices(selector, x.session, x.key) BY <3>1
    <3> HIDE DEF x, y
    <3> QED BY <2>1, <3>2, <3>3, <3>4, <3>5 DEF CommitsGet
  <2> QED BY <2>3, <2>4
<1>3. ASSUME NEW t \in Threads, PutLocked(t) PROVE CommitsPut(tx[t])
  <2>1. tx[t] \in Transactions /\ tx[t].value \in Values
    BY <1>3 DEF PutLocked, StoreInv, TypeOK
  <2> QED BY <1>3, <2>1 DEF PutLocked, CommitsPut
<1>4. CASE UNCHANGED vars BY <1>1, <1>4 DEF vars
<1>5. CASE Next
  BY <1>1, <1>2, <1>3, <1>5
     DEF Next, ThreadStep, StartGet, StartPut, Create, Lock, GetNotFound, SetSelector
<1> QED BY <1>4, <1>5

LEMMA HistoryTyped ==
  ASSUME TypeOK, NEW n \in DOMAIN history
  PROVE  /\ history[n] \in Transactions /\ n \in Nat
         /\ history[n].key \in Keys /\ history[n].session \in Sessions
<1>1. history[n] \in Transactions /\ n \in Nat BY DEF TypeOK
<1> QED BY <1>1 DEF Transactions

\* What committing x does to the history.
LEMMA CommitExtends ==
  ASSUME TypeOK, NEW x \in Transactions, Commit(x)
  PROVE  LET last == Len(history) + 1
         IN /\ Len(history) \in Nat /\ last \in Nat /\ DOMAIN history = 1 .. Len(history)
            /\ DOMAIN history' = DOMAIN history \cup {last}
            /\ history'[last] = x
            /\ \A n \in DOMAIN history : history'[n] = history[n] /\ n \in Nat /\ n < last
  BY DEF TypeOK, Commit

\* What putting x does to the versions.
LEMMA PutExtends ==
  ASSUME TypeOK, NEW x, CommitsPut(x)
  PROVE  LET w == Len(kvMap[x.key]) + 1
         IN /\ x.key \in Keys
            /\ \A k \in Keys \ {x.key} : kvMap'[k] = kvMap[k]
            /\ DOMAIN kvMap'[x.key] = DOMAIN kvMap[x.key] \cup {w}
            /\ Len(kvMap'[x.key]) = w /\ w \notin DOMAIN kvMap[x.key]
            /\ kvMap'[x.key][w] = [value |-> x.value, tx |-> x.id]
            /\ \A i \in DOMAIN kvMap[x.key] : kvMap'[x.key][i] = kvMap[x.key][i]
<1> DEFINE new == [value |-> x.value, tx |-> x.id]
           w == Len(kvMap[x.key]) + 1
<1>1. x.key \in Keys /\ x.id \in Nat /\ x.value \in Values BY DEF CommitsPut, Transactions
<1>2. new \in Versions /\ kvMap[x.key] \in Seq(Versions) BY <1>1 DEF Versions, TypeOK
<1>3. kvMap' = [kvMap EXCEPT ![x.key] = Append(@, new)] BY DEF CommitsPut
<1> HIDE DEF new
<1>4. /\ \A k \in Keys \ {x.key} : kvMap'[k] = kvMap[k]
      /\ kvMap'[x.key] = Append(kvMap[x.key], new)
  BY <1>1, <1>3 DEF TypeOK
<1>5. /\ DOMAIN kvMap'[x.key] = DOMAIN kvMap[x.key] \cup {w}
      /\ kvMap'[x.key][w] = new /\ Len(kvMap'[x.key]) = w /\ w \notin DOMAIN kvMap[x.key]
      /\ \A i \in DOMAIN kvMap[x.key] : kvMap'[x.key][i] = kvMap[x.key][i]
  BY <1>2, <1>4
<1> QED BY <1>1, <1>4, <1>5 DEF new
-----------------------------------------------------------------------------
(* Version numbers *)

LEMMA VersionNumberStep ==
  ASSUME StoreInv, [Next]_vars, VersionNumberStable
  PROVE  VersionNumberStable'
<1>0. TypeOK BY DEF StoreInv
<1>1. CASE CommitsNothing
  BY <1>1 DEF CommitsNothing, VersionNumberStable
<1>2. ASSUME NEW x, NEW i, CommitsGet(x, i) PROVE VersionNumberStable'
  <2>1. /\ x \in Transactions /\ Commit(x) /\ UNCHANGED kvMap
        /\ i \in DOMAIN kvMap[x.key] /\ x.version = i
        /\ x.value = kvMap[x.key][i].value /\ x.from = kvMap[x.key][i].tx
    BY <1>2 DEF CommitsGet
  <2>2. kvMap[x.key][i] = [value |-> x.value, tx |-> x.from]
    <3>1. kvMap[x.key] \in Seq(Versions) BY <1>0, <2>1 DEF TypeOK, Transactions
    <3>2. kvMap[x.key][i] \in Versions BY <2>1, <3>1
    <3> QED BY <2>1, <3>2 DEF Versions
  <2> SUFFICES ASSUME NEW n \in DOMAIN history', history'[n].op = "GET"
               PROVE  /\ history'[n].version \in DOMAIN kvMap[history'[n].key]
                      /\ kvMap[history'[n].key][history'[n].version]
                           = [value |-> history'[n].value, tx |-> history'[n].from]
    BY <2>1 DEF VersionNumberStable
  <2>3. CASE history'[n] = x BY <2>1, <2>2, <2>3
  <2>4. CASE n \in DOMAIN history /\ history'[n] = history[n]
    BY <2>4 DEF VersionNumberStable
  <2> QED BY <1>0, <2>1, <2>3, <2>4, CommitExtends
<1>3. ASSUME NEW x, CommitsPut(x) PROVE VersionNumberStable'
  <2>1. x \in Transactions /\ Commit(x) /\ x.op = "PUT" BY <1>3 DEF CommitsPut
  <2>2. \A k \in Keys : \A i \in DOMAIN kvMap[k] :
          i \in DOMAIN kvMap'[k] /\ kvMap'[k][i] = kvMap[k][i]
    BY <1>0, <1>3, PutExtends
  <2>3. \A n \in DOMAIN history : history[n].key \in Keys
    BY <1>0, HistoryTyped
  <2> SUFFICES ASSUME NEW n \in DOMAIN history', history'[n].op = "GET"
               PROVE  /\ history'[n].version \in DOMAIN kvMap'[history'[n].key]
                      /\ kvMap'[history'[n].key][history'[n].version]
                           = [value |-> history'[n].value, tx |-> history'[n].from]
    BY DEF VersionNumberStable
  <2>4. n \in DOMAIN history /\ history'[n] = history[n] BY <1>0, <2>1, CommitExtends
  <2> QED BY <2>2, <2>3, <2>4 DEF VersionNumberStable
<1> QED BY <1>1, <1>2, <1>3, StepCommits

\* The number handed out with a value names that version for ever: versions are
\* appended and never moved, under every selector.
THEOREM VersionNumbersStable == Spec => []VersionNumberStable
<1>1. Init => VersionNumberStable BY DEF Init, VersionNumberStable
<1>2. StoreInv /\ StoreInv' /\ [Next]_vars /\ VersionNumberStable => VersionNumberStable'
  BY VersionNumberStep
<1> QED BY <1>1, <1>2, StoreInvariant, PTL DEF Spec
-----------------------------------------------------------------------------
(* Stale reads *)

\* A commit does not make an earlier read stale, nor cures it: only the PUTs
\* before a read count.
LEMMA StaleKept ==
  ASSUME TypeOK, NEW x \in Transactions, Commit(x), NEW n \in DOMAIN history
  PROVE  Stale(n)' <=> Stale(n)
<1>1. PICK last : last = Len(history) + 1 OBVIOUS
<1>2. /\ last \in Nat /\ DOMAIN history = 1 .. Len(history)
      /\ DOMAIN history' = DOMAIN history \cup {last}
      /\ \A m \in DOMAIN history : history'[m] = history[m] /\ m \in Nat /\ m < last
  BY <1>1, CommitExtends
<1>3. ASSUME NEW m \in DOMAIN history, NEW k
      PROVE  IsLastPutBefore(m, n, k)' <=> IsLastPutBefore(m, n, k)
  <2>1. \A p \in m + 1 .. n - 1 : p \in DOMAIN history BY <1>2
  <2>2. \A p \in m + 1 .. n - 1 : history'[p] = history[p] BY <1>2, <2>1
  <2> QED BY <1>2, <2>2 DEF IsLastPutBefore
<1>4. \A k : ~ IsLastPutBefore(last, n, k)' BY <1>2 DEF IsLastPutBefore
<1>5. history'[n] = history[n] BY <1>2
<1> QED BY <1>2, <1>3, <1>4, <1>5 DEF Stale

\* A GET that is committed with the newest version of its key returns what the
\* last PUT of that key wrote, wherever ids and other transactions stand.
LEMMA NewestNotStale ==
  ASSUME StoreInv, NEW x, NEW top, CommitsGet(x, top), top = Len(kvMap[x.key]),
         NEW last, last = Len(history) + 1
  PROVE  ~ Stale(last)'
<1> DEFINE k == x.key
<1>0. TypeOK BY DEF StoreInv
<1>1. /\ x \in Transactions /\ x.op = "GET" /\ Commit(x) /\ top \in DOMAIN kvMap[k]
      /\ x.from = kvMap[k][top].tx
  BY DEF CommitsGet
<1>2. k \in Keys BY <1>1 DEF Transactions
<1>3. /\ last \in Nat /\ DOMAIN history = 1 .. Len(history)
      /\ DOMAIN history' = DOMAIN history \cup {last} /\ history'[last] = x
      /\ \A m \in DOMAIN history : history'[m] = history[m] /\ m \in Nat /\ m < last
  BY <1>0, <1>1, CommitExtends
<1>4. PICK m \in DOMAIN history : Wrote(m, k, top)
  BY <1>1, <1>2 DEF StoreInv, VersionsCommitted
<1>5. ASSUME NEW p \in DOMAIN history, m < p, history[p].op = "PUT", history[p].key = k
      PROVE  FALSE
  <2>1. PICK i \in DOMAIN kvMap[k] : Touches(history[p], i)
    BY <1>5 DEF StoreInv, TransactionsTouch
  <2>2. Wrote(p, k, i) BY <1>5, <2>1 DEF Touches, Wrote, Writer
  <2>3. i \in Nat /\ top \in Nat /\ i <= top
    <3>1. kvMap[k] \in Seq(Versions) BY <1>0, <1>2 DEF TypeOK
    <3> QED BY <3>1
  <2>4. i < top => p < m
    BY <1>1, <1>2, <1>4, <2>2 DEF StoreInv, VersionsOrdered
  <2>5. i = top => p = m
    BY <1>4, <2>2 DEF Wrote, StoreInv, IdsUnique
  <2> QED BY <1>3, <1>5, <2>3, <2>4, <2>5
<1>6. IsLastPutBefore(m, last, k)'
  <2>1. \A p \in m + 1 .. last - 1 : p \in DOMAIN history /\ m < p BY <1>3
  <2>2. \A p \in m + 1 .. last - 1 : ~ (history'[p].op = "PUT" /\ history'[p].key = k)
    BY <1>3, <1>5, <2>1
  <2>3. m < last /\ history'[m].op = "PUT" /\ history'[m].key = k
    BY <1>3, <1>4 DEF Wrote
  <2> QED BY <2>2, <2>3 DEF IsLastPutBefore
<1>7. history'[m].id = x.from BY <1>1, <1>3, <1>4 DEF Wrote
<1> QED BY <1>3, <1>6, <1>7 DEF Stale

\* What a commit does to the set of reads of one selector that are stale.
LEMMA StaleReadsOf ==
  ASSUME TypeOK, NEW x \in Transactions, Commit(x), NEW sel,
         NEW last, last = Len(history) + 1
  PROVE  LET stale == {n \in DOMAIN history : history[n].by = sel /\ Stale(n)}
         IN stale' = IF x.by = sel /\ Stale(last)' THEN stale \cup {last} ELSE stale
<1>1. /\ DOMAIN history' = DOMAIN history \cup {last} /\ history'[last] = x
      /\ \A m \in DOMAIN history : history'[m] = history[m] /\ m \in Nat /\ m < last
  BY CommitExtends
<1>2. \A n \in DOMAIN history : Stale(n)' <=> Stale(n) BY StaleKept
<1> QED BY <1>1, <1>2

LEMMA LinearReadsStep ==
  ASSUME StoreInv, [Next]_vars, LinearReadsLatest
  PROVE  LinearReadsLatest'
<1>0. TypeOK BY DEF StoreInv
<1>1. CASE CommitsNothing
  BY <1>1 DEF CommitsNothing, LinearReadsLatest, Stale, IsLastPutBefore
<1>2. ASSUME NEW x \in Transactions, Commit(x), NEW last, last = Len(history) + 1,
             x.op = "GET" /\ x.by = "linear" => ~ Stale(last)'
      PROVE  LinearReadsLatest'
  <2>1. /\ DOMAIN history' = DOMAIN history \cup {last} /\ history'[last] = x
        /\ \A m \in DOMAIN history : history'[m] = history[m]
    BY <1>0, <1>2, CommitExtends
  <2>2. \A n \in DOMAIN history : Stale(n)' <=> Stale(n) BY <1>0, <1>2, StaleKept
  <2> QED BY <1>2, <2>1, <2>2 DEF LinearReadsLatest
<1>3. ASSUME NEW x, NEW i, CommitsGet(x, i) PROVE LinearReadsLatest'
  <2>1. x \in Transactions /\ Commit(x) /\ x.by = selector
          /\ i \in Choices(selector, x.session, x.key)
    BY <1>3 DEF CommitsGet
  <2>2. PICK last : last = Len(history) + 1 OBVIOUS
  <2>3. x.by = "linear" => i = Len(kvMap[x.key]) BY <2>1 DEF Choices, LinearChoices
  <2>4. x.by = "linear" => ~ Stale(last)' BY <1>3, <2>2, <2>3, NewestNotStale
  <2> QED BY <1>2, <2>1, <2>2, <2>4
<1>4. ASSUME NEW x, CommitsPut(x) PROVE LinearReadsLatest'
  <2>1. x \in Transactions /\ Commit(x) /\ x.op = "PUT" BY <1>4 DEF CommitsPut
  <2>2. PICK last : last = Len(history) + 1 OBVIOUS
  <2> QED BY <1>2, <2>1, <2>2
<1> QED BY <1>1, <1>3, <1>4, StepCommits

\* Every GET that the linearizable selector answers returns the value put last
\* before it, for any number of threads, whatever order their ids are drawn in and
\* whatever selectors are installed before and after.
THEOREM LinearReadsCorrect == Spec => []LinearReadsLatest
<1>1. Init => LinearReadsLatest BY DEF Init, LinearReadsLatest
<1>2. StoreInv /\ StoreInv' /\ [Next]_vars /\ LinearReadsLatest => LinearReadsLatest'
  BY LinearReadsStep
<1> QED BY <1>1, <1>2, StoreInvariant, PTL DEF Spec

\* The stale reads of k_causal are at most the weak reads that it has used up.
StaleReads == {n \in DOMAIN history : history[n].by = "k_causal" /\ Stale(n)}
UsedWeakReads == kReadIds \cap (1 .. readCount)
WeakReadsPay ==
  /\ Cardinality(kReadIds) = K
  /\ Cardinality(StaleReads) <= Cardinality(UsedWeakReads)

ReadsAreFinite ==
  /\ IsFiniteSet(StaleReads) /\ Cardinality(StaleReads) \in Nat
  /\ IsFiniteSet(kReadIds) /\ Cardinality(kReadIds) \in Nat
  /\ IsFiniteSet(UsedWeakReads) /\ Cardinality(UsedWeakReads) \in Nat

LEMMA ReadsFinite == TypeOK => ReadsAreFinite
<1> SUFFICES ASSUME TypeOK PROVE ReadsAreFinite OBVIOUS
<1>1. Len(history) \in Nat /\ DOMAIN history = 1 .. Len(history) BY DEF TypeOK
<1>2. IsFiniteSet(1 .. Len(history)) BY <1>1, FS_Interval
<1>3. StaleReads \in SUBSET (1 .. Len(history)) BY <1>1 DEF StaleReads
<1>4. TotalReads \in Nat BY KVAssumption DEF KVAssumption
<1>5. IsFiniteSet(1 .. TotalReads) BY <1>4, FS_Interval
<1>6. IsFiniteSet(kReadIds) BY <1>5, FS_Subset DEF TypeOK
<1>7. IsFiniteSet(StaleReads) /\ IsFiniteSet(UsedWeakReads)
  BY <1>2, <1>3, <1>6, FS_Subset, FS_Intersection DEF UsedWeakReads
<1> QED BY <1>6, <1>7, FS_CardinalityType DEF ReadsAreFinite

\* A call of k_causal that is the next weak read uses it up; another call uses up
\* nothing, and nothing used up is given back.
LEMMA UsedWeakReadsGrow ==
  ASSUME TypeOK, UNCHANGED kReadIds, readCount' \in {readCount, readCount + 1}
  PROVE  /\ Cardinality(UsedWeakReads) <= Cardinality(UsedWeakReads')
         /\ readCount' = readCount + 1 /\ readCount + 1 \in kReadIds =>
              Cardinality(UsedWeakReads') = Cardinality(UsedWeakReads) + 1
<1>1. readCount \in Nat BY DEF TypeOK
<1>2. IsFiniteSet(UsedWeakReads) /\ Cardinality(UsedWeakReads) \in Nat
  BY ReadsFinite DEF ReadsAreFinite
<1>3. CASE readCount' = readCount + 1 /\ readCount + 1 \in kReadIds
  <2>1. UsedWeakReads' = UsedWeakReads \cup {readCount + 1}
          /\ readCount + 1 \notin UsedWeakReads
    BY <1>1, <1>3 DEF UsedWeakReads
  <2> QED BY <1>2, <2>1, FS_AddElement
<1>4. CASE ~ (readCount' = readCount + 1 /\ readCount + 1 \in kReadIds)
  <2>1. UsedWeakReads' = UsedWeakReads BY <1>1, <1>4 DEF UsedWeakReads
  <2> QED BY <1>2, <1>4, <2>1
<1> QED BY <1>3, <1>4

LEMMA WeakReadsStep ==
  ASSUME StoreInv, [Next]_vars, WeakReadsPay
  PROVE  WeakReadsPay'
<1>0. TypeOK BY DEF StoreInv
<1>1. /\ IsFiniteSet(StaleReads) /\ Cardinality(StaleReads) \in Nat
      /\ IsFiniteSet(UsedWeakReads) /\ Cardinality(UsedWeakReads) \in Nat
  BY <1>0, ReadsFinite DEF ReadsAreFinite
<1>2. ReadsAreFinite'
  <2>1. TypeOK' BY <1>0, TypeStep
  <2>2. TypeOK' => ReadsAreFinite' BY ReadsFinite, PTL
  <2> QED BY <2>1, <2>2
<1>3. Cardinality(UsedWeakReads') \in Nat /\ Cardinality(StaleReads') \in Nat
  BY <1>2 DEF ReadsAreFinite
<1>4. CASE CommitsNothing
  <2>1. StaleReads' = StaleReads
    BY <1>4 DEF CommitsNothing, StaleReads, Stale, IsLastPutBefore
  <2> QED BY <1>0, <1>1, <1>3, <1>4, <2>1, UsedWeakReadsGrow DEF CommitsNothing, WeakReadsPay
<1>5. ASSUME NEW x, NEW i, CommitsGet(x, i) PROVE WeakReadsPay'
  <2>1. /\ x \in Transactions /\ Commit(x) /\ x.by = selector
        /\ i \in Choices(selector, x.session, x.key)
        /\ readCount' = IF selector = "k_causal" THEN readCount + 1 ELSE readCount
        /\ UNCHANGED kReadIds
    BY <1>5 DEF CommitsGet
  <2>2. PICK last : last = Len(history) + 1 OBVIOUS
  <2>3. StaleReads' = IF x.by = "k_causal" /\ Stale(last)' THEN StaleReads \cup {last}
                      ELSE StaleReads
    BY <1>0, <2>1, <2>2, StaleReadsOf DEF StaleReads
  <2>4. readCount' \in {readCount, readCount + 1} BY <2>1
  <2>5. CASE x.by = "k_causal" /\ Stale(last)'
    <3>1. i # Len(kvMap[x.key]) BY <1>5, <2>2, <2>5, NewestNotStale
    <3>2. readCount + 1 \in kReadIds
      BY <2>1, <2>5, <3>1 DEF Choices, KCausalChoices, LinearChoices
    <3>3. Cardinality(UsedWeakReads') = Cardinality(UsedWeakReads) + 1
      BY <1>0, <2>1, <2>4, <2>5, <3>2, UsedWeakReadsGrow
    <3>4. Cardinality(StaleReads') <= Cardinality(StaleReads) + 1
      <4>1. StaleReads' = StaleReads \cup {last} BY <2>3, <2>5
      <4>2. Cardinality(StaleReads \cup {last})
              = IF last \in StaleReads THEN Cardinality(StaleReads)
                ELSE Cardinality(StaleReads) + 1
        BY <1>1, FS_AddElement
      <4> QED BY <1>1, <4>1, <4>2
    <3> QED BY <1>1, <1>3, <2>1, <3>3, <3>4 DEF WeakReadsPay
  <2>6. CASE ~ (x.by = "k_causal" /\ Stale(last)')
    <3>1. StaleReads' = StaleReads BY <2>3, <2>6
    <3>2. Cardinality(UsedWeakReads) <= Cardinality(UsedWeakReads')
      BY <1>0, <2>1, <2>4, UsedWeakReadsGrow
    <3> QED BY <1>1, <1>3, <2>1, <3>1, <3>2 DEF WeakReadsPay
  <2> QED BY <2>5, <2>6
<1>6. ASSUME NEW x, CommitsPut(x) PROVE WeakReadsPay'
  <2>1. /\ x \in Transactions /\ Commit(x) /\ x.op = "PUT"
        /\ UNCHANGED <<readCount, kReadIds>>
    BY <1>6 DEF CommitsPut
  <2>2. PICK last : last = Len(history) + 1 OBVIOUS
  <2>3. ~ Stale(last)' BY <1>0, <2>1, <2>2, CommitExtends DEF Stale
  <2>4. StaleReads' = StaleReads BY <1>0, <2>1, <2>2, <2>3, StaleReadsOf DEF StaleReads
  <2>5. UsedWeakReads' = UsedWeakReads BY <2>1 DEF UsedWeakReads
  <2> QED BY <2>1, <2>4, <2>5 DEF WeakReadsPay
<1> QED BY <1>4, <1>5, <1>6, StepCommits

LEMMA WeakReadsInit == Init => WeakReadsPay
<1> SUFFICES ASSUME Init PROVE WeakReadsPay OBVIOUS
<1>1. Cardinality(kReadIds) = K BY DEF Init
<1>2. DOMAIN history = {} /\ readCount = 0 BY DEF Init
<1>3. StaleReads = {} /\ UsedWeakReads = {} BY <1>2 DEF StaleReads, UsedWeakReads
<1> QED BY <1>1, <1>3, FS_EmptySet DEF WeakReadsPay

\* k_causal is at most k times weaker than linearizable: no more than K of its
\* reads are ever stale, for every K, and however selectors are swapped.
THEOREM KCausalBounded == Spec => []KCausalBound
<1>1. TypeOK /\ WeakReadsPay => KCausalBound
  <2> SUFFICES ASSUME TypeOK, WeakReadsPay PROVE KCausalBound OBVIOUS
  <2>1. Cardinality(UsedWeakReads) <= Cardinality(kReadIds)
    BY ReadsFinite, FS_Subset DEF UsedWeakReads, ReadsAreFinite
  <2>2. /\ Cardinality(UsedWeakReads) \in Nat /\ Cardinality(StaleReads) \in Nat
        /\ Cardinality(kReadIds) \in Nat
    BY ReadsFinite DEF ReadsAreFinite
  <2> QED BY <2>1, <2>2 DEF WeakReadsPay, KCausalBound, StaleReads
<1>2. StoreInv => TypeOK BY DEF StoreInv
<1> QED BY <1>1, <1>2, WeakReadsInit, WeakReadsStep, StoreInvariant, PTL DEF Spec
-----------------------------------------------------------------------------
(* The history, the versions of the keys and the orders of the sessions *)

Rank(n, S) == Cardinality({m \in S : m <= n})

\* A position after all others is the last in rank and changes no other rank.
LEMMA RankOfNext ==
  ASSUME NEW N \in Nat, NEW S \in SUBSET (1 .. N)
  PROVE  /\ Cardinality(S) \in Nat
         /\ Cardinality(S \cup {N + 1}) = Cardinality(S) + 1
         /\ Rank(N + 1, S \cup {N + 1}) = Cardinality(S) + 1
         /\ \A n \in S : /\ Rank(n, S \cup {N + 1}) = Rank(n, S)
                         /\ Rank(n, S) \in 1 .. Cardinality(S)
<1>1. IsFiniteSet(S)
  <2>1. IsFiniteSet(1 .. N) BY FS_Interval
  <2> QED BY <2>1, FS_Subset
<1>2. Cardinality(S) \in Nat BY <1>1, FS_CardinalityType
<1>3. N + 1 \notin S OBVIOUS
<1>4. Cardinality(S \cup {N + 1}) = Cardinality(S) + 1 BY <1>1, <1>3, FS_AddElement
<1>5. {m \in S \cup {N + 1} : m <= N + 1} = S \cup {N + 1}
  <2>1. \A m \in S \cup {N + 1} : m <= N + 1 OBVIOUS
  <2> QED BY <2>1
<1>6. ASSUME NEW n \in S
      PROVE  Rank(n, S \cup {N + 1}) = Rank(n, S) /\ Rank(n, S) \in 1 .. Cardinality(S)
  <2>1. n \in Nat /\ n <= N OBVIOUS
  <2>2. {m \in S \cup {N + 1} : m <= n} = {m \in S : m <= n} BY <2>1
  <2> DEFINE U == {m \in S : m <= n}
  <2>3. U \in SUBSET S /\ n \in U BY <2>1
  <2>4. IsFiniteSet(U) /\ Cardinality(U) <= Cardinality(S) BY <1>1, <2>3, FS_Subset
  <2>5. Cardinality(U) \in Nat /\ Cardinality(U) # 0
    BY <2>3, <2>4, FS_CardinalityType, FS_EmptySet
  <2> HIDE DEF U
  <2>6. Cardinality(U) \in 1 .. Cardinality(S) BY <1>2, <2>4, <2>5
  <2> QED BY <2>2, <2>6 DEF U, Rank
<1> QED BY <1>2, <1>4, <1>5, <1>6 DEF Rank

\* A sequence that lists, in order, something of each position in S.
Lists(q, S, of) ==
  Len(q) = Cardinality(S) /\ \A n \in S : q[Rank(n, S)] = of[n]

LEMMA ListsOneMore ==
  ASSUME NEW T, NEW q \in Seq(T), NEW e \in T, NEW N \in Nat, NEW S \in SUBSET (1 .. N),
         NEW of, NEW of2, Lists(q, S, of),
         of2[N + 1] = e, \A n \in S : of2[n] = of[n]
  PROVE  Lists(Append(q, e), S \cup {N + 1}, of2)
<1> DEFINE S2 == S \cup {N + 1}
           q2 == Append(q, e)
           c == Cardinality(S)
<1>1. /\ c \in Nat /\ Cardinality(S2) = c + 1 /\ Rank(N + 1, S2) = c + 1
      /\ \A n \in S : Rank(n, S2) = Rank(n, S) /\ Rank(n, S) \in 1 .. c
  BY RankOfNext
<1>2. Len(q) = c BY DEF Lists
<1>3. Len(q2) = c + 1 /\ q2[c + 1] = e /\ \A i \in 1 .. c : q2[i] = q[i] BY <1>2
<1> HIDE DEF q2, c
<1>4. q2[Rank(N + 1, S2)] = of2[N + 1] BY <1>1, <1>3
<1>5. \A n \in S : q2[Rank(n, S2)] = of2[n] BY <1>1, <1>3 DEF Lists
<1> QED BY <1>1, <1>3, <1>4, <1>5 DEF Lists, q2

LEMMA ListsTheSame ==
  ASSUME NEW q, NEW S, NEW of, NEW of2, Lists(q, S, of), \A n \in S : of2[n] = of[n]
  PROVE  Lists(q, S, of2)
  BY DEF Lists

PutsOf(k) == {n \in DOMAIN history : history[n].op = "PUT" /\ history[n].key = k}
CommitsOf(s) == {n \in DOMAIN history : history[n].session = s}
VersionPut == [n \in DOMAIN history |-> [value |-> history[n].value, tx |-> history[n].id]]

ViewsAgree ==
  /\ \A k \in Keys : Lists(kvMap[k], PutsOf(k), VersionPut)
  /\ \A s \in Sessions : Lists(sessionOrder[s], CommitsOf(s), history)

LEMMA ViewsAreHistory == ViewsAgree => HistoryAgrees
  BY DEF ViewsAgree, HistoryAgrees, Lists, PutsOf, CommitsOf, VersionPut, Rank

\* A commit adds one position to the commits of its session.
LEMMA SessionViewStep ==
  ASSUME TypeOK, NEW x \in Transactions, Commit(x), NEW s \in Sessions,
         Lists(sessionOrder[s], CommitsOf(s), history)
  PROVE  Lists(sessionOrder[s], CommitsOf(s), history)'
<1> DEFINE N == Len(history)
<1>1. /\ N \in Nat /\ DOMAIN history = 1 .. N /\ DOMAIN history' = DOMAIN history \cup {N + 1}
      /\ history'[N + 1] = x
      /\ \A n \in DOMAIN history : history'[n] = history[n] /\ n \in Nat /\ n < N + 1
  BY CommitExtends
<1> HIDE DEF N
<1>2. CommitsOf(s) \in SUBSET (1 .. N) BY <1>1 DEF CommitsOf
<1>3. \A n \in CommitsOf(s) : history'[n] = history[n] BY <1>1 DEF CommitsOf
<1>4. CASE s = x.session
  <2>1. CommitsOf(s)' = CommitsOf(s) \cup {N + 1} BY <1>1, <1>4 DEF CommitsOf
  <2>2. sessionOrder'[s] = Append(sessionOrder[s], x) /\ sessionOrder[s] \in Seq(Transactions)
    BY <1>4 DEF Commit, TypeOK
  <2> QED BY <1>1, <1>2, <1>3, <2>1, <2>2, ListsOneMore
<1>5. CASE s # x.session
  <2>1. CommitsOf(s)' = CommitsOf(s) BY <1>1, <1>5 DEF CommitsOf
  <2>2. sessionOrder'[s] = sessionOrder[s] BY <1>5 DEF Commit, TypeOK
  <2> QED BY <1>3, <2>1, <2>2, ListsTheSame
<1> QED BY <1>4, <1>5

LEMMA ViewsStep ==
  ASSUME StoreInv, [Next]_vars, ViewsAgree
  PROVE  ViewsAgree'
<1>0. TypeOK BY DEF StoreInv
<1>1. CASE CommitsNothing
  BY <1>1 DEF CommitsNothing, ViewsAgree, PutsOf, CommitsOf, VersionPut
<1>2. ASSUME NEW x, NEW i, CommitsGet(x, i) PROVE ViewsAgree'
  <2>1. x \in Transactions /\ Commit(x) /\ x.op = "GET" /\ UNCHANGED kvMap
    BY <1>2 DEF CommitsGet
  <2>2. ASSUME NEW k \in Keys PROVE Lists(kvMap[k], PutsOf(k), VersionPut)'
    <3>1. PutsOf(k)' = PutsOf(k) BY <1>0, <2>1, CommitExtends DEF PutsOf
    <3>2. \A n \in PutsOf(k) : VersionPut'[n] = VersionPut[n]
      BY <1>0, <2>1, CommitExtends DEF PutsOf, VersionPut
    <3> QED BY <2>1, <3>1, <3>2, ListsTheSame DEF ViewsAgree
  <2> QED BY <1>0, <2>1, <2>2, SessionViewStep DEF ViewsAgree
<1>3. ASSUME NEW x, CommitsPut(x) PROVE ViewsAgree'
  <2> DEFINE N == Len(history)
             new == [value |-> x.value, tx |-> x.id]
  <2>1. /\ x \in Transactions /\ Commit(x) /\ x.op = "PUT" /\ x.value \in Values
        /\ kvMap' = [kvMap EXCEPT ![x.key] = Append(@, new)]
    BY <1>3 DEF CommitsPut
  <2>2. /\ N \in Nat /\ DOMAIN history = 1 .. N /\ DOMAIN history' = DOMAIN history \cup {N + 1}
        /\ history'[N + 1] = x
        /\ \A n \in DOMAIN history : history'[n] = history[n] /\ n \in Nat /\ n < N + 1
    BY <1>0, <2>1, CommitExtends
  <2>3. new \in Versions BY <2>1 DEF Versions, Transactions
  <2>4. VersionPut'[N + 1] = new BY <2>2 DEF VersionPut
  <2>5. \A n \in DOMAIN history : VersionPut'[n] = VersionPut[n] BY <2>2 DEF VersionPut
  <2> HIDE DEF N, new
  <2>6. ASSUME NEW k \in Keys PROVE Lists(kvMap[k], PutsOf(k), VersionPut)'
    <3>1. Lists(kvMap[k], PutsOf(k), VersionPut) /\ PutsOf(k) \in SUBSET (1 .. N)
      BY <2>2 DEF ViewsAgree, PutsOf
    <3>2. \A n \in PutsOf(k) : VersionPut'[n] = VersionPut[n] BY <2>5 DEF PutsOf
    <3>3. CASE k = x.key
      <4>1. PutsOf(k)' = PutsOf(k) \cup {N + 1} BY <2>1, <2>2, <3>3 DEF PutsOf
      <4>2. kvMap'[k] = Append(kvMap[k], new) /\ kvMap[k] \in Seq(Versions)
        BY <1>0, <2>1, <3>3 DEF TypeOK
      <4> QED BY <2>2, <2>3, <2>4, <3>1, <3>2, <4>1, <4>2, ListsOneMore
    <3>4. CASE k # x.key
      <4>1. PutsOf(k)' = PutsOf(k) BY <2>2, <3>4 DEF PutsOf
      <4>2. kvMap'[k] = kvMap[k] BY <1>0, <2>1, <3>4 DEF TypeOK
      <4> QED BY <3>1, <3>2, <4>1, <4>2, ListsTheSame
    <3> QED BY <3>3, <3>4
  <2> QED BY <1>0, <2>1, <2>6, SessionViewStep DEF ViewsAgree
<1> QED BY <1>1, <1>2, <1>3, StepCommits

LEMMA ViewsInit == Init => ViewsAgree
<1> SUFFICES ASSUME Init PROVE ViewsAgree OBVIOUS
<1>1. DOMAIN history = {} BY DEF Init
<1>2. \A k \in Keys : kvMap[k] = <<>> /\ PutsOf(k) = {} BY <1>1 DEF Init, PutsOf
<1>3. \A s \in Sessions : sessionOrder[s] = <<>> /\ CommitsOf(s) = {}
  BY <1>1 DEF Init, CommitsOf
<1>4. Len(<<>>) = Cardinality({}) BY FS_EmptySet
<1> QED BY <1>2, <1>3, <1>4 DEF ViewsAgree, Lists

\* No commit is lost or moved: at all times the versions of each key are the PUTs
\* of the history, and the order of each session is its part of the history.
THEOREM HistoryAlwaysAgrees == Spec => []HistoryAgrees
  BY ViewsInit, ViewsStep, ViewsAreHistory, StoreInvariant, PTL DEF Spec
-----------------------------------------------------------------------------
(* What the GETs of a history return *)

\* The GET at position n returned what the PUT at position m had put.
ReadsFrom(n, m) ==
  /\ m \in DOMAIN history /\ m < n
  /\ history[m].op = "PUT" /\ history[m].key = history[n].key
  /\ history[m].id = history[n].from /\ history[m].value = history[n].value

\* Every version holds what a PUT of the history put, and every GET of the history
\* returned what an earlier PUT had put.
VersionsHoldPuts ==
  \A k \in Keys : \A i \in DOMAIN kvMap[k] :
    \E m \in DOMAIN history : Wrote(m, k, i) /\ history[m].value = kvMap[k][i].value
GetsReturnPuts == \A n \in DOMAIN history : history[n].op = "GET" => \E m : ReadsFrom(n, m)
ReadInv == VersionsHoldPuts /\ GetsReturnPuts

LEMMA ReadStep ==
  ASSUME StoreInv, StoreInv', [Next]_vars, ReadInv
  PROVE  ReadInv'
<1>0. TypeOK BY DEF StoreInv
<1>1. CASE CommitsNothing
  BY <1>1 DEF CommitsNothing, ReadInv, VersionsHoldPuts, GetsReturnPuts, ReadsFrom, Wrote
<1>last. PICK last : last = Len(history) + 1 OBVIOUS
<1>2. ASSUME NEW x \in Transactions, Commit(x),
             \A k \in Keys : \A i \in DOMAIN kvMap[k] :
               i \in DOMAIN kvMap'[k] /\ kvMap'[k][i] = kvMap[k][i]
      PROVE  /\ DOMAIN history' = DOMAIN history \cup {last} /\ history'[last] = x
             /\ \A n \in DOMAIN history : history'[n] = history[n] /\ n \in Nat /\ n < last
             /\ \A m \in DOMAIN history, k \in Keys : \A i \in DOMAIN kvMap[k] :
                  Wrote(m, k, i) => Wrote(m, k, i)'
             /\ \A n \in DOMAIN history : history[n].op = "GET" => \E m : ReadsFrom(n, m)'
  <2>1. /\ DOMAIN history' = DOMAIN history \cup {last} /\ history'[last] = x
        /\ \A n \in DOMAIN history : history'[n] = history[n] /\ n \in Nat /\ n < last
    BY <1>0, <1>last, <1>2, CommitExtends
  <2>2. \A m \in DOMAIN history, k \in Keys : \A i \in DOMAIN kvMap[k] :
          Wrote(m, k, i) => Wrote(m, k, i)'
    BY <1>2, <2>1 DEF Wrote
  <2>3. ASSUME NEW n \in DOMAIN history, history[n].op = "GET" PROVE \E m : ReadsFrom(n, m)'
    <3>1. PICK m : ReadsFrom(n, m) BY <2>3 DEF ReadInv, GetsReturnPuts
    <3>2. ReadsFrom(n, m)' BY <2>1, <3>1 DEF ReadsFrom
    <3> QED BY <3>2
  <2> QED BY <2>1, <2>2, <2>3
<1>3. ASSUME NEW x, NEW i, CommitsGet(x, i) PROVE ReadInv'
  <2>1. /\ x \in Transactions /\ x.op = "GET" /\ Commit(x) /\ UNCHANGED kvMap
        /\ i \in DOMAIN kvMap[x.key] /\ x.from = kvMap[x.key][i].tx
        /\ x.value = kvMap[x.key][i].value /\ x.version = i /\ x.key \in Keys
    BY <1>3 DEF CommitsGet, Transactions
  <2>2. /\ DOMAIN history' = DOMAIN history \cup {last} /\ history'[last] = x
        /\ \A n \in DOMAIN history : history'[n] = history[n] /\ n \in Nat /\ n < last
        /\ \A m \in DOMAIN history, k \in Keys : \A j \in DOMAIN kvMap[k] :
             Wrote(m, k, j) => Wrote(m, k, j)'
        /\ \A n \in DOMAIN history : history[n].op = "GET" => \E m : ReadsFrom(n, m)'
    BY <1>2, <2>1
  <2>3. VersionsHoldPuts'
    BY <2>1, <2>2 DEF ReadInv, VersionsHoldPuts
  <2>4. \E m : ReadsFrom(last, m)'
    <3>1. PICK m \in DOMAIN history : Wrote(m, x.key, i) /\ history[m].value = kvMap[x.key][i].value
      BY <2>1 DEF ReadInv, VersionsHoldPuts
    <3>2. history[m].id = x.from /\ history[m].op = "PUT" /\ history[m].key = x.key
      BY <2>1, <3>1 DEF Wrote
    <3>3. ReadsFrom(last, m)' BY <2>1, <2>2, <3>1, <3>2 DEF ReadsFrom
    <3> QED BY <3>3
  <2>5. GetsReturnPuts' BY <2>2, <2>4 DEF GetsReturnPuts
  <2> QED BY <2>3, <2>5 DEF ReadInv
<1>4. ASSUME NEW x, CommitsPut(x) PROVE ReadInv'
  <2>w. PICK w : w = Len(kvMap[x.key]) + 1 OBVIOUS
  <2>1. x \in Transactions /\ x.op = "PUT" /\ Commit(x) BY <1>4 DEF CommitsPut
  <2>2. /\ x.key \in Keys
        /\ \A k \in Keys \ {x.key} : kvMap'[k] = kvMap[k]
        /\ DOMAIN kvMap'[x.key] = DOMAIN kvMap[x.key] \cup {w}
        /\ kvMap'[x.key][w] = [value |-> x.value, tx |-> x.id]
        /\ \A i \in DOMAIN kvMap[x.key] : kvMap'[x.key][i] = kvMap[x.key][i]
    BY <1>0, <1>4, <2>w, PutExtends
  <2>3. \A k \in Keys : \A i \in DOMAIN kvMap[k] :
          i \in DOMAIN kvMap'[k] /\ kvMap'[k][i] = kvMap[k][i]
    BY <2>2
  <2>4. /\ DOMAIN history' = DOMAIN history \cup {last} /\ history'[last] = x
        /\ \A n \in DOMAIN history : history'[n] = history[n] /\ n \in Nat /\ n < last
        /\ \A m \in DOMAIN history, k \in Keys : \A j \in DOMAIN kvMap[k] :
             Wrote(m, k, j) => Wrote(m, k, j)'
        /\ \A n \in DOMAIN history : history[n].op = "GET" => \E m : ReadsFrom(n, m)'
    BY <1>2, <2>1, <2>3
  <2>5. ASSUME NEW k \in Keys, NEW i \in DOMAIN kvMap'[k]
        PROVE  \E m \in DOMAIN history' :
                 Wrote(m, k, i)' /\ history'[m].value = kvMap'[k][i].value
    <3>1. CASE i \in DOMAIN kvMap[k]
      BY <2>3, <2>4, <3>1 DEF ReadInv, VersionsHoldPuts
    <3>2. CASE i \notin DOMAIN kvMap[k]
      <4>1. k = x.key /\ i = w BY <2>2, <3>2
      <4>2. Wrote(last, k, i)' BY <2>1, <2>2, <2>4, <4>1 DEF Wrote
      <4> QED BY <2>2, <2>4, <4>1, <4>2
    <3> QED BY <3>1, <3>2
  <2>6. VersionsHoldPuts' BY <2>5 DEF VersionsHoldPuts
  <2>7. GetsReturnPuts' BY <2>1, <2>4 DEF GetsReturnPuts
  <2> QED BY <2>6, <2>7 DEF ReadInv
<1> QED BY <1>1, <1>3, <1>4, StepCommits

\* Whatever selector answers, a GET returns what an earlier PUT of its key had put,
\* with the number of that version.
THEOREM ReadsReturnPuts == Spec => []GetsReturnPuts
<1>1. Init => ReadInv
  <2> SUFFICES ASSUME Init PROVE ReadInv OBVIOUS
  <2>1. DOMAIN history = {} /\ \A k \in Keys : DOMAIN kvMap[k] = {} BY DEF Init
  <2> QED BY <2>1 DEF ReadInv, VersionsHoldPuts, GetsReturnPuts
<1>2. StoreInv /\ StoreInv' /\ [Next]_vars /\ ReadInv => ReadInv' BY ReadStep
<1>3. ReadInv => GetsReturnPuts BY DEF ReadInv
<1> QED BY <1>1, <1>2, <1>3, StoreInvariant, PTL DEF Spec

\* A later position has a higher rank.
LEMMA RankGrows ==
  ASSUME NEW N \in Nat, NEW S \in SUBSET (1 .. N), NEW m \in S, NEW n \in S, m < n
  PROVE  /\ Rank(m, S) \in 1 .. Cardinality(S) /\ Rank(n, S) \in 1 .. Cardinality(S)
         /\ Rank(m, S) < Rank(n, S)
<1>1. IsFiniteSet(S)
  <2>1. IsFiniteSet(1 .. N) BY FS_Interval
  <2> QED BY <2>1, FS_Subset
<1>2. m \in Nat /\ n \in Nat OBVIOUS
<1> DEFINE A == {p \in S : p <= m}
           B == {p \in S : p <= n}
<1>3. A \subseteq B /\ n \in B /\ n \notin A
  <2>1. \A p \in S : p <= m => p <= n OBVIOUS
  <2>2. n <= n /\ ~ (n <= m) BY <1>2
  <2> QED BY <2>1, <2>2
<1>4. IsFiniteSet(B) BY <1>1, FS_Subset
<1>5. Cardinality(A) < Cardinality(B)
  <2>1. A \in SUBSET B /\ A # B BY <1>3
  <2> HIDE DEF A, B
  <2>2. /\ IsFiniteSet(A) /\ Cardinality(A) <= Cardinality(B)
        /\ Cardinality(A) = Cardinality(B) => A = B
    BY <1>4, <2>1, FS_Subset
  <2>3. Cardinality(A) \in Nat /\ Cardinality(B) \in Nat BY <1>4, <2>2, FS_CardinalityType
  <2> QED BY <2>1, <2>2, <2>3
<1>6. Rank(m, S) = Cardinality(A) /\ Rank(n, S) = Cardinality(B) BY DEF Rank
<1> HIDE DEF A, B
<1> QED BY <1>5, <1>6, RankOfNext

\* Two GETs of a session return versions in the order in which they were put.
LEMMA ReadsGoForward ==
  ASSUME StoreInv, ViewsAgree, NEW p \in DOMAIN history, NEW q \in DOMAIN history, p < q,
         history[p].op = "GET", history[q].op = "GET",
         history[p].key = history[q].key, history[p].session = history[q].session,
         NEW m, NEW n, ReadsFrom(p, m), ReadsFrom(q, n)
  PROVE  m <= n
<1> DEFINE s == history[p].session
           k == history[p].key
           S == CommitsOf(s)
<1>1. s \in Sessions /\ k \in Keys BY HistoryTyped DEF StoreInv
<1>2. Len(history) \in Nat /\ DOMAIN history = 1 .. Len(history) BY DEF StoreInv, TypeOK
<1>3. S \in SUBSET (1 .. Len(history)) /\ p \in S /\ q \in S BY <1>2 DEF CommitsOf
<1>4. /\ Len(sessionOrder[s]) = Cardinality(S)
      /\ sessionOrder[s][Rank(p, S)] = history[p] /\ sessionOrder[s][Rank(q, S)] = history[q]
  BY <1>1, <1>3 DEF ViewsAgree, Lists
<1>5. DOMAIN sessionOrder[s] = 1 .. Len(sessionOrder[s]) BY <1>1 DEF StoreInv, TypeOK
<1>6. PICK i \in DOMAIN kvMap[k] : Touches(history[p], i) BY DEF StoreInv, TransactionsTouch
<1>7. PICK j \in DOMAIN kvMap[k] : Touches(history[q], j) BY DEF StoreInv, TransactionsTouch
<1> HIDE DEF s, k, S
<1>8. /\ Rank(p, S) \in DOMAIN sessionOrder[s] /\ Rank(q, S) \in DOMAIN sessionOrder[s]
      /\ Rank(p, S) < Rank(q, S)
  BY <1>2, <1>3, <1>4, <1>5, RankGrows
<1>9. history[p].key = k /\ history[q].key = k BY DEF k
<1>10. i <= j
  BY <1>1, <1>4, <1>6, <1>7, <1>8, <1>9 DEF StoreInv, MonotonicSession
<1>11. /\ m \in DOMAIN history /\ history[m].id = kvMap[k][i].tx
       /\ n \in DOMAIN history /\ history[n].id = kvMap[k][j].tx
  BY <1>6, <1>7, <1>9 DEF ReadsFrom, Touches, Writer
<1> QED BY <1>1, <1>10, <1>11, WriterDecides

\* The number that a GET returns counts the PUTs of its key.
LEMMA VersionCounts ==
  ASSUME StoreInv, ViewsAgree, VersionNumberStable, NEW n \in DOMAIN history,
         history[n].op = "GET", NEW m, ReadsFrom(n, m)
  PROVE  history[n].version = Rank(m, PutsOf(history[n].key))
<1> DEFINE k == history[n].key
           S == PutsOf(k)
<1>1. k \in Keys BY HistoryTyped DEF StoreInv
<1>2. Len(history) \in Nat /\ DOMAIN history = 1 .. Len(history) BY DEF StoreInv, TypeOK
<1>3. m \in DOMAIN history /\ history[m].id = history[n].from /\ m \in S
  BY DEF ReadsFrom, PutsOf
<1>4. S \in SUBSET (1 .. Len(history)) BY <1>2 DEF PutsOf
<1>5. /\ Len(kvMap[k]) = Cardinality(S) /\ kvMap[k][Rank(m, S)] = VersionPut[m]
  BY <1>1, <1>3 DEF ViewsAgree, Lists
<1>6. VersionPut[m].tx = history[m].id BY <1>3 DEF VersionPut
<1>7. DOMAIN kvMap[k] = 1 .. Len(kvMap[k]) BY <1>1 DEF StoreInv, TypeOK
<1>8. history[n].version \in DOMAIN kvMap[k] /\ kvMap[k][history[n].version].tx = history[n].from
  <2>1. /\ history[n].version \in DOMAIN kvMap[k]
        /\ kvMap[k][history[n].version] = [value |-> history[n].value, tx |-> history[n].from]
    BY DEF VersionNumberStable
  <2>2. [value |-> history[n].value, tx |-> history[n].from].tx = history[n].from OBVIOUS
  <2> QED BY <2>1, <2>2
<1> HIDE DEF k, S
<1>9. Rank(m, S) \in DOMAIN kvMap[k] BY <1>2, <1>3, <1>4, <1>5, <1>7, RankOfNext
<1>10. history[n].version = Rank(m, S)
  BY <1>1, <1>3, <1>5, <1>6, <1>8, <1>9, VersionIdsUnique
<1> QED BY <1>10 DEF k, S
=============================================================================
