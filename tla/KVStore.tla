------------------------------ MODULE KVStore ------------------------------
(***************************************************************************)
(* The in-memory store of kv_store/include: kv_store with its transactions *)
(* and its mutex, the causal consistency checker, and the three selectors  *)
(* that choose the version a GET answers with.                             *)
(*                                                                         *)
(* A client thread creates its transaction, which draws an id from the     *)
(* static atomic counter, BEFORE it takes the mutex; commit order and id   *)
(* order may therefore differ.  Everything after the lock and up to the    *)
(* unlock is one step: no other thread touches the store in between.       *)
(***************************************************************************)
EXTENDS Naturals, Sequences, FiniteSets

CONSTANTS
  Keys, Values, Sessions, Threads,
  NoValue, NoThread, NoTx,   \* sentinels
  Selectors,                 \* the selectors an embedding program installs
  K, TotalReads,             \* parameters of k_causal_read_response_selector
  MaxTx                      \* bound: transactions created in a behaviour

SelectorNames == {"causal", "linear", "k_causal"}

\* pick_k_read_ids takes the first K of TotalReads shuffled ids, so K must not
\* exceed TotalReads.
ASSUME KVAssumption ==
  /\ Selectors # {} /\ Selectors \subseteq SelectorNames
  /\ K \in Nat /\ TotalReads \in Nat /\ K <= TotalReads
  /\ MaxTx \in Nat
  /\ NoThread \notin Threads

VARIABLES
  txCount,        \* transaction::tx_count
  mtx,            \* the thread holding kv_store::mtx, or NoThread
  pc,             \* pc[t]: where thread t stands in its call on the store
  tx,             \* tx[t]: the transaction t has created and not yet committed
  kvMap,          \* kv_map[k]: versions of k with the id of their writer
  history,        \* committed transactions
  sessionOrder,   \* session_order[s]
  selector,       \* the installed read_response_selector
  readCount,      \* k_causal: select_read_response calls so far
  kReadIds        \* k_causal: the reads that may be weak

vars == <<txCount, mtx, pc, tx, kvMap, history, sessionOrder, selector,
          readCount, kReadIds>>

\* A transaction with its only operation and that operation's response.  "by"
\* is the selector that chose the response; the code does not store it.
Transactions ==
  [id : Nat, session : Sessions, op : {"GET", "PUT"}, key : Keys,
   value : Values \cup {NoValue}, from : Nat, version : Nat,
   by : SelectorNames \cup {"none"}]

Versions == [value : Values, tx : Nat]

TypeOK ==
  /\ txCount \in Nat
  /\ mtx \in Threads \cup {NoThread}
  /\ pc \in [Threads -> {"idle", "created", "locked"}]
  /\ tx \in [Threads -> Transactions \cup {NoTx}]
  /\ \A t \in Threads : pc[t] # "idle" =>
       tx[t] \in Transactions /\ (tx[t].op = "PUT" => tx[t].value \in Values)
  /\ kvMap \in [Keys -> Seq(Versions)]
  /\ history \in Seq(Transactions)
  /\ sessionOrder \in [Sessions -> Seq(Transactions)]
  /\ selector \in Selectors
  /\ readCount \in Nat
  /\ kReadIds \in SUBSET (1 .. TotalReads)

Init ==
  /\ txCount = 0
  /\ mtx = NoThread
  /\ pc = [t \in Threads |-> "idle"]
  /\ tx = [t \in Threads |-> NoTx]
  /\ kvMap = [k \in Keys |-> <<>>]
  /\ history = <<>>
  /\ sessionOrder = [s \in Sessions |-> <<>>]
  /\ selector \in Selectors
  /\ readCount = 0
  /\ kReadIds \in {S \in SUBSET (1 .. TotalReads) : Cardinality(S) = K}
-----------------------------------------------------------------------------
(* The causal checker *)

\* The transaction that wrote the version x writes or reads.
Writer(x) == IF x.op = "PUT" THEN x.id ELSE x.from

\* Mistakes: the dependents are only the session's PUTs, or those on any key.
DependentPuts(s, k) ==
  {sessionOrder[s][i].id : i \in {j \in DOMAIN sessionOrder[s] :
                                   sessionOrder[s][j].key = k /\ sessionOrder[s][j].op = "PUT"}}
DependentOnAnyKey(s, k) == {Writer(sessionOrder[s][i]) : i \in DOMAIN sessionOrder[s]}

\* dependent_txs: writers of the versions of k that session s has touched.
DependentTxs(s, k) ==
  LET onKey == {i \in DOMAIN sessionOrder[s] : sessionOrder[s][i].key = k}
  IN {Writer(sessionOrder[s][i]) : i \in onKey}

\* committed_count when the scan of the history has reached position n.
CommittedCount(n, dependents) ==
  Cardinality({m \in 1 .. n : history[m].id \in dependents})

\* Mistake: the transaction is compared before it is counted.
ComparedBeforeCounted(s, k, w) ==
  LET dependents == DependentTxs(s, k)
  IN \/ dependents = {}
     \/ \E n \in DOMAIN history :
          /\ history[n].id = w
          /\ CommittedCount(n - 1, dependents) = Cardinality(dependents)

\* is_consistent for a GET of k by session s answered with what w wrote.
IsConsistent(s, k, w) ==
  LET dependents == DependentTxs(s, k)
  IN \/ dependents = {}
     \/ \E n \in DOMAIN history :
          /\ history[n].id = w
          /\ \A m \in 1 .. n - 1 : history[m].id # w
          /\ CommittedCount(n, dependents) = Cardinality(dependents)
-----------------------------------------------------------------------------
(* The selectors: which candidates select_read_response may return *)

CausalChoices(s, k) == {i \in DOMAIN kvMap[k] : IsConsistent(s, k, kvMap[k][i].tx)}

\* Mistake: the first candidate in place of the last.
FirstChoice(k) == {i \in DOMAIN kvMap[k] : i = 1}

LinearChoices(k) == {i \in DOMAIN kvMap[k] : i = Len(kvMap[k])}

\* Mistake: all of the TotalReads shuffled ids are taken in place of the first K.
AllWeakChoices(s, k) ==
  IF readCount + 1 <= TotalReads THEN CausalChoices(s, k) ELSE LinearChoices(k)

KCausalChoices(s, k) ==
  IF readCount + 1 \in kReadIds THEN CausalChoices(s, k) ELSE LinearChoices(k)

Choices(sel, s, k) ==
  CASE sel = "causal"   -> CausalChoices(s, k)
    [] sel = "linear"   -> LinearChoices(k)
    [] sel = "k_causal" -> KCausalChoices(s, k)
-----------------------------------------------------------------------------
(* The operations *)

\* Mistake: the id is the number of committed transactions plus one.
CreateFromHistory(t, s, op, k, v) ==
  /\ pc[t] = "idle" /\ txCount < MaxTx
  /\ txCount' = txCount + 1
  /\ tx' = [tx EXCEPT ![t] = [id |-> Len(history) + 1, session |-> s, op |-> op, key |-> k,
                              value |-> v, from |-> 0, version |-> 0, by |-> "none"]]
  /\ pc' = [pc EXCEPT ![t] = "created"]
  /\ UNCHANGED <<mtx, kvMap, history, sessionOrder, selector, readCount, kReadIds>>

\* A call creates its transaction, outside the mutex.
Create(t, s, op, k, v) ==
  /\ pc[t] = "idle"
  /\ txCount < MaxTx
  /\ txCount' = txCount + 1
  /\ tx' = [tx EXCEPT ![t] = [id |-> txCount + 1, session |-> s, op |-> op, key |-> k,
                              value |-> v, from |-> 0, version |-> 0, by |-> "none"]]
  /\ pc' = [pc EXCEPT ![t] = "created"]
  /\ UNCHANGED <<mtx, kvMap, history, sessionOrder, selector, readCount, kReadIds>>

StartGet(t, s, k) == Create(t, s, "GET", k, NoValue)

StartPut(t, s, k, v) == Create(t, s, "PUT", k, v)

Lock(t) ==
  /\ pc[t] = "created"
  /\ mtx = NoThread
  /\ mtx' = t
  /\ pc' = [pc EXCEPT ![t] = "locked"]
  /\ UNCHANGED <<txCount, tx, kvMap, history, sessionOrder, selector, readCount, kReadIds>>

\* Mistake: the transaction is deleted, and the call goes on.
UnlockWithoutReturn(t) ==
  mtx' = NoThread /\ tx' = [tx EXCEPT ![t] = NoTx] /\ UNCHANGED pc

\* The call of t returns or throws; every path unlocks first.
Unlock(t) ==
  /\ mtx' = NoThread
  /\ pc' = [pc EXCEPT ![t] = "idle"]
  /\ tx' = [tx EXCEPT ![t] = NoTx]

\* Mistake: the session's order is not kept.
CommitToHistory(x) == history' = Append(history, x) /\ UNCHANGED sessionOrder

\* commit_tx
Commit(x) ==
  /\ history' = Append(history, x)
  /\ sessionOrder' = [sessionOrder EXCEPT ![x.session] = Append(@, x)]

\* Mistake: the exception leaves the mutex locked.
GetNotFoundLocked(t) ==
  /\ pc[t] = "locked" /\ tx[t].op = "GET"
  /\ kvMap[tx[t].key] = <<>>
  /\ pc' = [pc EXCEPT ![t] = "idle"] /\ tx' = [tx EXCEPT ![t] = NoTx]
  /\ UNCHANGED <<mtx, txCount, kvMap, history, sessionOrder, selector, readCount, kReadIds>>

\* _get on an absent key: the transaction is deleted, key_not_found_exception.
GetNotFound(t) ==
  /\ pc[t] = "locked" /\ tx[t].op = "GET"
  /\ kvMap[tx[t].key] = <<>>
  /\ Unlock(t)
  /\ UNCHANGED <<txCount, kvMap, history, sessionOrder, selector, readCount, kReadIds>>

\* Mistake: versions are numbered from 0, which is the etag of an absent key.
AnsweredFromZero(x, i) ==
  [x EXCEPT !.value = kvMap[x.key][i].value, !.from = kvMap[x.key][i].tx,
            !.version = i - 1, !.by = selector]

\* The transaction of a GET answered with version i of its key.
Answered(x, i) ==
  [x EXCEPT !.value = kvMap[x.key][i].value, !.from = kvMap[x.key][i].tx,
            !.version = i, !.by = selector]

\* _get on a present key: the selector chooses, or throws consistency_exception.
GetPresent(t) ==
  LET x == tx[t]
      choices == Choices(selector, x.session, x.key)
  IN /\ pc[t] = "locked" /\ x.op = "GET"
     /\ kvMap[x.key] # <<>>
     /\ IF choices = {}
          THEN UNCHANGED <<history, sessionOrder>>
          ELSE \E i \in choices : Commit(Answered(x, i))
     /\ readCount' = IF selector = "k_causal" THEN readCount + 1 ELSE readCount
     /\ Unlock(t)
     /\ UNCHANGED <<txCount, kvMap, selector, kReadIds>>

PutLocked(t) ==
  LET x == tx[t]
  IN /\ pc[t] = "locked" /\ x.op = "PUT"
     /\ kvMap' = [kvMap EXCEPT ![x.key] = Append(@, [value |-> x.value, tx |-> x.id])]
     /\ Commit(x)
     /\ Unlock(t)
     /\ UNCHANGED <<txCount, selector, readCount, kReadIds>>

\* set_gen_next_tx
SetSelector(sel) ==
  /\ selector # sel
  /\ selector' = sel
  /\ UNCHANGED <<txCount, mtx, pc, tx, kvMap, history, sessionOrder, readCount, kReadIds>>

ThreadStep(t) == Lock(t) \/ GetNotFound(t) \/ GetPresent(t) \/ PutLocked(t)

Next ==
  \/ \E t \in Threads, s \in Sessions, k \in Keys :
       \/ StartGet(t, s, k)
       \/ \E v \in Values : StartPut(t, s, k, v)
  \/ \E t \in Threads : ThreadStep(t)
  \/ \E sel \in Selectors : SetSelector(sel)

Spec == Init /\ [][Next]_vars
=============================================================================
