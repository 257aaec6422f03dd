---------------------------- MODULE KVStoreProps ----------------------------
(***************************************************************************)
(* What makes the store of KVStore correct: the properties its runs check  *)
(* and KVStoreProofs proves, and the mapping to SessionStore.              *)
(***************************************************************************)
EXTENDS KVStore

\* Transaction x wrote or read version i of its key.
Touches(x, i) ==
  /\ i \in DOMAIN kvMap[x.key]
  /\ kvMap[x.key][i].tx = Writer(x)

\* The versions of k that the committed transactions of session s touched.
Touched(s, k) ==
  {i \in DOMAIN kvMap[k] :
     \E a \in DOMAIN sessionOrder[s] : /\ sessionOrder[s][a].key = k
                                       /\ Touches(sessionOrder[s][a], i)}

\* The version that the last of them on k touched, 0 when there is none.
Floor(s, k) ==
  LET onKey == {a \in DOMAIN sessionOrder[s] : sessionOrder[s][a].key = k}
      last == CHOOSE a \in onKey : \A b \in onKey : b <= a
  IN IF onKey = {} THEN 0
     ELSE CHOOSE i \in DOMAIN kvMap[k] : Touches(sessionOrder[s][last], i)

\* The position in the history of the last PUT of k before position n.
IsLastPutBefore(m, n, k) ==
  /\ m < n /\ history[m].op = "PUT" /\ history[m].key = k
  /\ \A p \in m + 1 .. n - 1 : ~ (history[p].op = "PUT" /\ history[p].key = k)

\* The GET at position n of the history returned an overwritten value.
Stale(n) ==
  /\ history[n].op = "GET"
  /\ \A m \in DOMAIN history :
       IsLastPutBefore(m, n, history[n].key) => history[m].id # history[n].from
-----------------------------------------------------------------------------
\* Whatever selector is installed, a GET of a present key finds a candidate to
\* answer with: the consistency_exception path of _get (kv_store.h:137-150,
\* which reads the transaction after deleting it) is never taken.
NoConsistencyException ==
  \A s \in Sessions, k \in Keys, sel \in Selectors :
    kvMap[k] # <<>> => Choices(sel, s, k) # {}

\* Read your writes and monotonic reads, under every selector and across swaps
\* of selectors: in the order of a session, the versions of a key that its PUTs
\* created and its GETs returned never go back (kv_store.h:99-236).
MonotonicSession ==
  \A s \in Sessions : \A a, b \in DOMAIN sessionOrder[s] :
    LET x == sessionOrder[s][a]
        y == sessionOrder[s][b]
    IN a < b /\ x.key = y.key =>
         \A i, j \in DOMAIN kvMap[x.key] : Touches(x, i) /\ Touches(y, j) => i <= j

\* is_consistent counts committed transactions in a history that mixes all keys
\* and sessions; on one key this accepts exactly the versions that are at least
\* as new as every version the session has touched (consistency_checker.h:42-81).
CheckerExact ==
  \A s \in Sessions, k \in Keys :
    CausalChoices(s, k) =
      {i \in DOMAIN kvMap[k] : \A j \in Touched(s, k) : j <= i}

\* A GET answered by the linearizable selector returns the last value put
\* before it in commit order (read_response_selector.h:111-121), although ids
\* are drawn in another order than commits happen.
LinearReadsLatest ==
  \A n \in DOMAIN history :
    history[n].op = "GET" /\ history[n].by = "linear" => ~ Stale(n)

\* "k-causal : at most k times weaker than linearizable"
\* (read_response_selector.h:124): at most K of its reads are stale, however
\* long the program runs and however often other selectors are swapped in.
KCausalBound ==
  Cardinality({n \in DOMAIN history : history[n].by = "k_causal" /\ Stale(n)}) <= K

\* The version number that get_with_version hands out (the etag of the HTTP
\* server) names, for ever, the version whose value was returned
\* (kv_store.h:161-171).
VersionNumberStable ==
  \A n \in DOMAIN history :
    LET x == history[n]
    IN x.op = "GET" =>
         /\ x.version \in DOMAIN kvMap[x.key]
         /\ kvMap[x.key][x.version] = [value |-> x.value, tx |-> x.from]

\* No committed write or read is lost: the versions of a key are the PUTs of the
\* history in commit order, and the order of a session is the history restricted
\* to it (kv_store.h:194-199, 229-236).  Ids do not order commits.
HistoryAgrees ==
  LET putsOf(k) == {n \in DOMAIN history : history[n].op = "PUT" /\ history[n].key = k}
      byS(s) == {n \in DOMAIN history : history[n].session = s}
      rank(n, S) == Cardinality({m \in S : m <= n})
  IN /\ \A k \in Keys :
          /\ Len(kvMap[k]) = Cardinality(putsOf(k))
          /\ \A n \in putsOf(k) :
               kvMap[k][rank(n, putsOf(k))] = [value |-> history[n].value, tx |-> history[n].id]
     /\ \A s \in Sessions :
          /\ Len(sessionOrder[s]) = Cardinality(byS(s))
          /\ \A n \in byS(s) : sessionOrder[s][rank(n, byS(s))] = history[n]
-----------------------------------------------------------------------------
(* The inductive invariant: what ties the history, the versions and the      *)
(* orders of the sessions together in every reachable state.                 *)

\* A transaction's id is its own, and that of a call in progress is not yet in
\* the history, in whatever order the calls take the mutex.
IdsUnique ==
  /\ \A n \in DOMAIN history : history[n].id <= txCount
  /\ \A m, n \in DOMAIN history : history[m].id = history[n].id => m = n
  /\ \A t \in Threads : pc[t] # "idle" =>
       tx[t].id <= txCount /\ \A n \in DOMAIN history : history[n].id # tx[t].id
  /\ \A t, u \in Threads :
       t # u /\ pc[t] # "idle" /\ pc[u] # "idle" => tx[t].id # tx[u].id

SessionsCommitted ==
  \A s \in Sessions : \A a \in DOMAIN sessionOrder[s] :
    \E n \in DOMAIN history : history[n] = sessionOrder[s][a]

\* The PUT at position n of the history wrote version i of k.
Wrote(n, k, i) ==
  history[n].id = kvMap[k][i].tx /\ history[n].op = "PUT" /\ history[n].key = k

VersionsCommitted ==
  \A k \in Keys : \A i \in DOMAIN kvMap[k] : \E n \in DOMAIN history : Wrote(n, k, i)

\* The versions of a key are in commit order.
VersionsOrdered ==
  \A k \in Keys : \A i, j \in DOMAIN kvMap[k] : \A m, n \in DOMAIN history :
    i < j /\ Wrote(m, k, i) /\ Wrote(n, k, j) => m < n

\* Every committed transaction wrote or read a version of its key.
TransactionsTouch ==
  \A n \in DOMAIN history : \E i \in DOMAIN kvMap[history[n].key] : Touches(history[n], i)

StoreInv ==
  /\ TypeOK
  /\ IdsUnique
  /\ SessionsCommitted
  /\ VersionsCommitted
  /\ VersionsOrdered
  /\ TransactionsTouch
  /\ MonotonicSession
-----------------------------------------------------------------------------
(* The mapping to SessionStore: a store that only ever has the linearizable *)
(* selector implements the "linear" level, any other use the "causal" one.  *)
(* A floor is the version touched last, not the largest one: a GET that     *)
(* went back would show, as no step of SessionStore lowers a floor.         *)

Abs == INSTANCE SessionStore WITH
  Levels   <- {"causal", "linear"},
  versions <- [k \in Keys |-> [i \in DOMAIN kvMap[k] |-> kvMap[k][i].value]],
  floor    <- [s \in Sessions |-> [k \in Keys |-> Floor(s, k)]],
  level    <- IF Selectors = {"linear"} THEN "linear" ELSE "causal"

\* kv_store with its history, its checker and its selectors implements the
\* session-level interface that the applications and the server rely on.
ImplementsSessionStore == Abs!StoreSpec
=============================================================================
