---------------------------- MODULE StoreClients ----------------------------
(***************************************************************************)
(* The programs that call the store itself, composed with it: the three    *)
(* threads of applications/simple_app, which share a store under one of    *)
(* the selectors, and the tests of src/test, which call it one call after  *)
(* the other under the causal selector.                                    *)
(***************************************************************************)
EXTENDS KVStoreProps

CONSTANTS
  NumOps,    \* NUM_OPS: operations of each thread of simple_app
  Clients    \* the programs, of "simple_app", "causal_test", "etag_test", "linearizable_test"

VARIABLES
  client,    \* the program that runs
  todo       \* todo[t]: the calls that thread t has still to make

clientVars == <<client, todo>>
allVars == <<vars, clientVars>>

DefaultSession == 1

ClientKeys == {"a", "b", "c", "x", "key1"}
ClientValues == {5, 10, 12, 20, 21, 32, 50, 100, 150}
ClientSessions == {1, 2, 3, 4, 123, 345}
ClientThreads == {1, 2, 3}

ASSUME ClientsAssumption ==
  /\ Clients \subseteq {"simple_app", "causal_test", "etag_test", "linearizable_test"}
  /\ NumOps \in 1 .. 3
  /\ ClientKeys \subseteq Keys /\ ClientValues \subseteq Values
  /\ ClientSessions \subseteq Sessions /\ Threads = ClientThreads

GetCall(k, s) == [op |-> "GET", key |-> k, value |-> NoValue, session |-> s]
PutCall(k, v, s) == [op |-> "PUT", key |-> k, value |-> v, session |-> s]

\* simple_app: operations, which thread t performs in session t
SimpleApp ==
  LET operations == << <<PutCall("a", 10, 1), GetCall("a", 1), PutCall("b", 12, 1)>>,
                       <<PutCall("a", 20, 2), PutCall("b", 21, 2), GetCall("b", 2)>>,
                       <<GetCall("a", 3), GetCall("b", 3), PutCall("b", 32, 3)>> >>
  IN [t \in Threads |-> SubSeq(operations[t], 1, NumOps)]

SimpleReadWrite ==
  <<PutCall("a", 50, 123), GetCall("a", 123), PutCall("b", 100, 123), PutCall("c", 150, 123),
    GetCall("b", 123), GetCall("c", 123)>>

\* test_causal_read_write and test_linearizability make the same calls.
FourClients ==
  <<PutCall("x", 5, 1), GetCall("x", 2), PutCall("x", 10, 2), GetCall("x", 3),
    GetCall("x", 4), GetCall("x", 3), GetCall("x", 4)>>

VersionNumber ==
  <<PutCall("key1", 50, 123), GetCall("key1", DefaultSession), PutCall("key1", 100, 345),
    GetCall("key1", DefaultSession)>>

Program(c) ==
  CASE c = "simple_app" -> SimpleApp
    [] c = "causal_test" -> <<SimpleReadWrite \o FourClients, <<>>, <<>>>>
    [] c = "linearizable_test" -> <<FourClients, <<>>, <<>>>>
    [] c = "etag_test" -> <<VersionNumber, <<>>, <<>>>>

\* Only k_causal has weak reads to pick.
ClientsInit ==
  /\ Init
  /\ client \in Clients
  /\ todo = Program(client)
  /\ client # "simple_app" => selector = "causal"
  /\ selector # "k_causal" => kReadIds = 1 .. K
-----------------------------------------------------------------------------
\* Thread t makes its next call.
Invoke(t) ==
  /\ todo[t] # <<>>
  /\ LET call == Head(todo[t]) IN Create(t, call.session, call.op, call.key, call.value)
  /\ todo' = [todo EXCEPT ![t] = Tail(@)]
  /\ UNCHANGED client

\* What is left of the call happens inside the store; simple_app swallows the
\* exception of a GET of an absent key.
Proceed(t) == ThreadStep(t) /\ UNCHANGED clientVars

ClientsNext == \E t \in Threads : Invoke(t) \/ Proceed(t)

ClientsSpec == ClientsInit /\ [][ClientsNext]_allVars

\* The threads of the program run.
FairClientsSpec == ClientsSpec /\ \A t \in Threads : WF_allVars(Invoke(t) \/ Proceed(t))
-----------------------------------------------------------------------------
Level == INSTANCE SessionStore WITH
  Levels   <- {"causal", "linear"},
  versions <- [k \in Keys |-> [i \in DOMAIN kvMap[k] |-> kvMap[k][i].value]],
  floor    <- [s \in Sessions |-> [k \in Keys |-> Floor(s, k)]],
  level    <- IF selector = "linear" THEN "linear" ELSE "causal"

\* The threads are joined.
Ended == \A t \in Threads : todo[t] = <<>> /\ pc[t] = "idle"

\* Every program ends: no call of a thread waits for ever for the mutex, on whatever
\* path the calls of the others have left the store (kv_store.h:99-217).
ClientsEnd == <>Ended

\* A store whose selector is never swapped implements the level of SessionStore that
\* the selector is named for: with the linearizable one, every GET of simple_app is
\* answered with the last version, whatever the order in which the three threads drew
\* their ids and took the mutex.
ImplementsLevel == Level!StoreSpec

\* A test makes its calls one after the other: the n-th is the n-th to commit.
Result(n) == history[n]

\* The assertions of the tests, for every choice of the causal selector:
\* causal_test.cpp:44-50, 70-78, linearizable_test.cpp:67, etag_test.cpp:44-58.
TestsPass ==
  Ended =>
    /\ client = "causal_test" =>
         <<Result(2).value, Result(5).value, Result(6).value>> = <<50, 100, 150>>
    /\ client \in {"causal_test", "linearizable_test"} =>
         LET first == IF client = "causal_test" THEN Len(SimpleReadWrite) ELSE 0
             R(n) == Result(first + n).value
         IN R(2) = 5 /\ (R(4) = 10 => R(6) # 5) /\ (R(5) = 10 => R(7) # 5)
    /\ client = "etag_test" =>
         /\ <<Result(2).value, Result(2).version>> = <<50, 1>>
         /\ <<Result(4).value, Result(4).version>> \in {<<50, 1>>, <<100, 2>>}
=============================================================================
