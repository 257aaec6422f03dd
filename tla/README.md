# Formal models of the weak-isolation mock store

This directory keeps TLA+ models of `src/`: a single-process, in-memory key-value
store that answers reads as a weakly consistent, distributed store might, an HTTP
server on top of it, and five applications that are run against it to see what
weak isolation does to them. The models are checked with TLC. Most safety properties
of the store, the server and the applications, and the refinement between the store
and the interface that the rest is built on, are also proved with TLAPS, for all
values of the constants that section 4 names.

## 1. Inventory of the system

| Part | Code | State | Operations |
|---|---|---|---|
| Store | `kv_store/include/kv_store.h`, `transaction.h`, `operation*.h` | `kv_map` (all versions of each key), `history`, `session_order`, `mtx`, the static `tx_count` | `get`, `get_with_version`, `put`, `set_gen_next_tx`, `get_size` |
| Checker | `consistency_checker.h` | none; reads the store | `is_consistent` |
| Selectors | `read_response_selector.h` | `read_count`, `k_read_ids` of k_causal | `select_read_response` |
| HTTP server | `kv_store/http_server/http_server.h` | `mtx` | `handle_get`, `handle_post` |
| Stack | `applications/treiber_stack` | nodes in the store, `mtx` of `update_head` | `push`, `pop` |
| Courseware | `applications/courseware` | six families of keys, `mtx` | twelve operations |
| Shopping cart | `applications/shopping_cart` | cart list, quantities, `mtx` | five operations |
| Twitter | `applications/twitter` | five families of keys, `mtx` | add, follow, publish, three reads |
| simple_app, tests | `applications/simple_app`, `test` | none; a store each | their fixed sequences of `get`, `get_with_version` and `put` |

How they interact. A call on the store creates a transaction, which draws an id
from an atomic counter *before* the store's mutex is taken; under the mutex a PUT
appends a version, a GET collects every version of the key and asks the installed
selector for one. The causal selector asks the checker, which reads `history` and
`session_order` back; the linearizable one takes the last version; k_causal is
linearizable except for k of its reads. The server and the applications are plain
callers: they name a session with each call, and each has a mutex of its own, held
over a POST, over `update_head`, or between `tx_start` and `tx_end`.

What is hard here, and what makes each part correct:

- **Store.** Threads interleave between drawing an id and taking the mutex, so ids
  do not order commits; selectors may be swapped at any time; three exits of
  `_get` unlock by hand. Correct means: no update is lost, a session never goes
  back, the newest version is always available to the linear selector, version
  numbers stay valid, every call returns, and `consistency_exception` (whose
  handler reads a deleted transaction) is never thrown.
- **Checker.** It counts transactions of *all* keys and sessions up to the position
  of the response's writer. Correct means: it accepts exactly the versions at or
  above everything that the session has touched.
- **Server.** Check-then-put, retries, malformed requests while a lock is held.
  Correct means: no lost update, no repeated update, an answer to every request.
- **Stack.** Interleavings between any two calls; ids drawn from an unlocked size.
  Correct means: a LIFO stack on a linear store, and on any store termination,
  unique nodes and no dangling head.
- **Applications with brackets.** Operations are exclusive, and still read stale
  versions. Correct means: their records agree on a linear store, and what must
  hold in spite of stale reads does.

`PROJECT.json` lists the hazards by line, each with the properties that cover it, or
with the reason why none does.

## 2. Modules

| Module | What it is |
|---|---|
| `SessionStore` | Abstract specification of the store: versions of each key, and per session and key the *floor*, the newest version the session has touched. Reads return something at or above the floor (level "causal") or the last version ("linear"). |
| `KVStore` | `kv_store`, transactions, checker and selectors. |
| `KVStoreProps` | Its properties, its inductive invariant, the refinement to `SessionStore`. |
| `KVStoreProofs` | The proofs about it: the invariant, the checker, sessions, and what the history says. |
| `StoreRefinement` | The proofs that `KVStore`, and the programs that call it, implement `SessionStore`. |
| `CausalOrder` | The order `(wr U so)+` that a comment of the checker names. |
| `HttpServer`, `TreiberStack`, `Courseware`, `ShoppingCart`, `Twitter` | The callers, each extending `SessionStore`. |
| `LifoStack` | Abstract specification of a stack. |
| `RunCourseware` | The programs of `run_courseware`, on top of `Courseware`: what their reads leave in `results`, and the checks that `main` makes of it. |
| `AppData` | What the applications do with what they read: the writes of an operation, a list without an element. |
| `SessionStoreProofs` | Lemmas about `SessionStore` and `AppData` for everything that is built on them. |
| `HttpServerProofs`, `TreiberStackProofs`, `CoursewareProofs`, `ShoppingCartProofs`, `TwitterProofs` | The proofs about the callers. |
| `StoreClients` | `simple_app` and the tests of `src/test`, composed with `KVStore` itself. |
| `MC*` | Small instances for TLC. |

The callers with an algorithm of their own are built on `SessionStore` rather than
on `KVStore`: the history and the transactions would multiply their states and
matter to none of them. Two refinements justify the exchange, both checked and
proved: everything that `KVStore` does, under any selectors, swapped at any time,
`SessionStore` allows at the level "causal" (`ImplementsSessionStore`, run
`kvstore_mixed`); and a store whose selector stays installed implements the level that the
selector is named for (`ImplementsLevel`, run `clients`), with "linear" for the
linearizable one, on the programs that call the store directly. The mappings take for a session's
floor the version that it touched *last*, so that a read that went back could not
pass for a stutter. k_causal lies in between; a property checked at both levels, or
at "causal", covers it.

Correspondence with the code:

- `KVStore`: `pc[t] = "created"` is a call between the constructor of its
  transaction and `mtx.lock()`; `Lock` takes the mutex; `GetNotFound`,
  `GetPresent` and `PutLocked` are all that happens from there to the unlock.
  Nobody else touches the store meanwhile except `set_gen_next_tx`, which takes no
  lock and reads and writes one pointer. `kv_map` keeps for each version the id of
  its writer, as in the code. `by`, in a transaction, is a record for the
  properties and is not in the code. `choices = {}` is the exception path.
- `SessionStore`: one action per call on the store; `Transact` composes the calls
  that an application makes under its own mutex, reads of keys before their writes.
- `HttpServer`: a handler goes through `received`, `body`, `check` and `put`; a GET
  is one call and takes no lock. `accepted` records for the properties the POSTs
  with an etag that were carried out. `handle_get`'s branch for
  `consistency_exception` is left out because of theorem `NeverInconsistent`.
- `TreiberStack`: one action per call on the store, `pc` names the next one.
  `push` puts its node in the default session, as the code does.
- `Courseware`, `ShoppingCart`, `Twitter`: one action per operation, since an
  operation runs between `tx_start` and `tx_end`. In the cart and in twitter the
  threads run the programs of `run_*.cpp` (`todo`); `results` keeps what the
  programs keep. In the cart they may instead be other clients of the class (run
  "any", constant `Clients`), which are no program of the repository: those that
  `run_shopping_cart` starts never call `change_quantity` and `get_quantity`. `Courseware` performs the operations that its `client` may
  perform, in any order; `RunCourseware` restricts them to the programs, each step
  being a step of `Courseware` (`shown` collects what its reads return).
- Three things of these programs are easily overlooked: `random_fill` gives all
  threads the same operations; `add_item(items[idx], t_id)` is the overload with a
  quantity and runs in session 1; courseware's `deregister_student` stores a number
  where `enroll` expects a boolean and throws (`crashed`). The random programs and
  `do_dfs_op` are modelled as they are written, although `parse_command_line`
  leaves `random_test` false and nothing calls `do_dfs_op`. The cart's `do_operations`,
  which nothing calls either, is not modelled (section 5).
- `StoreClients`: `Invoke` is the constructor of the transaction of the next call,
  `Proceed` the rest of the call in `KVStore`. A GET of an absent key ends the call
  and not the thread, since `simple_app` swallows the exception.

A comment that starts with *Mistake* marks an operator that is part of no
specification: it is a plausible error in the definition below it, which
`PROJECT.json` ("mutants") puts in its place to show that a property of a run
would notice.

## 3. Runs

All runs are exhaustive for their bounds. States are distinct states.

| Run | States | Shows |
|---|---|---|
| `kvstore_mixed` | 252,066 | all safety properties of the store, its inductive invariant, refinement to `SessionStore`; any sequence of selectors |
| `clients` | 151,012 | `simple_app` implements the level of its selector and ends; the tests pass for every choice of the causal selector |
| `causal_order` | violation | the causal checker accepts histories that `(wr U so)+` excludes |
| `http` | 216,348 | etag-guarded updates under both selectors; every request is answered |
| `http_etag` | violation | an etag that is not the latest is accepted with the installed selector |
| `stack` | 334,422 | ids, dangling heads, termination; LIFO at the linear level |
| `courseware` | 773,666 | seats, agreement of lists, removed courses, capacity of every list ever shown; serial results, what `main` counts, termination of the programs |
| `courseware_removed` | violation | a removed course stays in its students' lists |
| `cart` | 306,290 | records agree whatever the clients call, serial results of `do_op`, what `main` counts is an item that came back |
| `twitter` | 23,103 | no lost tweet or follow, nothing seen disappears, newsfeeds |
| `twitter_follow` | violation | followers are recorded with the wrong user |
| `twitter_count` | violation | a violation is counted on a linearizable store |

The five violations are disagreements between a comment or document and the code;
`PROJECT.json` ("findings") quotes both sides.

Bounds, and why they are enough for what the runs ask:

- `MaxTx` (store): 4 transactions by 2 threads in 2 sessions. A session needs two
  to go back, a writer two to overwrite, and the checker's count one more
  transaction of another key or session between them. Two keys make the counts
  over the mixed history wrong if they can be. `K = 1` of `TotalReads = 2` lets the
  weak read be the first or the second, and leaves reads beyond the range. The
  proofs cover the other values.
- `MaxRequests`, `MaxEtag` (server): 4 requests by 2 handlers, etags 0 to 2: a
  create, an update, and a repetition of either, against one interfering request.
- Stack: the fixed program of `run_stack` without one push and one pop, so that two
  pushes and four pops of three sessions meet; `Sessions` stay below 10, as the
  node ids require.
- `clients`: the tests as they are. `simple_app` with `NumOps = 2`: each thread
  makes the first two of its three calls, which keeps gets that meet no put, one put
  and two concurrent ones; with three calls the histories run into the tens of
  millions. `K = 2` as in `run_iteration`, `TotalReads = 3` (half of the calls, as in
  the code) and all choices of the weak reads.
- Courseware: three kinds of client in one run (`client`). `ProgramRuns` are the
  programs of `run_courseware` as they are, random ones with `NumOps = 3`;
  `InAnyOrder` are the program's operations, and `Everything` all operations,
  unknown ids included, in any order, 4 of them in 2 sessions. Courses have one and
  two seats. The programs alone, with three students and three courses, keep the
  same properties (50,610 states). All four rows of `serial_results` occur, and at
  the causal level both kinds of violation do. A student may be listed twice: a
  random program enrolls the same student again, and `enroll` does not look for it.
- Cart: `do_op` as it is, `do_random_op` with `NumOps = 3` and all 27 choices, and
  clients that make any two calls each, in one bracket or in two: all five operations
  on both items, adding 2 and changing to 3. Two calls of a client let it remove or
  change what it or the other one has added.
- Twitter: the fixed program as it is, random programs with `NumOps = 2` instead of
  3 (with 3 the same properties hold on 1,290,469 states, in three minutes).
- Symmetry is used in `kvstore_mixed` and `causal_order` only, where nothing tells
  keys, values, sessions or threads apart and nothing is a liveness property.
- Deadlock is not checked: bounded clients stop.

Fairness. `StoreClients!FairClientsSpec` and `HttpServer!Fairness` are weak fairness of
each thread's steps: a thread inside a call is scheduled, and a waiter gets the mutex
if it stays free. `std::mutex` is not first-come-first-served, but each behaviour
has finitely many calls, after which the mutex does stay free; unbounded starvation
is outside these models. The server's fairness also assumes that a request's body
arrives or fails. In `TreiberStack` and `RunCourseware` weak fairness says that the
threads of `run_stack` and `run_courseware` run; that `push` and `pop` end at the causal level needs an argument,
which the run checks: a failed `update_head` has shown its session a newer head.

## 4. Proofs

Every theorem is proved by tlapm to the last leaf, and nothing is assumed but the
named assumptions of the modules, which TLC evaluates in the runs, and the
hypotheses below. `PROJECT.json` ("theorems") lists the results with the properties
they state. TLC also finds the inductive invariants to hold on the instances of the
runs (`StackInv` with the number of a drawn id bounded).

### The store: `KVStoreProofs`, `StoreRefinement`

For all sets of keys, values, sessions and threads, any K, any selectors and any
number of transactions (`KVAssumption`: selectors are among the three, K does not
exceed TotalReads):

- `TypeCorrect`, `StoreInvariant`: types, and the inductive invariant `StoreInv`.
- `SessionsMonotonic`: read your writes and monotonic reads, across swaps of
  selectors.
- `CheckerCorrect`: `is_consistent` is exact.
- `NeverInconsistent`: some version can always be given, so the exception path of
  `_get` is unreachable.
- `VersionNumbersStable`, `LinearReadsCorrect`, `KCausalBounded`,
  `HistoryAlwaysAgrees`: version numbers stay valid, linearizable reads return the
  last version, k_causal is weak in at most K reads, and the history, the versions
  and the session orders are three views of the same commits.
- `StoreImplementsSessionStore`, `ClientsGetTheirLevel`: the two refinements.
  `ClientsRunTheStore`: `simple_app` and the tests are behaviours of `KVStore`, so
  that its invariants hold for them (`ClientsAssumption`).
- `ReadsReturnPuts`: a GET returns what an earlier PUT of its key had put.
  `TestsAlwaysPass`: the assertions of `src/test` hold, whatever the causal selector
  chooses.

The argument. `MonotonicSession` is not inductive alone: a GET goes through the
checker, and the checker counts ids in the history. `StoreInv` adds that ids are
unique, also those of calls in progress (`IdsUnique`); that sessions contain only
committed transactions (`SessionsCommitted`); that each version was put by a
committed transaction, in commit order (`VersionsCommitted`, `VersionsOrdered`);
and that each transaction has touched a version (`TransactionsTouch`). Then
`ConsistentIffLater` turns the count (`CountFindsAll`: the count is full exactly
when all dependents are at or before the position) into an order of positions, the
uniqueness of ids and `VersionsOrdered` turn that into an order of versions, and
the checker is exact (`CheckerIsExact`). The newest version is above all,
hence consistent for every session and open to every selector
(`NewestAlwaysConsistent`), so that none throws (`SelectorsAnswer`). A new GET therefore stays at or above the floor of its
session (`ChoicesAboveFloor`), under each of the selectors, and a PUT creates the
newest version of all; that is the step of `StoreInvStep`. Steps outside the mutex
change ids only, and `Committed`, `NothingCommitted` split the proof accordingly.

The proofs about the history split every step into three (`StepCommits`): it commits
nothing, one GET, or one PUT. `KCausalBound` needs `WeakReadsPay`, that each weak read
has used up one of the K numbers in `kReadIds`; `HistoryAgrees` needs `ViewsAgree`,
that versions and session orders list the history's transactions in its order, with
as many elements. For the refinement, `StoreInv` already says what the mapped floors
are: a GET raises one, a PUT makes it the new version, and all other steps stutter.

For the tests, `TestInOrder` says that the history is the part of the program that has
been made, with no call left out: none of their GETs is of an absent key, and one
always finds a version. At the end the history is thus known but for the answers. An
answer comes from an earlier PUT (`ReadsReturnPuts`), two of a session in the order
of the PUTs (`ReadsGoForward`), with a number that counts them (`VersionCounts`).

### The interface: `SessionStoreProofs`

`SessionsNeverGoBack`: no version changes, no floor goes down, every floor is a
version. `TransactEffect` says what an operation under an application's mutex does,
by reads and writes; the proofs about the applications use it for every operation.

### The callers

Properties at both levels hold for any store; those that say "linear" hold on a
linearizable one.

- `HttpServerProofs` (`HttpAssumption`): `UpdatesAreNotLost` (linear),
  `RepeatsAreRefused` and `KeysAreCreatedOnce` (both levels), `ServerTypeOK`, and
  `PostsExcludeEachOther`. `ServerInv` adds to the three promises what a handler
  knows between the check of the etag and the PUT (`PutReady`): its etag is a
  version that its session was shown, and on a linear store still the last one,
  since nobody else can put under the mutex; and no accepted POST of the session
  has a later version (`AcceptedBelow` gives the floors). `ServerUsesTheStore`: every
  step of a handler is a call that `SessionStore` allows or leaves the store alone,
  hence `ServerNeverGoesBack`.
- `TreiberStackProofs` (`StackAssumption`: sessions 1 to 9 and at most nine
  operations per thread, beyond which ids and values do collide;
  hypothesis `StoreIsRoomy`: every id that may be drawn is a key, which no finite
  instance of TLC is, but the program's longs are as good as): `IdsNeverCollide` and
  `LinksNeverDangle` (both levels; of the head and of every node's next, in every
  version that may still be shown), `NothingPoppedTwice` (linear), `StackTypeOK`.
  `StackInv` says which nodes the threads have drawn, inserted and read. On a linear
  store `LinearInv` says that some set of nodes is closed under the links, holds the
  top, and contains no value that was popped: an existential in place of
  "reachable", which would need recursion. `StackIsLifo` (linear): the stack
  implements `LifoStack`, each swing of the head being the step at which a push or
  a pop takes effect. The mapping takes the chain of nodes from the head without
  recursion; `LifoInv` says that there is exactly one and that it repeats no node
  (`LinksExist`), since a link is set before its node is reachable and never
  changes after. `StackUsesTheStore`: the stack makes only calls that `SessionStore`
  allows, at keys and with cells that the store has.
- `CoursewareProofs` (`CoursewareAssumption`; hypothesis `CoursewareStore`: the store
  holds the courseware's keys): `ListsFitCapacity` and `CoursewareTypeOK` (both
  levels), `SeatsAreRespected`, `ListsDoAgree`, `RemovedCoursesStayEmpty` (linear,
  and for the operations that the programs perform, as the properties say), for any
  numbers of students, courses, seats and clients. `CoursesAgree` strengthens the
  three: an offered course's list and the students' lists name each other, one that
  is not offered is closed and empty. `ProgramsRunCourseware` (`RunAssumption`)
  carries all this over to the programs of `run_courseware`.
  The two threads of `do_op` (hypotheses `CoursewareStore` and `CoursesAsMade`: `cs101`
  has one seat, `course.h:49`): `CountedHappened` (both levels), what `main` counts
  has happened. `FixedRunInv` says that only its own thread writes a student's
  list, so that the list read is the last one (`OwnLists`) and names every course
  whose list ever named the student (`ListedAreTold`), and that nobody but the
  student of the other thread comes into the removed course (`StaysListed`).
  `FixedProgramsAreSerial` (linear): the results are among `serial_results`. Who sits
  in `cs101` and `hs201` follows there from how far the two threads are, a seat once
  taken stays taken, and the reads show just that (`LinearRunInvariant`).
- `TwitterProofs` (`TwitterAssumption`; hypotheses `TwitterStore`, and
  `TweetsDistinct`: up to 19 random operations, since ids are `t_id * 19 + j` and a
  twentieth operation would give one id to two users): `NothingIsLost` and
  `SeenTweetsStay` (both levels), `NewsfeedsAreFresh` (linear, an action property),
  `TwitterTypeOK`, for any number of users. The strengthening: what a user follows
  and publishes is put in the user's own session only, so that the session knows
  the last version (`OwnFloors`) even of a causal store; who has seen a tweet has
  seen it in its author's list (`SeenNamed`); a user is populated once, before the
  threads start (`PopulatedOnce`).
- `ShoppingCartProofs` (`CartAssumption`; hypothesis `CartStore`): `QuantitiesAgree`
  (linear) and `CartTypeOK`, for any number of random operations and for any other
  clients (`Clients`), with brackets of any length in any sessions. An operation keeps
  the agreement if what it writes agrees with what it leaves (`Agreeing`). That
  holds only for clients that never add or set a quantity of 0 (`Calls`), and
  since the cart is there from the start: neither `add_item` nor `change_quantity`
  checks its argument.
  `FixedProgramIsSerial` (what each level promises of `do_op`): the versions follow
  from the order of the one remove and the one add, and each list shown is one that
  this order allows (`FixedInvariant`).

### Only model-checked

Every invariant and every refinement that the runs check has its theorem. What stays with
TLC:

- Liveness and whatever rests on fairness or ENABLED (`ClientsEnd`,
  `EveryRequestAnswered`, `AllReturn`, `ProgramsEnd`): out of the prover's reach.
- The counterexamples of the five runs that expect a violation.

## 5. Not modelled

- `kv_store::remove`, `handle_delete`, `get_bill`, and the getters of followers and
  counts: their bodies are TODOs.
- `do_operations` of `run_shopping_cart`, with its assertions A1 to A6: nothing calls
  it, since `run_iteration` starts `do_random_op` or `do_op`, and the pair of shoes that
  it adds beforehand (`run_shopping_cart.cpp:260-261`) is meant for `do_op`.
- The default `select_read_response` of the abstract base class: all three classes
  override it.
- Records, option parsing, executables, exception texts, logs, destructors: no
  behaviour of their own, or I/O. Iterations: each starts with a new store.
- The percentage that `linearizable_test` prints, and `run_stack`'s `results`, where
  `NoRepeatedPop` looks at the pops themselves (`RepeatValue`). Only four of its six
  entries are reset (`run_stack.cpp:144`); the fixed program overwrites the others in
  each iteration, so nothing stale is compared.
- The pool of threads of the HTTP library, which POSTs that wait for the server's
  mutex may occupy (`http_server.h:136`).
- Races on C++ objects outside the locks (`get_size`, the pointer of the selector)
  are modelled as atomic reads.

## 6. Plan

Done: the store with its proofs (1), the abstract interface and its refinement (2),
the server (3), the stack and `LifoStack` (4), courseware (5), cart (6), twitter (7),
the programs of courseware, simple_app and the tests (8).

Proved: all that section 4 lists, in the order store, history, refinement, interface,
server, stack, courseware, twitter, cart, the order of the stack, the programs of
courseware and of the cart, the tests.

Next, in this order:

1. Carry `SessionsMonotonic` and the other properties of the store over to the
   applications' own behaviours on `KVStore`, as `ClientsRunTheStore` does for the
   tests. For the server and the stack half of this is done: they make only calls
   that `SessionStore` allows.
2. State the causal level of the stack abstractly (what a pop may repeat), and
   clients that combine the server's GET and POST with retries.
