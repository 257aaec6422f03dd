---------------------------- MODULE TreiberStack ----------------------------
(***************************************************************************)
(* applications/treiber_stack: a stack of nodes kept in the store, key 0   *)
(* pointing at the top one, used by one thread per session as run_stack    *)
(* does.  The threads interleave between any two calls on the store;       *)
(* update_head alone holds the stack's mutex.                              *)
(***************************************************************************)
EXTENDS SessionStore, Integers, FiniteSets

CONSTANTS
  Threads,   \* thread ids, which are also their session ids (a subset of 1 .. 9)
  Program,   \* Program[t]: the operations thread t performs, "push" or "pop"
  NoThread,
  NoVal      \* the value stored with key 0, and of nothing read yet

HeadKey == 0
NoNode == -1             \* end of the stack, and the dummy next of a new node
EMPTY == 0               \* what pop answers on an empty stack
DefaultSession == 1

ASSUME StackAssumption ==
  /\ Threads \subseteq Sessions /\ Sessions \subseteq 1 .. 9 /\ DefaultSession \in Sessions
  /\ HeadKey \in Keys /\ Keys \subseteq Nat
  /\ NoThread \notin Threads
  /\ Program \in [Threads -> Seq({"push", "pop"})]
  /\ \A t \in Threads : Len(Program[t]) <= 9   \* the values pushed differ; NUM_OPS is 3

VARIABLES
  mtx,      \* treiber_stack::mtx
  pc,       \* pc[t]: the next call on the store that thread t makes
  done,     \* done[t]: operations thread t has completed
  cur,      \* cur[t]: cur_head_id
  new,      \* new[t]: the head that update_head is to install
  val,      \* val[t]: the value being pushed or popped
  popped    \* popped[t]: what the pops of thread t returned

stackVars == <<mtx, pc, done, cur, new, val, popped>>
vars == <<storeVars, stackVars>>

TypeOK ==
  /\ StoreTypeOK
  /\ mtx \in Threads \cup {NoThread}
  /\ pc \in [Threads -> {"idle", "insert", "readHead", "link", "popHead", "popNode",
                         "compare", "swing"}]
  /\ DOMAIN done = Threads
  /\ \A t \in Threads : done[t] \in 0 .. Len(Program[t])
  /\ cur \in [Threads -> Keys \cup {NoNode}]
  /\ new \in [Threads -> Keys \cup {NoNode}]
  /\ val \in [Threads -> Nat \cup {NoVal}]
  /\ popped \in [Threads -> Seq(Nat)]

Cell(v, next) == [val |-> v, next |-> next]

\* The store with the dummy head the constructor puts, in the default session.
Init ==
  /\ versions = [k \in Keys |-> IF k = HeadKey THEN <<Cell(NoVal, NoNode)>> ELSE <<>>]
  /\ floor = [s \in Sessions |-> [k \in Keys |->
                IF s = DefaultSession /\ k = HeadKey THEN 1 ELSE 0]]
  /\ level \in Levels
  /\ mtx = NoThread
  /\ pc = [t \in Threads |-> "idle"]
  /\ done = [t \in Threads |-> 0]
  /\ cur = [t \in Threads |-> NoNode]
  /\ new = [t \in Threads |-> NoNode]
  /\ val = [t \in Threads |-> NoVal]
  /\ popped = [t \in Threads |-> <<>>]

Op(t) == Program[t][done[t] + 1]

CanStart(t, op) == pc[t] = "idle" /\ done[t] < Len(Program[t]) /\ Op(t) = op

\* Mistake: the operation is counted twice.
ReturnCountedTwice(t) ==
  /\ pc' = [pc EXCEPT ![t] = "idle"]
  /\ done' = [done EXCEPT ![t] = @ + 2]
  /\ cur' = [cur EXCEPT ![t] = NoNode]
  /\ new' = [new EXCEPT ![t] = NoNode]
  /\ val' = [val EXCEPT ![t] = NoVal]

\* The operation of t is over.
Return(t) ==
  /\ pc' = [pc EXCEPT ![t] = "idle"]
  /\ done' = [done EXCEPT ![t] = @ + 1]
  /\ cur' = [cur EXCEPT ![t] = NoNode]
  /\ new' = [new EXCEPT ![t] = NoNode]
  /\ val' = [val EXCEPT ![t] = NoVal]

ReturnPopped(t, v) == Return(t) /\ popped' = [popped EXCEPT ![t] = Append(@, v)]

Goto(t, place) == pc' = [pc EXCEPT ![t] = place] /\ UNCHANGED <<done, popped>>
-----------------------------------------------------------------------------
\* The number of keys in the store.
GetSize == Cardinality({k \in Keys : Present(k)})

\* Mistake: the id is drawn for the default session.
StartPushInDefault(t) ==
  /\ CanStart(t, "push")
  /\ new' = [new EXCEPT ![t] = GetSize * 10 + DefaultSession]
  /\ val' = [val EXCEPT ![t] = t * 10 + done[t] + 1]
  /\ Goto(t, "insert")
  /\ UNCHANGED <<storeVars, mtx, cur>>

\* push draws the id of its node from the number of keys in the store, which
\* get_size reads without any lock.
StartPush(t) ==
  /\ CanStart(t, "push")
  /\ new' = [new EXCEPT ![t] = GetSize * 10 + t]
  /\ val' = [val EXCEPT ![t] = t * 10 + done[t] + 1]
  /\ Goto(t, "insert")
  /\ UNCHANGED <<storeVars, mtx, cur>>

\* The node with a dummy next; the call leaves the session at its default.
Insert(t) ==
  /\ pc[t] = "insert"
  /\ Put(DefaultSession, new[t], Cell(val[t], NoNode))
  /\ Goto(t, "readHead")
  /\ UNCHANGED <<mtx, cur, new, val>>

PushReadHead(t) ==
  /\ pc[t] = "readHead"
  /\ \E i \in Visible(t, HeadKey) :
       /\ Get(t, HeadKey, i)
       /\ cur' = [cur EXCEPT ![t] = versions[HeadKey][i].next]
  /\ Goto(t, "link")
  /\ UNCHANGED <<mtx, new, val>>

Link(t) ==
  /\ pc[t] = "link"
  /\ Put(DefaultSession, new[t], Cell(val[t], cur[t]))
  /\ Goto(t, "compare")
  /\ UNCHANGED <<mtx, cur, new, val>>

\* pop, and every retry of it: an empty stack ends it.
PopReadHead(t) ==
  /\ CanStart(t, "pop") \/ pc[t] = "popHead"
  /\ \E i \in Visible(t, HeadKey) :
       LET top == versions[HeadKey][i].next
       IN /\ Get(t, HeadKey, i)
          /\ IF top = NoNode
               THEN ReturnPopped(t, EMPTY)
               ELSE /\ cur' = [cur EXCEPT ![t] = top]
                    /\ Goto(t, "popNode")
                    /\ UNCHANGED <<new, val>>
  /\ UNCHANGED mtx

\* An absent node would be taken for an empty stack.
PopReadNode(t) ==
  /\ pc[t] = "popNode"
  /\ IF ~ Present(cur[t])
       THEN ReturnPopped(t, EMPTY) /\ UNCHANGED storeVars
       ELSE \E i \in Visible(t, cur[t]) :
              LET node == versions[cur[t]][i]
              IN /\ Get(t, cur[t], i)
                 /\ val' = [val EXCEPT ![t] = node.val]
                 /\ new' = [new EXCEPT ![t] = node.next]
                 /\ Goto(t, "compare")
                 /\ UNCHANGED cur
  /\ UNCHANGED mtx

\* Mistake: the head is replaced whatever it is by now.
CompareNothing(t) ==
  /\ pc[t] = "compare"
  /\ mtx = NoThread
  /\ \E i \in Visible(t, HeadKey) : Get(t, HeadKey, i)
  /\ mtx' = t /\ Goto(t, "swing")
  /\ UNCHANGED <<cur, new, val>>

\* update_head takes the mutex and reads the head again; another head releases
\* the mutex and makes the operation retry.
CompareHead(t) ==
  /\ pc[t] = "compare"
  /\ mtx = NoThread
  /\ \E i \in Visible(t, HeadKey) :
       /\ Get(t, HeadKey, i)
       /\ IF versions[HeadKey][i].next = cur[t]
            THEN mtx' = t /\ Goto(t, "swing")
            ELSE /\ Goto(t, IF Op(t) = "push" THEN "readHead" ELSE "popHead")
                 /\ UNCHANGED mtx
  /\ UNCHANGED <<cur, new, val>>

\* Mistakes: the id of the node is derived again from the size of the store; the
\* mutex stays locked.
SwingHeadAnew(t) ==
  /\ pc[t] = "swing"
  /\ Put(t, HeadKey, Cell(NoVal, GetSize * 10 + t))
  /\ mtx' = NoThread
  /\ IF Op(t) = "push" THEN Return(t) /\ UNCHANGED popped ELSE ReturnPopped(t, val[t])
SwingHeadLocked(t) ==
  /\ pc[t] = "swing"
  /\ Put(t, HeadKey, Cell(NoVal, new[t]))
  /\ UNCHANGED mtx
  /\ IF Op(t) = "push" THEN Return(t) /\ UNCHANGED popped ELSE ReturnPopped(t, val[t])

\* ... the same head is replaced, still under the mutex.
SwingHead(t) ==
  /\ pc[t] = "swing"
  /\ Put(t, HeadKey, Cell(NoVal, new[t]))
  /\ mtx' = NoThread
  /\ IF Op(t) = "push" THEN Return(t) /\ UNCHANGED popped ELSE ReturnPopped(t, val[t])

Step(t) ==
  \/ StartPush(t) \/ Insert(t) \/ PushReadHead(t) \/ Link(t)
  \/ PopReadHead(t) \/ PopReadNode(t)
  \/ CompareHead(t) \/ SwingHead(t)

Next == \E t \in Threads : Step(t)

Spec == Init /\ [][Next]_vars

\* The threads of run_stack run until they have performed their operations.
Fairness == \A t \in Threads : WF_vars(Step(t))

FairSpec == Spec /\ Fairness
-----------------------------------------------------------------------------
Latest(k) == versions[k][Len(versions[k])]

\* Nodes drawn from an unlocked size never collide, with a node of the stack or
\* with one that another push is about to insert (treiber_stack.h:34-35).
NodeIdsUnique ==
  \A t \in Threads : pc[t] = "insert" =>
    /\ ~ Present(new[t])
    /\ \A u \in Threads \ {t} : pc[u] # "idle" /\ Op(u) = "push" => new[u] # new[t]

\* Whatever version of the head a session is shown points at a node that is in
\* the store, so pop never answers EMPTY because of a missing node
\* (treiber_stack.h:67-76), at either consistency level.
HeadNeverDangles ==
  \A i \in DOMAIN versions[HeadKey] :
    LET top == versions[HeadKey][i].next IN top # NoNode => Present(top)

\* check_pop_valid: two pops have returned the same value.
RepeatValue ==
  \E t, u \in Threads : \E i \in DOMAIN popped[t], j \in DOMAIN popped[u] :
    <<t, i>> # <<u, j>> /\ popped[t][i] = popped[u][j] /\ popped[t][i] # EMPTY

\* Nothing pushed is popped twice when the store is linearizable: the violation
\* that run_stack counts (run_stack.cpp:31-45) needs a weaker store.
NoRepeatedPop == level = "linear" => ~ RepeatValue

\* Every push and pop ends: at either level a failed update_head has shown its
\* session a newer head, so it is not retried for ever.
AllReturn == <>(\A t \in Threads : done[t] = Len(Program[t]))

\* The nodes that are in the store, whether or not they are still on the stack.
Nodes == {n \in Keys \ {HeadKey} : Present(n)}

\* q lists the stack from the top down, by the latest versions: place 0 is the
\* head, and the last node has none below it.
NodeAt(q, i) == IF i = 0 THEN HeadKey ELSE IF i \in DOMAIN q THEN q[i] ELSE NoNode

IsChain(q) == \A i \in 0 .. Len(q) : Latest(NodeAt(q, i)).next = NodeAt(q, i + 1)

Chain == CHOOSE q \in UNION {[1 .. n -> Nodes] : n \in 0 .. Cardinality(Nodes)} : IsChain(q)

\* What the stack shows of its state: on a linearizable store the values in it and
\* what the pops returned; on a causal one, which promises no stack, nothing.
Contents == IF level = "linear" THEN [i \in DOMAIN Chain |-> Latest(Chain[i]).val] ELSE <<>>
Answers == IF level = "linear" THEN popped ELSE [t \in Threads |-> <<>>]

\* On a linearizable store the stack implements LifoStack: each operation takes
\* effect when it swings the head, an empty pop when it reads the head.
Lifo == INSTANCE LifoStack WITH
  Sessions <- Threads, Elements <- 1 .. 99, Empty <- EMPTY,
  stack <- Contents, popped <- Answers

ImplementsLifoStack == Lifo!Spec
=============================================================================
