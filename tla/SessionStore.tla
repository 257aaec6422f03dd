---------------------------- MODULE SessionStore ----------------------------
(***************************************************************************)
(* What the mock store promises its clients, without its history: each key *)
(* has a sequence of versions, and each session remembers, per key, the    *)
(* newest version it has written or been shown.  A read never goes below   *)
(* that floor.  The applications and the HTTP server are modelled on top   *)
(* of this interface; KVStore, the translation of kv_store.h and of the    *)
(* selectors, is shown to implement it.                                    *)
(***************************************************************************)
EXTENDS Naturals, Sequences

CONSTANTS
  Keys, Values, Sessions,
  Levels   \* the levels the store may be opened with, among these two

ASSUME StoreAssumption == Levels # {} /\ Levels \subseteq {"causal", "linear"}

VARIABLES
  versions,   \* versions[k]: the values put at k, oldest first; <<>> is absence
  floor,      \* floor[s][k]: newest version of k that session s has touched
  level       \* the consistency level the store was opened with

storeVars == <<versions, floor, level>>

StoreTypeOK ==
  /\ versions \in [Keys -> Seq(Values)]
  /\ floor \in [Sessions -> [Keys -> Nat]]
  /\ level \in Levels

StoreInit ==
  /\ versions = [k \in Keys |-> <<>>]
  /\ floor = [s \in Sessions |-> [k \in Keys |-> 0]]
  /\ level \in Levels

Present(k) == versions[k] # <<>>

\* The versions a GET of k by session s may answer with.
Visible(s, k) ==
  {i \in DOMAIN versions[k] :
     IF level = "linear" THEN i = Len(versions[k]) ELSE i >= floor[s][k]}

\* Session s reads version i of k.
Get(s, k, i) ==
  /\ i \in Visible(s, k)
  /\ floor' = [floor EXCEPT ![s][k] = i]
  /\ UNCHANGED <<versions, level>>

\* Session s writes v at k; its own write is the newest version it knows.
Put(s, k, v) ==
  /\ versions' = [versions EXCEPT ![k] = Append(@, v)]
  /\ floor' = [floor EXCEPT ![s][k] = Len(versions[k]) + 1]
  /\ UNCHANGED level

\* The versions that session s may be shown of those of the keys ks it finds.
ReadChoices(s, ks) ==
  LET present == {k \in ks : Present(k)}
  IN {r \in [present -> UNION {Visible(s, k) : k \in present}] :
        \A k \in present : r[k] \in Visible(s, k)}

\* Session s reads version r[k] of every k in DOMAIN r and then writes w[k] at
\* every k in DOMAIN w, with the application's lock held from first to last: the
\* composition of the Gets and the Puts, none of which reads its own write.
Transact(s, r, w) ==
  /\ \A k \in DOMAIN r : r[k] \in Visible(s, k)
  /\ versions' = [k \in Keys |-> IF k \in DOMAIN w THEN Append(versions[k], w[k])
                                 ELSE versions[k]]
  /\ floor' = [floor EXCEPT ![s] = [k \in Keys |->
                  IF k \in DOMAIN w THEN Len(versions[k]) + 1
                  ELSE IF k \in DOMAIN r THEN r[k] ELSE @[k]]]
  /\ UNCHANGED level

NoWrites == <<>>

StoreNext ==
  \E s \in Sessions, k \in Keys :
    \/ \E i \in DOMAIN versions[k] : Get(s, k, i)
    \/ \E v \in Values : Put(s, k, v)

StoreSpec == StoreInit /\ [][StoreNext]_storeVars
=============================================================================
