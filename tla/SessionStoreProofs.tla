------------------------- MODULE SessionStoreProofs -------------------------
(***************************************************************************)
(* What every client of the store may rely on, proved from SessionStore:   *)
(* the effect of a read, of a write and of a bracketed operation on the    *)
(* versions and the floors.  The proofs about the server and the           *)
(* applications cite these lemmas.                                         *)
(***************************************************************************)
EXTENDS SessionStore, AppData, FiniteSetTheorems, TLAPS

\* No session has touched a version that is not there.
FloorsBounded == \A s \in Sessions, k \in Keys : floor[s][k] <= Len(versions[k])

StoreSound == StoreTypeOK /\ FloorsBounded

\* No version is changed or removed.
VersionsKept ==
  \A k \in Keys :
    /\ Len(versions[k]) <= Len(versions[k])'
    /\ \A i \in DOMAIN versions[k] : i \in DOMAIN versions'[k] /\ versions'[k][i] = versions[k][i]

\* No floor goes down.
FloorsKept == \A s \in Sessions, k \in Keys : floor[s][k] <= floor'[s][k]

LEMMA VersionsTyped ==
  ASSUME StoreTypeOK, NEW k \in Keys
  PROVE  /\ versions[k] \in Seq(Values)
         /\ Len(versions[k]) \in Nat /\ DOMAIN versions[k] = 1 .. Len(versions[k])
         /\ \A i \in DOMAIN versions[k] : versions[k][i] \in Values /\ i \in Nat
         /\ Present(k) <=> Len(versions[k]) > 0
         /\ \A s \in Sessions : floor[s][k] \in Nat
  BY DEF StoreTypeOK, Present

\* A version shown to a session is a version of the key at or above its floor.
LEMMA VisibleAboveFloor ==
  ASSUME StoreSound, NEW s \in Sessions, NEW k \in Keys, NEW i \in Visible(s, k)
  PROVE  /\ i \in DOMAIN versions[k] /\ i \in Nat /\ i > 0 /\ i <= Len(versions[k])
         /\ floor[s][k] <= i
         /\ level = "linear" => i = Len(versions[k])
  BY VersionsTyped DEF StoreSound, Visible, FloorsBounded

LEMMA GetEffect ==
  ASSUME StoreSound, NEW s \in Sessions, NEW k \in Keys, NEW i, Get(s, k, i)
  PROVE  /\ StoreSound' /\ VersionsKept /\ FloorsKept
         /\ UNCHANGED <<versions, level>>
         /\ floor'[s][k] = i
         /\ \A u \in Sessions, m \in Keys : u # s \/ m # k => floor'[u][m] = floor[u][m]
<1>1. /\ i \in Visible(s, k) /\ UNCHANGED <<versions, level>>
      /\ floor' = [floor EXCEPT ![s][k] = i]
  BY DEF Get
<1>2. i \in Nat /\ i <= Len(versions[k]) /\ floor[s][k] <= i BY <1>1, VisibleAboveFloor
<1>3. floor \in [Sessions -> [Keys -> Nat]] BY DEF StoreSound, StoreTypeOK
<1>4. /\ floor' \in [Sessions -> [Keys -> Nat]] /\ floor'[s][k] = i
      /\ \A u \in Sessions, m \in Keys : u # s \/ m # k => floor'[u][m] = floor[u][m]
  BY <1>1, <1>2, <1>3
<1>5. StoreTypeOK' BY <1>1, <1>4 DEF StoreSound, StoreTypeOK
<1>6. FloorsBounded' BY <1>1, <1>2, <1>4 DEF StoreSound, FloorsBounded
<1>7. FloorsKept BY <1>2, <1>3, <1>4 DEF FloorsKept
<1>8. VersionsKept BY <1>1, VersionsTyped DEF VersionsKept, StoreSound
<1> QED BY <1>1, <1>4, <1>5, <1>6, <1>7, <1>8 DEF StoreSound

LEMMA PutEffect ==
  ASSUME StoreSound, NEW s \in Sessions, NEW k \in Keys, NEW v \in Values, Put(s, k, v)
  PROVE  /\ StoreSound' /\ VersionsKept /\ FloorsKept
         /\ level' = level
         /\ Len(versions'[k]) = Len(versions[k]) + 1
         /\ versions'[k][Len(versions[k]) + 1] = v
         /\ \A m \in Keys \ {k} : versions'[m] = versions[m]
         /\ floor'[s][k] = Len(versions[k]) + 1
         /\ \A u \in Sessions, m \in Keys : u # s \/ m # k => floor'[u][m] = floor[u][m]
<1> DEFINE n == Len(versions[k])
<1>1. /\ versions' = [versions EXCEPT ![k] = Append(@, v)]
      /\ floor' = [floor EXCEPT ![s][k] = n + 1] /\ level' = level
  BY DEF Put
<1>2. /\ versions[k] \in Seq(Values) /\ n \in Nat /\ floor[s][k] <= n /\ floor[s][k] \in Nat
  BY VersionsTyped DEF StoreSound, FloorsBounded
<1>3. floor \in [Sessions -> [Keys -> Nat]] /\ versions \in [Keys -> Seq(Values)]
  BY DEF StoreSound, StoreTypeOK
<1>4. /\ versions'[k] = Append(versions[k], v)
      /\ \A m \in Keys \ {k} : versions'[m] = versions[m]
      /\ versions' \in [Keys -> Seq(Values)]
  BY <1>1, <1>2, <1>3
<1>5. /\ Len(versions'[k]) = n + 1 /\ versions'[k][n + 1] = v
      /\ \A i \in DOMAIN versions[k] : i \in DOMAIN versions'[k] /\ versions'[k][i] = versions[k][i]
  BY <1>2, <1>4
<1> HIDE DEF n
<1>6. /\ floor' \in [Sessions -> [Keys -> Nat]] /\ floor'[s][k] = n + 1
      /\ \A u \in Sessions, m \in Keys : u # s \/ m # k => floor'[u][m] = floor[u][m]
  BY <1>1, <1>2, <1>3
<1>7. StoreTypeOK' BY <1>1, <1>4, <1>6 DEF StoreSound, StoreTypeOK
<1>8. \A m \in Keys : Len(versions[m]) <= Len(versions'[m]) /\ Len(versions[m]) \in Nat
  BY <1>2, <1>4, <1>5, VersionsTyped DEF StoreSound, n
<1>9. FloorsBounded'
  <2> SUFFICES ASSUME NEW u \in Sessions, NEW m \in Keys PROVE floor'[u][m] <= Len(versions'[m])
    BY DEF FloorsBounded
  <2>1. CASE u = s /\ m = k BY <1>2, <1>5, <1>6, <2>1
  <2>2. CASE m # k BY <1>4, <1>6, <2>2 DEF StoreSound, FloorsBounded
  <2>3. CASE u # s /\ m = k
    <3>1. floor'[u][m] = floor[u][m] BY <1>6, <2>3
    <3>2. floor[u][m] <= n /\ floor[u][m] \in Nat
      BY <2>3, VersionsTyped DEF StoreSound, FloorsBounded, n
    <3> QED BY <1>2, <1>5, <2>3, <3>1, <3>2
  <2> QED BY <2>1, <2>2, <2>3
<1>10. FloorsKept
  <2> SUFFICES ASSUME NEW u \in Sessions, NEW m \in Keys PROVE floor[u][m] <= floor'[u][m]
    BY DEF FloorsKept
  <2>1. CASE u = s /\ m = k BY <1>2, <1>6, <2>1
  <2>2. CASE u # s \/ m # k
    <3>1. floor'[u][m] = floor[u][m] BY <1>6, <2>2
    <3>2. floor[u][m] \in Nat BY <1>3
    <3> QED BY <3>1, <3>2
  <2> QED BY <2>1, <2>2
<1>11. VersionsKept BY <1>4, <1>5, <1>8 DEF VersionsKept
<1> QED BY <1>1, <1>4, <1>5, <1>6, <1>7, <1>9, <1>10, <1>11 DEF StoreSound, n

\* The reads r and then the writes w of an operation that runs under the
\* application's own mutex.
LEMMA TransactEffect ==
  ASSUME StoreSound, NEW s \in Sessions, NEW r, NEW w, Transact(s, r, w),
         DOMAIN r \subseteq Keys, DOMAIN w \subseteq Keys, \A k \in DOMAIN w : w[k] \in Values
  PROVE  /\ StoreSound' /\ VersionsKept /\ FloorsKept
         /\ level' = level
         /\ \A k \in DOMAIN w : /\ Len(versions'[k]) = Len(versions[k]) + 1
                                /\ versions'[k][Len(versions[k]) + 1] = w[k]
                                /\ versions'[k] = Append(versions[k], w[k])
                                /\ floor'[s][k] = Len(versions[k]) + 1
         /\ \A k \in Keys \ DOMAIN w : versions'[k] = versions[k]
         /\ \A k \in DOMAIN r \ DOMAIN w : floor'[s][k] = r[k]
         /\ \A k \in Keys \ (DOMAIN r \cup DOMAIN w) : floor'[s][k] = floor[s][k]
         /\ \A u \in Sessions \ {s} : floor'[u] = floor[u]
         /\ \A k \in DOMAIN r : r[k] \in Visible(s, k)
<1>1. /\ \A k \in DOMAIN r : r[k] \in Visible(s, k)
      /\ \A k \in Keys : versions'[k] = IF k \in DOMAIN w THEN Append(versions[k], w[k])
                                        ELSE versions[k]
      /\ versions' = [k \in Keys |-> versions'[k]]
      /\ level' = level
  BY DEF Transact
<1>2. floor \in [Sessions -> [Keys -> Nat]] BY DEF StoreSound, StoreTypeOK
<1>3. /\ \A u \in Sessions \ {s} : floor'[u] = floor[u]
      /\ \A k \in Keys : floor'[s][k] = IF k \in DOMAIN w THEN Len(versions[k]) + 1
                                        ELSE IF k \in DOMAIN r THEN r[k] ELSE floor[s][k]
      /\ DOMAIN floor' = Sessions
      /\ \A u \in Sessions : DOMAIN floor'[u] = Keys /\ floor'[u] = [k \in Keys |-> floor'[u][k]]
      /\ floor' = [u \in Sessions |-> floor'[u]]
  BY <1>2 DEF Transact
<1>4. \A k \in Keys : /\ versions[k] \in Seq(Values) /\ Len(versions[k]) \in Nat
                      /\ \A u \in Sessions : floor[u][k] \in Nat /\ floor[u][k] <= Len(versions[k])
  BY VersionsTyped DEF StoreSound, FloorsBounded
<1>5. \A k \in DOMAIN r : r[k] \in Nat /\ floor[s][k] <= r[k] /\ r[k] <= Len(versions[k])
  BY <1>1, VisibleAboveFloor
<1>6. ASSUME NEW k \in DOMAIN w
      PROVE  /\ versions'[k] = Append(versions[k], w[k]) /\ versions'[k] \in Seq(Values)
             /\ Len(versions'[k]) = Len(versions[k]) + 1
             /\ versions'[k][Len(versions[k]) + 1] = w[k]
             /\ \A i \in DOMAIN versions[k] : i \in DOMAIN versions'[k] /\ versions'[k][i] = versions[k][i]
  <2>1. PICK q, v : q = versions[k] /\ v = w[k] OBVIOUS
  <2>2. q \in Seq(Values) /\ v \in Values BY <1>4, <2>1
  <2>3. versions'[k] = Append(q, v) BY <1>1, <2>1
  <2>4. /\ Append(q, v) \in Seq(Values) /\ Len(Append(q, v)) = Len(q) + 1
        /\ Append(q, v)[Len(q) + 1] = v
        /\ \A i \in DOMAIN q : i \in DOMAIN Append(q, v) /\ Append(q, v)[i] = q[i]
    BY <2>2
  <2> QED BY <2>1, <2>3, <2>4
<1>7. \A k \in Keys : versions'[k] \in Seq(Values) /\ Len(versions[k]) <= Len(versions'[k])
                        /\ Len(versions'[k]) \in Nat
  BY <1>1, <1>4, <1>6
<1>8. ASSUME NEW k \in Keys
      PROVE  floor'[s][k] \in Nat /\ floor[s][k] <= floor'[s][k] /\ floor'[s][k] <= Len(versions'[k])
  <2>1. CASE k \in DOMAIN w BY <1>3, <1>4, <1>6, <2>1
  <2>2. CASE k \notin DOMAIN w /\ k \in DOMAIN r BY <1>1, <1>3, <1>5, <2>2
  <2>3. CASE k \notin DOMAIN w /\ k \notin DOMAIN r BY <1>1, <1>3, <1>4, <2>3
  <2> QED BY <2>1, <2>2, <2>3
<1>9. ASSUME NEW u \in Sessions \ {s}, NEW k \in Keys
      PROVE  floor'[u][k] \in Nat /\ floor[u][k] <= floor'[u][k] /\ floor'[u][k] <= Len(versions'[k])
  BY <1>3, <1>4, <1>7
<1>10. \A u \in Sessions, k \in Keys :
         floor'[u][k] \in Nat /\ floor[u][k] <= floor'[u][k] /\ floor'[u][k] <= Len(versions'[k])
  BY <1>8, <1>9
<1>11. floor' \in [Sessions -> [Keys -> Nat]]
  <2>1. \A u \in Sessions : floor'[u] \in [Keys -> Nat] BY <1>3, <1>10
  <2> QED BY <1>3, <2>1
<1>12. versions' \in [Keys -> Seq(Values)] BY <1>1, <1>7
<1>13. StoreTypeOK' BY <1>1, <1>11, <1>12 DEF StoreSound, StoreTypeOK
<1>14. FloorsBounded' /\ FloorsKept BY <1>10 DEF FloorsBounded, FloorsKept
<1>15. VersionsKept BY <1>1, <1>6, <1>7 DEF VersionsKept
<1> QED BY <1>1, <1>3, <1>6, <1>13, <1>14, <1>15 DEF StoreSound

-----------------------------------------------------------------------------
(* The data of the applications *)

LEMMA AtIsOne == \A k, v : DOMAIN At(k, v) = {k} /\ At(k, v)[k] = v
  BY DEF At

LEMMA ChoicesVisible ==
  ASSUME NEW s, NEW ks, NEW r \in ReadChoices(s, ks)
  PROVE  /\ DOMAIN r = {k \in ks : Present(k)}
         /\ \A k \in DOMAIN r : r[k] \in Visible(s, k)
  BY DEF ReadChoices

\* Reads of an operation: keys of the store, each with a visible version.
Reads(s, r) == DOMAIN r \subseteq Keys /\ \A k \in DOMAIN r : r[k] \in Visible(s, k)

LEMMA ReadsOfChoices ==
  ASSUME NEW s, NEW ks \in SUBSET Keys, NEW r \in ReadChoices(s, ks)
  PROVE  Reads(s, r) /\ DOMAIN r = {k \in ks : Present(k)}
<1>1. DOMAIN r = {k \in ks : Present(k)} /\ \A k \in DOMAIN r : r[k] \in Visible(s, k)
  BY ChoicesVisible
<1>2. DOMAIN r \subseteq Keys BY <1>1
<1> QED BY <1>1, <1>2 DEF Reads

LEMMA ReadsOfOne ==
  ASSUME NEW s, NEW k \in Keys, NEW r \in ReadChoices(s, {k})
  PROVE  Reads(s, r) /\ DOMAIN r \subseteq {k} /\ (Present(k) => k \in DOMAIN r)
<1>1. {k} \in SUBSET Keys OBVIOUS
<1>2. Reads(s, r) /\ DOMAIN r = {m \in {k} : Present(m)} BY <1>1, ReadsOfChoices
<1> QED BY <1>2

LEMMA ReadsJoin ==
  ASSUME NEW s, NEW r, NEW q, Reads(s, r), Reads(s, q)
  PROVE  Reads(s, r ++ q)
<1>1. /\ DOMAIN (r ++ q) = DOMAIN r \cup DOMAIN q
      /\ \A k \in DOMAIN r : (r ++ q)[k] = r[k]
      /\ \A k \in DOMAIN q \ DOMAIN r : (r ++ q)[k] = q[k]
  BY DEF ++
<1>2. DOMAIN (r ++ q) \subseteq Keys BY <1>1 DEF Reads
<1>3. ASSUME NEW k \in DOMAIN (r ++ q) PROVE (r ++ q)[k] \in Visible(s, k)
  <2>1. CASE k \in DOMAIN r BY <1>1, <2>1 DEF Reads
  <2>2. CASE k \notin DOMAIN r BY <1>1, <2>2 DEF Reads
  <2> QED BY <2>1, <2>2
<1> QED BY <1>2, <1>3 DEF Reads

LEMMA PairIs ==
  ASSUME NEW S, NEW a \in S, NEW b \in S, NEW x \in Seq(S), Len(x) = 2, x[1] = a, x[2] = b
  PROVE  x = <<a, b>>
<1> DEFINE r == <<a, b>>
           pair == [j \in 1 .. 2 |-> IF j = 1 THEN a ELSE b]
<1>1. r \in Seq(S) /\ Len(r) = 2 /\ r[1] = a /\ r[2] = b OBVIOUS
<1> HIDE DEF r
<1>2. x = pair
  <2>1. x = [j \in 1 .. 2 |-> x[j]] OBVIOUS
  <2>2. \A j \in 1 .. 2 : x[j] = IF j = 1 THEN a ELSE b OBVIOUS
  <2> QED BY <2>1, <2>2
<1>3. r = pair
  <2>1. r = [j \in 1 .. 2 |-> r[j]] BY <1>1
  <2>2. \A j \in 1 .. 2 : r[j] = IF j = 1 THEN a ELSE b BY <1>1
  <2> QED BY <2>1, <2>2
<1> QED BY <1>2, <1>3 DEF r

\* A second element makes a pair of a list of one.
LEMMA AppendedPair == \A a, b : Append(<<a>>, b) = <<a, b>>
<1> SUFFICES ASSUME NEW a, NEW b PROVE Append(<<a>>, b) = <<a, b>>
  OBVIOUS
<1> DEFINE S == {a, b}
           p == <<a>>
<1>1. p \in Seq(S) OBVIOUS
<1>2. a \in S /\ b \in S /\ Len(p) = 1 /\ p[1] = a OBVIOUS
<1> HIDE DEF S, p
<1>3. Append(p, b) \in Seq(S) BY <1>1, <1>2
<1>4. Len(Append(p, b)) = Len(p) + 1 BY <1>1
<1>5. Append(p, b)[Len(p) + 1] = b BY <1>1
<1>6. \A i \in 1 .. Len(p) : Append(p, b)[i] = p[i] BY <1>1
<1>7. Len(Append(p, b)) = 2 /\ Append(p, b)[1] = a /\ Append(p, b)[2] = b
  BY <1>2, <1>4, <1>5, <1>6
<1>8. PICK x : x = Append(p, b) OBVIOUS
<1>9. x = <<a, b>> BY <1>2, <1>3, <1>7, <1>8, PairIs
<1> QED BY <1>8, <1>9 DEF p

\* A list over a set is a list over a larger one.
LEMMA SeqWidens ==
  ASSUME NEW S, NEW T, S \subseteq T, NEW q \in Seq(S)
  PROVE  q \in Seq(T)
<1>1. \A i \in DOMAIN q : q[i] \in T OBVIOUS
<1>2. DOMAIN q = 1 .. Len(q) /\ Len(q) \in Nat OBVIOUS
<1> QED BY <1>1, <1>2

\* The ranks of the positions kept are 1, 2, ... : none is missing.
LEMMA RanksCover ==
  ASSUME NEW S, NEW q \in Seq(S), NEW x
  PROVE  /\ Cardinality(Kept(q, x)) \in Nat
         /\ \A i \in Kept(q, x) : KeptUpTo(q, x, i) \in 1 .. Cardinality(Kept(q, x))
         /\ \A j \in 1 .. Cardinality(Kept(q, x)) : \E i \in Kept(q, x) : KeptUpTo(q, x, i) = j
         /\ \A i, m \in Kept(q, x) : KeptUpTo(q, x, i) = KeptUpTo(q, x, m) => i = m
<1> DEFINE K == Kept(q, x)
           c == Cardinality(K)
           upTo(i) == {m \in K : m <= i}
<1>1. K \subseteq 1 .. Len(q) /\ Len(q) \in Nat /\ K \subseteq Nat BY DEF Kept
<1>2. IsFiniteSet(K)
  <2>1. IsFiniteSet(1 .. Len(q)) BY <1>1, FS_Interval
  <2> QED BY <1>1, <2>1, FS_Subset
<1>3. c \in Nat BY <1>2, FS_CardinalityType
<1>4. IsFiniteSet(1 .. c) /\ Cardinality(1 .. c) = c BY <1>3, FS_Interval
<1> HIDE DEF K, c
<1>5. \A i \in K : /\ IsFiniteSet(upTo(i)) /\ Cardinality(upTo(i)) \in 1 .. c
  <2> SUFFICES ASSUME NEW i \in K
               PROVE  IsFiniteSet(upTo(i)) /\ Cardinality(upTo(i)) \in 1 .. c
    OBVIOUS
  <2>1. i \in upTo(i) BY <1>1
  <2>2. IsFiniteSet(upTo(i)) /\ Cardinality(upTo(i)) <= Cardinality(K) BY <1>2, FS_Subset
  <2>3. Cardinality(upTo(i)) \in Nat /\ Cardinality(upTo(i)) # 0
    BY <2>1, <2>2, FS_CardinalityType, FS_EmptySet
  <2> QED BY <1>3, <2>2, <2>3 DEF c
<1>6. \A i, m \in K : i < m => Cardinality(upTo(i)) < Cardinality(upTo(m))
  <2> SUFFICES ASSUME NEW i \in K, NEW m \in K, i < m
               PROVE  Cardinality(upTo(i)) < Cardinality(upTo(m))
    OBVIOUS
  <2>1. i \in Nat /\ m \in Nat /\ \A n \in K : n \in Nat BY <1>1
  <2>2. \A n \in K : n <= i => n <= m BY <2>1
  <2>3. upTo(i) \subseteq upTo(m) BY <2>2
  <2>4. m \in upTo(m) /\ m \notin upTo(i) BY <2>1
  <2>5. IsFiniteSet(upTo(m)) BY <1>5
  <2>6. /\ Cardinality(upTo(i)) <= Cardinality(upTo(m))
        /\ Cardinality(upTo(i)) # Cardinality(upTo(m))
    <3>1. upTo(i) # upTo(m) BY <2>4
    <3> HIDE DEF upTo
    <3> QED BY <2>3, <2>5, <3>1, FS_Subset
  <2> HIDE DEF upTo
  <2>7. Cardinality(upTo(i)) \in Int /\ Cardinality(upTo(m)) \in Int BY <1>3, <1>5
  <2> QED BY <2>6, <2>7
<1> HIDE DEF upTo
<1>7. \A i, m \in K : Cardinality(upTo(i)) = Cardinality(upTo(m)) => i = m
  <2> SUFFICES ASSUME NEW i \in K, NEW m \in K, Cardinality(upTo(i)) = Cardinality(upTo(m))
               PROVE  i = m
    OBVIOUS
  <2>1. i \in Nat /\ m \in Nat BY <1>1
  <2>2. Cardinality(upTo(i)) \in Int BY <1>5
  <2>3. ~ (i < m) /\ ~ (m < i) BY <1>6, <2>2
  <2> QED BY <2>1, <2>3
<1> DEFINE f == [i \in K |-> Cardinality(upTo(i))]
<1>8. f \in Injection(K, 1 .. c) BY <1>5, <1>7 DEF Injection, IsInjective
<1>9. f \in Surjection(K, 1 .. c)
  <2>1. Cardinality(K) = Cardinality(1 .. c) BY <1>4 DEF c
  <2> HIDE DEF f
  <2> QED BY <1>4, <1>8, <2>1, FS_Injection
<1>10. \A j \in 1 .. c : \E i \in K : f[i] = j BY <1>9 DEF Surjection
<1>11. \A i \in K : KeptUpTo(q, x, i) = f[i] BY DEF KeptUpTo, K, upTo
<1> QED BY <1>3, <1>5, <1>7, <1>10, <1>11 DEF K, c

\* The copy holds what the list holds, except x.
LEMMA WithoutHolds ==
  ASSUME NEW S, NEW q \in Seq(S), NEW x
  PROVE  /\ Without(q, x) \in Seq(S)
         /\ \A y : Holds(Without(q, x), y) <=> y # x /\ Holds(q, y)
<1> DEFINE K == Kept(q, x)
           c == Cardinality(K)
           at(j) == CHOOSE i \in K : KeptUpTo(q, x, i) = j
<1>1. /\ c \in Nat /\ \A i \in K : KeptUpTo(q, x, i) \in 1 .. c
      /\ \A j \in 1 .. c : \E i \in K : KeptUpTo(q, x, i) = j
      /\ \A i, m \in K : KeptUpTo(q, x, i) = KeptUpTo(q, x, m) => i = m
  BY RanksCover
<1>2. \A j \in 1 .. c : at(j) \in K /\ KeptUpTo(q, x, at(j)) = j BY <1>1
<1>3. \A i \in K : i \in DOMAIN q /\ q[i] # x /\ q[i] \in S BY DEF Kept
<1>4. \A i \in DOMAIN q : q[i] # x => i \in K BY DEF Kept
<1>5. Without(q, x) = [j \in 1 .. c |-> q[at(j)]] BY DEF Without
<1> HIDE DEF K, c, at
<1>6. Without(q, x) \in Seq(S) BY <1>1, <1>2, <1>3, <1>5
<1>7. ASSUME NEW y, Holds(Without(q, x), y) PROVE y # x /\ Holds(q, y)
  <2>1. PICK j \in 1 .. c : q[at(j)] = y BY <1>5, <1>7 DEF Holds
  <2>2. at(j) \in K BY <1>2
  <2> QED BY <1>3, <2>1, <2>2 DEF Holds
<1>8. ASSUME NEW y, y # x, Holds(q, y) PROVE Holds(Without(q, x), y)
  <2>1. PICK i \in DOMAIN q : q[i] = y BY <1>8 DEF Holds
  <2>2. i \in K BY <1>4, <1>8, <2>1
  <2>3. PICK j \in 1 .. c : j = KeptUpTo(q, x, i) BY <1>1, <2>2
  <2>4. at(j) = i BY <1>1, <1>2, <2>2, <2>3
  <2> QED BY <1>5, <2>1, <2>3, <2>4 DEF Holds
<1> QED BY <1>6, <1>7, <1>8
-----------------------------------------------------------------------------
LEMMA StoreSoundInit == StoreInit => StoreSound
  BY DEF StoreInit, StoreSound, StoreTypeOK, FloorsBounded

LEMMA StoreStep ==
  ASSUME StoreSound, [StoreNext]_storeVars
  PROVE  StoreSound' /\ VersionsKept /\ FloorsKept
<1>1. ASSUME NEW s \in Sessions, NEW k \in Keys, NEW i, Get(s, k, i)
      PROVE  StoreSound' /\ VersionsKept /\ FloorsKept
  BY <1>1, GetEffect
<1>2. ASSUME NEW s \in Sessions, NEW k \in Keys, NEW v \in Values, Put(s, k, v)
      PROVE  StoreSound' /\ VersionsKept /\ FloorsKept
  BY <1>2, PutEffect
<1>3. CASE UNCHANGED storeVars
  <2>1. \A k \in Keys : Len(versions[k]) \in Nat /\ \A s \in Sessions : floor[s][k] \in Nat
    BY VersionsTyped DEF StoreSound
  <2> QED BY <1>3, <2>1 DEF storeVars, StoreSound, StoreTypeOK, FloorsBounded, VersionsKept,
                            FloorsKept
<1> QED BY <1>1, <1>2, <1>3 DEF StoreNext

\* Through the session-level interface no version is ever lost or changed, no
\* session's floor goes down, and every floor is a version that exists.
THEOREM SessionsNeverGoBack ==
  StoreSpec => []StoreSound /\ [][VersionsKept /\ FloorsKept]_storeVars
<1>1. StoreSound /\ [StoreNext]_storeVars => StoreSound' /\ [VersionsKept /\ FloorsKept]_storeVars
  BY StoreStep
<1> QED BY <1>1, StoreSoundInit, PTL DEF StoreSpec
=============================================================================
