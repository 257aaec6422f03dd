---------------------------- MODULE TwitterProofs ----------------------------
(***************************************************************************)
(* The theorems about Twitter: no tweet and no follow is lost, nothing     *)
(* that a session has seen disappears, and on a linearizable store the     *)
(* newsfeed shows whatever any session has seen.                           *)
(***************************************************************************)
EXTENDS Twitter, SessionStoreProofs

\* The store of this application: its own keys, with its own values.
TwitterStore == Keys = TwitterKeys /\ Values = TwitterValues

\* do_random_op numbers a tweet t * 19 + j: up to 19 operations (run_twitter has 3)
\* no two threads give out the same number.
TweetsDistinct == NumOps <= 19

\* The user who publishes tweet tw, the same in all of the programs.
Author(tw) == IF tw \in {1, 2} THEN 1 ELSE (((tw - 20) % 19) % Cardinality(Users)) + 1
TweetsBy(u) == {tw \in Tweets : Author(tw) = u}

\* Who and what an operation is about.
Calls ==
  {o \in [op : OpNames, user : Nat, arg : Nat] :
     /\ o.op # "get_all_timeline" => o.user \in Users
     /\ o.op = "follow" => o.arg \in Users
     /\ o.op = "publish_tweet" => o.arg \in TweetsBy(o.user)
     /\ o.op \in {"get_timeline", "get_all_timeline"} => o.arg \in Sessions}

\* What may be put at k.
UserLists == {UserList} \cup {Following(u) : u \in Users} \cup {Followers(u) : u \in Users}
Fits(k, v) ==
  /\ v \in TwitterValues
  /\ k \in UserLists => v \in Seq(Users)
  /\ \A u \in Users : k = TweetsOf(u) => v \in Seq(TweetsBy(u))

ListsTyped == \A k \in Keys : \A i \in DOMAIN versions[k] : Fits(k, versions[k][i])

ProgramsTyped ==
  /\ todo \in [Threads \cup {Main} -> Seq(Calls)]
  /\ run \in Runs
  /\ results \in [{"timeline", "newsfeed"} -> Nat]

\* The lists that are put in the session of u only, and so are known to it.
OwnLists(u) == {Following(u), TweetsOf(u)}
OwnFloors == \A u \in Users : \A k \in OwnLists(u) : floor[u][k] = Len(versions[k])

\* A session that has seen a tweet has seen it in a list of its author.
SeenNamed ==
  \A s \in Sessions, tw \in Tweets :
    LET k == TweetsOf(Author(tw))
    IN Seen(s, tw) => floor[s][k] > 0 /\ Contains(versions[k][floor[s][k]], tw)

\* The lists that populate_twitter has still to create are not there, each is to be
\* created once, and the others are there.
Pending(i, u) == i \in DOMAIN todo[Main] /\ todo[Main][i].op = "add_details" /\ todo[Main][i].user = u
PopulatedOnce ==
  \A u \in Users :
    /\ \A i, j \in DOMAIN todo[Main] : Pending(i, u) /\ Pending(j, u) => i = j
    /\ (\E i \in DOMAIN todo[Main] : Pending(i, u)) => \A k \in OwnLists(u) : ~ Present(k)
    /\ (\A i \in DOMAIN todo[Main] : ~ Pending(i, u)) => \A k \in OwnLists(u) : Present(k)

\* What holds of the store, and of the programs.
FeedInv == StoreSound /\ ListsTyped /\ OwnFloors /\ OwnListsGrow /\ SeenNamed
TwitterInv == FeedInv /\ ProgramsTyped /\ PopulatedOnce
-----------------------------------------------------------------------------
(* Users, tweets and keys *)

LEMMA UsersTyped ==
  /\ Cardinality(Users) \in Nat /\ Cardinality(Users) >= 2
  /\ Users = 1 .. Cardinality(Users) /\ Users \subseteq Nat /\ Users \subseteq Sessions
  /\ Threads = {1, 2, 3} /\ Threads \subseteq Sessions /\ Main \notin Threads
  /\ DefaultSession \in Users /\ NumOps \in Nat
<1>1. 2 \in 1 .. Cardinality(Users) BY TwitterAssumption
<1> QED BY <1>1, TwitterAssumption DEF Main, DefaultSession

LEMMA TurnsTyped == \A i \in Nat : (i % Cardinality(Users)) + 1 \in Users
  BY UsersTyped

LEMMA TweetsTyped ==
  /\ Tweets \subseteq 1 .. (57 + NumOps) /\ {1, 2} \subseteq Tweets
  /\ \A tw \in Tweets : Author(tw) \in Users
<1>1. \A t \in Threads, j \in 1 .. NumOps : TweetId(t, j) \in 20 .. (57 + NumOps)
  BY UsersTyped DEF TweetId
<1>2. Tweets \subseteq {1, 2} \cup (20 .. (57 + NumOps)) BY <1>1 DEF Tweets
<1>3. ASSUME NEW tw \in Tweets PROVE Author(tw) \in Users
  <2>1. CASE tw \in {1, 2} BY <2>1, UsersTyped DEF Author, DefaultSession
  <2>2. CASE tw \notin {1, 2}
    <3>1. tw \in 20 .. (57 + NumOps) BY <1>2, <2>2
    <3>2. (tw - 20) % 19 \in Nat BY <3>1, UsersTyped
    <3> QED BY <2>2, <3>2, TurnsTyped DEF Author
  <2> QED BY <2>1, <2>2
<1>4. \A n \in 20 .. (57 + NumOps) : n \in 1 .. (57 + NumOps) BY UsersTyped
<1>5. {1, 2} \subseteq 1 .. (57 + NumOps) BY UsersTyped
<1>6. Tweets \subseteq 1 .. (57 + NumOps) BY <1>2, <1>4, <1>5
<1>7. {1, 2} \subseteq Tweets BY DEF Tweets
<1> QED BY <1>3, <1>6, <1>7

\* The tweets of a random program are by the users whose turn it is.
LEMMA TweetIdAuthor ==
  ASSUME TweetsDistinct, NEW t \in Threads, NEW j \in 1 .. NumOps
  PROVE  /\ TweetId(t, j) \in Tweets
         /\ Author(TweetId(t, j)) = ((j - 1) % Cardinality(Users)) + 1
<1>1. TweetId(t, j) = t * 19 + j /\ j \in 1 .. 19 BY UsersTyped DEF TweetsDistinct, TweetId
<1>2. TweetId(t, j) \notin {1, 2} BY <1>1, UsersTyped
<1>3. (TweetId(t, j) - 20) % 19 = j - 1
  <2>1. CASE t = 1
    <3>1. TweetId(t, j) - 20 = j - 1 BY <1>1, <2>1
    <3> QED BY <1>1, <3>1
  <2>2. CASE t = 2
    <3>1. TweetId(t, j) - 20 = 19 + (j - 1) BY <1>1, <2>2
    <3> QED BY <1>1, <3>1
  <2>3. CASE t = 3
    <3>1. TweetId(t, j) - 20 = 38 + (j - 1) BY <1>1, <2>3
    <3> QED BY <1>1, <3>1
  <2> QED BY <2>1, <2>2, <2>3, UsersTyped
<1> QED BY <1>2, <1>3 DEF Author, Tweets

LEMMA TweetKeysFinite == IsFiniteSet({TweetKey(tw) : tw \in Tweets})
<1> DEFINE K == {TweetKey(tw) : tw \in Tweets}
           f == [tw \in Tweets |-> TweetKey(tw)]
<1>1. IsFiniteSet(Tweets)
  <2>1. 57 + NumOps \in Nat BY UsersTyped
  <2>2. IsFiniteSet(1 .. (57 + NumOps)) BY <2>1, FS_Interval
  <2> QED BY <2>2, TweetsTyped, FS_Subset
<1>2. f \in Surjection(Tweets, K) BY DEF Surjection
<1> HIDE DEF K, f
<1> QED BY <1>1, <1>2, FS_Surjection DEF K

LEMMA KeysTyped ==
  ASSUME TwitterStore
  PROVE  /\ UserList \in Keys
         /\ \A u \in Users : Following(u) \in Keys /\ Followers(u) \in Keys /\ TweetsOf(u) \in Keys
         /\ \A tw \in Tweets : TweetKey(tw) \in Keys
  BY DEF TwitterStore, TwitterKeys

\* No two records share a key.
LEMMA KeysDiffer ==
  /\ \A x : /\ UserList \notin {Following(x), Followers(x), TweetsOf(x), TweetKey(x)}
            /\ \A y : /\ Following(x) \notin {Followers(y), TweetsOf(y), TweetKey(y)}
                      /\ Followers(x) \notin {TweetsOf(y), TweetKey(y)}
                      /\ TweetsOf(x) # TweetKey(y)
                      /\ Following(x) = Following(y) => x = y
                      /\ Followers(x) = Followers(y) => x = y
                      /\ TweetsOf(x) = TweetsOf(y) => x = y
                      /\ TweetKey(x) = TweetKey(y) => x = y
  BY DEF UserList, Following, Followers, TweetsOf, TweetKey
-----------------------------------------------------------------------------
(* Prefixes *)

LEMMA PrefixPoints ==
  ASSUME NEW S, NEW p \in Seq(S), NEW q \in Seq(S)
  PROVE  IsPrefix(p, q) <=> Len(p) <= Len(q) /\ \A i \in DOMAIN p : p[i] = q[i]
<1>1. CASE Len(p) <= Len(q)
  <2>1. /\ Len(p) \in Nat /\ Len(q) \in Nat /\ DOMAIN p = 1 .. Len(p)
        /\ DOMAIN SubSeq(p, 1, Len(p)) = 1 .. Len(p) /\ DOMAIN SubSeq(q, 1, Len(p)) = 1 .. Len(p)
        /\ \A i \in 1 .. Len(p) : SubSeq(p, 1, Len(p))[i] = p[i] /\ SubSeq(q, 1, Len(p))[i] = q[i]
    BY <1>1
  <2>2. SubSeq(p, 1, Len(p)) = [i \in 1 .. Len(p) |-> SubSeq(p, 1, Len(p))[i]]
    BY <2>1
  <2>3. SubSeq(q, 1, Len(p)) = [i \in 1 .. Len(p) |-> SubSeq(q, 1, Len(p))[i]]
    BY <1>1, <2>1
  <2> QED BY <1>1, <2>1, <2>2, <2>3 DEF IsPrefix
<1>2. CASE ~ (Len(p) <= Len(q)) BY <1>2 DEF IsPrefix
<1> QED BY <1>1, <1>2

LEMMA PrefixAppend ==
  ASSUME NEW S, NEW q \in Seq(S), NEW x \in S
  PROVE  IsPrefix(q, q) /\ IsPrefix(q, Append(q, x))
<1>1. Append(q, x) \in Seq(S) /\ Len(q) <= Len(Append(q, x)) OBVIOUS
<1>2. \A i \in DOMAIN q : q[i] = Append(q, x)[i] OBVIOUS
<1>3. Len(q) <= Len(q) OBVIOUS
<1>4. IsPrefix(q, q) BY <1>3, PrefixPoints
<1> QED BY <1>1, <1>2, <1>4, PrefixPoints

LEMMA PrefixTrans ==
  ASSUME NEW S, NEW p \in Seq(S), NEW q \in Seq(S), NEW r \in Seq(S),
         IsPrefix(p, q), IsPrefix(q, r)
  PROVE  IsPrefix(p, r)
<1>1. Len(p) <= Len(q) /\ \A i \in DOMAIN p : p[i] = q[i] BY PrefixPoints
<1>2. Len(q) <= Len(r) /\ \A i \in DOMAIN q : q[i] = r[i] BY PrefixPoints
<1>3. Len(p) \in Nat /\ Len(q) \in Nat /\ Len(r) \in Nat OBVIOUS
<1>4. Len(p) <= Len(r) BY <1>1, <1>2, <1>3
<1>5. \A i \in DOMAIN p : p[i] = r[i] BY <1>1, <1>2, <1>3
<1> QED BY <1>4, <1>5, PrefixPoints

LEMMA PrefixContains ==
  ASSUME NEW S, NEW p \in Seq(S), NEW q \in Seq(S), IsPrefix(p, q), NEW x, Contains(p, x)
  PROVE  Contains(q, x)
<1>1. Len(p) <= Len(q) /\ \A i \in DOMAIN p : p[i] = q[i] BY PrefixPoints
<1>2. PICK i \in 1 .. Len(p) : p[i] = x BY DEF Contains
<1> QED BY <1>1, <1>2 DEF Contains

LEMMA ContainsAppended ==
  ASSUME NEW S, NEW q \in Seq(S), NEW x \in S
  PROVE  Contains(Append(q, x), x)
<1>1. /\ Len(Append(q, x)) = Len(q) + 1 /\ Len(q) \in Nat
      /\ Append(q, x)[Len(q) + 1] = x
  OBVIOUS
<1>2. Len(q) + 1 \in 1 .. Len(Append(q, x)) BY <1>1
<1> QED BY <1>1, <1>2 DEF Contains
-----------------------------------------------------------------------------
(* The store under any operation that writes as twitter's operations do *)

Writable(w) == DOMAIN w \subseteq Keys /\ \A k \in DOMAIN w : Fits(k, w[k])

\* Own lists are written by their owner, and a list that is there only after it has
\* been read, with an extension of what was read.
Owned(s, r, w) ==
  \A u \in Users : \A k \in OwnLists(u) : k \in DOMAIN w =>
    /\ s = u
    /\ Present(k) => k \in DOMAIN r /\ IsPrefix(versions[k][r[k]], w[k])

\* The details of a tweet are read, or written, together with a list that names it.
Named(s, r, w) ==
  \A tw \in Tweets :
    LET k == TweetsOf(Author(tw))
    IN TweetKey(tw) \in DOMAIN r \cup DOMAIN w =>
         IF k \in DOMAIN w THEN Contains(w[k], tw)
         ELSE k \in DOMAIN r /\ Contains(versions[k][r[k]], tw)

LEMMA OwnListsTyped ==
  ASSUME TwitterStore, NEW u \in Users, NEW k \in OwnLists(u)
  PROVE  k \in Keys /\ \E S : \A v : Fits(k, v) => v \in Seq(S)
<1>1. CASE k = Following(u)
  <2>1. k \in Keys /\ k \in UserLists BY <1>1, KeysTyped DEF UserLists
  <2>2. \A v : Fits(k, v) => v \in Seq(Users) BY <2>1 DEF Fits
  <2> QED BY <2>1, <2>2
<1>2. CASE k = TweetsOf(u)
  <2>1. k \in Keys BY <1>2, KeysTyped
  <2>2. \A v : Fits(k, v) => v \in Seq(TweetsBy(u)) BY <1>2 DEF Fits
  <2> QED BY <2>1, <2>2
<1> QED BY <1>1, <1>2 DEF OwnLists

LEMMA FeedStep ==
  ASSUME TwitterStore, FeedInv, NEW s \in Sessions, NEW r, NEW w, Transact(s, r, w),
         Reads(s, r), Writable(w), Owned(s, r, w), Named(s, r, w)
  PROVE  FeedInv' /\ VersionsKept
<1>1. StoreSound /\ DOMAIN r \subseteq Keys /\ DOMAIN w \subseteq Keys
  BY DEF FeedInv, Reads, Writable
<1>2. \A k \in DOMAIN w : w[k] \in Values BY DEF Writable, Fits, TwitterStore
<1>3. /\ StoreSound' /\ VersionsKept /\ FloorsKept
      /\ \A k \in DOMAIN w : /\ Len(versions'[k]) = Len(versions[k]) + 1
                             /\ versions'[k][Len(versions[k]) + 1] = w[k]
                             /\ floor'[s][k] = Len(versions[k]) + 1
      /\ \A k \in Keys \ DOMAIN w : versions'[k] = versions[k]
      /\ \A k \in DOMAIN r \ DOMAIN w : floor'[s][k] = r[k]
      /\ \A k \in Keys \ (DOMAIN r \cup DOMAIN w) : floor'[s][k] = floor[s][k]
      /\ \A u \in Sessions \ {s} : floor'[u] = floor[u]
  BY <1>1, <1>2, TransactEffect
<1>4. \A k \in Keys : /\ Len(versions[k]) \in Nat /\ DOMAIN versions[k] = 1 .. Len(versions[k])
                      /\ Len(versions'[k]) \in Nat /\ DOMAIN versions'[k] = 1 .. Len(versions'[k])
                      /\ \A i \in DOMAIN versions[k] : versions'[k][i] = versions[k][i]
                      /\ \A u \in Sessions : /\ floor[u][k] \in Nat /\ floor[u][k] <= Len(versions[k])
                                             /\ floor'[u][k] \in Nat
                                             /\ floor'[u][k] <= Len(versions'[k])
                                             /\ floor[u][k] <= floor'[u][k]
  <2>1. \A k \in Keys : Len(versions[k]) \in Nat /\ DOMAIN versions[k] = 1 .. Len(versions[k])
    BY <1>1, VersionsTyped DEF StoreSound
  <2>2. \A k \in Keys : Len(versions'[k]) \in Nat /\ DOMAIN versions'[k] = 1 .. Len(versions'[k])
    BY <1>3 DEF StoreSound, StoreTypeOK
  <2>3. \A k \in Keys : \A i \in DOMAIN versions[k] : versions'[k][i] = versions[k][i]
    BY <1>3 DEF VersionsKept
  <2>4. \A u \in Sessions, k \in Keys : floor[u][k] \in Nat /\ floor[u][k] <= Len(versions[k])
    BY <1>1 DEF StoreSound, StoreTypeOK, FloorsBounded
  <2>5. \A u \in Sessions, k \in Keys : floor'[u][k] \in Nat /\ floor'[u][k] <= Len(versions'[k])
    BY <1>3 DEF StoreSound, StoreTypeOK, FloorsBounded
  <2> QED BY <1>3, <2>1, <2>2, <2>3, <2>4, <2>5 DEF FloorsKept
\* The owner reads the newest version of its lists.
<1>5. ASSUME NEW u \in Users, NEW k \in OwnLists(u), s = u, k \in DOMAIN r
      PROVE  r[k] = Len(versions[k]) /\ Len(versions[k]) > 0
  <2>1. k \in Keys /\ r[k] \in Visible(s, k) BY <1>5, OwnListsTyped DEF Reads
  <2>2. r[k] \in Nat /\ r[k] > 0 /\ r[k] <= Len(versions[k]) /\ floor[s][k] <= r[k]
    BY <1>1, <2>1, VisibleAboveFloor
  <2>3. floor[s][k] = Len(versions[k]) BY <1>5 DEF FeedInv, OwnFloors
  <2> QED BY <1>4, <2>1, <2>2, <2>3
<1>6. ListsTyped'
  <2> SUFFICES ASSUME NEW k \in Keys, NEW i \in DOMAIN versions'[k]
               PROVE  Fits(k, versions'[k][i])
    BY DEF ListsTyped
  <2>1. \A j \in DOMAIN versions[k] : Fits(k, versions[k][j]) BY DEF FeedInv, ListsTyped
  <2>2. CASE i \in DOMAIN versions[k] BY <1>4, <2>1, <2>2
  <2>3. CASE i \notin DOMAIN versions[k]
    <3>1. k \in DOMAIN w BY <1>3, <2>3
    <3>2. i = Len(versions[k]) + 1 BY <1>3, <1>4, <2>3, <3>1
    <3> QED BY <1>3, <3>1, <3>2 DEF Writable
  <2> QED BY <2>2, <2>3
<1>7. OwnFloors'
  <2> SUFFICES ASSUME NEW u \in Users, NEW k \in OwnLists(u)
               PROVE  floor'[u][k] = Len(versions'[k])
    BY DEF OwnFloors, OwnLists
  <2>1. k \in Keys /\ u \in Sessions BY OwnListsTyped, UsersTyped
  <2>2. floor[u][k] = Len(versions[k]) BY DEF FeedInv, OwnFloors
  <2>3. CASE k \in DOMAIN w
    <3>1. s = u BY <2>3 DEF Owned
    <3> QED BY <1>3, <2>3, <3>1
  <2>4. CASE k \notin DOMAIN w /\ u = s /\ k \in DOMAIN r BY <1>3, <1>5, <2>1, <2>4
  <2>5. CASE k \notin DOMAIN w /\ u = s /\ k \notin DOMAIN r BY <1>3, <2>1, <2>2, <2>5
  <2>6. CASE k \notin DOMAIN w /\ u # s BY <1>3, <2>1, <2>2, <2>6
  <2> QED BY <2>3, <2>4, <2>5, <2>6
<1>8. ASSUME NEW u \in Users, NEW k \in OwnLists(u), NEW i \in DOMAIN versions'[k],
             NEW j \in DOMAIN versions'[k], i < j
      PROVE  IsPrefix(versions'[k][i], versions'[k][j])
  <2>1. k \in Keys BY OwnListsTyped
  <2>2. PICK S : \A v : Fits(k, v) => v \in Seq(S) BY OwnListsTyped
  <2>3. \A m \in DOMAIN versions'[k] : versions'[k][m] \in Seq(S)
    BY <1>6, <2>1, <2>2 DEF ListsTyped
  <2>4. \A m, n \in DOMAIN versions[k] : m < n => IsPrefix(versions[k][m], versions[k][n])
    BY DEF FeedInv, OwnListsGrow, OwnLists
  <2>5. CASE j \in DOMAIN versions[k]
    <3>1. i \in DOMAIN versions[k] BY <1>4, <1>8, <2>1, <2>5
    <3> QED BY <1>4, <1>8, <2>1, <2>4, <2>5, <3>1
  <2>6. CASE j \notin DOMAIN versions[k]
    <3> DEFINE n == Len(versions[k])
    <3>1. k \in DOMAIN w BY <1>3, <2>1, <2>6
    <3>2. j = n + 1 /\ i \in 1 .. n /\ n \in Nat BY <1>3, <1>4, <1>8, <2>1, <2>6, <3>1
    <3>3. versions'[k][j] = w[k] BY <1>3, <3>1, <3>2
    <3>4. Present(k) BY <1>4, <2>1, <3>2 DEF Present
    <3>5. s = u /\ k \in DOMAIN r /\ IsPrefix(versions[k][r[k]], w[k])
      BY <3>1, <3>4 DEF Owned
    <3>6. r[k] = n BY <1>5, <3>5
    <3> HIDE DEF n
    <3>7. n \in DOMAIN versions[k] /\ n \in DOMAIN versions'[k] /\ i \in DOMAIN versions[k]
      BY <1>3, <1>4, <2>1, <3>1, <3>2 DEF n
    <3>8. /\ versions'[k][i] = versions[k][i] /\ versions'[k][n] = versions[k][n]
          /\ versions[k][i] \in Seq(S) /\ versions[k][n] \in Seq(S) /\ w[k] \in Seq(S)
      BY <1>4, <2>1, <2>3, <3>3, <3>7
    <3>9. CASE i = n BY <3>3, <3>5, <3>6, <3>8, <3>9
    <3>10. CASE i < n
      <4>1. IsPrefix(versions[k][i], versions[k][n]) BY <2>4, <3>7, <3>10
      <4> QED BY <3>3, <3>5, <3>6, <3>8, <4>1, PrefixTrans
    <3> QED BY <3>2, <3>9, <3>10
  <2> QED BY <2>5, <2>6
<1>9. OwnListsGrow'
  <2> SUFFICES ASSUME NEW u \in Users, NEW k \in {Following(u), TweetsOf(u)},
                      NEW i \in DOMAIN versions'[k], NEW j \in DOMAIN versions'[k], i < j
               PROVE  IsPrefix(versions'[k][i], versions'[k][j])
    BY DEF OwnListsGrow, Following, TweetsOf
  <2> QED BY <1>8 DEF OwnLists
<1>10. SeenNamed'
  <2> SUFFICES ASSUME NEW z \in Sessions, NEW tw \in Tweets, floor'[z][TweetKey(tw)] > 0
               PROVE  LET k == TweetsOf(Author(tw))
                      IN floor'[z][k] > 0 /\ Contains(versions'[k][floor'[z][k]], tw)
    BY DEF SeenNamed, Seen, TweetsOf, TweetKey, Author
  <2> DEFINE k == TweetsOf(Author(tw))
  <2>1. k \in OwnLists(Author(tw)) /\ Author(tw) \in Users BY TweetsTyped DEF OwnLists
  <2>2. k \in Keys /\ TweetKey(tw) \in Keys BY <2>1, OwnListsTyped, KeysTyped
  <2>3. floor[z][TweetKey(tw)] > 0 => floor[z][k] > 0 /\ Contains(versions[k][floor[z][k]], tw)
    BY DEF FeedInv, SeenNamed, Seen
  <2>4. CASE z = s /\ TweetKey(tw) \in DOMAIN r \cup DOMAIN w
    <3>1. IF k \in DOMAIN w THEN Contains(w[k], tw)
          ELSE k \in DOMAIN r /\ Contains(versions[k][r[k]], tw)
      BY <2>4 DEF Named
    <3>2. CASE k \in DOMAIN w
      <4>1. floor'[s][k] = Len(versions[k]) + 1 /\ versions'[k][Len(versions[k]) + 1] = w[k]
        BY <1>3, <3>2
      <4> QED BY <1>4, <2>2, <2>4, <3>1, <3>2, <4>1
    <3>3. CASE k \notin DOMAIN w
      <4>1. k \in DOMAIN r /\ floor'[s][k] = r[k] /\ versions'[k] = versions[k]
        BY <1>3, <2>2, <3>1, <3>3
      <4>2. r[k] \in Visible(s, k) BY <4>1 DEF Reads
      <4>3. r[k] > 0 BY <1>1, <2>2, <4>2, VisibleAboveFloor
      <4> QED BY <2>4, <3>1, <3>3, <4>1, <4>3
    <3> QED BY <3>2, <3>3
  <2>5. CASE ~ (z = s /\ TweetKey(tw) \in DOMAIN r \cup DOMAIN w)
    <3> DEFINE f == floor[z][k]
               g == floor'[z][k]
    <3>1. floor[z][TweetKey(tw)] > 0 BY <1>3, <2>2, <2>5
    <3>2. f > 0 /\ Contains(versions[k][f], tw) BY <2>3, <3>1
    <3>3. /\ f \in DOMAIN versions[k] /\ g \in DOMAIN versions'[k] /\ f \in DOMAIN versions'[k]
          /\ f <= g /\ f \in Nat /\ g \in Nat /\ g > 0
      BY <1>4, <2>2, <3>2, <1>3 DEF VersionsKept
    <3>4. versions'[k][f] = versions[k][f] BY <1>4, <2>2, <3>3
    <3> HIDE DEF f, g
    <3>5. PICK S : \A v : Fits(k, v) => v \in Seq(S) BY <2>1, OwnListsTyped
    <3>6. versions'[k][f] \in Seq(S) /\ versions'[k][g] \in Seq(S)
      BY <1>6, <2>2, <3>3, <3>5 DEF ListsTyped
    <3>7. CASE f = g BY <3>2, <3>3, <3>4, <3>7 DEF g
    <3>8. CASE f < g
      <4>1. IsPrefix(versions'[k][f], versions'[k][g]) BY <1>8, <2>1, <3>3, <3>8
      <4>2. Contains(versions'[k][g], tw) BY <3>2, <3>4, <3>6, <4>1, PrefixContains
      <4> QED BY <3>3, <4>2 DEF g
    <3> QED BY <3>3, <3>7, <3>8
  <2> QED BY <2>4, <2>5
<1> QED BY <1>3, <1>6, <1>7, <1>9, <1>10 DEF FeedInv
-----------------------------------------------------------------------------
(* What the operations read and write *)

\* A step of the store that keeps FeedInv.
FeedAct ==
  \E s \in Sessions : \E r, w :
    Transact(s, r, w) /\ Reads(s, r) /\ Writable(w) /\ Owned(s, r, w) /\ Named(s, r, w)

LEMMA WritableAt ==
  ASSUME NEW k \in Keys, NEW v, Fits(k, v)
  PROVE  Writable(At(k, v))
<1>1. DOMAIN At(k, v) = {k} /\ At(k, v)[k] = v BY AtIsOne
<1> QED BY <1>1 DEF Writable

LEMMA WritableJoin ==
  ASSUME NEW f, NEW g, Writable(f), Writable(g)
  PROVE  Writable(f ++ g)
<1>1. /\ DOMAIN (f ++ g) = DOMAIN f \cup DOMAIN g
      /\ \A k \in DOMAIN f : (f ++ g)[k] = f[k]
      /\ \A k \in DOMAIN g \ DOMAIN f : (f ++ g)[k] = g[k]
  BY DEF ++
<1>2. DOMAIN (f ++ g) \subseteq Keys BY <1>1 DEF Writable
<1>3. \A k \in DOMAIN (f ++ g) : Fits(k, (f ++ g)[k]) BY <1>1 DEF Writable
<1> QED BY <1>2, <1>3 DEF Writable

LEMMA ListsFit ==
  /\ \A k \in UserLists, v \in Seq(Users) : Fits(k, v)
  /\ \A u \in Users : \A v \in Seq(TweetsBy(u)) : Fits(TweetsOf(u), v)
  /\ \A tw : Fits(TweetKey(tw), Details)
  /\ \A k : Fits(k, <<>>)
<1>1. \A k \in UserLists : \A u : k # TweetsOf(u)
  BY DEF UserLists, UserList, Following, Followers, TweetsOf
<1>2. \A tw, u : TweetKey(tw) \notin UserLists /\ TweetKey(tw) # TweetsOf(u)
  BY DEF UserLists, UserList, Following, Followers, TweetsOf, TweetKey
<1>3. \A u : TweetsBy(u) \subseteq Tweets BY DEF TweetsBy
<1>4. \A u : \A v \in Seq(TweetsBy(u)) : v \in TwitterValues
  BY <1>3, SeqWidens DEF TwitterValues
<1>5. \A v \in Seq(Users) : v \in TwitterValues BY DEF TwitterValues
<1>6. \A k \in UserLists, v \in Seq(Users) : Fits(k, v) BY <1>1, <1>5 DEF Fits
<1>7. \A u \in Users : \A v \in Seq(TweetsBy(u)) : Fits(TweetsOf(u), v)
  BY <1>1, <1>4, KeysDiffer DEF Fits
<1>8. <<>> \in TwitterValues /\ \A S : <<>> \in Seq(S) BY DEF TwitterValues
<1>9. \A k : Fits(k, <<>>) BY <1>8 DEF Fits
<1> QED BY <1>6, <1>7, <1>9 DEF Details

\* A list as it is read.
LEMMA ListsRead ==
  ASSUME TwitterStore, FeedInv, NEW s \in Sessions, NEW r, Reads(s, r), NEW k
  PROVE  /\ Fits(k, ListRead(k, r))
         /\ k \in UserLists => ListRead(k, r) \in Seq(Users)
         /\ \A u \in Users : k = TweetsOf(u) => ListRead(k, r) \in Seq(TweetsBy(u))
<1>1. CASE k \in DOMAIN r
  <2>1. k \in Keys /\ r[k] \in DOMAIN versions[k]
    BY <1>1, VisibleAboveFloor DEF Reads, FeedInv
  <2> QED BY <1>1, <2>1 DEF ListRead, FeedInv, ListsTyped, Fits
<1>2. CASE k \notin DOMAIN r
  <2>1. ListRead(k, r) = <<>> BY <1>2 DEF ListRead
  <2> QED BY <2>1, ListsFit DEF Fits
<1> QED BY <1>1, <1>2
-----------------------------------------------------------------------------
(* The operations *)

LEMMA PerformsTyped ==
  ASSUME ProgramsTyped, NEW t \in Threads \cup {Main}, NEW op, NEW o, Performs(t, op, o)
  PROVE  /\ o \in Calls /\ o.op = op /\ o = Head(todo[t]) /\ todo[t] # <<>>
         /\ todo[t] \in Seq(Calls) /\ todo'[t] = Tail(todo[t])
         /\ \A u \in (Threads \cup {Main}) \ {t} : todo'[u] = todo[u]
         /\ todo' \in [Threads \cup {Main} -> Seq(Calls)]
         /\ run' = run
         /\ t # Main => todo[Main] = <<>>
<1>1. todo[t] \in Seq(Calls) /\ todo \in [Threads \cup {Main} -> Seq(Calls)] BY DEF ProgramsTyped
<1>2. /\ todo[t] # <<>> /\ o = Head(todo[t]) /\ o.op = op
      /\ todo' = [todo EXCEPT ![t] = Tail(@)] /\ run' = run
      /\ t # Main => todo[Main] = <<>>
  BY DEF Performs
<1>3. Head(todo[t]) \in Calls /\ Tail(todo[t]) \in Seq(Calls) BY <1>1, <1>2
<1> QED BY <1>1, <1>2, <1>3

LEMMA ProgramsStep ==
  ASSUME ProgramsTyped, NEW t \in Threads \cup {Main}, NEW op, NEW o, Performs(t, op, o),
         UNCHANGED results
  PROVE  ProgramsTyped'
  BY PerformsTyped DEF ProgramsTyped

LEMMA NothingWritten ==
  /\ DOMAIN NoWrites = {} /\ Writable(NoWrites)
  /\ \A s, r : Owned(s, r, NoWrites)
<1>1. DOMAIN NoWrites = {} BY DEF NoWrites
<1> QED BY <1>1 DEF Writable, Owned

LEMMA AddToUsersAct ==
  ASSUME TwitterStore, FeedInv, ProgramsTyped, AddToUsers(Main)
  PROVE  /\ FeedAct /\ ProgramsTyped'
         /\ \E o : Performs(Main, "add_to_users", o)
         /\ \A u \in Users : \A k \in OwnLists(u) : versions'[k] = versions[k]
<1> DEFINE list(r, o) == Append(ListRead(UserList, r), o.user)
<1>1. PICK o \in ToSet(todo[Main]) :
        /\ Performs(Main, "add_to_users", o)
        /\ \E r \in ReadChoices(DefaultSession, {UserList}) :
             Transact(DefaultSession, r, At(UserList, list(r, o)))
  BY DEF AddToUsers
<1>2. PICK r \in ReadChoices(DefaultSession, {UserList}) :
        Transact(DefaultSession, r, At(UserList, list(r, o)))
  BY <1>1
<1>3. DefaultSession \in Sessions BY UsersTyped
<1>4. Reads(DefaultSession, r) /\ DOMAIN r \subseteq {UserList}
  BY KeysTyped, ReadsOfOne
<1>5. o.user \in Users BY <1>1, PerformsTyped DEF Calls
<1>6. UserList \in UserLists BY DEF UserLists
<1>7. list(r, o) \in Seq(Users) BY <1>3, <1>4, <1>5, <1>6, ListsRead
<1> HIDE DEF list
<1> DEFINE w == At(UserList, list(r, o))
<1>8. DOMAIN w = {UserList} BY AtIsOne
<1>9. Writable(w) BY <1>6, <1>7, ListsFit, KeysTyped, WritableAt
<1>10. Transact(DefaultSession, r, w) BY <1>2
<1> HIDE DEF w
<1>11. Owned(DefaultSession, r, w) BY <1>8, KeysDiffer DEF Owned, OwnLists
<1>12. Named(DefaultSession, r, w) BY <1>4, <1>8, KeysDiffer DEF Named
<1>13. FeedAct BY <1>3, <1>4, <1>9, <1>10, <1>11, <1>12 DEF FeedAct
<1>14. ASSUME NEW u \in Users, NEW k \in OwnLists(u) PROVE versions'[k] = versions[k]
  <2>1. k \in Keys /\ k # UserList BY OwnListsTyped, KeysDiffer DEF OwnLists
  <2> QED BY <1>8, <1>10, <2>1 DEF Transact
<1>15. ProgramsTyped' BY <1>1, ProgramsStep DEF AddToUsers
<1> QED BY <1>1, <1>13, <1>14, <1>15

\* The lists of the user of a pending add_details are not there.
LEMMA AddDetailsAct ==
  ASSUME TwitterStore, FeedInv, ProgramsTyped, PopulatedOnce, AddDetails(Main)
  PROVE  /\ FeedAct /\ ProgramsTyped'
         /\ \E o : /\ Performs(Main, "add_details", o)
                   /\ \A k \in OwnLists(o.user) : Len(versions'[k]) > 0
                   /\ \A u \in Users \ {o.user} : \A k \in OwnLists(u) : versions'[k] = versions[k]
<1>1. PICK o \in ToSet(todo[Main]) :
        /\ Performs(Main, "add_details", o)
        /\ Transact(o.user, <<>>, At(Following(o.user), <<>>) ++ At(Followers(o.user), <<>>)
                                 ++ At(TweetsOf(o.user), <<>>))
  BY DEF AddDetails
<1> DEFINE a == o.user
           w == At(Following(a), <<>>) ++ At(Followers(a), <<>>) ++ At(TweetsOf(a), <<>>)
<1>2. a \in Users /\ a \in Sessions
  <2>1. Main \in Threads \cup {Main} OBVIOUS
  <2>2. o \in Calls /\ o.op = "add_details" BY <1>1, <2>1, PerformsTyped
  <2>3. o.user \in Users BY <2>2 DEF Calls
  <2> QED BY <2>3, UsersTyped
<1>3. DOMAIN w = {Following(a), Followers(a), TweetsOf(a)}
  <2>1. \A k : DOMAIN At(k, <<>>) = {k} BY AtIsOne
  <2> QED BY <2>1 DEF ++
<1>4. Writable(At(Following(a), <<>>)) /\ Writable(At(Followers(a), <<>>))
      /\ Writable(At(TweetsOf(a), <<>>))
  BY <1>2, KeysTyped, ListsFit, WritableAt
<1>5. Writable(w) BY <1>4, WritableJoin
<1>6. Transact(a, <<>>, w) BY <1>1
<1> HIDE DEF w
<1>7. Reads(a, <<>>) /\ DOMAIN (<<>>) = {} BY DEF Reads
<1>8. \A k \in OwnLists(a) : ~ Present(k)
  <2>1. Main \in Threads \cup {Main} OBVIOUS
  <2>2. /\ o.op = "add_details" /\ o = Head(todo[Main]) /\ todo[Main] # <<>>
        /\ todo[Main] \in Seq(Calls)
    BY <1>1, <2>1, PerformsTyped
  <2>3. 1 \in DOMAIN todo[Main] /\ todo[Main][1] = o BY <2>2
  <2>4. Pending(1, a) BY <2>2, <2>3 DEF Pending
  <2> QED BY <1>2, <2>3, <2>4 DEF PopulatedOnce
<1>9. \A u \in Users : \A k \in OwnLists(u) : k \in DOMAIN w <=> u = a
  BY <1>3, KeysDiffer DEF OwnLists
<1>10. Owned(a, <<>>, w) BY <1>8, <1>9 DEF Owned
<1>11. Named(a, <<>>, w) BY <1>3, <1>7, KeysDiffer DEF Named
<1>12. FeedAct BY <1>2, <1>5, <1>6, <1>7, <1>10, <1>11 DEF FeedAct
<1>13. ASSUME NEW k \in OwnLists(a) PROVE Len(versions'[k]) > 0
  <2>1. k \in DOMAIN w /\ k \in Keys BY <1>2, <1>9, OwnListsTyped
  <2>2. versions'[k] = Append(versions[k], w[k]) BY <1>6, <2>1 DEF Transact
  <2>3. versions[k] \in Seq(Values) BY <2>1, VersionsTyped DEF FeedInv, StoreSound
  <2>4. w[k] \in Values BY <1>5, <2>1 DEF Writable, Fits, TwitterStore
  <2> QED BY <2>2, <2>3, <2>4
<1>14. ASSUME NEW u \in Users \ {a}, NEW k \in OwnLists(u) PROVE versions'[k] = versions[k]
  <2>1. k \notin DOMAIN w /\ k \in Keys BY <1>9, OwnListsTyped
  <2> QED BY <1>6, <2>1 DEF Transact
<1>15. ProgramsTyped' BY <1>1, ProgramsStep DEF AddDetails
<1> QED BY <1>1, <1>12, <1>13, <1>14, <1>15
-----------------------------------------------------------------------------
(* The operations of the threads *)

LEMMA NothingNamed ==
  ASSUME NEW s, NEW r, NEW w, \A tw : TweetKey(tw) \notin DOMAIN r \cup DOMAIN w
  PROVE  Named(s, r, w)
  BY DEF Named

LEMMA FollowNewAct ==
  ASSUME TwitterStore, FeedInv, NEW a \in Users, NEW b \in Users,
         NEW r \in ReadChoices(a, {Following(a)}), FollowNew(a, b, r)
  PROVE  FeedAct
<1> DEFINE extended == Append(ListRead(Following(a), r), b)
           follow == At(Following(a), extended)
           follower(q) == Append(ListRead(Followers(b), q), a)
<1>1. PICK q \in ReadChoices(a, {Followers(b)}) :
        Transact(a, r ++ q, IF Present(Followers(b))
                              THEN follow ++ At(Followers(a), follower(q)) ELSE follow)
  BY DEF FollowNew
<1>2. a \in Sessions BY UsersTyped
<1>3. /\ Reads(a, r) /\ DOMAIN r \subseteq {Following(a)}
      /\ Present(Following(a)) => Following(a) \in DOMAIN r
  BY KeysTyped, ReadsOfOne
<1>4. Reads(a, q) /\ DOMAIN q \subseteq {Followers(b)} BY KeysTyped, ReadsOfOne
<1>5. Reads(a, r ++ q) BY <1>3, <1>4, ReadsJoin
<1>6. Following(a) \in UserLists /\ Followers(a) \in UserLists /\ Followers(b) \in UserLists
  BY DEF UserLists
<1>7. ListRead(Following(a), r) \in Seq(Users) /\ ListRead(Followers(b), q) \in Seq(Users)
  BY <1>2, <1>3, <1>4, <1>6, ListsRead
<1>8. extended \in Seq(Users) /\ follower(q) \in Seq(Users) BY <1>7
<1>9. IsPrefix(ListRead(Following(a), r), extended) BY <1>7, PrefixAppend
<1> HIDE DEF extended, follower
<1>10. Writable(follow) /\ Writable(At(Followers(a), follower(q)))
  BY <1>6, <1>8, ListsFit, KeysTyped, WritableAt
<1> DEFINE w == IF Present(Followers(b)) THEN follow ++ At(Followers(a), follower(q)) ELSE follow
<1>11. Writable(w) BY <1>10, WritableJoin
<1>12. /\ Following(a) \in DOMAIN w /\ w[Following(a)] = extended
       /\ DOMAIN w \subseteq {Following(a), Followers(a)}
  <2>1. DOMAIN follow = {Following(a)} /\ follow[Following(a)] = extended BY AtIsOne
  <2>2. DOMAIN At(Followers(a), follower(q)) = {Followers(a)} BY AtIsOne
  <2> HIDE DEF follow
  <2> QED BY <2>1, <2>2 DEF ++
<1>13. Transact(a, r ++ q, w) BY <1>1
<1> HIDE DEF w
<1>14. /\ DOMAIN (r ++ q) \subseteq {Following(a), Followers(b)}
       /\ DOMAIN r \subseteq DOMAIN (r ++ q)
       /\ \A k \in DOMAIN r : (r ++ q)[k] = r[k]
  BY <1>3, <1>4 DEF ++
<1> DEFINE p == r ++ q
<1> HIDE DEF p
<1>15. Owned(a, p, w)
  <2> SUFFICES ASSUME NEW u \in Users, NEW k \in OwnLists(u), k \in DOMAIN w
               PROVE  a = u /\ (Present(k) => k \in DOMAIN p /\ IsPrefix(versions[k][p[k]], w[k]))
    BY DEF Owned
  <2>1. k = Following(a) /\ u = a BY <1>12, KeysDiffer DEF OwnLists
  <2>2. ASSUME Present(k) PROVE k \in DOMAIN p /\ IsPrefix(versions[k][p[k]], w[k])
    <3>1. k \in DOMAIN r /\ k \in DOMAIN p /\ p[k] = r[k] BY <1>3, <1>14, <2>1, <2>2 DEF p
    <3>2. ListRead(k, r) = versions[k][r[k]] BY <3>1 DEF ListRead
    <3> QED BY <1>9, <1>12, <2>1, <3>1, <3>2
  <2> QED BY <2>1, <2>2
<1>16. Named(a, p, w)
  <2>1. \A tw : TweetKey(tw) \notin DOMAIN p \cup DOMAIN w BY <1>12, <1>14, KeysDiffer DEF p
  <2> QED BY <2>1, NothingNamed
<1>17. Reads(a, p) /\ Transact(a, p, w) BY <1>5, <1>13 DEF p
<1> QED BY <1>2, <1>11, <1>15, <1>16, <1>17 DEF FeedAct

LEMMA FollowAct ==
  ASSUME TwitterStore, FeedInv, ProgramsTyped, NEW t \in Threads, Follow(t)
  PROVE  FeedAct /\ ProgramsTyped' /\ \E o : Performs(t, "follow", o)
<1>1. PICK o \in ToSet(todo[t]) :
        /\ Performs(t, "follow", o)
        /\ \E r \in ReadChoices(o.user, {Following(o.user)}) :
             IF ~ Present(Following(o.user)) \/ Contains(ListRead(Following(o.user), r), o.arg)
               THEN Transact(o.user, r, NoWrites)
               ELSE FollowNew(o.user, o.arg, r)
  BY DEF Follow
<1>2. o \in Calls /\ o.op = "follow" BY <1>1, PerformsTyped
<1>3. o.user \in Users /\ o.arg \in Users BY <1>2 DEF Calls
<1>4. PICK r \in ReadChoices(o.user, {Following(o.user)}) :
        Transact(o.user, r, NoWrites) \/ FollowNew(o.user, o.arg, r)
  BY <1>1
<1>5. ASSUME Transact(o.user, r, NoWrites) PROVE FeedAct
  <2>1. Reads(o.user, r) /\ DOMAIN r \subseteq {Following(o.user)} BY <1>3, KeysTyped, ReadsOfOne
  <2>2. \A tw : TweetKey(tw) \notin DOMAIN r \cup DOMAIN NoWrites
    BY <2>1, NothingWritten, KeysDiffer
  <2>3. Named(o.user, r, NoWrites) BY <2>2, NothingNamed
  <2> QED BY <1>3, <1>5, <2>1, <2>3, NothingWritten, UsersTyped DEF FeedAct
<1>6. FollowNew(o.user, o.arg, r) => FeedAct BY <1>3, FollowNewAct
<1>7. ProgramsTyped' BY <1>1, ProgramsStep DEF Follow
<1> QED BY <1>1, <1>4, <1>5, <1>6, <1>7

LEMMA PublishTweetAct ==
  ASSUME TwitterStore, FeedInv, ProgramsTyped, NEW t \in Threads, PublishTweet(t)
  PROVE  FeedAct /\ ProgramsTyped' /\ \E o : Performs(t, "publish_tweet", o)
<1>1. PICK o \in ToSet(todo[t]) :
        /\ Performs(t, "publish_tweet", o)
        /\ \E r \in ReadChoices(o.user, {TweetsOf(o.user)}) :
             Transact(o.user, r,
                      IF ~ Present(TweetsOf(o.user)) THEN NoWrites
                      ELSE At(TweetsOf(o.user), Append(ListRead(TweetsOf(o.user), r), o.arg))
                             ++ At(TweetKey(o.arg), Details))
  BY DEF PublishTweet
<1>2. o \in Calls /\ o.op = "publish_tweet" BY <1>1, PerformsTyped
<1> DEFINE a == o.user
           m == o.arg
           own == TweetsOf(a)
<1>3. a \in Users /\ m \in TweetsBy(a) /\ a \in Sessions
  BY <1>2, UsersTyped DEF Calls
<1>4. m \in Tweets /\ Author(m) = a BY <1>3 DEF TweetsBy
<1> DEFINE list(r) == Append(ListRead(own, r), m)
           put(r) == At(own, list(r)) ++ At(TweetKey(m), Details)
<1>5. PICK r \in ReadChoices(a, {own}) :
        Transact(a, r, IF ~ Present(own) THEN NoWrites ELSE put(r))
  BY <1>1
<1> HIDE DEF a, m
<1>6. /\ Reads(a, r) /\ DOMAIN r \subseteq {own} /\ (Present(own) => own \in DOMAIN r)
  BY <1>3, KeysTyped, ReadsOfOne
<1>7. \A tw : TweetKey(tw) \notin DOMAIN r BY <1>6, KeysDiffer
<1>8. ASSUME ~ Present(own) PROVE FeedAct
  <2>1. Transact(a, r, NoWrites) BY <1>5, <1>8
  <2>2. Named(a, r, NoWrites) BY <1>7, NothingWritten, NothingNamed
  <2> QED BY <1>3, <1>6, <2>1, <2>2, NothingWritten DEF FeedAct
<1>9. ASSUME Present(own) PROVE FeedAct
  <2>1. ListRead(own, r) \in Seq(TweetsBy(a)) BY <1>3, <1>6, ListsRead
  <2>2. /\ list(r) \in Seq(TweetsBy(a))
        /\ IsPrefix(ListRead(own, r), list(r)) /\ Contains(list(r), m)
    BY <1>3, <2>1, PrefixAppend, ContainsAppended
  <2> HIDE DEF list
  <2>3. Writable(At(own, list(r))) BY <1>3, <2>2, ListsFit, KeysTyped, WritableAt
  <2>4. Writable(At(TweetKey(m), Details)) BY <1>4, ListsFit, KeysTyped, WritableAt
  <2>5. Writable(put(r)) BY <2>3, <2>4, WritableJoin
  <2>6. DOMAIN put(r) = {own, TweetKey(m)} /\ put(r)[own] = list(r)
    <3>1. DOMAIN At(own, list(r)) = {own} /\ At(own, list(r))[own] = list(r) BY AtIsOne
    <3>2. DOMAIN At(TweetKey(m), Details) = {TweetKey(m)} BY AtIsOne
    <3> QED BY <3>1, <3>2 DEF ++
  <2>7. Transact(a, r, put(r)) BY <1>5, <1>9
  <2> DEFINE w == put(r)
  <2> HIDE DEF put
  <2>8. Owned(a, r, w)
    <3> SUFFICES ASSUME NEW u \in Users, NEW k \in OwnLists(u), k \in DOMAIN w
                 PROVE  a = u /\ k \in DOMAIN r /\ IsPrefix(versions[k][r[k]], w[k])
      BY DEF Owned
    <3>1. k = own /\ u = a BY <2>6, KeysDiffer DEF OwnLists
    <3>2. k \in DOMAIN r BY <1>6, <1>9, <3>1
    <3> QED BY <2>2, <2>6, <3>1, <3>2 DEF ListRead
  <2>9. Named(a, r, w)
    <3> SUFFICES ASSUME NEW tw \in Tweets, TweetKey(tw) \in DOMAIN r \cup DOMAIN w
                 PROVE  LET k == TweetsOf(Author(tw)) IN k \in DOMAIN w /\ Contains(w[k], tw)
      BY DEF Named
    <3>1. tw = m BY <1>7, <2>6, KeysDiffer
    <3> QED BY <1>4, <2>2, <2>6, <3>1
  <2> QED BY <1>3, <1>6, <2>5, <2>7, <2>8, <2>9 DEF FeedAct
<1>10. ProgramsTyped' BY <1>1, ProgramsStep DEF PublishTweet
<1> QED BY <1>1, <1>8, <1>9, <1>10
-----------------------------------------------------------------------------
(* The timelines *)

ResultsTyped == results \in [{"timeline", "newsfeed"} -> Nat]

\* The tweets that the lists of users, as read by q, name.
NamedIn(users, q) == UNION {ToSet(ListRead(TweetsOf(u), q)) : u \in users}

\* What a timeline reads, after the reads r of following lists.
TimelineReads(s, users, r, q, d) ==
  /\ s \in Sessions /\ users \subseteq Users
  /\ Reads(s, r) /\ DOMAIN r \subseteq {Following(x) : x \in Users}
  /\ q \in ReadChoices(s, {TweetsOf(u) : u \in users})
  /\ d \in ReadChoices(s, {TweetKey(tw) : tw \in NamedIn(users, q)})
AllReads(r, q, d) == r ++ q ++ d

\* What it has found: all the lists and tweets that are there.
TimelineFound(s, users, r, q, d) ==
  /\ Reads(s, AllReads(r, q, d)) /\ Named(s, AllReads(r, q, d), NoWrites)
  /\ Cardinality(DOMAIN d) \in Nat
  /\ \A k \in DOMAIN d : k \in DOMAIN AllReads(r, q, d) /\ AllReads(r, q, d)[k] = d[k]
  /\ DOMAIN d = {k \in {TweetKey(tw) : tw \in NamedIn(users, q)} : Present(k)}
  /\ DOMAIN q = {k \in {TweetsOf(u) : u \in users} : Present(k)}
  /\ Reads(s, q) /\ Reads(s, d)

LEMMA TimelinesRead ==
  ASSUME TwitterStore, FeedInv, NEW s, NEW users, NEW r, NEW q, NEW d,
         TimelineReads(s, users, r, q, d)
  PROVE  TimelineFound(s, users, r, q, d)
<1>0. /\ s \in Sessions /\ users \subseteq Users
      /\ Reads(s, r) /\ DOMAIN r \subseteq {Following(x) : x \in Users}
      /\ q \in ReadChoices(s, {TweetsOf(u) : u \in users})
      /\ d \in ReadChoices(s, {TweetKey(tw) : tw \in NamedIn(users, q)})
  BY DEF TimelineReads
<1> DEFINE named == NamedIn(users, q)
           lists == {TweetsOf(u) : u \in users}
           details == {TweetKey(tw) : tw \in named}
<1>1. lists \in SUBSET Keys BY <1>0, KeysTyped
<1>2. Reads(s, q) /\ DOMAIN q = {k \in lists : Present(k)} BY <1>0, <1>1, ReadsOfChoices
<1>3. ASSUME NEW u \in users, NEW tw \in ToSet(ListRead(TweetsOf(u), q))
      PROVE  /\ tw \in Tweets /\ Author(tw) = u /\ TweetsOf(u) \in DOMAIN q
             /\ Contains(versions[TweetsOf(u)][q[TweetsOf(u)]], tw)
  <2>1. ListRead(TweetsOf(u), q) \in Seq(TweetsBy(u)) BY <1>0, <1>2, ListsRead
  <2>2. PICK i \in DOMAIN ListRead(TweetsOf(u), q) : ListRead(TweetsOf(u), q)[i] = tw
    BY DEF ToSet
  <2>3. tw \in TweetsBy(u) BY <2>1, <2>2
  <2>4. TweetsOf(u) \in DOMAIN q BY <2>2 DEF ListRead
  <2>5. ListRead(TweetsOf(u), q) = versions[TweetsOf(u)][q[TweetsOf(u)]] BY <2>4 DEF ListRead
  <2>6. Contains(ListRead(TweetsOf(u), q), tw) BY <2>1, <2>2 DEF Contains
  <2> QED BY <2>3, <2>4, <2>5, <2>6 DEF TweetsBy
<1>4. \A tw \in named : /\ tw \in Tweets /\ TweetsOf(Author(tw)) \in DOMAIN q
                        /\ Contains(versions[TweetsOf(Author(tw))][q[TweetsOf(Author(tw))]], tw)
  BY <1>3 DEF NamedIn
<1>5. details \in SUBSET Keys /\ details \subseteq {TweetKey(tw) : tw \in Tweets}
  BY <1>4, KeysTyped
<1> HIDE DEF named
<1>6. Reads(s, d) /\ DOMAIN d = {k \in details : Present(k)}
  <2>1. d \in ReadChoices(s, details) BY <1>0 DEF named
  <2> HIDE DEF details
  <2> QED BY <1>5, <2>1, ReadsOfChoices
<1>7. Cardinality(DOMAIN d) \in Nat
  <2>1. DOMAIN d \subseteq {TweetKey(tw) : tw \in Tweets} BY <1>5, <1>6
  <2>2. IsFiniteSet(DOMAIN d) BY <2>1, TweetKeysFinite, FS_Subset
  <2> QED BY <2>2, FS_CardinalityType
<1>8. Reads(s, r ++ q) BY <1>0, <1>2, ReadsJoin
<1>9. Reads(s, r ++ q ++ d) BY <1>6, <1>8, ReadsJoin
<1>10. \A tw : /\ TweetKey(tw) \notin DOMAIN r /\ TweetKey(tw) \notin DOMAIN q
               /\ TweetsOf(Author(tw)) \notin DOMAIN r
  BY <1>0, <1>2, KeysDiffer
<1>11. /\ DOMAIN (r ++ q ++ d) = DOMAIN r \cup DOMAIN q \cup DOMAIN d
       /\ \A k \in DOMAIN q : k \notin DOMAIN r => (r ++ q ++ d)[k] = q[k]
       /\ \A k \in DOMAIN d : k \notin DOMAIN r /\ k \notin DOMAIN q => (r ++ q ++ d)[k] = d[k]
  BY DEF ++
<1> DEFINE p == AllReads(r, q, d)
<1>12. /\ DOMAIN p = DOMAIN r \cup DOMAIN q \cup DOMAIN d
       /\ \A k \in DOMAIN q : k \notin DOMAIN r => p[k] = q[k]
       /\ \A k \in DOMAIN d : k \notin DOMAIN r /\ k \notin DOMAIN q => p[k] = d[k]
  BY <1>11 DEF AllReads
<1> HIDE DEF p
<1>13. Named(s, p, NoWrites)
  <2> SUFFICES ASSUME NEW tw \in Tweets, TweetKey(tw) \in DOMAIN p
               PROVE  LET k == TweetsOf(Author(tw))
                      IN k \in DOMAIN p /\ Contains(versions[k][p[k]], tw)
    BY NothingWritten DEF Named
  <2>1. TweetKey(tw) \in DOMAIN d BY <1>10, <1>12
  <2>2. tw \in named BY <1>6, <2>1, KeysDiffer
  <2> QED BY <1>4, <1>10, <1>12, <2>2
<1>14. \A k \in DOMAIN d : k \in DOMAIN p /\ p[k] = d[k]
  <2> SUFFICES ASSUME NEW k \in DOMAIN d PROVE k \in DOMAIN p /\ p[k] = d[k]
    OBVIOUS
  <2>1. PICK tw : k = TweetKey(tw) BY <1>6
  <2> QED BY <1>10, <1>12, <2>1
<1>15. Reads(s, p) BY <1>9 DEF p, AllReads
<1> QED BY <1>2, <1>6, <1>7, <1>13, <1>14, <1>15 DEF p, named, TimelineFound

LEMMA TimelinesAct ==
  ASSUME TwitterStore, FeedInv, ResultsTyped, NEW s \in Sessions, NEW users \in SUBSET Users,
         NEW r, Reads(s, r), DOMAIN r \subseteq {Following(x) : x \in Users},
         NEW feed, ReadTimelines(s, users, r, feed)
  PROVE  FeedAct /\ ResultsTyped'
<1>1. PICK q \in ReadChoices(s, {TweetsOf(u) : u \in users}) :
        \E d \in ReadChoices(s, {TweetKey(tw) : tw \in NamedIn(users, q)}) :
          Transact(s, AllReads(r, q, d), NoWrites) /\ Results(feed, Cardinality(DOMAIN d))
  BY DEF ReadTimelines, NamedIn, AllReads
<1>2. PICK d \in ReadChoices(s, {TweetKey(tw) : tw \in NamedIn(users, q)}) :
        Transact(s, AllReads(r, q, d), NoWrites) /\ Results(feed, Cardinality(DOMAIN d))
  BY <1>1
<1>3. TimelineReads(s, users, r, q, d) BY DEF TimelineReads
<1>4. /\ Reads(s, AllReads(r, q, d)) /\ Named(s, AllReads(r, q, d), NoWrites)
      /\ Cardinality(DOMAIN d) \in Nat
  BY <1>3, TimelinesRead DEF TimelineFound
<1>5. FeedAct BY <1>2, <1>4, NothingWritten DEF FeedAct
<1>6. ResultsTyped' BY <1>2, <1>4 DEF Results, ResultsTyped
<1> QED BY <1>5, <1>6
-----------------------------------------------------------------------------
(* The steps *)

LEMMA GetNewsfeedAct ==
  ASSUME TwitterStore, FeedInv, ProgramsTyped, NEW t \in Threads, GetNewsfeed(t)
  PROVE  FeedAct /\ ProgramsTyped' /\ \E o : Performs(t, "get_newsfeed", o)
<1>1. PICK o \in ToSet(todo[t]) :
        /\ Performs(t, "get_newsfeed", o)
        /\ \E r \in ReadChoices(o.user, {Following(o.user)}) :
             ReadTimelines(o.user, ToSet(ListRead(Following(o.user), r)), r, "newsfeed")
  BY DEF GetNewsfeed
<1> DEFINE a == o.user
<1>2. PICK r \in ReadChoices(a, {Following(a)}) :
        ReadTimelines(a, ToSet(ListRead(Following(a), r)), r, "newsfeed")
  BY <1>1
<1>3. o \in Calls /\ o.op = "get_newsfeed" BY <1>1, PerformsTyped
<1>4. a \in Users /\ a \in Sessions BY <1>3, UsersTyped DEF Calls
<1> HIDE DEF a
<1>5. Reads(a, r) /\ DOMAIN r \subseteq {Following(a)} BY <1>4, KeysTyped, ReadsOfOne
<1> DEFINE followed == ListRead(Following(a), r)
<1>6. Following(a) \in UserLists BY <1>4 DEF UserLists
<1>7. followed \in Seq(Users) BY <1>4, <1>5, <1>6, ListsRead
<1> HIDE DEF followed
<1>8. ToSet(followed) \in SUBSET Users BY <1>7 DEF ToSet
<1>9. DOMAIN r \subseteq {Following(x) : x \in Users} BY <1>4, <1>5
<1>10. ReadTimelines(a, ToSet(followed), r, "newsfeed") BY <1>2 DEF followed
<1>11. FeedAct /\ ResultsTyped'
  BY <1>4, <1>5, <1>8, <1>9, <1>10, TimelinesAct DEF ProgramsTyped, ResultsTyped
<1>12. ProgramsTyped' BY <1>1, <1>11, PerformsTyped DEF ProgramsTyped, ResultsTyped
<1> QED BY <1>1, <1>11, <1>12

LEMMA GetTimelineAct ==
  ASSUME TwitterStore, FeedInv, ProgramsTyped, NEW t \in Threads, GetTimeline(t)
  PROVE  FeedAct /\ ProgramsTyped' /\ \E o : Performs(t, "get_timeline", o)
<1>1. PICK o \in ToSet(todo[t]) :
        /\ Performs(t, "get_timeline", o)
        /\ ReadTimelines(o.arg, {o.user}, <<>>, "timeline")
  BY DEF GetTimeline
<1>2. o \in Calls /\ o.op = "get_timeline" BY <1>1, PerformsTyped
<1>3. {o.user} \in SUBSET Users /\ o.arg \in Sessions BY <1>2 DEF Calls
<1>4. Reads(o.arg, <<>>) /\ DOMAIN (<<>>) \subseteq {Following(x) : x \in Users} BY DEF Reads
<1>5. FeedAct /\ ResultsTyped'
  BY <1>1, <1>3, <1>4, TimelinesAct DEF ProgramsTyped, ResultsTyped
<1>6. ProgramsTyped' BY <1>1, <1>5, PerformsTyped DEF ProgramsTyped, ResultsTyped
<1> QED BY <1>1, <1>5, <1>6

LEMMA GetAllTimelineAct ==
  ASSUME TwitterStore, FeedInv, ProgramsTyped, NEW t \in Threads, GetAllTimeline(t)
  PROVE  FeedAct /\ ProgramsTyped' /\ \E o : Performs(t, "get_all_timeline", o)
<1>1. PICK o \in ToSet(todo[t]) :
        /\ Performs(t, "get_all_timeline", o)
        /\ \E r \in ReadChoices(DefaultSession, {UserList}) :
             ReadTimelines(o.arg, ToSet(ListRead(UserList, r)), <<>>, "all")
  BY DEF GetAllTimeline
<1>2. PICK r \in ReadChoices(DefaultSession, {UserList}) :
        ReadTimelines(o.arg, ToSet(ListRead(UserList, r)), <<>>, "all")
  BY <1>1
<1>3. o \in Calls /\ o.op = "get_all_timeline" BY <1>1, PerformsTyped
<1>4. o.arg \in Sessions /\ DefaultSession \in Sessions BY <1>3, UsersTyped DEF Calls
<1>5. Reads(DefaultSession, r) BY KeysTyped, ReadsOfOne
<1> DEFINE users == ListRead(UserList, r)
<1>6. users \in Seq(Users) BY <1>4, <1>5, ListsRead DEF UserLists
<1> HIDE DEF users
<1>7. ToSet(users) \in SUBSET Users BY <1>6 DEF ToSet
<1>8. Reads(o.arg, <<>>) /\ DOMAIN (<<>>) \subseteq {Following(x) : x \in Users} BY DEF Reads
<1>9. ReadTimelines(o.arg, ToSet(users), <<>>, "all") BY <1>2 DEF users
<1>10. FeedAct /\ ResultsTyped'
  BY <1>4, <1>7, <1>8, <1>9, TimelinesAct DEF ProgramsTyped, ResultsTyped
<1>11. ProgramsTyped' BY <1>1, <1>10, PerformsTyped DEF ProgramsTyped, ResultsTyped
<1> QED BY <1>1, <1>10, <1>11

LEMMA FeedActKeeps ==
  ASSUME TwitterStore, FeedInv, FeedAct
  PROVE  FeedInv' /\ VersionsKept
<1>1. PICK s \in Sessions : \E r, w :
        Transact(s, r, w) /\ Reads(s, r) /\ Writable(w) /\ Owned(s, r, w) /\ Named(s, r, w)
  BY DEF FeedAct
<1>2. PICK r, w :
        Transact(s, r, w) /\ Reads(s, r) /\ Writable(w) /\ Owned(s, r, w) /\ Named(s, r, w)
  BY <1>1
<1> QED BY <1>2, FeedStep

\* The threads run when everything is populated.
LEMMA ThreadsKeepPopulated ==
  ASSUME TwitterStore, FeedInv, FeedInv', VersionsKept, ProgramsTyped, PopulatedOnce,
         NEW t \in Threads, NEW op, NEW o, Performs(t, op, o)
  PROVE  PopulatedOnce'
<1>1. todo[Main] = <<>> /\ todo'[Main] = <<>> BY PerformsTyped, UsersTyped
<1>2. \A i, u : ~ Pending(i, u) /\ ~ Pending(i, u)' BY <1>1 DEF Pending
<1>3. ASSUME NEW u \in Users, NEW k \in OwnLists(u) PROVE Present(k)'
  <2>1. k \in Keys BY OwnListsTyped
  <2>2. Present(k) BY <1>2 DEF PopulatedOnce
  <2>3. Len(versions[k]) > 0 /\ Len(versions[k]) \in Nat
    BY <2>1, <2>2, VersionsTyped DEF FeedInv, StoreSound
  <2>4. Len(versions[k]) <= Len(versions'[k]) BY <2>1 DEF VersionsKept
  <2>5. versions'[k] # <<>>
    <3>1. versions'[k] \in Seq(Values) BY <2>1 DEF FeedInv, StoreSound, StoreTypeOK
    <3>2. Len(versions'[k]) \in Nat BY <3>1
    <3>3. Len(versions'[k]) # 0 BY <2>3, <2>4, <3>2
    <3> QED BY <3>3
  <2> QED BY <2>5 DEF Present
<1>4. \A u \in Users : \A k \in OwnLists(u) : Present(k)' BY <1>3
<1> QED BY <1>2, <1>4 DEF PopulatedOnce, OwnLists

\* What is pending when Main has performed o.
LEMMA PendingTail ==
  ASSUME ProgramsTyped, NEW op, NEW o, Performs(Main, op, o)
  PROVE  /\ \A i, u : Pending(i, u)' => i \in Nat /\ Pending(i + 1, u)
         /\ \A i, u : Pending(i, u) => i = 1 \/ (i \in Nat /\ Pending(i - 1, u)')
         /\ \A u : Pending(1, u) <=> op = "add_details" /\ u = o.user
<1>1. Main \in Threads \cup {Main} OBVIOUS
<1>2. /\ todo[Main] \in Seq(Calls) /\ todo[Main] # <<>> /\ o = Head(todo[Main]) /\ o.op = op
      /\ todo'[Main] = Tail(todo[Main])
  BY <1>1, PerformsTyped
<1> DEFINE q == todo[Main]
           p == todo'[Main]
<1>3. /\ DOMAIN q = 1 .. Len(q) /\ Len(q) \in Nat /\ Len(q) > 0
      /\ DOMAIN p = 1 .. Len(q) - 1 /\ \A i \in 1 .. Len(q) - 1 : p[i] = q[i + 1]
      /\ q[1] = o
  BY <1>2
<1>4. \A i, u : Pending(i, u) <=> i \in DOMAIN q /\ q[i].op = "add_details" /\ q[i].user = u
  BY DEF Pending
<1>5. \A i, u : Pending(i, u)' <=> i \in DOMAIN p /\ p[i].op = "add_details" /\ p[i].user = u
  BY DEF Pending
<1> HIDE DEF q, p
<1>6. ASSUME NEW i, NEW u, Pending(i, u)' PROVE i \in Nat /\ Pending(i + 1, u)
  <2>1. i \in 1 .. Len(q) - 1 /\ p[i].op = "add_details" /\ p[i].user = u BY <1>3, <1>5, <1>6
  <2>2. i + 1 \in DOMAIN q /\ p[i] = q[i + 1] BY <1>3, <2>1
  <2> QED BY <1>4, <2>1, <2>2
<1>7. ASSUME NEW i, NEW u, Pending(i, u), i # 1 PROVE i \in Nat /\ Pending(i - 1, u)'
  <2>1. i \in 1 .. Len(q) /\ q[i].op = "add_details" /\ q[i].user = u BY <1>3, <1>4, <1>7
  <2>2. i - 1 \in 1 .. Len(q) - 1 /\ (i - 1) + 1 = i BY <1>3, <1>7, <2>1
  <2>3. p[i - 1] = q[i] BY <1>3, <2>2
  <2> QED BY <1>3, <1>5, <2>1, <2>2, <2>3
<1>8. \A u : Pending(1, u) <=> op = "add_details" /\ u = o.user BY <1>2, <1>3, <1>4
<1> QED BY <1>6, <1>7, <1>8
-----------------------------------------------------------------------------
(* The invariant *)

LEMMA AddToUsersPopulated ==
  ASSUME TwitterStore, FeedInv, ProgramsTyped, PopulatedOnce, AddToUsers(Main)
  PROVE  PopulatedOnce'
<1>1. PICK o : Performs(Main, "add_to_users", o) BY AddToUsersAct
<1>2. \A u \in Users : \A k \in OwnLists(u) : Present(k)' <=> Present(k)
  BY AddToUsersAct DEF Present
<1>3. /\ \A i, u : Pending(i, u)' => i \in Nat /\ Pending(i + 1, u)
      /\ \A i, u : Pending(i, u) => i = 1 \/ (i \in Nat /\ Pending(i - 1, u)')
      /\ \A u : ~ Pending(1, u)
  BY <1>1, PendingTail
<1>4. ASSUME NEW u \in Users
      PROVE  /\ \A i, j : Pending(i, u)' /\ Pending(j, u)' => i = j
             /\ (\E i : Pending(i, u)') <=> \E i : Pending(i, u)
  <2>1. \A i, j : Pending(i, u) /\ Pending(j, u) => i = j BY DEF PopulatedOnce, Pending
  <2>2. ASSUME NEW i, NEW j, Pending(i, u)', Pending(j, u)' PROVE i = j
    <3>1. i \in Nat /\ j \in Nat /\ i + 1 = j + 1 BY <1>3, <2>1, <2>2
    <3> QED BY <3>1
  <2>3. ASSUME NEW i, Pending(i, u) PROVE \E j : Pending(j, u)' BY <1>3, <2>3
  <2> QED BY <1>3, <2>2, <2>3
<1>5. \A u \in Users : /\ (\E i : Pending(i, u)) => \A k \in OwnLists(u) : ~ Present(k)
                       /\ (\A i : ~ Pending(i, u)) => \A k \in OwnLists(u) : Present(k)
  BY DEF PopulatedOnce, Pending
<1>6. \A i, u : Pending(i, u)' => i \in DOMAIN todo'[Main] BY DEF Pending
<1>7. ASSUME NEW u \in Users
      PROVE  /\ \A i, j \in DOMAIN todo'[Main] : Pending(i, u)' /\ Pending(j, u)' => i = j
             /\ (\E i \in DOMAIN todo'[Main] : Pending(i, u)') => \A k \in OwnLists(u) : ~ Present(k)'
             /\ (\A i \in DOMAIN todo'[Main] : ~ Pending(i, u)') => \A k \in OwnLists(u) : Present(k)'
  BY <1>2, <1>4, <1>5, <1>6
<1> QED BY <1>7 DEF PopulatedOnce, OwnLists

LEMMA AddDetailsPopulated ==
  ASSUME TwitterStore, FeedInv, ProgramsTyped, PopulatedOnce, AddDetails(Main)
  PROVE  PopulatedOnce'
<1>1. PICK o : /\ Performs(Main, "add_details", o)
               /\ \A k \in OwnLists(o.user) : Len(versions'[k]) > 0
               /\ \A u \in Users \ {o.user} : \A k \in OwnLists(u) : versions'[k] = versions[k]
  BY AddDetailsAct
<1>2. /\ \A k \in OwnLists(o.user) : Present(k)'
      /\ \A u \in Users \ {o.user} : \A k \in OwnLists(u) : Present(k)' <=> Present(k)
  BY <1>1 DEF Present
<1>3. /\ \A i, u : Pending(i, u)' => i \in Nat /\ Pending(i + 1, u)
      /\ \A i, u : Pending(i, u) => i = 1 \/ (i \in Nat /\ Pending(i - 1, u)')
      /\ \A u : Pending(1, u) <=> u = o.user
  BY <1>1, PendingTail
<1>4. \A i, j : \A u \in Users : Pending(i, u) /\ Pending(j, u) => i = j
  BY DEF PopulatedOnce, Pending
<1>5. ASSUME NEW i, NEW u \in Users, Pending(i, u)' PROVE u # o.user
  <2>1. i \in Nat /\ Pending(i + 1, u) /\ i + 1 # 1
    <3>1. i \in Nat /\ Pending(i + 1, u) BY <1>3, <1>5
    <3>2. i \in DOMAIN todo'[Main] BY <1>5 DEF Pending
    <3>3. todo'[Main] \in Seq(Calls) BY <1>1, PerformsTyped
    <3>4. i > 0 BY <3>2, <3>3
    <3> QED BY <3>1, <3>4
  <2> QED BY <1>3, <1>4, <2>1
<1>6. ASSUME NEW u \in Users
      PROVE  \A i, j : Pending(i, u)' /\ Pending(j, u)' => i = j
  <2> SUFFICES ASSUME NEW i, NEW j, Pending(i, u)', Pending(j, u)' PROVE i = j
    OBVIOUS
  <2>1. i \in Nat /\ j \in Nat /\ i + 1 = j + 1 BY <1>3, <1>4
  <2> QED BY <2>1
<1>7. \A u \in Users \ {o.user} : (\E i : Pending(i, u)') <=> \E i : Pending(i, u)
  BY <1>3
<1>8. \A u \in Users : /\ (\E i : Pending(i, u)) => \A k \in OwnLists(u) : ~ Present(k)
                       /\ (\A i : ~ Pending(i, u)) => \A k \in OwnLists(u) : Present(k)
  BY DEF PopulatedOnce, Pending
<1>9. \A i, u : Pending(i, u)' => i \in DOMAIN todo'[Main] BY DEF Pending
<1>10. ASSUME NEW u \in Users
       PROVE  /\ \A i, j \in DOMAIN todo'[Main] : Pending(i, u)' /\ Pending(j, u)' => i = j
              /\ (\E i \in DOMAIN todo'[Main] : Pending(i, u)') => \A k \in OwnLists(u) : ~ Present(k)'
              /\ (\A i \in DOMAIN todo'[Main] : ~ Pending(i, u)') => \A k \in OwnLists(u) : Present(k)'
  <2>1. CASE u = o.user BY <1>2, <1>5, <1>6, <2>1
  <2>2. CASE u # o.user BY <1>2, <1>6, <1>7, <1>8, <1>9, <2>2
  <2> QED BY <2>1, <2>2
<1> QED BY <1>10 DEF PopulatedOnce, OwnLists

LEMMA TwitterStep ==
  ASSUME TwitterStore, TwitterInv, Next
  PROVE  TwitterInv'
<1>1. FeedInv /\ ProgramsTyped /\ PopulatedOnce BY DEF TwitterInv
<1>2. ASSUME FeedAct PROVE FeedInv' /\ VersionsKept BY <1>1, <1>2, FeedActKeeps
<1>3. CASE AddToUsers(Main)
  BY <1>1, <1>2, <1>3, AddToUsersAct, AddToUsersPopulated DEF TwitterInv
<1>4. CASE AddDetails(Main)
  BY <1>1, <1>2, <1>4, AddDetailsAct, AddDetailsPopulated DEF TwitterInv
<1>5. ASSUME NEW t \in Threads,
             Follow(t) \/ PublishTweet(t) \/ GetNewsfeed(t) \/ GetTimeline(t) \/ GetAllTimeline(t)
      PROVE  TwitterInv'
  <2>1. /\ FeedAct /\ ProgramsTyped'
        /\ \E o : \/ Performs(t, "follow", o) \/ Performs(t, "publish_tweet", o)
                  \/ Performs(t, "get_newsfeed", o) \/ Performs(t, "get_timeline", o)
                  \/ Performs(t, "get_all_timeline", o)
    <3>1. CASE Follow(t) BY <1>1, <3>1, FollowAct
    <3>2. CASE PublishTweet(t) BY <1>1, <3>2, PublishTweetAct
    <3>3. CASE GetNewsfeed(t) BY <1>1, <3>3, GetNewsfeedAct
    <3>4. CASE GetTimeline(t) BY <1>1, <3>4, GetTimelineAct
    <3>5. CASE GetAllTimeline(t) BY <1>1, <3>5, GetAllTimelineAct
    <3> QED BY <1>5, <3>1, <3>2, <3>3, <3>4, <3>5
  <2>2. FeedInv' /\ VersionsKept BY <1>2, <2>1
  <2>3. PopulatedOnce' BY <1>1, <2>1, <2>2, ThreadsKeepPopulated
  <2> QED BY <2>1, <2>2, <2>3 DEF TwitterInv
<1> QED BY <1>3, <1>4, <1>5 DEF Next
-----------------------------------------------------------------------------
(* The initial states *)

LEMMA PopulateTyped ==
  /\ Populate \in Seq(Calls) /\ Len(Populate) = 2 * Cardinality(Users)
  /\ \A i \in DOMAIN Populate, u \in Users :
       Populate[i].op = "add_details" /\ Populate[i].user = u <=> i = 2 * u
  /\ \A u \in Users : 2 * u \in DOMAIN Populate
<1> DEFINE n == Cardinality(Users)
           call(i) == Op(IF i % 2 = 1 THEN "add_to_users" ELSE "add_details", (i + 1) \div 2, 0)
<1>1. n \in Nat /\ Users = 1 .. n BY UsersTyped
<1>2. Populate = [i \in 1 .. 2 * n |-> call(i)] BY DEF Populate
<1>3. ASSUME NEW i \in 1 .. 2 * n
      PROVE  /\ call(i) \in Calls
             /\ \A u \in Users : call(i).op = "add_details" /\ call(i).user = u <=> i = 2 * u
  <2>1. (i + 1) \div 2 \in 1 .. n BY <1>1
  <2>2. (i + 1) \div 2 \in Users /\ (i + 1) \div 2 \in Nat BY <1>1, <2>1
  <2>3. \A u \in 1 .. n : i % 2 # 1 /\ (i + 1) \div 2 = u <=> i = 2 * u BY <1>1
  <2>4. /\ call(i).op = IF i % 2 = 1 THEN "add_to_users" ELSE "add_details"
        /\ call(i).user = (i + 1) \div 2 /\ call(i).arg = 0
    BY DEF Op
  <2>5. call(i) \in [op : OpNames, user : Nat, arg : Nat] BY <2>2 DEF Op, OpNames
  <2>6. call(i) \in Calls
    <3> HIDE DEF call
    <3> QED BY <2>2, <2>4, <2>5 DEF Calls
  <2> HIDE DEF call, n
  <2> QED BY <1>1, <2>3, <2>4, <2>6
<1> HIDE DEF call, n
<1>4. 2 * n \in Nat BY <1>1
<1>5. Populate \in Seq(Calls) /\ Len(Populate) = 2 * n /\ DOMAIN Populate = 1 .. 2 * n
  BY <1>2, <1>3, <1>4
<1>6. \A u \in Users : 2 * u \in 1 .. 2 * n BY <1>1
<1>7. \A i \in 1 .. 2 * n, u \in Users :
        Populate[i].op = "add_details" /\ Populate[i].user = u <=> i = 2 * u
  BY <1>2, <1>3
<1> QED BY <1>5, <1>6, <1>7 DEF n

LEMMA CallsOfPrograms ==
  /\ \A u \in Users, n \in Nat : Op("get_newsfeed", u, n) \in Calls
  /\ \A u, v \in Users : Op("follow", u, v) \in Calls
  /\ \A u \in Users : \A tw \in TweetsBy(u) : Op("publish_tweet", u, tw) \in Calls
  /\ \A u \in Users, t \in Threads : Op("get_timeline", u, t) \in Calls
  /\ \A t \in Threads : Op("get_all_timeline", 0, t) \in Calls
<1>1. Users \subseteq Nat /\ Threads \subseteq Sessions /\ Threads \subseteq Nat BY UsersTyped
<1>2. \A u : TweetsBy(u) \subseteq Nat
  <2>1. \A tw \in 1 .. (57 + NumOps) : tw \in Nat OBVIOUS
  <2>2. Tweets \subseteq Nat BY <2>1, TweetsTyped
  <2> QED BY <2>2 DEF TweetsBy
<1>3. \A op, u, n : /\ Op(op, u, n).op = op /\ Op(op, u, n).user = u /\ Op(op, u, n).arg = n
                    /\ op \in OpNames /\ u \in Nat /\ n \in Nat
                         => Op(op, u, n) \in [op : OpNames, user : Nat, arg : Nat]
  BY DEF Op
<1>4. {"get_newsfeed", "follow", "publish_tweet", "get_timeline", "get_all_timeline"} \subseteq OpNames
  BY DEF OpNames
<1>5. ASSUME NEW op \in OpNames, NEW u \in Nat, NEW n \in Nat,
             op # "get_all_timeline" => u \in Users,
             op = "follow" => n \in Users,
             op = "publish_tweet" => n \in TweetsBy(u),
             op \in {"get_timeline", "get_all_timeline"} => n \in Sessions
      PROVE  Op(op, u, n) \in Calls
  BY <1>3, <1>5 DEF Calls
<1>6. \A u \in Users, n \in Nat : Op("get_newsfeed", u, n) \in Calls BY <1>1, <1>4, <1>5
<1>7. \A u, v \in Users : Op("follow", u, v) \in Calls BY <1>1, <1>4, <1>5
<1>8. \A u \in Users : \A tw \in TweetsBy(u) : Op("publish_tweet", u, tw) \in Calls
  BY <1>1, <1>2, <1>4, <1>5
<1>9. \A u \in Users, t \in Threads : Op("get_timeline", u, t) \in Calls BY <1>1, <1>4, <1>5
<1>10. \A t \in Threads : Op("get_all_timeline", 0, t) \in Calls BY <1>1, <1>4, <1>5
<1> QED BY <1>6, <1>7, <1>8, <1>9, <1>10

LEMMA FixedTyped == Fixed \in [Threads -> Seq(Calls)]
<1>1. {1, 2} \subseteq Users /\ Threads = {1, 2, 3} BY TwitterAssumption, UsersTyped
<1>2. {1, 2} \subseteq TweetsBy(1) BY TweetsTyped DEF TweetsBy, Author
<1>3. /\ Op("publish_tweet", 1, 1) \in Calls /\ Op("publish_tweet", 1, 2) \in Calls
      /\ Op("follow", 2, 1) \in Calls /\ Op("get_newsfeed", 2, 0) \in Calls
      /\ Op("get_timeline", 1, 3) \in Calls
  BY <1>1, <1>2, CallsOfPrograms
<1>4. \A a, b \in Calls : <<a, b>> \in Seq(Calls) /\ <<a>> \in Seq(Calls) OBVIOUS
<1> DEFINE program(t) ==
  CASE t = 1 -> <<Op("publish_tweet", 1, 1), Op("publish_tweet", 1, 2)>>
    [] t = 2 -> <<Op("follow", 2, 1), Op("get_newsfeed", 2, 0)>>
    [] t = 3 -> <<Op("get_timeline", 1, 3)>>
<1>5. ASSUME NEW t \in Threads PROVE program(t) \in Seq(Calls)
  <2>1. CASE t = 1 BY <1>3, <1>4, <2>1
  <2>2. CASE t = 2 BY <1>3, <1>4, <2>2
  <2>3. CASE t = 3 BY <1>3, <1>4, <2>3
  <2> QED BY <1>1, <2>1, <2>2, <2>3
<1>6. Fixed = [t \in Threads |-> program(t)] BY DEF Fixed
<1> HIDE DEF program
<1> QED BY <1>5, <1>6

LEMMA RandomTyped ==
  ASSUME TweetsDistinct, NEW c \in [1 .. NumOps -> 0 .. 2]
  PROVE  Random(c) \in [Threads -> Seq(Calls)]
<1>1. ASSUME NEW t \in Threads, NEW j \in 1 .. NumOps PROVE RandomOp(t, c[j], j) \in Calls
  <2> DEFINE u == ((j - 1) % Cardinality(Users)) + 1
             v == (j % Cardinality(Users)) + 1
  <2>1. u \in Users /\ v \in Users
    <3>1. j \in Nat /\ j - 1 \in Nat BY UsersTyped
    <3> QED BY <3>1, TurnsTyped
  <2>2. TweetId(t, j) \in TweetsBy(u) BY TweetIdAuthor DEF TweetsBy
  <2>3. /\ c[j] = 0 => RandomOp(t, c[j], j) = Op("follow", u, v)
        /\ c[j] = 1 => RandomOp(t, c[j], j) = Op("get_newsfeed", u, 0)
        /\ c[j] = 2 => RandomOp(t, c[j], j) = Op("publish_tweet", u, TweetId(t, j))
    BY DEF RandomOp
  <2>4. c[j] \in {0, 1, 2}
    <3>1. c[j] \in 0 .. 2 OBVIOUS
    <3> QED BY <3>1
  <2> HIDE DEF u, v
  <2> QED BY <2>1, <2>2, <2>3, <2>4, CallsOfPrograms
<1>2. ASSUME NEW t \in Threads
      PROVE  [j \in 1 .. NumOps |-> RandomOp(t, c[j], j)] \o <<Op("get_all_timeline", 0, t)>>
               \in Seq(Calls)
  <2> DEFINE q == [j \in 1 .. NumOps |-> RandomOp(t, c[j], j)]
  <2>1. NumOps \in Nat BY UsersTyped
  <2>2. q \in Seq(Calls) BY <1>1, <2>1
  <2>3. Op("get_all_timeline", 0, t) \in Calls BY CallsOfPrograms
  <2> HIDE DEF q
  <2>4. <<Op("get_all_timeline", 0, t)>> \in Seq(Calls) BY <2>3
  <2>5. q \o <<Op("get_all_timeline", 0, t)>> \in Seq(Calls) BY <2>2, <2>4
  <2> QED BY <2>5 DEF q
<1> QED BY <1>2 DEF Random

LEMMA TwitterInit ==
  ASSUME TwitterStore, TweetsDistinct, Init
  PROVE  TwitterInv
<1>1. StoreInit /\ run \in Runs /\ results = [feed \in {"timeline", "newsfeed"} |-> 0]
  BY DEF Init
<1>2. PICK p \in Programs(run) : todo = At(Main, Populate) ++ p BY DEF Init
<1>3. p \in [Threads -> Seq(Calls)]
  <2>1. run \in {"fixed", "random"} BY <1>1, TwitterAssumption
  <2>2. CASE run = "fixed"
    <3>1. p = Fixed BY <1>2, <2>2 DEF Programs
    <3> QED BY <3>1, FixedTyped
  <2>3. CASE run = "random"
    <3>1. PICK c \in [1 .. NumOps -> 0 .. 2] : p = Random(c) BY <1>2, <2>3 DEF Programs
    <3> QED BY <3>1, RandomTyped
  <2> QED BY <2>1, <2>2, <2>3
<1>4. /\ todo \in [Threads \cup {Main} -> Seq(Calls)]
      /\ todo[Main] = Populate
  <2>1. DOMAIN At(Main, Populate) = {Main} /\ At(Main, Populate)[Main] = Populate BY AtIsOne
  <2>2. todo = [t \in {Main} \cup Threads |-> IF t \in {Main} THEN Populate ELSE p[t]]
    BY <1>2, <1>3, <2>1 DEF ++
  <2> QED BY <1>3, <2>2, PopulateTyped
<1>5. ProgramsTyped BY <1>1, <1>4 DEF ProgramsTyped
<1>6. StoreSound BY <1>1, StoreSoundInit
<1>7. \A k \in Keys : versions[k] = <<>> /\ \A s \in Sessions : floor[s][k] = 0
  BY <1>1 DEF StoreInit
<1>8. ListsTyped BY <1>7 DEF ListsTyped
<1>9. OwnFloors
  <2> SUFFICES ASSUME NEW u \in Users, NEW k \in OwnLists(u) PROVE floor[u][k] = Len(versions[k])
    BY DEF OwnFloors
  <2>1. k \in Keys /\ u \in Sessions BY OwnListsTyped, UsersTyped
  <2> QED BY <1>7, <2>1
<1>10. OwnListsGrow
  <2> SUFFICES ASSUME NEW u \in Users, NEW k \in OwnLists(u) PROVE DOMAIN versions[k] = {}
    BY DEF OwnListsGrow, OwnLists
  <2>1. k \in Keys BY OwnListsTyped
  <2> QED BY <1>7, <2>1
<1>11. SeenNamed BY <1>7, KeysTyped DEF SeenNamed, Seen
<1>12. PopulatedOnce
  <2> SUFFICES ASSUME NEW u \in Users
               PROVE  /\ \A i, j \in DOMAIN todo[Main] : Pending(i, u) /\ Pending(j, u) => i = j
                      /\ \A k \in OwnLists(u) : ~ Present(k)
                      /\ \E i \in DOMAIN todo[Main] : Pending(i, u)
    BY DEF PopulatedOnce
  <2>1. \A i \in DOMAIN todo[Main] : Pending(i, u) <=> i = 2 * u BY <1>4, PopulateTyped DEF Pending
  <2>2. 2 * u \in DOMAIN todo[Main] BY <1>4, PopulateTyped
  <2>3. \A k \in OwnLists(u) : ~ Present(k) BY <1>7, OwnListsTyped DEF Present
  <2> QED BY <2>1, <2>2, <2>3
<1> QED BY <1>5, <1>6, <1>8, <1>9, <1>10, <1>11, <1>12 DEF TwitterInv, FeedInv
-----------------------------------------------------------------------------
(* The properties *)

\* A tweet that has been published is its author's.
LEMMA PublishedBy ==
  ASSUME TwitterStore, FeedInv, NEW u \in Users, NEW tw \in Published(u)
  PROVE  /\ tw \in Tweets /\ Author(tw) = u
         /\ \E j \in DOMAIN versions[TweetsOf(u)] : Contains(versions[TweetsOf(u)][j], tw)
<1> DEFINE k == TweetsOf(u)
<1>1. k \in Keys BY KeysTyped
<1>2. PICK j \in DOMAIN versions[k] : tw \in ToSet(versions[k][j]) BY DEF Published
<1>3. versions[k][j] \in Seq(TweetsBy(u)) BY <1>1 DEF FeedInv, ListsTyped, Fits
<1>4. tw \in TweetsBy(u) /\ Contains(versions[k][j], tw) BY <1>2, <1>3 DEF ToSet, Contains
<1> QED BY <1>4 DEF TweetsBy

\* A later version of an own list holds what an earlier one holds.
LEMMA LaterHolds ==
  ASSUME TwitterStore, FeedInv, NEW u \in Users, NEW k \in OwnLists(u),
         NEW i \in DOMAIN versions[k], NEW j \in DOMAIN versions[k], i <= j,
         NEW x, Contains(versions[k][i], x)
  PROVE  Contains(versions[k][j], x)
<1>1. k \in Keys BY OwnListsTyped
<1>2. PICK S : \A v : Fits(k, v) => v \in Seq(S) BY OwnListsTyped
<1>3. versions[k][i] \in Seq(S) /\ versions[k][j] \in Seq(S) BY <1>1, <1>2 DEF FeedInv, ListsTyped
<1>4. i \in Nat /\ j \in Nat BY <1>1, VersionsTyped DEF FeedInv, StoreSound
<1>5. CASE i = j BY <1>5
<1>6. CASE i < j
  <2>1. IsPrefix(versions[k][i], versions[k][j])
    BY <1>6 DEF FeedInv, OwnListsGrow, OwnLists
  <2> QED BY <1>3, <2>1, PrefixContains
<1> QED BY <1>4, <1>5, <1>6

LEMMA SeenVisible ==
  ASSUME TwitterStore, FeedInv
  PROVE  SeenStaysVisible
<1> SUFFICES ASSUME NEW s \in Sessions, NEW u \in Users, NEW tw \in Published(u), Seen(s, tw),
                    NEW i \in Visible(s, TweetsOf(u))
             PROVE  Contains(versions[TweetsOf(u)][i], tw)
  BY DEF SeenStaysVisible
<1> DEFINE k == TweetsOf(u)
           f == floor[s][k]
<1>1. tw \in Tweets /\ Author(tw) = u BY PublishedBy
<1>2. k \in Keys /\ k \in OwnLists(u) BY KeysTyped DEF OwnLists
<1>3. f > 0 /\ Contains(versions[k][f], tw) BY <1>1 DEF FeedInv, SeenNamed
<1>4. i \in DOMAIN versions[k] /\ f <= i /\ i \in Nat BY <1>2, VisibleAboveFloor DEF FeedInv
<1>5. f \in DOMAIN versions[k]
  <2>1. f \in Nat /\ Len(versions[k]) \in Nat /\ DOMAIN versions[k] = 1 .. Len(versions[k])
    BY <1>2, VersionsTyped DEF FeedInv, StoreSound
  <2> QED BY <1>3, <1>4, <2>1
<1> HIDE DEF f
<1> QED BY <1>2, <1>3, <1>4, <1>5, LaterHolds

LEMMA NewsfeedStep ==
  ASSUME TwitterStore, TwitterInv, level = "linear", NEW t \in Threads, NEW u \in Users,
         NEW v \in Users, GetNewsfeed(t), Head(todo[t]).user = u,
         Contains(Last(versions[Following(u)]), v),
         NEW tw \in Published(v), NEW z \in Sessions, Seen(z, tw)
  PROVE  Seen(u, tw)'
<1>1. PICK o \in ToSet(todo[t]) :
        /\ Performs(t, "get_newsfeed", o)
        /\ \E r \in ReadChoices(o.user, {Following(o.user)}) :
             ReadTimelines(o.user, ToSet(ListRead(Following(o.user), r)), r, "newsfeed")
  BY DEF GetNewsfeed
<1>2. FeedInv /\ StoreSound /\ ProgramsTyped /\ PopulatedOnce BY DEF TwitterInv, FeedInv
<1>3. o.user = u /\ todo[Main] = <<>> BY <1>1, <1>2, PerformsTyped, UsersTyped
<1>4. PICK r \in ReadChoices(u, {Following(u)}) :
        ReadTimelines(u, ToSet(ListRead(Following(u), r)), r, "newsfeed")
  BY <1>1, <1>3
<1> DEFINE followed == ListRead(Following(u), r)
           users == ToSet(followed)
<1>5. PICK q \in ReadChoices(u, {TweetsOf(x) : x \in users}) :
        \E d \in ReadChoices(u, {TweetKey(m) : m \in NamedIn(users, q)}) :
          Transact(u, AllReads(r, q, d), NoWrites)
  BY <1>4 DEF ReadTimelines, NamedIn, AllReads
<1>6. PICK d \in ReadChoices(u, {TweetKey(m) : m \in NamedIn(users, q)}) :
        Transact(u, AllReads(r, q, d), NoWrites)
  BY <1>5
<1>7. u \in Sessions BY UsersTyped
<1>8. /\ Reads(u, r) /\ DOMAIN r \subseteq {Following(u)}
      /\ Present(Following(u)) => Following(u) \in DOMAIN r
  BY KeysTyped, ReadsOfOne
\* The user reads the newest list of whom it follows.
<1>9. v \in users /\ users \subseteq Users
  <2> DEFINE k == Following(u)
  <2>1. k \in OwnLists(u) /\ k \in Keys /\ k \in UserLists BY KeysTyped DEF OwnLists, UserLists
  <2>2. Present(k)
    <3>1. \A i \in DOMAIN todo[Main] : ~ Pending(i, u) BY <1>3 DEF Pending
    <3> QED BY <1>2, <2>1, <3>1 DEF PopulatedOnce
  <2>3. k \in DOMAIN r /\ r[k] \in Visible(u, k) BY <1>8, <2>2 DEF Reads
  <2>4. r[k] = Len(versions[k]) BY <1>2, <1>7, <2>1, <2>3, VisibleAboveFloor
  <2>5. followed = Last(versions[k]) BY <2>3, <2>4 DEF ListRead, Last
  <2>6. followed \in Seq(Users) BY <1>2, <1>7, <1>8, <2>1, ListsRead
  <2>7. Contains(followed, v) BY <2>5
  <2> HIDE DEF followed
  <2> QED BY <2>6, <2>7 DEF Contains, ToSet
<1> HIDE DEF followed
<1>10. TimelineReads(u, users, r, q, d)
  <2>1. DOMAIN r \subseteq {Following(x) : x \in Users} BY <1>8
  <2> QED BY <1>5, <1>6, <1>7, <1>8, <1>9, <2>1 DEF TimelineReads
<1> HIDE DEF users
<1>11. /\ Reads(u, AllReads(r, q, d))
       /\ \A k \in DOMAIN d : k \in DOMAIN AllReads(r, q, d) /\ AllReads(r, q, d)[k] = d[k]
       /\ DOMAIN d = {k \in {TweetKey(m) : m \in NamedIn(users, q)} : Present(k)}
       /\ DOMAIN q = {k \in {TweetsOf(x) : x \in users} : Present(k)}
       /\ Reads(u, q) /\ Reads(u, d)
  <2>1. TimelineFound(u, users, r, q, d) BY <1>2, <1>10, TimelinesRead
  <2> QED BY <2>1 DEF TimelineFound
\* And then the newest list of tweets of v, which names all that v has published.
<1>12. tw \in NamedIn(users, q)
  <2> DEFINE k == TweetsOf(v)
  <2>1. k \in OwnLists(v) /\ k \in Keys BY KeysTyped DEF OwnLists
  <2>2. PICK j \in DOMAIN versions[k] : Contains(versions[k][j], tw) BY <1>2, PublishedBy
  <2>3. /\ Len(versions[k]) \in Nat /\ DOMAIN versions[k] = 1 .. Len(versions[k])
        /\ Present(k) <=> Len(versions[k]) > 0
    BY <1>2, <2>1, VersionsTyped DEF StoreSound
  <2>4. j <= Len(versions[k]) /\ Len(versions[k]) \in DOMAIN versions[k] /\ Present(k)
    BY <2>2, <2>3
  <2>5. k \in DOMAIN q BY <1>9, <1>11, <2>4
  <2>6. q[k] = Len(versions[k]) BY <1>2, <1>7, <1>11, <2>1, <2>5, VisibleAboveFloor DEF Reads
  <2>7. Contains(versions[k][Len(versions[k])], tw)
    BY <1>2, <2>1, <2>2, <2>4, LaterHolds
  <2>8. Contains(ListRead(k, q), tw) BY <2>5, <2>6, <2>7 DEF ListRead
  <2>9. ListRead(k, q) \in Seq(TweetsBy(v)) BY <1>2, <1>7, <1>11, ListsRead
  <2>10. tw \in ToSet(ListRead(k, q)) BY <2>8, <2>9 DEF Contains, ToSet
  <2> QED BY <1>9, <2>10 DEF NamedIn
<1>13. tw \in Tweets BY <1>2, PublishedBy
<1> DEFINE k == TweetKey(tw)
<1>14. k \in Keys /\ Present(k)
  <2>1. k \in Keys BY <1>13, KeysTyped
  <2>2. /\ floor[z][k] > 0 /\ floor[z][k] \in Nat /\ floor[z][k] <= Len(versions[k])
        /\ Len(versions[k]) \in Nat /\ (Present(k) <=> Len(versions[k]) > 0)
    BY <1>2, <2>1, VersionsTyped DEF StoreSound, FloorsBounded, Seen
  <2> QED BY <2>1, <2>2
<1>15. k \in DOMAIN d BY <1>11, <1>12, <1>14
<1>16. d[k] > 0 BY <1>2, <1>7, <1>11, <1>14, <1>15, VisibleAboveFloor DEF Reads
<1>17. floor'[u][k] = d[k]
  <2> DEFINE p == AllReads(r, q, d)
  <2>1. Transact(u, p, NoWrites) /\ DOMAIN p \subseteq Keys BY <1>6, <1>11 DEF Reads
  <2>2. k \in DOMAIN p /\ p[k] = d[k] BY <1>11, <1>15
  <2> HIDE DEF p
  <2>3. DOMAIN NoWrites = {} BY NothingWritten
  <2>4. \A m \in DOMAIN p \ DOMAIN NoWrites : floor'[u][m] = p[m]
    BY <1>2, <1>7, <2>1, <2>3, TransactEffect
  <2> QED BY <2>2, <2>3, <2>4
<1> QED BY <1>16, <1>17 DEF Seen
-----------------------------------------------------------------------------
(* The theorems *)

\* The inductive invariant of the feeds: a user's own lists are put and read in the
\* user's session only, a seen tweet has been seen in its author's list, and every
\* user is populated once.
THEOREM TwitterInvariant ==
  ASSUME TwitterStore, TweetsDistinct
  PROVE  Spec => []TwitterInv
<1>1. Init => TwitterInv BY TwitterInit
<1>2. TwitterInv /\ [Next]_vars => TwitterInv'
  <2>1. TwitterInv /\ Next => TwitterInv' BY TwitterStep
  <2>2. TwitterInv /\ UNCHANGED vars => TwitterInv'
    BY DEF vars, storeVars, twitterVars, TwitterInv, FeedInv, ProgramsTyped, PopulatedOnce,
           Pending, Present, StoreSound, StoreTypeOK, FloorsBounded, ListsTyped, OwnFloors,
           OwnListsGrow, SeenNamed, Seen
  <2> QED BY <2>1, <2>2
<1> QED BY <1>1, <1>2, PTL DEF Spec

\* The state has its types: users, tweets and operations are what the programs name.
THEOREM TwitterTypeOK ==
  ASSUME TwitterStore, TweetsDistinct
  PROVE  Spec => []TypeOK
<1>1. TwitterInv => TypeOK
  <2> SUFFICES ASSUME TwitterInv PROVE TypeOK OBVIOUS
  <2>1. ProgramsTyped /\ StoreTypeOK BY DEF TwitterInv, FeedInv, StoreSound
  <2>2. ASSUME NEW t \in DOMAIN todo, NEW i \in DOMAIN todo[t] PROVE todo[t][i].op \in OpNames
    <3>1. todo[t] \in Seq(Calls) BY <2>1 DEF ProgramsTyped
    <3>2. todo[t][i] \in Calls BY <3>1
    <3> QED BY <3>2 DEF Calls
  <2> QED BY <2>1, <2>2 DEF ProgramsTyped, TypeOK
<1> QED BY <1>1, TwitterInvariant, PTL

\* No tweet and no follow is lost, whichever threads act for a user, at every level:
\* the lists that an operation extends are put in their owner's session only
\* (twitter.h:138-156, 173-184).
THEOREM NothingIsLost ==
  ASSUME TwitterStore, TweetsDistinct
  PROVE  Spec => []OwnListsGrow
<1>1. TwitterInv => OwnListsGrow BY DEF TwitterInv, FeedInv
<1> QED BY <1>1, TwitterInvariant, PTL

\* A tweet that a session has seen is in every list of its author that the session may
\* be shown next, at every level (twitter.h:276-293).
THEOREM SeenTweetsStay ==
  ASSUME TwitterStore, TweetsDistinct
  PROVE  Spec => []SeenStaysVisible
<1>1. TwitterInv => SeenStaysVisible BY SeenVisible DEF TwitterInv
<1> QED BY <1>1, TwitterInvariant, PTL

\* On a linearizable store the newsfeed of a user shows each tweet of the users it
\* follows that any session has seen (twitter.h:218-240).
THEOREM NewsfeedsAreFresh ==
  ASSUME TwitterStore, TweetsDistinct
  PROVE  Spec => NewsfeedShowsSeen
<1> DEFINE Fresh ==
  level = "linear" =>
    \A t \in Threads, u, v \in Users :
      GetNewsfeed(t) /\ Head(todo[t]).user = u /\ Contains(Last(versions[Following(u)]), v) =>
        \A tw \in Published(v) : (\E s \in Sessions : Seen(s, tw)) => Seen(u, tw)'
<1>1. TwitterInv /\ [Next]_vars => [Fresh]_vars BY NewsfeedStep
<1>2. Spec => [][Fresh]_vars
  <2> HIDE DEF Fresh
  <2> QED BY <1>1, TwitterInvariant, PTL DEF Spec
<1> QED BY <1>2 DEF NewsfeedShowsSeen
=============================================================================
