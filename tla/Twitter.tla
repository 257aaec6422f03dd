------------------------------ MODULE Twitter ------------------------------
(***************************************************************************)
(* applications/twitter: users, the lists of whom they follow and of what  *)
(* they tweet, and the threads of run_twitter.  The lists of a user are    *)
(* read and written in the session of the user's id, by whichever thread   *)
(* acts for that user; timelines are read in the session of the reader.    *)
(* An operation runs between tx_start and tx_end and is one step.  The     *)
(* order of a feed (by timestamp) is left out: it is a set of tweets.      *)
(***************************************************************************)
EXTENDS SessionStore, AppData, SequencesExt

CONSTANTS
  Users,      \* the ids of the users, 1 .. n, which are also their session ids
  Threads,    \* threads of run_twitter; thread t reads timelines in session t
  NumOps,     \* NUM_OPS: random operations of each thread
  Runs        \* the programs the threads may run, of "fixed" and "random"

Main == 0               \* the thread that populates the store
DefaultSession == 1
TweetId(t, j) == t * 19 + j   \* in do_random_op; do_op has tweets 1 and 2
Tweets == {1, 2} \cup {TweetId(t, j) : t \in Threads, j \in 1 .. NumOps}

ASSUME TwitterAssumption ==
  /\ {1, 2} \subseteq Users /\ Users = 1 .. Cardinality(Users) /\ Cardinality(Users) \in Nat
  /\ {1, 2, 3} = Threads /\ NumOps \in Nat \ {0, 1}
  /\ Users \cup Threads \subseteq Sessions
  /\ Runs # {} /\ Runs \subseteq {"fixed", "random"}

UserList == <<"users">>
Following(u) == <<"following", u>>
Followers(u) == <<"followers", u>>
TweetsOf(u) == <<"tweets", u>>
TweetKey(tw) == <<"tweet", tw>>
TwitterKeys ==
  {UserList} \cup {Following(u) : u \in Users} \cup {Followers(u) : u \in Users}
    \cup {TweetsOf(u) : u \in Users} \cup {TweetKey(tw) : tw \in Tweets}

\* A value is a list of users or of tweets, with its count, or the details of a
\* tweet, which never change.
Details == <<>>
TwitterValues == Seq(Users) \cup Seq(Tweets)

VARIABLES
  todo,   \* todo[t]: the operations that thread t has still to perform
  run,    \* the program of the threads
  results \* do_op's results: how many tweets its timeline and its newsfeed have

twitterVars == <<todo, run, results>>
vars == <<storeVars, twitterVars>>
-----------------------------------------------------------------------------
Op(op, user, arg) == [op |-> op, user |-> user, arg |-> arg]

\* populate_twitter: add_user for each, the users list and then the user's own.
Populate ==
  [i \in 1 .. 2 * Cardinality(Users) |->
     Op(IF i % 2 = 1 THEN "add_to_users" ELSE "add_details", (i + 1) \div 2, 0)]

\* do_op
Fixed == [t \in Threads |->
  CASE t = 1 -> <<Op("publish_tweet", 1, 1), Op("publish_tweet", 1, 2)>>
    [] t = 2 -> <<Op("follow", 2, 1), Op("get_newsfeed", 2, 0)>>
    [] t = 3 -> <<Op("get_timeline", 1, 3)>>]

\* do_random_op: the users take turns.
RandomOp(t, choice, j) ==
  LET u == ((j - 1) % Cardinality(Users)) + 1
      next == (j % Cardinality(Users)) + 1
  IN CASE choice = 0 -> Op("follow", u, next)
       [] choice = 1 -> Op("get_newsfeed", u, 0)
       [] choice = 2 -> Op("publish_tweet", u, TweetId(t, j))

\* random_fill seeds the generator alike for all threads: all get the choices c.
Random(c) == [t \in Threads |->
  [j \in 1 .. NumOps |-> RandomOp(t, c[j], j)] \o <<Op("get_all_timeline", 0, t)>>]

Programs(r) ==
  CASE r = "fixed" -> {Fixed}
    [] r = "random" -> {Random(c) : c \in [1 .. NumOps -> 0 .. 2]}

OpNames == {"add_to_users", "add_details", "follow", "publish_tweet", "get_newsfeed",
            "get_timeline", "get_all_timeline"}

TypeOK ==
  /\ StoreTypeOK
  /\ DOMAIN todo = Threads \cup {Main}
  /\ \A t \in DOMAIN todo : \A i \in DOMAIN todo[t] : todo[t][i].op \in OpNames
  /\ run \in Runs
  /\ results \in [{"timeline", "newsfeed"} -> Nat]

Init ==
  /\ StoreInit
  /\ run \in Runs
  /\ \E p \in Programs(run) : todo = At(Main, Populate) ++ p
  /\ results = [feed \in {"timeline", "newsfeed"} |-> 0]

\* Thread t performs its next operation, an op with the argument o; the threads
\* start when the store is populated.
Performs(t, op, o) ==
  /\ todo[t] # <<>> /\ o = Head(todo[t]) /\ o.op = op
  /\ t # Main => todo[Main] = <<>>
  /\ todo' = [todo EXCEPT ![t] = Tail(@)]
  /\ UNCHANGED run

ListRead(k, r) == IF k \in DOMAIN r THEN versions[k][r[k]] ELSE <<>>
-----------------------------------------------------------------------------
\* Mistake: the position in the list is stored in place of the user.
AddIndexToUsers(t) ==
  /\ \E o \in ToSet(todo[t]) :
       /\ Performs(t, "add_to_users", o)
       /\ \E r \in ReadChoices(DefaultSession, {UserList}) :
            LET list == ListRead(UserList, r)
            IN Transact(DefaultSession, r, At(UserList, Append(list, Len(list))))
  /\ UNCHANGED results

\* add_user: the list of users, in the default session ...
AddToUsers(t) ==
  /\ \E o \in ToSet(todo[t]) :
       /\ Performs(t, "add_to_users", o)
       /\ \E r \in ReadChoices(DefaultSession, {UserList}) :
            Transact(DefaultSession, r, At(UserList, Append(ListRead(UserList, r), o.user)))
  /\ UNCHANGED results

\* ... and the lists of the user, in the user's session.
AddDetails(t) ==
  /\ \E o \in ToSet(todo[t]) :
       /\ Performs(t, "add_details", o)
       /\ Transact(o.user, <<>>, At(Following(o.user), <<>>) ++ At(Followers(o.user), <<>>)
                                ++ At(TweetsOf(o.user), <<>>))
  /\ UNCHANGED results

\* The part of follow after a's following list has been read under r: the list
\* of followers that is extended is b's, and it is put as a's.
FollowNew(a, b, r) ==
  LET follow == At(Following(a), Append(ListRead(Following(a), r), b))
  IN \E q \in ReadChoices(a, {Followers(b)}) :
       Transact(a, r ++ q,
                IF Present(Followers(b))
                  THEN follow ++ At(Followers(a), Append(ListRead(Followers(b), q), a))
                  ELSE follow)

Follow(t) ==
  /\ \E o \in ToSet(todo[t]) :
       /\ Performs(t, "follow", o)
       /\ \E r \in ReadChoices(o.user, {Following(o.user)}) :
            IF ~ Present(Following(o.user)) \/ Contains(ListRead(Following(o.user), r), o.arg)
              THEN Transact(o.user, r, NoWrites)
              ELSE FollowNew(o.user, o.arg, r)
  /\ UNCHANGED results

\* Mistake: the tweet is published in the session of the thread.
PublishInThread(t) ==
  /\ \E o \in ToSet(todo[t]) :
       /\ Performs(t, "publish_tweet", o)
       /\ \E r \in ReadChoices(t, {TweetsOf(o.user)}) :
            Transact(t, r, At(TweetsOf(o.user), Append(ListRead(TweetsOf(o.user), r), o.arg))
                             ++ At(TweetKey(o.arg), Details))
  /\ UNCHANGED results

PublishTweet(t) ==
  /\ \E o \in ToSet(todo[t]) :
       /\ Performs(t, "publish_tweet", o)
       /\ \E r \in ReadChoices(o.user, {TweetsOf(o.user)}) :
            Transact(o.user, r,
                     IF ~ Present(TweetsOf(o.user)) THEN NoWrites
                     ELSE At(TweetsOf(o.user), Append(ListRead(TweetsOf(o.user), r), o.arg))
                            ++ At(TweetKey(o.arg), Details))
  /\ UNCHANGED results

\* Only do_op keeps the size of what it reads, a feed of n tweets.
Results(feed, n) ==
  results' = IF run = "fixed" THEN [results EXCEPT ![feed] = n]
             ELSE results

\* _get_timeline of each of the users, by session s, after the read r: the lists
\* of tweets, and the details of each tweet that they name.
ReadTimelines(s, users, r, feed) ==
  \E q \in ReadChoices(s, {TweetsOf(u) : u \in users}) :
    LET named == UNION {ToSet(ListRead(TweetsOf(u), q)) : u \in users}
    IN \E d \in ReadChoices(s, {TweetKey(tw) : tw \in named}) :
         Transact(s, r ++ q ++ d, NoWrites) /\ Results(feed, Cardinality(DOMAIN d))

\* Mistake: the newsfeed is that of the followers.
GetFollowersFeed(t) ==
  \E o \in ToSet(todo[t]) :
    /\ Performs(t, "get_newsfeed", o)
    /\ \E r \in ReadChoices(o.user, {Followers(o.user)}) :
         ReadTimelines(o.user, ToSet(ListRead(Followers(o.user), r)), r, "newsfeed")

GetNewsfeed(t) ==
  \E o \in ToSet(todo[t]) :
    /\ Performs(t, "get_newsfeed", o)
    /\ \E r \in ReadChoices(o.user, {Following(o.user)}) :
         ReadTimelines(o.user, ToSet(ListRead(Following(o.user), r)), r, "newsfeed")

GetTimeline(t) ==
  \E o \in ToSet(todo[t]) :
    /\ Performs(t, "get_timeline", o)
    /\ ReadTimelines(o.arg, {o.user}, <<>>, "timeline")

\* The list of users is read in the default session, which has put all of its
\* versions: it reads the newest, and its floor stays there.
GetAllTimeline(t) ==
  \E o \in ToSet(todo[t]) :
    /\ Performs(t, "get_all_timeline", o)
    /\ \E r \in ReadChoices(DefaultSession, {UserList}) :
         ReadTimelines(o.arg, ToSet(ListRead(UserList, r)), <<>>, "all")

Next ==
  \/ AddToUsers(Main) \/ AddDetails(Main)
  \/ \E t \in Threads :
       \/ Follow(t) \/ PublishTweet(t)
       \/ GetNewsfeed(t) \/ GetTimeline(t) \/ GetAllTimeline(t)

Spec == Init /\ [][Next]_vars
-----------------------------------------------------------------------------
\* A session has been shown, or has published, the tweet tw.
Seen(s, tw) == floor[s][TweetKey(tw)] > 0

\* At every level, and although several threads tweet and follow for one user,
\* no follow and no tweet is lost: a version of a user's list extends every
\* version before it, since all of them are put in the user's session
\* (twitter.h:157, 177-185).
OwnListsGrow ==
  \A u \in Users : \A k \in {Following(u), TweetsOf(u)} :
    \A i, j \in DOMAIN versions[k] : i < j => IsPrefix(versions[k][i], versions[k][j])

\* The tweets that user u has published.
Published(u) == UNION {ToSet(versions[TweetsOf(u)][i]) : i \in DOMAIN versions[TweetsOf(u)]}

\* At every level a session that has seen a tweet sees it again in whatever
\* version of its author's list the next timeline is answered with
\* (twitter.h:276-300).
SeenStaysVisible ==
  \A s \in Sessions, u \in Users : \A tw \in Published(u) :
    Seen(s, tw) => \A i \in Visible(s, TweetsOf(u)) : Contains(versions[TweetsOf(u)][i], tw)

\* The scenario of applications/readme.md:52 on a linearizable store: the newsfeed
\* of u shows each tweet of the users u follows that any session has seen before.
NewsfeedShowsSeen ==
  [][level = "linear" =>
       \A t \in Threads, u, v \in Users :
         GetNewsfeed(t) /\ Head(todo[t]).user = u /\ Contains(Last(versions[Following(u)]), v) =>
           \A tw \in Published(v) : (\E s \in Sessions : Seen(s, tw)) => Seen(u, tw)']_vars

\* "update b's followers list" (twitter.h:159): whom somebody follows has that
\* somebody as a follower.
FollowersRecorded ==
  \A a, b \in Users :
    Present(Following(a)) /\ Contains(Last(versions[Following(a)]), b) =>
      Contains(Last(versions[Followers(b)]), a)

\* What run_twitter counts as a violation, "Tweets of recently followed user not
\* showing up in newsfeed, even after viewing those tweets through another session"
\* (run_twitter.cpp:44-45), does not happen on a linearizable store.
CountedNeverLinear ==
  level = "linear" /\ (\A t \in Threads : todo[t] = <<>>) =>
    ~ (results["timeline"] > results["newsfeed"])
=============================================================================
