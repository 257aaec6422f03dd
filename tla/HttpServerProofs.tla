--------------------------- MODULE HttpServerProofs ---------------------------
(***************************************************************************)
(* The HTTP server's guarantees for any number of listener threads,        *)
(* sessions, keys and requests.  The inductive invariant says who holds    *)
(* the mutex, what a handler between its etag check and its PUT knows of   *)
(* the key, and how an accepted POST is remembered by its session's floor. *)
(***************************************************************************)
EXTENDS HttpServer, SessionStoreProofs

Posting == {"body", "check", "put"}

\* The mutex is held exactly by the handler that is inside a POST.
Mutex == \A h \in Handlers : pc[h] \in Posting <=> mtx = h

\* What the branches that led a handler to its place have established.
Admitted ==
  \A h \in Handlers :
    /\ pc[h] \in Posting => req[h].op = "POST"
    /\ pc[h] \in {"check", "put"} => req[h].header # BadHeader
    /\ pc[h] = "check" => req[h].etag # NoEtag

\* The version an accepted POST wrote is one its session can not go below.
AcceptedBelow ==
  \A n \in DOMAIN accepted :
    /\ accepted[n].version > 0
    /\ accepted[n].version <= floor[accepted[n].session][accepted[n].key]

\* Between the check and the PUT: the etag of handler h is a version its session
\* was shown, and no accepted POST of the session is newer.
EtagHolds(h) ==
  LET r == req[h]
      k == r.key
      e == r.etag
  IN /\ e \in Nat
     /\ e <= Len(versions[k])
     /\ level = "linear" \/ e = 0 => e = Len(versions[k])
     /\ \A n \in DOMAIN accepted :
          accepted[n].session = SessionOf(r) /\ accepted[n].key = k => accepted[n].version <= e

PutReady == \A h \in Handlers : pc[h] = "put" /\ req[h].etag # NoEtag => EtagHolds(h)

ServerInv ==
  /\ TypeOK /\ FloorsBounded
  /\ Mutex /\ Admitted /\ AcceptedBelow /\ PutReady
  /\ NoLostUpdate /\ RepeatedPostRefused /\ CreateOnce
-----------------------------------------------------------------------------
LEMMA AcceptedTyped ==
  ASSUME TypeOK, NEW n \in DOMAIN accepted
  PROVE  /\ accepted[n] \in Accepted /\ n \in Nat /\ n <= Len(accepted)
         /\ accepted[n].session \in Sessions /\ accepted[n].key \in Keys
         /\ accepted[n].etag \in Nat /\ accepted[n].version \in Nat
<1>1. accepted \in Seq(Accepted) BY DEF TypeOK
<1>2. accepted[n] \in Accepted /\ n \in Nat /\ n <= Len(accepted) BY <1>1
<1> QED BY <1>2 DEF Accepted

LEMMA RequestTyped ==
  ASSUME TypeOK, NEW h \in Handlers, pc[h] # "idle"
  PROVE  /\ req[h] \in Requests /\ req[h].key \in Keys /\ req[h].value \in Values
         /\ req[h].header # BadHeader => SessionOf(req[h]) \in Sessions
<1>1. req[h] \in Requests BY DEF TypeOK
<1>2. /\ req[h].key \in Keys /\ req[h].value \in Values
      /\ req[h].header \in Sessions \cup {NoHeader, BadHeader}
  BY <1>1 DEF Requests
<1> QED BY <1>1, <1>2, HttpAssumption DEF SessionOf

\* Handler h moves; the other handlers, the versions and the accepted POSTs stay.
Moves(h) ==
  /\ \A g \in Handlers \ {h} : pc'[g] = pc[g] /\ req'[g] = req[g]
  /\ UNCHANGED <<versions, level, accepted>>

\* Such a move keeps every fact about the accepted POSTs, once h itself is right.
LEMMA MovesKeep ==
  ASSUME ServerInv, TypeOK', NEW h \in Handlers, Moves(h), FloorsKept,
         pc'[h] = "put" /\ req'[h].etag # NoEtag => EtagHolds(h)'
  PROVE  AcceptedBelow' /\ PutReady' /\ NoLostUpdate' /\ RepeatedPostRefused' /\ CreateOnce'
<1>1. TypeOK /\ AcceptedBelow /\ PutReady /\ NoLostUpdate /\ RepeatedPostRefused /\ CreateOnce
  BY DEF ServerInv
<1>2. AcceptedBelow'
  <2> SUFFICES ASSUME NEW n \in DOMAIN accepted
               PROVE  accepted[n].version <= floor'[accepted[n].session][accepted[n].key]
    BY <1>1 DEF AcceptedBelow, Moves
  <2> DEFINE s == accepted[n].session
             k == accepted[n].key
  <2>1. s \in Sessions /\ k \in Keys /\ accepted[n].version \in Nat BY <1>1, AcceptedTyped
  <2>2. accepted[n].version <= floor[s][k] BY <1>1 DEF AcceptedBelow
  <2>3. floor[s][k] <= floor'[s][k] BY <2>1 DEF FloorsKept
  <2>4. floor[s][k] \in Nat /\ floor'[s][k] \in Nat BY <1>1, <2>1 DEF TypeOK, StoreTypeOK
  <2> QED BY <2>1, <2>2, <2>3, <2>4
<1>3. PutReady'
  <2> SUFFICES ASSUME NEW g \in Handlers, pc'[g] = "put", req'[g].etag # NoEtag
               PROVE  EtagHolds(g)'
    BY DEF PutReady
  <2>1. CASE g # h
    <3>1. pc[g] = "put" /\ req'[g] = req[g] BY <2>1 DEF Moves
    <3>2. EtagHolds(g) BY <1>1, <3>1 DEF PutReady
    <3> QED BY <3>1, <3>2 DEF EtagHolds, SessionOf, Moves
  <2> QED BY <2>1
<1> QED BY <1>1, <1>2, <1>3 DEF NoLostUpdate, RepeatedPostRefused, CreateOnce, Moves

\* The three ways in which pc, req, received and reply change.
LEMMA ReplyTyped ==
  ASSUME TypeOK, NEW h \in Handlers, NEW status \in Statuses, Reply(h, status)
  PROVE  /\ pc' \in [Handlers -> {"idle", "received", "body", "check", "put"}]
         /\ DOMAIN req' = Handlers
         /\ \A g \in Handlers :
              IF pc'[g] = "idle" THEN req'[g] = NoRequest ELSE req'[g] \in Requests
         /\ received' \in 0 .. MaxRequests
         /\ reply' \in [Handlers -> Statuses]
         /\ pc'[h] = "idle"
         /\ \A g \in Handlers \ {h} : pc'[g] = pc[g] /\ req'[g] = req[g]
  BY DEF TypeOK, Reply

LEMMA GotoTyped ==
  ASSUME TypeOK, NEW h \in Handlers, pc[h] # "idle", NEW place \in Posting, Goto(h, place)
  PROVE  /\ pc' \in [Handlers -> {"idle", "received", "body", "check", "put"}]
         /\ DOMAIN req' = Handlers
         /\ \A g \in Handlers :
              IF pc'[g] = "idle" THEN req'[g] = NoRequest ELSE req'[g] \in Requests
         /\ received' \in 0 .. MaxRequests
         /\ reply' \in [Handlers -> Statuses]
         /\ pc'[h] = place /\ req' = req
         /\ \A g \in Handlers \ {h} : pc'[g] = pc[g]
  BY DEF TypeOK, Goto, Posting
-----------------------------------------------------------------------------
LEMMA ReceiveStep ==
  ASSUME ServerInv, NEW h \in Handlers, NEW r \in Requests, Receive(h, r)
  PROVE  ServerInv'
<1>1. TypeOK /\ FloorsBounded /\ Mutex /\ Admitted BY DEF ServerInv
<1>2. /\ pc[h] = "idle" /\ pc' = [pc EXCEPT ![h] = "received"] /\ req' = [req EXCEPT ![h] = r]
      /\ reply' = [reply EXCEPT ![h] = "none"] /\ received' = received + 1
      /\ received < MaxRequests /\ UNCHANGED <<storeVars, mtx, accepted>>
  BY DEF Receive
<1>3. /\ pc'[h] = "received" /\ req'[h] = r
      /\ \A g \in Handlers \ {h} : pc'[g] = pc[g] /\ req'[g] = req[g]
  BY <1>1, <1>2 DEF TypeOK
<1>4. TypeOK'
  <2>1. StoreTypeOK' BY <1>1, <1>2 DEF TypeOK, StoreTypeOK, storeVars
  <2>2. received' \in 0 .. MaxRequests BY <1>1, <1>2, HttpAssumption DEF TypeOK
  <2>3. reply' \in [Handlers -> Statuses] BY <1>1, <1>2 DEF TypeOK, Statuses
  <2>4. \A g \in Handlers : IF pc'[g] = "idle" THEN req'[g] = NoRequest ELSE req'[g] \in Requests
    BY <1>1, <1>3 DEF TypeOK
  <2>5. /\ pc' \in [Handlers -> {"idle", "received", "body", "check", "put"}]
        /\ DOMAIN req' = Handlers /\ mtx' \in Handlers \cup {Nobody} /\ accepted' \in Seq(Accepted)
    BY <1>1, <1>2 DEF TypeOK
  <2> QED BY <2>1, <2>2, <2>3, <2>4, <2>5 DEF TypeOK
<1>5. FloorsBounded' /\ FloorsKept
  BY <1>1, <1>2 DEF FloorsBounded, FloorsKept, storeVars, TypeOK, StoreTypeOK
<1>6. Mutex' /\ Admitted' BY <1>1, <1>2, <1>3 DEF Mutex, Admitted, Posting
<1>7. Moves(h) BY <1>2, <1>3 DEF Moves, storeVars
<1> QED BY <1>3, <1>4, <1>5, <1>6, <1>7, MovesKeep DEF ServerInv

\* A step in which a session reads, or the store is left alone.
LEMMA ReadOrNothing ==
  ASSUME ServerInv, \/ UNCHANGED storeVars
                    \/ \E s \in Sessions, k \in Keys : \E i : Get(s, k, i)
  PROVE  StoreTypeOK' /\ FloorsBounded' /\ FloorsKept /\ UNCHANGED <<versions, level>>
<1>1. StoreSound BY DEF ServerInv, TypeOK, StoreSound
<1>2. CASE UNCHANGED storeVars
  BY <1>1, <1>2 DEF storeVars, StoreSound, StoreTypeOK, FloorsBounded, FloorsKept
<1>3. ASSUME NEW s \in Sessions, NEW k \in Keys, NEW i, Get(s, k, i)
      PROVE  StoreTypeOK' /\ FloorsBounded' /\ FloorsKept /\ UNCHANGED <<versions, level>>
  BY <1>1, <1>3, GetEffect DEF StoreSound
<1> QED BY <1>2, <1>3

LEMMA HandleGetStep ==
  ASSUME ServerInv, NEW h \in Handlers, HandleGet(h)
  PROVE  ServerInv'
<1>1. TypeOK /\ Mutex /\ Admitted BY DEF ServerInv
<1>2. pc[h] = "received" /\ UNCHANGED <<mtx, accepted>> BY DEF HandleGet
<1>3. PICK status \in Statuses : Reply(h, status) BY DEF HandleGet, Statuses
<1>4. \/ UNCHANGED storeVars
      \/ \E s \in Sessions, k \in Keys : \E i : Get(s, k, i)
  BY <1>1, <1>2, RequestTyped DEF HandleGet
<1>5. StoreTypeOK' /\ FloorsBounded' /\ FloorsKept /\ UNCHANGED <<versions, level>>
  BY <1>4, ReadOrNothing
<1>6. TypeOK' BY <1>1, <1>2, <1>3, <1>5, ReplyTyped DEF TypeOK
<1>7. pc'[h] = "idle" /\ \A g \in Handlers \ {h} : pc'[g] = pc[g] /\ req'[g] = req[g]
  BY <1>1, <1>3, ReplyTyped
<1>8. Mutex' /\ Admitted' BY <1>1, <1>2, <1>7 DEF Mutex, Admitted, Posting
<1>9. Moves(h) BY <1>2, <1>5, <1>7 DEF Moves
<1> QED BY <1>5, <1>6, <1>7, <1>8, <1>9, MovesKeep DEF ServerInv

LEMMA LockPostStep ==
  ASSUME ServerInv, NEW h \in Handlers, LockPost(h)
  PROVE  ServerInv'
<1>1. TypeOK /\ Mutex /\ Admitted BY DEF ServerInv
<1>2. /\ pc[h] = "received" /\ req[h].op = "POST" /\ mtx = Nobody /\ mtx' = h
      /\ Goto(h, "body") /\ UNCHANGED <<storeVars, accepted>>
  BY DEF LockPost
<1>3. StoreTypeOK' /\ FloorsBounded' /\ FloorsKept /\ UNCHANGED <<versions, level>>
  BY <1>2, ReadOrNothing
<1>4. "body" \in Posting BY DEF Posting
<1>5. TypeOK' BY <1>1, <1>2, <1>3, <1>4, GotoTyped DEF TypeOK
<1>6. pc'[h] = "body" /\ req' = req /\ \A g \in Handlers \ {h} : pc'[g] = pc[g]
  BY <1>1, <1>2, <1>4, GotoTyped
<1>7. \A g \in Handlers : pc[g] \notin Posting BY <1>1, <1>2, HttpAssumption DEF Mutex
<1>8. Mutex' BY <1>2, <1>4, <1>6, <1>7 DEF Mutex
<1>9. Admitted' BY <1>1, <1>2, <1>6 DEF Admitted, Posting
<1>10. Moves(h) BY <1>2, <1>3, <1>6 DEF Moves
<1> QED BY <1>3, <1>5, <1>6, <1>8, <1>9, <1>10, MovesKeep DEF ServerInv

\* A handler that holds the mutex keeps it and goes on, or releases it and returns.
LEMMA HolderMoves ==
  ASSUME ServerInv, NEW h \in Handlers, pc[h] \in Posting,
         \/ /\ mtx' = Nobody /\ \E status \in Statuses : Reply(h, status)
         \/ /\ mtx' = mtx /\ \E place \in {"check", "put"} : Goto(h, place)
            /\ pc'[h] = "check" => req[h].etag # NoEtag
            /\ req[h].header # BadHeader
  PROVE  /\ TypeOK' <=> StoreTypeOK' /\ accepted' \in Seq(Accepted)
         /\ Mutex' /\ Admitted'
         /\ \A g \in Handlers \ {h} : pc'[g] = pc[g] /\ req'[g] = req[g] /\ pc[g] \notin Posting
         /\ pc'[h] \in {"idle", "put", "check"}
<1>1. TypeOK /\ Mutex /\ Admitted BY DEF ServerInv
<1>2. mtx = h /\ \A g \in Handlers \ {h} : pc[g] \notin Posting BY <1>1 DEF Mutex
<1>3. CASE mtx' = Nobody /\ \E status \in Statuses : Reply(h, status)
  <2>1. PICK status \in Statuses : Reply(h, status) BY <1>3
  <2>2. pc'[h] = "idle" /\ \A g \in Handlers \ {h} : pc'[g] = pc[g] /\ req'[g] = req[g]
    BY <1>1, <2>1, ReplyTyped
  <2>3. TypeOK' <=> StoreTypeOK' /\ accepted' \in Seq(Accepted)
    BY <1>1, <1>3, <2>1, ReplyTyped DEF TypeOK
  <2>4. Mutex' BY <1>2, <1>3, <2>2, HttpAssumption DEF Mutex, Posting
  <2>5. Admitted' BY <1>1, <2>2 DEF Admitted, Posting
  <2> QED BY <1>2, <2>2, <2>3, <2>4, <2>5
<1>4. CASE /\ mtx' = mtx /\ \E place \in {"check", "put"} : Goto(h, place)
           /\ pc'[h] = "check" => req[h].etag # NoEtag
           /\ req[h].header # BadHeader
  <2>1. PICK place \in {"check", "put"} : Goto(h, place) BY <1>4
  <2>2. place \in Posting /\ pc[h] # "idle" BY DEF Posting
  <2>3. pc'[h] = place /\ req' = req /\ \A g \in Handlers \ {h} : pc'[g] = pc[g]
    BY <1>1, <2>1, <2>2, GotoTyped
  <2>4. TypeOK' <=> StoreTypeOK' /\ accepted' \in Seq(Accepted)
    BY <1>1, <1>4, <2>1, <2>2, GotoTyped DEF TypeOK
  <2>5. Mutex' BY <1>2, <1>4, <2>2, <2>3 DEF Mutex
  <2>6. Admitted' BY <1>1, <1>4, <2>3 DEF Admitted, Posting
  <2> QED BY <1>2, <2>1, <2>3, <2>4, <2>5, <2>6
<1> QED BY <1>3, <1>4

LEMMA ReadBodyStep ==
  ASSUME ServerInv, NEW h \in Handlers, ReadBody(h)
  PROVE  ServerInv'
<1> DEFINE throws == req[h].header = BadHeader \/ ~ req[h].wellFormed
           place == IF req[h].etag = NoEtag THEN "put" ELSE "check"
<1>1. /\ pc[h] = "body" /\ UNCHANGED <<storeVars, accepted>>
      /\ IF throws THEN Reply(h, "error") /\ mtx' = Nobody ELSE Goto(h, place) /\ UNCHANGED mtx
  BY DEF ReadBody
<1>2. pc[h] \in Posting /\ "error" \in Statuses /\ TypeOK BY <1>1 DEF Posting, Statuses, ServerInv
<1>3. ~ throws => pc'[h] = place /\ req' = req BY <1>1, <1>2 DEF Goto, TypeOK
<1>4. /\ TypeOK' <=> StoreTypeOK' /\ accepted' \in Seq(Accepted)
      /\ Mutex' /\ Admitted'
      /\ \A g \in Handlers \ {h} : pc'[g] = pc[g] /\ req'[g] = req[g]
  BY <1>1, <1>2, <1>3, HolderMoves
<1>5. StoreTypeOK' /\ FloorsBounded' /\ FloorsKept /\ UNCHANGED <<versions, level>>
  BY <1>1, ReadOrNothing
<1>6. TypeOK' BY <1>1, <1>2, <1>4, <1>5 DEF TypeOK
<1>7. Moves(h) BY <1>1, <1>4, <1>5 DEF Moves
<1>8. throws => pc'[h] = "idle" BY <1>1, <1>2 DEF Reply, TypeOK
<1>9. ~ (pc'[h] = "put" /\ req'[h].etag # NoEtag) BY <1>3, <1>8
<1> QED BY <1>4, <1>5, <1>6, <1>7, <1>9, MovesKeep DEF ServerInv

LEMMA CheckEtagStep ==
  ASSUME ServerInv, NEW h \in Handlers, CheckEtag(h)
  PROVE  ServerInv'
<1> DEFINE r == req[h]
           k == r.key
           s == SessionOf(r)
<1>1. TypeOK /\ Admitted /\ AcceptedBelow /\ StoreSound
  BY DEF ServerInv, StoreSound, TypeOK
<1>2. pc[h] = "check" /\ UNCHANGED accepted BY DEF CheckEtag
<1>3. r.header # BadHeader /\ r.etag # NoEtag /\ k \in Keys /\ s \in Sessions
  BY <1>1, <1>2, RequestTyped DEF Admitted
<1>4. Len(versions[k]) \in Nat /\ (Present(k) <=> Len(versions[k]) > 0) /\ floor[s][k] \in Nat
      /\ floor[s][k] <= Len(versions[k])
  BY <1>1, <1>3, VersionsTyped DEF StoreSound, FloorsBounded
<1>5. \E v : /\ CompareEtag(h, v)
             /\ v \in Nat /\ v <= Len(versions[k]) /\ floor[s][k] <= v
             /\ level = "linear" \/ v = 0 => v = Len(versions[k])
             /\ UNCHANGED storeVars \/ Get(s, k, v)
  <2>1. CASE Present(k)
    <3>1. PICK i \in Visible(s, k) : Get(s, k, i) /\ CompareEtag(h, i)
      BY <2>1 DEF CheckEtag
    <3>2. i \in Nat /\ i > 0 /\ i <= Len(versions[k]) /\ floor[s][k] <= i
          /\ (level = "linear" => i = Len(versions[k]))
      BY <1>1, <1>3, VisibleAboveFloor
    <3> QED BY <3>1, <3>2
  <2>2. CASE ~ Present(k)
    <3>1. CompareEtag(h, 0) /\ UNCHANGED storeVars BY <2>2 DEF CheckEtag
    <3> QED BY <1>4, <2>2, <3>1
  <2> QED BY <2>1, <2>2
<1>6. PICK v : /\ CompareEtag(h, v)
               /\ v \in Nat /\ v <= Len(versions[k]) /\ floor[s][k] <= v
               /\ level = "linear" \/ v = 0 => v = Len(versions[k])
               /\ UNCHANGED storeVars \/ Get(s, k, v)
  BY <1>5
<1>7. /\ v = r.etag => Goto(h, "put") /\ mtx' = mtx
      /\ v # r.etag => Reply(h, "etag_mismatch") /\ mtx' = Nobody
  BY <1>6 DEF CompareEtag
<1>8. pc[h] \in Posting /\ "etag_mismatch" \in Statuses BY <1>2 DEF Posting, Statuses
<1>9. /\ v = r.etag => pc'[h] = "put" /\ req' = req
      /\ v # r.etag => pc'[h] = "idle"
  BY <1>1, <1>7 DEF Goto, Reply, TypeOK
<1>10. /\ TypeOK' <=> StoreTypeOK' /\ accepted' \in Seq(Accepted)
       /\ Mutex' /\ Admitted'
       /\ \A g \in Handlers \ {h} : pc'[g] = pc[g] /\ req'[g] = req[g]
  BY <1>3, <1>7, <1>8, <1>9, HolderMoves
<1>11. StoreTypeOK' /\ FloorsBounded' /\ FloorsKept /\ UNCHANGED <<versions, level>>
  BY <1>3, <1>6, ReadOrNothing
<1>12. TypeOK' BY <1>1, <1>2, <1>10, <1>11 DEF TypeOK
<1>13. Moves(h) BY <1>2, <1>10, <1>11 DEF Moves
<1>14. ASSUME NEW n \in DOMAIN accepted, accepted[n].session = s, accepted[n].key = k
       PROVE  accepted[n].version <= v
  <2>1. accepted[n].version <= floor[s][k] BY <1>1, <1>14 DEF AcceptedBelow
  <2>2. accepted[n].version \in Nat BY <1>1, AcceptedTyped
  <2> QED BY <1>4, <1>6, <2>1, <2>2
<1>15. v = r.etag => EtagHolds(h)
  BY <1>6, <1>14 DEF EtagHolds
<1>16. v = r.etag => EtagHolds(h)'
  BY <1>2, <1>9, <1>11, <1>15 DEF EtagHolds, SessionOf
<1> QED BY <1>9, <1>10, <1>11, <1>12, <1>13, <1>16, MovesKeep DEF ServerInv

LEMMA PutAndReplyStep ==
  ASSUME ServerInv, NEW h \in Handlers, PutAndReply(h)
  PROVE  ServerInv'
<1> DEFINE r == req[h]
           k == r.key
           e == r.etag
           s == SessionOf(r)
           len == Len(versions[k])
           new == [session |-> s, key |-> k, etag |-> e, version |-> len + 1]
<1>1. /\ TypeOK /\ Admitted /\ AcceptedBelow /\ PutReady /\ StoreSound
      /\ NoLostUpdate /\ RepeatedPostRefused /\ CreateOnce
  BY DEF ServerInv, StoreSound, TypeOK
<1>2. /\ pc[h] = "put" /\ Put(s, k, r.value) /\ mtx' = Nobody /\ Reply(h, "ok")
      /\ accepted' = IF e = NoEtag THEN accepted ELSE Append(accepted, new)
  BY DEF PutAndReply
<1>3. r.header # BadHeader /\ k \in Keys /\ s \in Sessions /\ r.value \in Values
  BY <1>1, <1>2, RequestTyped DEF Admitted
<1>4. len \in Nat BY <1>1, <1>3, VersionsTyped DEF StoreSound
<1>5. /\ StoreTypeOK' /\ FloorsBounded' /\ FloorsKept /\ level' = level
      /\ floor'[s][k] = len + 1
  BY <1>1, <1>2, <1>3, PutEffect DEF StoreSound
<1>6. e # NoEtag => EtagHolds(h) BY <1>1, <1>2 DEF PutReady
<1>7. pc[h] \in Posting /\ "ok" \in Statuses BY <1>2 DEF Posting, Statuses
<1>8. pc'[h] = "idle" BY <1>1, <1>2 DEF Reply, TypeOK
<1>9. /\ TypeOK' <=> StoreTypeOK' /\ accepted' \in Seq(Accepted)
      /\ Mutex' /\ Admitted'
      /\ \A g \in Handlers \ {h} : pc'[g] = pc[g] /\ req'[g] = req[g] /\ pc[g] \notin Posting
  BY <1>2, <1>7, HolderMoves
<1>10. PutReady' BY <1>8, <1>9 DEF PutReady, Posting
<1>11. accepted \in Seq(Accepted) BY <1>1 DEF TypeOK
<1>12. ASSUME NEW n \in DOMAIN accepted
       PROVE  /\ accepted[n].version \in Nat /\ accepted[n].version > 0
              /\ accepted[n].version <= floor'[accepted[n].session][accepted[n].key]
  <2>1. /\ accepted[n].session \in Sessions /\ accepted[n].key \in Keys
        /\ accepted[n].version \in Nat
    BY <1>1, AcceptedTyped
  <2>2. /\ accepted[n].version > 0
        /\ accepted[n].version <= floor[accepted[n].session][accepted[n].key]
    BY <1>1 DEF AcceptedBelow
  <2>3. /\ floor[accepted[n].session][accepted[n].key]
             <= floor'[accepted[n].session][accepted[n].key]
        /\ floor[accepted[n].session][accepted[n].key] \in Nat
        /\ floor'[accepted[n].session][accepted[n].key] \in Nat
    BY <1>1, <1>5, <2>1 DEF FloorsKept, TypeOK, StoreTypeOK
  <2> QED BY <2>1, <2>2, <2>3
<1>13. CASE e = NoEtag
  <2>1. accepted' = accepted BY <1>2, <1>13
  <2>2. TypeOK' BY <1>5, <1>9, <1>11, <2>1
  <2>3. AcceptedBelow' BY <1>12, <2>1 DEF AcceptedBelow
  <2>4. NoLostUpdate' /\ RepeatedPostRefused' /\ CreateOnce'
    BY <1>1, <1>5, <2>1 DEF NoLostUpdate, RepeatedPostRefused, CreateOnce
  <2> QED BY <1>5, <1>9, <1>10, <2>2, <2>3, <2>4 DEF ServerInv
<1>14. CASE e # NoEtag
  <2>1. /\ e \in Nat /\ e <= len /\ (level = "linear" \/ e = 0 => e = len)
        /\ \A n \in DOMAIN accepted :
             accepted[n].session = s /\ accepted[n].key = k => accepted[n].version <= e
    BY <1>6, <1>14 DEF EtagHolds
  <2> HIDE DEF len, s, k, e
  <2>2. new \in Accepted BY <1>3, <1>4, <2>1 DEF Accepted
  <2>3. /\ new.session = s /\ new.key = k /\ new.etag = e /\ new.version = len + 1
    OBVIOUS
  <2> HIDE DEF new
  <2>4. PICK last : last = Len(accepted) + 1 OBVIOUS
  <2>5. accepted' = Append(accepted, new) BY <1>2, <1>14
  <2>6. /\ accepted' \in Seq(Accepted) /\ last \in Nat /\ last \in DOMAIN accepted'
        /\ accepted'[last] = new
        /\ \A n \in DOMAIN accepted' : n # last => n \in DOMAIN accepted /\ accepted'[n] = accepted[n]
        /\ \A n \in DOMAIN accepted' : n \in Nat /\ n <= last
    BY <1>11, <2>2, <2>4, <2>5
  <2>7. TypeOK' BY <1>5, <1>9, <2>6
  <2>8. AcceptedBelow'
    <3> SUFFICES ASSUME NEW n \in DOMAIN accepted'
                 PROVE  /\ accepted'[n].version > 0
                        /\ accepted'[n].version <= floor'[accepted'[n].session][accepted'[n].key]
      BY DEF AcceptedBelow
    <3>1. CASE n = last BY <1>4, <1>5, <2>3, <2>6, <3>1
    <3>2. CASE n # last BY <1>12, <2>6, <3>2
    <3> QED BY <3>1, <3>2
  <2>9. NoLostUpdate'
    <3> SUFFICES ASSUME level = "linear", NEW n \in DOMAIN accepted'
                 PROVE  accepted'[n].version = accepted'[n].etag + 1
      BY <1>5 DEF NoLostUpdate
    <3>1. CASE n = last BY <2>1, <2>3, <2>6, <3>1
    <3>2. CASE n # last BY <1>1, <2>6, <3>2 DEF NoLostUpdate
    <3> QED BY <3>1, <3>2
  <2>10. RepeatedPostRefused'
    <3> SUFFICES ASSUME NEW m \in DOMAIN accepted', NEW n \in DOMAIN accepted', m < n,
                        accepted'[m].session = accepted'[n].session,
                        accepted'[m].key = accepted'[n].key
                 PROVE  accepted'[n].etag >= accepted'[m].version
      BY DEF RepeatedPostRefused
    <3>1. m # last BY <2>6
    <3>2. m \in DOMAIN accepted /\ accepted'[m] = accepted[m] BY <2>6, <3>1
    <3>3. CASE n = last
      <4>1. accepted[m].version <= e BY <2>1, <2>3, <2>6, <3>2, <3>3
      <4>2. accepted[m].version \in Nat BY <1>12, <3>2
      <4> QED BY <2>1, <2>3, <2>6, <3>2, <3>3, <4>1, <4>2
    <3>4. CASE n # last BY <1>1, <2>6, <3>2, <3>4 DEF RepeatedPostRefused
    <3> QED BY <3>3, <3>4
  <2>11. CreateOnce'
    <3> SUFFICES ASSUME NEW n \in DOMAIN accepted', accepted'[n].etag = 0
                 PROVE  accepted'[n].version = 1
      BY DEF CreateOnce
    <3>1. CASE n = last BY <2>1, <2>3, <2>6, <3>1
    <3>2. CASE n # last BY <1>1, <2>6, <3>2 DEF CreateOnce
    <3> QED BY <3>1, <3>2
  <2> QED BY <1>5, <1>9, <1>10, <2>7, <2>8, <2>9, <2>10, <2>11 DEF ServerInv
<1> QED BY <1>13, <1>14
-----------------------------------------------------------------------------
LEMMA ServerInit == Init => ServerInv
<1> SUFFICES ASSUME Init PROVE ServerInv
  OBVIOUS
<1>1. StoreTypeOK /\ FloorsBounded BY StoreSoundInit DEF Init, StoreSound
<1>2. TypeOK BY <1>1, HttpAssumption DEF Init, TypeOK, Statuses
<1>3. Mutex /\ Admitted /\ PutReady BY HttpAssumption DEF Init, Mutex, Admitted, PutReady, Posting
<1>4. accepted = <<>> BY DEF Init
<1>5. AcceptedBelow /\ NoLostUpdate /\ RepeatedPostRefused /\ CreateOnce
  BY <1>4 DEF AcceptedBelow, NoLostUpdate, RepeatedPostRefused, CreateOnce
<1> QED BY <1>1, <1>2, <1>3, <1>5 DEF ServerInv

LEMMA ServerStutter ==
  ASSUME ServerInv, UNCHANGED vars
  PROVE  ServerInv'
<1>1. /\ versions' = versions /\ floor' = floor /\ level' = level /\ mtx' = mtx /\ pc' = pc
      /\ req' = req /\ received' = received /\ reply' = reply /\ accepted' = accepted
  BY DEF vars, storeVars, serverVars
<1>2. TypeOK' /\ FloorsBounded'
  BY <1>1 DEF ServerInv, TypeOK, StoreTypeOK, FloorsBounded
<1>3. Mutex' /\ Admitted' BY <1>1 DEF ServerInv, Mutex, Admitted
<1>4. AcceptedBelow' /\ PutReady'
  BY <1>1 DEF ServerInv, AcceptedBelow, PutReady, EtagHolds, SessionOf
<1>5. NoLostUpdate' /\ RepeatedPostRefused' /\ CreateOnce'
  BY <1>1 DEF ServerInv, NoLostUpdate, RepeatedPostRefused, CreateOnce
<1> QED BY <1>2, <1>3, <1>4, <1>5 DEF ServerInv

LEMMA ServerStep == ServerInv /\ [Next]_vars => ServerInv'
<1> SUFFICES ASSUME ServerInv, [Next]_vars PROVE ServerInv'
  OBVIOUS
<1>1. CASE UNCHANGED vars BY <1>1, ServerStutter
<1>2. ASSUME NEW h \in Handlers, NEW r \in Requests, Receive(h, r) PROVE ServerInv'
  BY <1>2, ReceiveStep
<1>3. ASSUME NEW h \in Handlers, HandlerStep(h) PROVE ServerInv'
  <2>1. CASE HandleGet(h) BY <2>1, HandleGetStep
  <2>2. CASE LockPost(h) BY <2>2, LockPostStep
  <2>3. CASE ReadBody(h) BY <2>3, ReadBodyStep
  <2>4. CASE CheckEtag(h) BY <2>4, CheckEtagStep
  <2>5. CASE PutAndReply(h) BY <2>5, PutAndReplyStep
  <2> QED BY <1>3, <2>1, <2>2, <2>3, <2>4, <2>5 DEF HandlerStep
<1> QED BY <1>1, <1>2, <1>3 DEF Next

\* The inductive invariant of the server holds in every state.
THEOREM ServerInvariant == Spec => []ServerInv
  BY ServerInit, ServerStep, PTL DEF Spec

\* The server's variables keep their types; in particular the etag of an accepted
\* POST was always a version number.
THEOREM ServerTypeOK == Spec => []TypeOK
<1>1. ServerInv => TypeOK BY DEF ServerInv
<1> QED BY <1>1, ServerInvariant, PTL

\* One handler at a time is between the first line and the return of handle_post
\* (http_server.h:125), and it is the one that holds the mutex.
THEOREM PostsExcludeEachOther == Spec => []Mutex
<1>1. ServerInv => Mutex BY DEF ServerInv
<1> QED BY <1>1, ServerInvariant, PTL

\* On a linearizable store no POST with an etag overwrites an update its client
\* has not seen (http_server.h:125, 141-162).
THEOREM UpdatesAreNotLost == Spec => []NoLostUpdate
<1>1. ServerInv => NoLostUpdate BY DEF ServerInv
<1> QED BY <1>1, ServerInvariant, PTL

\* A POST repeated by a session with the etag it has already used is refused,
\* under either selector (http_server.h:141-151).
THEOREM RepeatsAreRefused == Spec => []RepeatedPostRefused
<1>1. ServerInv => RepeatedPostRefused BY DEF ServerInv
<1> QED BY <1>1, ServerInvariant, PTL

\* Etag 0 creates a key, and only one POST does (http_server.h:144-149).
THEOREM KeysAreCreatedOnce == Spec => []CreateOnce
<1>1. ServerInv => CreateOnce BY DEF ServerInv
<1> QED BY <1>1, ServerInvariant, PTL

\* The server only gets and puts: what it gives the store are sessions, keys and
\* values, also when a request is malformed or its etag is refused
\* (http_server.h:93-110, 136-165).
THEOREM ServerUsesTheStore == Spec => StoreSpec
<1>1. Init => StoreInit BY DEF Init
<1>2. ServerInv /\ [Next]_vars => [StoreNext]_storeVars
  <2> SUFFICES ASSUME ServerInv, [Next]_vars PROVE [StoreNext]_storeVars
    OBVIOUS
  <2>1. TypeOK /\ Admitted BY DEF ServerInv
  <2>2. CASE UNCHANGED vars BY <2>2 DEF vars
  <2>3. ASSUME NEW s \in Sessions, NEW k \in Keys, NEW i \in Visible(s, k), Get(s, k, i)
        PROVE  StoreNext
    BY <2>3 DEF StoreNext, Visible
  <2>4. ASSUME NEW h \in Handlers, NEW r \in Requests, Receive(h, r) PROVE UNCHANGED storeVars
    BY <2>4 DEF Receive
  <2>5. ASSUME NEW h \in Handlers, HandleGet(h) PROVE StoreNext \/ UNCHANGED storeVars
    <3>1. req[h].key \in Keys /\ (req[h].header # BadHeader => SessionOf(req[h]) \in Sessions)
      BY <2>1, <2>5, RequestTyped DEF HandleGet
    <3>2. \/ UNCHANGED storeVars
          \/ /\ req[h].header # BadHeader
             /\ \E i \in Visible(SessionOf(req[h]), req[h].key) :
                  Get(SessionOf(req[h]), req[h].key, i)
      BY <2>5 DEF HandleGet
    <3> QED BY <2>3, <3>1, <3>2
  <2>6. ASSUME NEW h \in Handlers, LockPost(h) \/ ReadBody(h) PROVE UNCHANGED storeVars
    BY <2>6 DEF LockPost, ReadBody
  <2>7. ASSUME NEW h \in Handlers, CheckEtag(h) PROVE StoreNext \/ UNCHANGED storeVars
    <3>1. req[h].key \in Keys /\ SessionOf(req[h]) \in Sessions
      BY <2>1, <2>7, RequestTyped DEF CheckEtag, Admitted
    <3>2. \/ UNCHANGED storeVars
          \/ \E i \in Visible(SessionOf(req[h]), req[h].key) :
               Get(SessionOf(req[h]), req[h].key, i)
      BY <2>7 DEF CheckEtag
    <3> QED BY <2>3, <3>1, <3>2
  <2>8. ASSUME NEW h \in Handlers, PutAndReply(h) PROVE StoreNext
    <3>1. req[h].key \in Keys /\ req[h].value \in Values /\ SessionOf(req[h]) \in Sessions
      BY <2>1, <2>8, RequestTyped DEF PutAndReply, Admitted
    <3>2. Put(SessionOf(req[h]), req[h].key, req[h].value) BY <2>8 DEF PutAndReply
    <3> QED BY <3>1, <3>2 DEF StoreNext
  <2> QED BY <2>2, <2>4, <2>5, <2>6, <2>7, <2>8 DEF Next, HandlerStep
<1> QED BY <1>1, <1>2, ServerInvariant, PTL DEF Spec, StoreSpec

\* So no request makes a version disappear or lets a session go back, whatever the
\* handlers interleave.
THEOREM ServerNeverGoesBack == Spec => [][VersionsKept /\ FloorsKept]_storeVars
  BY ServerUsesTheStore, SessionsNeverGoBack, PTL
=============================================================================
