----------------------------- MODULE HttpServer -----------------------------
(***************************************************************************)
(* kv_store/http_server/http_server.h: GET and POST handlers that run      *)
(* concurrently on the listener's threads, over one store.  A POST holds   *)
(* the server's mutex from its first line to its return, also while it     *)
(* waits for its body; a GET does not take it.  handle_delete is empty.    *)
(*                                                                         *)
(* The store's calls are SessionStore's Get and Put, each atomic under the *)
(* store's own mutex; level says which of the two selectors of the         *)
(* constructor (lines 49-50) is compiled in.                               *)
(***************************************************************************)
EXTENDS SessionStore

CONSTANTS
  Handlers,             \* the listener's threads
  DefaultSession,       \* the session of a request without a session-id header
  NoHeader, BadHeader,  \* no session-id header; one that stol rejects
  NoEtag, BadEtag,      \* no etag field; one that is no version number
  NoRequest, Nobody,
  MaxEtag,              \* bound: etags that clients send
  MaxRequests           \* bound: requests in a behaviour

ASSUME HttpAssumption ==
  /\ DefaultSession \in Sessions
  /\ Nobody \notin Handlers
  /\ MaxEtag \in Nat /\ MaxRequests \in Nat

VARIABLES
  mtx,        \* http_server::mtx
  pc,         \* pc[h]: where handler h stands
  req,        \* req[h]: the request it serves
  received,   \* requests received so far
  reply,      \* reply[h]: status of the reply to the last request, once sent
  accepted    \* POSTs with an etag that were carried out, in order

serverVars == <<mtx, pc, req, received, reply, accepted>>
vars == <<storeVars, serverVars>>

\* A request: its headers, and its path (GET) or body (POST), which may be
\* malformed.  Only a well-formed POST has an etag to tell apart.
Requests ==
  {r \in [op : {"GET", "POST"}, header : Sessions \cup {NoHeader, BadHeader},
          wellFormed : BOOLEAN, key : Keys, value : Values,
          etag : (0 .. MaxEtag) \cup {NoEtag, BadEtag}] :
     /\ r.op = "GET" \/ ~ r.wellFormed \/ r.header = BadHeader => r.etag = NoEtag
     /\ ~ r.wellFormed => r.header = NoHeader}

Statuses == {"none", "ok", "bad_request", "not_found", "etag_mismatch", "error"}

Accepted == [session : Sessions, key : Keys, etag : Nat, version : Nat]

TypeOK ==
  /\ StoreTypeOK
  /\ mtx \in Handlers \cup {Nobody}
  /\ pc \in [Handlers -> {"idle", "received", "body", "check", "put"}]
  /\ DOMAIN req = Handlers
  /\ \A h \in Handlers : IF pc[h] = "idle" THEN req[h] = NoRequest ELSE req[h] \in Requests
  /\ received \in 0 .. MaxRequests
  /\ reply \in [Handlers -> Statuses]
  /\ accepted \in Seq(Accepted)

Init ==
  /\ StoreInit
  /\ mtx = Nobody
  /\ pc = [h \in Handlers |-> "idle"]
  /\ req = [h \in Handlers |-> NoRequest]
  /\ received = 0
  /\ reply = [h \in Handlers |-> "none"]
  /\ accepted = <<>>

\* get_session_id, for a header that parses
SessionOf(r) == IF r.header = NoHeader THEN DefaultSession ELSE r.header

\* Mistake: the handler returns and keeps its request.
ReplyKeepingRequest(h, status) ==
  /\ reply' = [reply EXCEPT ![h] = status]
  /\ pc' = [pc EXCEPT ![h] = "idle"]
  /\ UNCHANGED <<req, received>>

\* Handler h replies and returns (or throws, and the listener replies).
Reply(h, status) ==
  /\ reply' = [reply EXCEPT ![h] = status]
  /\ pc' = [pc EXCEPT ![h] = "idle"]
  /\ req' = [req EXCEPT ![h] = NoRequest]
  /\ UNCHANGED received

Goto(h, place) ==
  /\ pc' = [pc EXCEPT ![h] = place]
  /\ UNCHANGED <<req, received, reply>>
-----------------------------------------------------------------------------
Receive(h, r) ==
  /\ pc[h] = "idle"
  /\ received < MaxRequests
  /\ received' = received + 1
  /\ pc' = [pc EXCEPT ![h] = "received"]
  /\ req' = [req EXCEPT ![h] = r]
  /\ reply' = [reply EXCEPT ![h] = "none"]
  /\ UNCHANGED <<storeVars, mtx, accepted>>

\* handle_get: one call on the store.  The consistency_exception branch is left
\* out: KVStoreProofs shows that the store never throws it.
HandleGet(h) ==
  LET r == req[h]
      s == SessionOf(r)
      refused == r.header = BadHeader \/ ~ r.wellFormed \/ ~ Present(r.key)
  IN /\ pc[h] = "received" /\ r.op = "GET"
     /\ IF refused
          THEN /\ Reply(h, IF r.header = BadHeader THEN "error"
                           ELSE IF ~ r.wellFormed THEN "bad_request" ELSE "not_found")
               /\ UNCHANGED storeVars
          ELSE \E i \in Visible(s, r.key) : Get(s, r.key, i) /\ Reply(h, "ok")
     /\ UNCHANGED <<mtx, accepted>>

\* Mistake: a POST does not take the mutex.
EnterPost(h) ==
  /\ pc[h] = "received" /\ req[h].op = "POST"
  /\ Goto(h, "body")
  /\ UNCHANGED <<storeVars, mtx, accepted>>

\* handle_post takes the server's mutex before anything else.
LockPost(h) ==
  /\ pc[h] = "received" /\ req[h].op = "POST"
  /\ mtx = Nobody
  /\ mtx' = h
  /\ Goto(h, "body")
  /\ UNCHANGED <<storeVars, accepted>>

\* The session id is parsed and the body has arrived; what throws releases the
\* lock_guard.
ReadBody(h) ==
  LET r == req[h]
      throws == r.header = BadHeader \/ ~ r.wellFormed
  IN /\ pc[h] = "body"
     /\ IF throws
          THEN Reply(h, "error") /\ mtx' = Nobody
          ELSE /\ Goto(h, IF r.etag = NoEtag THEN "put" ELSE "check")
               /\ UNCHANGED mtx
     /\ UNCHANGED <<storeVars, accepted>>

\* Mistakes: an older etag is good enough; the refusal leaves the mutex locked.
CompareOlderEtag(h, version) ==
  IF req[h].etag # BadEtag /\ version >= req[h].etag
    THEN Goto(h, "put") /\ UNCHANGED mtx
    ELSE Reply(h, "etag_mismatch") /\ mtx' = Nobody
CompareEtagLocked(h, version) ==
  /\ IF version = req[h].etag THEN Goto(h, "put") ELSE Reply(h, "etag_mismatch")
  /\ UNCHANGED mtx

\* The outcome of comparing the version read with the etag of the request.
CompareEtag(h, version) ==
  IF version = req[h].etag
    THEN Goto(h, "put") /\ UNCHANGED mtx
    ELSE Reply(h, "etag_mismatch") /\ mtx' = Nobody

\* get_with_version; every exception of it leaves the version at 0.
CheckEtag(h) ==
  LET r == req[h]
      s == SessionOf(r)
  IN /\ pc[h] = "check"
     /\ IF Present(r.key)
          THEN \E i \in Visible(s, r.key) : Get(s, r.key, i) /\ CompareEtag(h, i)
          ELSE CompareEtag(h, 0) /\ UNCHANGED storeVars
     /\ UNCHANGED accepted

PutAndReply(h) ==
  LET r == req[h]
      s == SessionOf(r)
  IN /\ pc[h] = "put"
     /\ Put(s, r.key, r.value)
     /\ accepted' = IF r.etag = NoEtag THEN accepted
                    ELSE Append(accepted, [session |-> s, key |-> r.key, etag |-> r.etag,
                                           version |-> Len(versions[r.key]) + 1])
     /\ mtx' = Nobody
     /\ Reply(h, "ok")

HandlerStep(h) ==
  HandleGet(h) \/ LockPost(h) \/ ReadBody(h) \/ CheckEtag(h) \/ PutAndReply(h)

Next ==
  \E h \in Handlers :
    \/ \E r \in Requests : Receive(h, r)
    \/ HandlerStep(h)

Spec == Init /\ [][Next]_vars

\* Every handler that can run runs, and every announced body arrives or fails.
Fairness == \A h \in Handlers : WF_vars(HandlerStep(h))

FairSpec == Spec /\ Fairness
-----------------------------------------------------------------------------
\* With the linearizable selector a POST with etag e writes version e + 1: no
\* update between the version a client saw and its own is ever overwritten, by
\* any interleaving of handlers (http_server.h:125, 141-162).
NoLostUpdate ==
  level = "linear" => \A n \in DOMAIN accepted : accepted[n].version = accepted[n].etag + 1

\* An etag that an accepted POST of a session carried is never accepted again
\* from that session, under either selector: a repeated POST is refused.
RepeatedPostRefused ==
  \A m, n \in DOMAIN accepted :
    m < n /\ accepted[m].session = accepted[n].session /\ accepted[m].key = accepted[n].key
      => accepted[n].etag >= accepted[m].version

\* Etag "0" creates: it is accepted at most once for a key, and then it writes
\* the first version, although the exception that a missing key raises is
\* swallowed and any session may race (http_server.h:144-149).
CreateOnce ==
  \A n \in DOMAIN accepted : accepted[n].etag = 0 => accepted[n].version = 1

\* Every request is answered, whatever the others do.
EveryRequestAnswered == \A h \in Handlers : pc[h] = "received" ~> pc[h] = "idle"

\* "Check if etag matches the latest version" (http_server.h:143): a POST whose
\* etag is not the number of the latest version of its key is not carried out.
EtagMatchesLatest ==
  \A n \in DOMAIN accepted : accepted[n].version = accepted[n].etag + 1
=============================================================================
