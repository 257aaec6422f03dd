---------------------------- MODULE CausalOrder ----------------------------
(***************************************************************************)
(* The causal order (wr U so)+ that consistency_checker.h:49-51 names, over *)
(* the committed history: so relates two transactions of a session in      *)
(* commit order, wr a PUT to the GETs that return its value.               *)
(***************************************************************************)
EXTENDS MCKVStore

\* One edge of wr U so between two positions of the history.
DirectlyBefore(m, n) ==
  /\ m < n
  /\ \/ history[m].session = history[n].session
     \/ history[n].op = "GET" /\ history[n].from = history[m].id

\* Past[n]: the positions that reach n by (wr U so)+.
Past[n \in DOMAIN history] ==
  LET before == {m \in 1 .. n - 1 : DirectlyBefore(m, n)}
  IN before \cup UNION {Past[m] : m \in before}

\* The comment of the causal checker says that for (wr U so)+ the GET and PUT
\* transactions of the session on the key itself are enough.  If they were, no
\* GET would return a value that another PUT of its key, in the causal past of
\* the GET, has overwritten (consistency_checker.h:49-65).
CausallyConsistent ==
  \A n \in DOMAIN history : history[n].op = "GET" =>
    \A w, m \in Past[n] :
      ~ /\ history[w].id = history[n].from /\ w \in Past[m]
        /\ history[m].op = "PUT" /\ history[m].key = history[n].key
=============================================================================
