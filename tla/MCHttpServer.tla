----------------------------- MODULE MCHttpServer -----------------------------
(* Small instances of HttpServer for TLC. *)
EXTENDS HttpServer, TLC

CONSTANTS k1, v1, s1, s2, h1, h2

BothLevels == {"causal", "linear"}

\* The constructor as it stands installs the causal selector (line 49).
ServerLevel == {"causal"}
=============================================================================
