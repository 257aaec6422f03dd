----------------------------- MODULE MCTwitter -----------------------------
(* The instance of Twitter that run_twitter runs. *)
EXTENDS Twitter

BothLevels == {"causal", "linear"}
Linear == {"linear"}
FixedOnly == {"fixed"}
AllRuns == {"fixed", "random"}
=============================================================================
