--------------------------- MODULE MCStoreClients ---------------------------
(* The instance of StoreClients that the programs run. *)
EXTENDS StoreClients

AllSelectors == {"causal", "linear", "k_causal"}
AllClients == {"simple_app", "causal_test", "etag_test", "linearizable_test"}
=============================================================================
