--------------------------- MODULE MCProxyWorkers ---------------------------
(* An instance of ProxyWorkers for TLC. *)
EXTENDS ProxyWorkers
=============================================================================
