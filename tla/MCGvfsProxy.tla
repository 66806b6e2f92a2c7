---------------------------- MODULE MCGvfsProxy ----------------------------
(* An instance of GvfsProxy for TLC: four connections, of which one listens *)
(* and two may be clients, so that a client can be without an upstream.     *)
EXTENDS GvfsProxy
=============================================================================
