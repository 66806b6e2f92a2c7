------------------------------- MODULE MCNsNet -------------------------------
(* Few nodes and peers; the configurations say how much may go wrong.      *)
EXTENDS NsNet, TLC
=============================================================================
