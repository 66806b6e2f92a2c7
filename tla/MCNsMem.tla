------------------------------- MODULE MCNsMem -------------------------------
(* Small pools for TLC: one page to start with, so that the pool grows, and *)
(* sizes that split blocks, leave a rest too small for a block (992 after   *)
(* 2736), and come from malloc (3073).                                      *)
EXTENDS NsMem
=============================================================================
