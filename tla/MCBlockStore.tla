---------------------------- MODULE MCBlockStore ----------------------------
(* Three logic blocks on three block files: the disk can be full, and a    *)
(* block can return to another file than the one it had.                   *)
EXTENDS BlockStore, TLC

(* Logic blocks are interchangeable. *)
Sym == Permutations(Block)
=============================================================================
