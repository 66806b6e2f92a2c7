----------------------------- MODULE MCNsCluster -----------------------------
(* One file of one block; the configurations choose the data servers, the  *)
(* number of copies and how much may go wrong.                             *)
EXTENDS NsCluster, TLC

(* Data servers are interchangeable where no liveness is checked. *)
Sym == Permutations(DS)

(* Bound: FinishedNum drifts down without limit. *)
Bound == \A f \in Fid : file[f].finishedNum >= -1
=============================================================================
