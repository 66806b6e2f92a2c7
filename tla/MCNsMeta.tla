------------------------------ MODULE MCNsMeta ------------------------------
(* One hash that is uploaded as a file of one block or of two, three file  *)
(* ids so that it can come back under a new id, three indexes so that a    *)
(* report can name a block the file does not have, two data servers.       *)
EXTENDS NsMeta, TLC

(* Data servers are interchangeable. *)
Sym == Permutations(DS)

(* Bound: FinishedNum drifts down without limit; stop below -1.       *)
Bound == \A f \in Fid : file[f].finishedNum >= -1
=============================================================================
