--------------------------- MODULE NsClusterProofs ---------------------------
(***************************************************************************)
(* The name service and its data servers for any number of files, blocks,  *)
(* data servers and copies and any budget of requests and faults.          *)
(*                                                                         *)
(* What is under way (commands, results, transfers, upload answers) names  *)
(* a block by its file id and index, and may arrive when the file is gone; *)
(* ids are never handed out again.                                         *)
(***************************************************************************)
EXTENDS NsCluster, FiniteSetTheorems, SequenceTheorems, TLAPS

------------------------------------------------------------------------------
(* The metadata by itself: theorems about NsMeta, which NsCluster extends. *)

(* The indexes with a normal copy are finitely many. *)
LEMMA LiveIndexFinite ==
    ASSUME NEW f \in Fid
    PROVE  /\ IsFiniteSet(LiveIndex(f))
           /\ Cardinality(LiveIndex(f)) \in Nat
<1>1. LiveIndex(f) \in SUBSET Index
  BY DEF LiveIndex
<1>2. IsFiniteSet(LiveIndex(f))
  BY <1>1, FS_Subset, MetaAssumption
<1> QED
  BY <1>2, FS_CardinalityType

(* The same after a step. *)
LEMMA LiveIndexFiniteNext ==
    ASSUME NEW f \in Fid
    PROVE  /\ IsFiniteSet(LiveIndex(f)')
           /\ Cardinality(LiveIndex(f)') \in Nat
<1>1. LiveIndex(f)' \in SUBSET Index
  BY DEF LiveIndex
<1>2. IsFiniteSet(LiveIndex(f)')
  BY <1>1, FS_Subset, MetaAssumption
<1> QED
  BY <1>2, FS_CardinalityType

(* Taking one index out of a finite set costs at most one. *)
LEMMA DropOne ==
    ASSUME NEW S, IsFiniteSet(S), NEW T, IsFiniteSet(T), NEW x,
           S \ {x} \subseteq T
    PROVE  Cardinality(T) >= Cardinality(S) - 1
<1>1. /\ IsFiniteSet(S \ {x})
      /\ Cardinality(S \ {x}) =
           IF x \in S THEN Cardinality(S) - 1 ELSE Cardinality(S)
  BY FS_RemoveElement
<1>2. Cardinality(S) \in Nat /\ Cardinality(T) \in Nat
  BY FS_CardinalityType
<1>3. Cardinality(S \ {x}) =< Cardinality(T)
  BY FS_Subset
<1> QED
  BY <1>1, <1>2, <1>3

(* A set that keeps its elements does not get smaller. *)
LEMMA KeepAll ==
    ASSUME NEW S, IsFiniteSet(S), NEW T, IsFiniteSet(T), S \subseteq T
    PROVE  Cardinality(T) >= Cardinality(S)
<1>1. Cardinality(S) =< Cardinality(T)
  BY FS_Subset
<1> QED
  BY <1>1, FS_CardinalityType

-----------------------------------------------------------------------------
(* Type correctness of each procedure. *)

(* What the triggers add to FinishedNum is an integer. *)
LEMMA DeltaType ==
    ASSUME NEW f, NEW i, NEW s
    PROVE  updblock(f, i, s) \in Int /\ cpyblock(f, i) \in Int
BY DEF updblock, cpyblock

(* Changing Status and FinishedNum of a row keeps the type. *)
LEMMA UpdateFileType ==
    ASSUME MetaTypeOK, NEW f \in Fid, Exists(f), NEW n \in Int,
           NEW st \in {"normal", "deleted"}
    PROVE  /\ UpdateFile(f, st, n) \in [Fid -> FileRow \cup {NoFile}]
           /\ UpdateFile(f, st, n)[f].hash = file[f].hash
           /\ UpdateFile(f, st, n)[f].blockNum = file[f].blockNum
           /\ UpdateFile(f, st, n)[f].status = st
           /\ UpdateFile(f, st, n)[f].finishedNum = file[f].finishedNum + n
           /\ \A g \in Fid \ {f} : UpdateFile(f, st, n)[g] = file[g]
           /\ file[f] \in FileRow
<1>1. file[f] \in FileRow
  BY DEF MetaTypeOK, Exists, NoFile
<1>2. [hash |-> file[f].hash, blockNum |-> file[f].blockNum,
       finishedNum |-> file[f].finishedNum + n, status |-> st] \in FileRow
  BY <1>1 DEF FileRow
<1> QED
  BY <1>1, <1>2 DEF MetaTypeOK, UpdateFile

(* Giving rows another Status keeps the type. *)
LEMMA RestatusType ==
    ASSUME MetaTypeOK, NEW f \in Fid,
           NEW s \in BlockStatus, NEW t \in BlockStatus
    PROVE  Restatus(f, s, t) \in [Index -> [DS -> BlockStatus]]
BY DEF MetaTypeOK, Restatus

-----------------------------------------------------------------------------
(* MetaInv holds initially. *)
LEMMA InitInv == MetaInit => MetaInv
<1> SUFFICES ASSUME MetaInit PROVE MetaInv
  OBVIOUS
<1>1. MetaTypeOK
  BY DEF MetaInit, MetaTypeOK, NoFile, NoReply, BlockStatus
<1>2. \A f \in Fid : ~Exists(f)
  BY DEF MetaInit, Exists, NoFile
<1>3. NoOrphanRows
  BY DEF MetaInit, NoOrphanRows
<1> QED
  BY <1>1, <1>2, <1>3 DEF MetaInv, OneFilePerHash, FinishedNumSound

(* Any change of the tables that touches the rows of one existing file f,  *)
(* keeps its hash, and adds to FinishedNum no more than the number of live *)
(* indexes grows, keeps the invariant.                                     *)
LEMMA OneFileStep ==
    ASSUME MetaInv, MetaTypeOK', NEW f \in Fid, Exists(f),
           file'[f].hash = file[f].hash,
           \A g \in Fid \ {f} : file'[g] = file[g] /\ block'[g] = block[g],
           file'[f].finishedNum =< Cardinality(LiveIndex(f)'),
           nextFid' = nextFid
    PROVE  MetaInv'
<1>1. \A g \in Fid : /\ file'[g].hash = file[g].hash
                     /\ Exists(g)' = Exists(g)
  BY DEF Exists
<1>2. OneFilePerHash'
  BY <1>1 DEF MetaInv, OneFilePerHash, Exists
<1>3. NoOrphanRows'
  <2> SUFFICES ASSUME NEW g \in Fid, NEW i \in Index, NEW d \in DS,
                      block'[g][i][d] # "none"
               PROVE  Exists(g)'
    BY DEF NoOrphanRows
  <2>1. CASE g = f
    BY <1>1, <2>1
  <2>2. CASE g # f
    BY <1>1, <2>2 DEF MetaInv, NoOrphanRows
  <2> QED
    BY <2>1, <2>2
<1>4. FinishedNumSound'
  <2> SUFFICES ASSUME NEW g \in Fid, Exists(g)'
               PROVE  file'[g].finishedNum =< Cardinality(LiveIndex(g)')
    BY DEF FinishedNumSound
  <2>2. CASE g = f
    BY <2>2
  <2>3. CASE g # f
    <3>1. LiveIndex(g)' = LiveIndex(g)
      BY <2>3 DEF LiveIndex, Live
    <3> QED
      BY <1>1, <2>3, <3>1 DEF MetaInv, FinishedNumSound
  <2> QED
    BY <2>2, <2>3
<1> QED
  BY <1>2, <1>3, <1>4 DEF MetaInv

-----------------------------------------------------------------------------
(* One lemma per procedure. *)

(* upload_file of a hash that has no row keeps the invariant. *)
LEMMA UploadNewInv ==
    ASSUME MetaInv, NEW h \in Hash, NEW m \in BNum, NEW i \in UploadArg,
           UploadNew(h, m, i)
    PROVE  MetaInv'
<1> DEFINE n == nextFid
<1>1. n \in Fid /\ n \in Nat /\ ~Exists(n)
  BY MetaAssumption DEF UploadNew, MetaInv, OneFilePerHash
<1>2. /\ file'[n] = [hash |-> h, blockNum |-> m,
                     finishedNum |-> 0, status |-> "normal"]
      /\ \A g \in Fid \ {n} : file'[g] = file[g]
      /\ block' = block
  BY <1>1 DEF UploadNew, MetaInv, MetaTypeOK
<1>3. MetaTypeOK'
  <2>1. file'[n] \in FileRow
    BY <1>2, MetaAssumption DEF FileRow
  <2> QED
    BY <1>1, <2>1 DEF UploadNew, UploadArg, MetaInv, MetaTypeOK
<1>4. OneFilePerHash'
  <2>1. \A g \in Fid \ {n} : file'[g].hash # h
    BY <1>2 DEF UploadNew
  <2>2. \A g \in Fid \ {n} : Exists(g)' => g < n + 1
    BY <1>1, <1>2, MetaAssumption DEF MetaInv, OneFilePerHash, Exists
  <2> QED
    BY <1>1, <1>2, <2>1, <2>2, MetaAssumption
       DEF MetaInv, OneFilePerHash, Exists, UploadNew
<1>5. NoOrphanRows'
  BY <1>1, <1>2 DEF MetaInv, NoOrphanRows, Exists
<1>6. FinishedNumSound'
  <2> SUFFICES ASSUME NEW g \in Fid, Exists(g)'
               PROVE  file'[g].finishedNum =< Cardinality(LiveIndex(g)')
    BY DEF FinishedNumSound
  <2>1. LiveIndex(g)' = LiveIndex(g)
    BY <1>2 DEF LiveIndex, Live
  <2>2. CASE g = n
    BY <1>2, <2>1, <2>2, LiveIndexFinite
  <2>3. CASE g # n
    BY <1>2, <2>1, <2>3 DEF MetaInv, FinishedNumSound, Exists
  <2> QED
    BY <2>2, <2>3
<1> QED
  BY <1>3, <1>4, <1>5, <1>6 DEF MetaInv

(* Putting back the rows that are marked deleted makes the revivable       *)
(* indexes live, and no other.                                             *)
LEMMA ReviveCount ==
    ASSUME MetaTypeOK, NEW f \in Fid,
           block' = [block EXCEPT ![f] = Restatus(f, "deleted", "normal")]
    PROVE  /\ Cardinality(LiveIndex(f)') =
                Cardinality(LiveIndex(f)) + Cardinality(Revivable(f))
           /\ Cardinality(Revivable(f)) \in Nat
<1>1. block'[f] = Restatus(f, "deleted", "normal")
  BY DEF MetaTypeOK
<1>2. \A i \in Index, d \in DS :
        block'[f][i][d] = IF block[f][i][d] = "deleted" THEN "normal"
                          ELSE block[f][i][d]
  BY <1>1 DEF Restatus
<1>3. LiveIndex(f)' = LiveIndex(f) \cup Revivable(f)
  BY <1>2 DEF LiveIndex, Live, Revivable
<1>4. LiveIndex(f) \cap Revivable(f) = {}
  BY DEF LiveIndex, Revivable
<1>5. IsFiniteSet(Revivable(f))
  <2>1. Revivable(f) \in SUBSET Index
    BY DEF Revivable
  <2> QED
    BY <2>1, FS_Subset, MetaAssumption
<1>6. Cardinality(LiveIndex(f) \cup Revivable(f)) =
        Cardinality(LiveIndex(f)) + Cardinality(Revivable(f))
          - Cardinality(LiveIndex(f) \cap Revivable(f))
  BY <1>5, LiveIndexFinite, FS_Union
<1>7. Cardinality(Revivable(f)) \in Nat
  BY <1>5, FS_CardinalityType
<1>8. Cardinality(LiveIndex(f) \cap Revivable(f)) = 0
  BY <1>4, FS_EmptySet
<1> QED
  BY <1>3, <1>6, <1>7, <1>8, LiveIndexFinite

(* The two ways upload_file changes the tables of a file it knows. *)
LEMMA ReviveInv ==
    ASSUME MetaInv, NEW f \in Fid, Exists(f), nextFid' = nextFid,
           block' = [block EXCEPT ![f] = Restatus(f, "deleted", "normal")],
           NEW st \in {"normal", "deleted"},
           file' = UpdateFile(f, st, Cardinality(Revivable(f))),
           reply' \in (Hash \cup {NoHash}) \X (Index \cup {-1})
                       \X {0, NewFile, NotUploaded, BlockExists, Finished}
    PROVE  MetaInv'
<1>0. MetaTypeOK /\ file[f] \in FileRow
  BY DEF MetaInv, MetaTypeOK, Exists, NoFile
<1>1. Restatus(f, "deleted", "normal") \in [Index -> [DS -> BlockStatus]]
  BY <1>0, RestatusType DEF BlockStatus
<1>2. /\ block'[f] = Restatus(f, "deleted", "normal")
      /\ \A g \in Fid \ {f} : block'[g] = block[g]
  BY <1>0 DEF MetaTypeOK
<1>4. /\ Cardinality(LiveIndex(f)') =
           Cardinality(LiveIndex(f)) + Cardinality(Revivable(f))
      /\ Cardinality(Revivable(f)) \in Nat
  BY <1>0, ReviveCount
<1>5. /\ file'[f].finishedNum =
           file[f].finishedNum + Cardinality(Revivable(f))
      /\ file'[f].hash = file[f].hash
      /\ file'[f].blockNum = file[f].blockNum
      /\ file' \in [Fid -> FileRow \cup {NoFile}]
      /\ \A g \in Fid \ {f} : file'[g] = file[g]
  BY <1>0, <1>4, UpdateFileType
<1>6. MetaTypeOK'
  BY <1>0, <1>1, <1>2, <1>5 DEF MetaTypeOK
<1>7. file[f].finishedNum =< Cardinality(LiveIndex(f))
  BY DEF MetaInv, FinishedNumSound
<1>8. file'[f].finishedNum =< Cardinality(LiveIndex(f)')
  BY <1>0, <1>4, <1>5, <1>7, LiveIndexFinite DEF FileRow
<1> QED
  BY <1>2, <1>5, <1>6, <1>8, OneFileStep

(* upload_file of a hash that has a row keeps the invariant. *)
LEMMA UploadKnownInv ==
    ASSUME MetaInv, NEW f \in Fid, NEW i \in UploadArg, UploadKnown(f, i)
    PROVE  MetaInv'
<1>1. /\ MetaTypeOK /\ Exists(f) /\ nextFid' = nextFid
      /\ file[f].hash \in Hash
  BY DEF UploadKnown, MetaInv, MetaTypeOK, Exists, NoFile, FileRow
<1>2. reply' \in (Hash \cup {NoHash}) \X (Index \cup {-1})
                   \X {0, NewFile, NotUploaded, BlockExists, Finished}
  <2>1. UploadRet(f, i) \in {NotUploaded, BlockExists, Finished}
    BY DEF UploadRet
  <2> QED
    BY <1>1, <2>1 DEF UploadKnown, UploadArg
<1>3. CASE file[f].status = "deleted"
  BY <1>1, <1>2, <1>3, ReviveInv DEF UploadKnown
<1>4. CASE file[f].status # "deleted"
  <2>1. file' = file /\ block' = block
    BY <1>4 DEF UploadKnown
  <2>2. MetaTypeOK'
    BY <1>1, <1>2, <2>1 DEF MetaTypeOK
  <2> QED
    BY <1>1, <2>1, <2>2 DEF MetaInv, OneFilePerHash, NoOrphanRows,
                            FinishedNumSound, Exists, LiveIndex, Live
<1> QED
  BY <1>3, <1>4

(* So does an upload_file that is cut off. *)
LEMMA UploadKnownCutInv ==
    ASSUME MetaInv, NEW f \in Fid, UploadKnownCut(f)
    PROVE  MetaInv'
<1>1. file' = UpdateFile(f, "deleted", Cardinality(Revivable(f)))
  BY DEF UploadKnownCut, AddFinished
<1>2. reply' \in (Hash \cup {NoHash}) \X (Index \cup {-1})
                   \X {0, NewFile, NotUploaded, BlockExists, Finished}
  BY DEF UploadKnownCut, NoReply
<1> QED
  BY <1>1, <1>2, ReviveInv DEF UploadKnownCut

(* The value of reply when nothing was answered has its type. *)
LEMMA NoReplyType ==
    NoReply \in (Hash \cup {NoHash}) \X (Index \cup {-1})
                  \X {0, NewFile, NotUploaded, BlockExists, Finished}
BY DEF NoReply

(* A FileInfo row may go once its file has no BlockInfo row. *)
LEMMA DropFile ==
    ASSUME MetaInv, NEW f \in Fid, file' = [file EXCEPT ![f] = NoFile],
           \A i \in Index, d \in DS : block'[f][i][d] = "none",
           \A g \in Fid \ {f} : block'[g] = block[g],
           block' \in [Fid -> [Index -> [DS -> BlockStatus]]],
           nextFid' = nextFid, reply' = NoReply
    PROVE  MetaInv'
<1>1. MetaTypeOK'
  BY NoReplyType DEF MetaInv, MetaTypeOK
<1>2. /\ ~Exists(f)'
      /\ \A g \in Fid \ {f} : file'[g] = file[g] /\ Exists(g)' = Exists(g)
      /\ file'[f].hash = NoHash
  BY DEF MetaInv, MetaTypeOK, Exists, NoFile
<1>3. OneFilePerHash'
  BY <1>2 DEF MetaInv, OneFilePerHash, Exists
<1>4. NoOrphanRows'
  BY <1>2 DEF MetaInv, NoOrphanRows
<1>5. FinishedNumSound'
  <2>1. \A g \in Fid \ {f} : LiveIndex(g)' = LiveIndex(g)
    BY DEF LiveIndex, Live
  <2> QED
    BY <1>2, <2>1 DEF MetaInv, FinishedNumSound
<1> QED
  BY <1>1, <1>3, <1>4, <1>5 DEF MetaInv

(* delete_file keeps the invariant. *)
LEMMA DeleteFileInv ==
    ASSUME MetaInv, NEW f \in Fid, DeleteFile(f)
    PROVE  MetaInv'
<1>1. /\ MetaTypeOK /\ Exists(f) /\ nextFid' = nextFid /\ reply' = NoReply
  BY DEF DeleteFile, MetaInv
<1>2. CASE /\ file' = UpdateFile(f, "deleted", -Cardinality(LiveIndex(f)))
           /\ block' = [block EXCEPT ![f] = Restatus(f, "normal", "deleted")]
  <2>1. Restatus(f, "normal", "deleted") \in [Index -> [DS -> BlockStatus]]
    BY <1>1, RestatusType DEF BlockStatus
  <2>2. /\ block'[f] = Restatus(f, "normal", "deleted")
        /\ \A g \in Fid \ {f} : block'[g] = block[g]
        /\ block' \in [Fid -> [Index -> [DS -> BlockStatus]]]
    BY <1>1, <1>2, <2>1 DEF MetaTypeOK
  <2>3. \A i \in Index, d \in DS : block'[f][i][d] # "normal"
    BY <2>2 DEF Restatus
  <2>4. LiveIndex(f)' = {}
    BY <2>3 DEF LiveIndex, Live
  <2>5. /\ file' \in [Fid -> FileRow \cup {NoFile}]
        /\ file'[f].hash = file[f].hash
        /\ file'[f].blockNum = file[f].blockNum
        /\ file'[f].finishedNum =
             file[f].finishedNum + -Cardinality(LiveIndex(f))
        /\ \A g \in Fid \ {f} : file'[g] = file[g]
        /\ file[f].finishedNum \in Int
    BY <1>1, <1>2, UpdateFileType, LiveIndexFinite DEF FileRow
  <2>6. file'[f].finishedNum =< Cardinality(LiveIndex(f)')
    BY <1>1, <2>4, <2>5, LiveIndexFinite, FS_EmptySet
       DEF MetaInv, FinishedNumSound
  <2>7. MetaTypeOK'
    BY <1>1, <2>2, <2>5, NoReplyType DEF MetaTypeOK
  <2> QED
    BY <1>1, <2>2, <2>5, <2>6, <2>7, OneFileStep
<1>3. CASE ~HasRows(f) /\ file' = [file EXCEPT ![f] = NoFile]
             /\ block' = block
  BY <1>1, <1>3, DropFile DEF HasRows, MetaTypeOK
<1> QED
  BY <1>2, <1>3 DEF DeleteFile

(* So does a delete_file that is cut off. *)
LEMMA DeleteFileCutInv ==
    ASSUME MetaInv, NEW f \in Fid, DeleteFileCut(f)
    PROVE  MetaInv'
<1>1. /\ MetaTypeOK /\ Exists(f) /\ nextFid' = nextFid /\ block' = block
      /\ reply' = NoReply
  BY DEF DeleteFileCut, MetaInv
<1>2. /\ file' \in [Fid -> FileRow \cup {NoFile}]
      /\ file'[f].hash = file[f].hash
      /\ file'[f].blockNum = file[f].blockNum
      /\ file'[f].finishedNum = file[f].finishedNum + 0
      /\ \A g \in Fid \ {f} : file'[g] = file[g]
      /\ file[f].finishedNum \in Int
  BY <1>1, UpdateFileType DEF DeleteFileCut, FileRow
<1>3. LiveIndex(f)' = LiveIndex(f)
  BY <1>1 DEF LiveIndex, Live
<1>4. MetaTypeOK'
  BY <1>1, <1>2, NoReplyType DEF MetaTypeOK
<1>5. file'[f].finishedNum =< Cardinality(LiveIndex(f)')
  BY <1>1, <1>2, <1>3 DEF MetaInv, FinishedNumSound
<1> QED
  BY <1>1, <1>2, <1>4, <1>5, OneFileStep DEF MetaInv, NoOrphanRows

(* One row (f, i, d) gets Status s: what happens to the live indexes. *)
LEMMA OneRowStep ==
    ASSUME MetaTypeOK, NEW f \in Fid, NEW i \in Index, NEW d \in DS,
           NEW s \in BlockStatus, block' = SetRow(f, i, d, s)
    PROVE  /\ block' \in [Fid -> [Index -> [DS -> BlockStatus]]]
           /\ \A g \in Fid \ {f} : block'[g] = block[g]
           /\ \A j \in Index, e \in DS :
                block'[f][j][e] = IF j = i /\ e = d THEN s ELSE block[f][j][e]
           /\ LiveIndex(f) \ {i} \subseteq LiveIndex(f)'
           /\ LiveIndex(f)' \subseteq LiveIndex(f) \cup {i}
           /\ s = "normal" => LiveIndex(f)' = LiveIndex(f) \cup {i}
           /\ ~OneLive(f, i) => LiveIndex(f) \subseteq LiveIndex(f)'
           /\ block[f][i][d] # "normal" => LiveIndex(f) \subseteq LiveIndex(f)'
<1>1. /\ block' \in [Fid -> [Index -> [DS -> BlockStatus]]]
      /\ \A g \in Fid \ {f} : block'[g] = block[g]
      /\ \A j \in Index, e \in DS :
           block'[f][j][e] = IF j = i /\ e = d THEN s ELSE block[f][j][e]
  BY DEF MetaTypeOK, SetRow
<1>2. \A j \in Index \ {i} : Live(f, j)' = Live(f, j)
  BY <1>1 DEF Live
<1>3. /\ LiveIndex(f) \ {i} \subseteq LiveIndex(f)'
      /\ LiveIndex(f)' \subseteq LiveIndex(f) \cup {i}
  BY <1>2 DEF LiveIndex
<1>4. s = "normal" => Live(f, i)' # {}
  BY <1>1 DEF Live
<1>5. ~OneLive(f, i) /\ Live(f, i) # {} => Live(f, i)' # {}
  <2> SUFFICES ASSUME ~OneLive(f, i), Live(f, i) # {}
               PROVE  Live(f, i)' # {}
    OBVIOUS
  <2>1. PICK e \in Live(f, i) : TRUE
    OBVIOUS
  <2>2. PICK x \in Live(f, i) : x # d
    BY <2>1 DEF OneLive, Live
  <2> QED
    BY <1>1, <2>2 DEF Live
<1>6. block[f][i][d] # "normal" => Live(f, i) \subseteq Live(f, i)'
  BY <1>1 DEF Live
<1> QED
  BY <1>1, <1>2, <1>3, <1>4, <1>5, <1>6 DEF LiveIndex

(* copy_block keeps the invariant. *)
LEMMA CopyBlockInv ==
    ASSUME MetaInv, NEW f \in Fid, NEW i \in Index, NEW d \in DS,
           CopyBlock(f, i, d)
    PROVE  MetaInv'
<1> DEFINE n == IF block[f][i][d] = "none" THEN cpyblock(f, i)
                ELSE updblock(f, i, "normal")
<1>1. /\ MetaTypeOK /\ Exists(f) /\ nextFid' = nextFid /\ reply' = NoReply
      /\ file[f].status \in {"normal", "deleted"}
  BY DEF CopyBlock, MetaInv, MetaTypeOK, NoFile, FileRow
<1>2. n = IF i \in LiveIndex(f) THEN 0 ELSE 1
  BY DEF cpyblock, updblock, LiveIndex
<1>3. file' = UpdateFile(f, file[f].status, n)
  BY DEF CopyBlock, AddFinished
<1>4. /\ file' \in [Fid -> FileRow \cup {NoFile}]
      /\ file'[f].hash = file[f].hash
      /\ file'[f].blockNum = file[f].blockNum
      /\ file'[f].finishedNum = file[f].finishedNum + n
      /\ \A g \in Fid \ {f} : file'[g] = file[g]
      /\ file[f].finishedNum \in Int
  <2>1. n \in Int
    BY <1>2
  <2> HIDE DEF n
  <2> QED
    BY <1>1, <1>3, <2>1, UpdateFileType DEF FileRow
<1>5. /\ block' \in [Fid -> [Index -> [DS -> BlockStatus]]]
      /\ \A g \in Fid \ {f} : block'[g] = block[g]
      /\ \A j \in Index, e \in DS : block'[f][j][e] =
           IF j = i /\ e = d THEN "normal" ELSE block[f][j][e]
      /\ LiveIndex(f)' = LiveIndex(f) \cup {i}
  <2>1. "normal" \in BlockStatus /\ block' = SetRow(f, i, d, "normal")
    BY DEF CopyBlock, BlockStatus
  <2> QED
    BY <1>1, <2>1, OneRowStep
<1>6. Cardinality(LiveIndex(f)') = Cardinality(LiveIndex(f)) + n
  <2>1. Cardinality(LiveIndex(f) \cup {i}) =
          IF i \in LiveIndex(f) THEN Cardinality(LiveIndex(f))
                               ELSE Cardinality(LiveIndex(f)) + 1
    BY LiveIndexFinite, FS_AddElement
  <2> HIDE DEF n
  <2> QED
    BY <1>2, <1>5, <2>1, LiveIndexFinite
<1>7. file'[f].finishedNum =< Cardinality(LiveIndex(f)')
  BY <1>1, <1>2, <1>4, <1>6, LiveIndexFinite DEF MetaInv, FinishedNumSound
<1>8. MetaTypeOK'
  BY <1>1, <1>4, <1>5, NoReplyType DEF MetaTypeOK
<1> QED
  BY <1>1, <1>4, <1>5, <1>7, <1>8, OneFileStep

(* set_del_ing keeps the invariant. *)
LEMMA SetDelIngInv ==
    ASSUME MetaInv, NEW f \in Fid, NEW i \in Index, NEW d \in DS,
           SetDelIng(f, i, d)
    PROVE  MetaInv'
<1> DEFINE n == updblock(f, i, "deleting")
<1>1. /\ MetaTypeOK /\ Exists(f) /\ nextFid' = nextFid /\ reply' = NoReply
      /\ file[f].status \in {"normal", "deleted"}
  BY DEF SetDelIng, MetaInv, MetaTypeOK, NoFile, FileRow, NoOrphanRows
<1>2. n = IF OneLive(f, i) THEN -1 ELSE 0
  BY DEF updblock
<1>3. file' = UpdateFile(f, file[f].status, n)
  BY DEF SetDelIng, AddFinished
<1>4. /\ file' \in [Fid -> FileRow \cup {NoFile}]
      /\ file'[f].hash = file[f].hash
      /\ file'[f].blockNum = file[f].blockNum
      /\ file'[f].finishedNum = file[f].finishedNum + n
      /\ \A g \in Fid \ {f} : file'[g] = file[g]
      /\ file[f].finishedNum \in Int
  <2>1. n \in Int
    BY <1>2
  <2> HIDE DEF n
  <2> QED
    BY <1>1, <1>3, <2>1, UpdateFileType DEF FileRow
<1>5. /\ block' \in [Fid -> [Index -> [DS -> BlockStatus]]]
      /\ \A g \in Fid \ {f} : block'[g] = block[g]
      /\ \A j \in Index, e \in DS : block'[f][j][e] =
           IF j = i /\ e = d THEN "deleting" ELSE block[f][j][e]
      /\ LiveIndex(f) \ {i} \subseteq LiveIndex(f)'
      /\ ~OneLive(f, i) => LiveIndex(f) \subseteq LiveIndex(f)'
  <2>1. "deleting" \in BlockStatus /\ block' = SetRow(f, i, d, "deleting")
    BY DEF SetDelIng, BlockStatus
  <2> QED
    BY <1>1, <2>1, OneRowStep
<1>6. Cardinality(LiveIndex(f)') >= Cardinality(LiveIndex(f)) + n
  <2>1. CASE OneLive(f, i)
    <3>1. Cardinality(LiveIndex(f)') >= Cardinality(LiveIndex(f)) - 1
      BY <1>5, LiveIndexFinite, LiveIndexFiniteNext, DropOne
    <3> QED
      BY <1>2, <2>1, <3>1, LiveIndexFinite
  <2>2. CASE ~OneLive(f, i)
    <3>1. Cardinality(LiveIndex(f)') >= Cardinality(LiveIndex(f))
      BY <1>5, <2>2, LiveIndexFinite, LiveIndexFiniteNext, KeepAll
    <3> QED
      BY <1>2, <2>2, <3>1, LiveIndexFinite
  <2> QED
    BY <2>1, <2>2
<1>7. file'[f].finishedNum =< Cardinality(LiveIndex(f)')
  <2>1. n \in Int /\ file[f].finishedNum =< Cardinality(LiveIndex(f))
    BY <1>1, <1>2 DEF MetaInv, FinishedNumSound
  <2> HIDE DEF n
  <2> QED
    BY <1>4, <1>6, <2>1, LiveIndexFinite, LiveIndexFiniteNext
<1>8. MetaTypeOK'
  BY <1>1, <1>4, <1>5, NoReplyType DEF MetaTypeOK
<1> QED
  BY <1>1, <1>4, <1>5, <1>7, <1>8, OneFileStep

(* Removing a row that is marked deleting touches no live index. *)
LEMMA RemoveRow ==
    ASSUME MetaInv, NEW f \in Fid, NEW i \in Index, NEW d \in DS,
           block[f][i][d] = "deleting", block' = SetRow(f, i, d, "none"),
           file' = file, nextFid' = nextFid, reply' = NoReply
    PROVE  MetaInv'
<1>1. MetaTypeOK /\ Exists(f)
  BY DEF MetaInv, NoOrphanRows
<1>2. /\ block' \in [Fid -> [Index -> [DS -> BlockStatus]]]
      /\ \A g \in Fid \ {f} : block'[g] = block[g]
      /\ \A j \in Index, e \in DS : block'[f][j][e] =
           IF j = i /\ e = d THEN "none" ELSE block[f][j][e]
      /\ LiveIndex(f) \subseteq LiveIndex(f)'
  <2>1. "none" \in BlockStatus
    BY DEF BlockStatus
  <2> QED
    BY <1>1, <2>1, OneRowStep
<1>3. file'[f].finishedNum =< Cardinality(LiveIndex(f)')
  <2>1. Cardinality(LiveIndex(f)') >= Cardinality(LiveIndex(f))
    BY <1>2, LiveIndexFinite, LiveIndexFiniteNext, KeepAll
  <2>2. /\ file[f].finishedNum =< Cardinality(LiveIndex(f))
        /\ file[f].finishedNum \in Int
    BY <1>1 DEF MetaInv, FinishedNumSound, MetaTypeOK, FileRow, Exists, NoFile
  <2> QED
    BY <2>1, <2>2, LiveIndexFinite, LiveIndexFiniteNext
<1>4. MetaTypeOK'
  BY <1>1, <1>2, NoReplyType DEF MetaTypeOK
<1> QED
  BY <1>1, <1>2, <1>3, <1>4, OneFileStep

(* delete_block keeps the invariant. *)
LEMMA DeleteBlockInv ==
    ASSUME MetaInv, NEW f \in Fid, NEW i \in Index, NEW d \in DS,
           DeleteBlock(f, i, d)
    PROVE  MetaInv'
<1>1. /\ MetaTypeOK /\ nextFid' = nextFid /\ reply' = NoReply
  BY DEF DeleteBlock, MetaInv
<1>2. /\ block' \in [Fid -> [Index -> [DS -> BlockStatus]]]
      /\ \A g \in Fid \ {f} : block'[g] = block[g]
  <2>1. "none" \in BlockStatus
    BY DEF BlockStatus
  <2>2. CASE block' = SetRow(f, i, d, "none")
    BY <1>1, <2>1, <2>2, OneRowStep
  <2>3. CASE block' = block
    BY <1>1, <2>3 DEF MetaTypeOK
  <2> QED
    BY <2>2, <2>3 DEF DeleteBlock
<1>3. CASE \A j \in Index, e \in DS : block'[f][j][e] = "none"
  <2>1. file' = [file EXCEPT ![f] = NoFile]
    BY <1>3 DEF DeleteBlock
  <2> QED
    BY <1>1, <1>2, <1>3, <2>1, DropFile
<1>4. CASE ~(\A j \in Index, e \in DS : block'[f][j][e] = "none")
  <2>1. file' = file
    BY <1>4 DEF DeleteBlock
  <2>2. CASE block[f][i][d] = "deleting"
    <3>1. block' = SetRow(f, i, d, "none")
      BY <2>2 DEF DeleteBlock
    <3> QED
      BY <1>1, <2>1, <2>2, <3>1, RemoveRow
  <2>3. CASE block[f][i][d] # "deleting"
    <3>1. block' = block
      BY <2>3 DEF DeleteBlock
    <3>2. MetaTypeOK'
      BY <1>1, <2>1, <3>1, NoReplyType DEF MetaTypeOK
    <3> QED
      BY <1>1, <2>1, <3>1, <3>2 DEF MetaInv, OneFilePerHash, NoOrphanRows,
                            FinishedNumSound, Exists, LiveIndex, Live
  <2> QED
    BY <2>2, <2>3
<1> QED
  BY <1>3, <1>4

(* So does a delete_block that is cut off. *)
LEMMA DeleteBlockCutInv ==
    ASSUME MetaInv, NEW f \in Fid, NEW i \in Index, NEW d \in DS,
           DeleteBlockCut(f, i, d)
    PROVE  MetaInv'
BY RemoveRow DEF DeleteBlockCut

-----------------------------------------------------------------------------
(* Every step keeps the invariant. *)
LEMMA NextInv == MetaInv /\ [MetaNext]_metaVars => MetaInv'
<1> SUFFICES ASSUME MetaInv, [MetaNext]_metaVars PROVE MetaInv'
  OBVIOUS
<1>1. CASE \E h \in Hash, n \in BNum, i \in UploadArg : UploadNew(h, n, i)
  BY <1>1, UploadNewInv
<1>2. CASE \E f \in Fid, i \in UploadArg : UploadKnown(f, i)
  BY <1>2, UploadKnownInv
<1>3. CASE \E f \in Fid : DeleteFile(f) \/ DeleteFileCut(f)
  BY <1>3, DeleteFileInv, DeleteFileCutInv
<1>4. CASE \E f \in Fid : UploadKnownCut(f)
  BY <1>4, UploadKnownCutInv
<1>5. CASE \E f \in Fid, i \in Index, d \in DS : CopyBlock(f, i, d)
  BY <1>5, CopyBlockInv
<1>6. CASE \E f \in Fid, i \in Index, d \in DS : SetDelIng(f, i, d)
  BY <1>6, SetDelIngInv
<1>7. CASE \E f \in Fid, i \in Index, d \in DS : DeleteBlock(f, i, d)
  BY <1>7, DeleteBlockInv
<1>8. CASE \E f \in Fid, i \in Index, d \in DS : DeleteBlockCut(f, i, d)
  BY <1>8, DeleteBlockCutInv
<1>9. CASE UNCHANGED metaVars
  <2>1. file' = file /\ block' = block /\ nextFid' = nextFid /\ reply' = reply
    BY <1>9 DEF metaVars
  <2>2. MetaTypeOK'
    BY <2>1 DEF MetaInv, MetaTypeOK
  <2> QED
    BY <2>1, <2>2 DEF MetaInv, OneFilePerHash, NoOrphanRows,
                      FinishedNumSound, Exists, LiveIndex, Live
<1> QED
  BY <1>1, <1>2, <1>3, <1>4, <1>5, <1>6, <1>7, <1>8, <1>9 DEF MetaNext

(* MetaInv is an invariant of the metadata: the tables are well typed,     *)
(* there is one FileInfo row per hash, no BlockInfo row without its file,  *)
(* and FinishedNum never exceeds the number of blocks with a normal copy,  *)
(* for any number of files, blocks and data servers.                       *)
THEOREM MetaInvariance == MetaSpec => []MetaInv
<1> QED
  BY InitInv, NextInv, PTL DEF MetaSpec

(* The tables hold rows of the declared columns. *)
THEOREM TypeCorrect == MetaSpec => []MetaTypeOK
<1>1. MetaInv => MetaTypeOK
  BY DEF MetaInv
<1> QED
  BY <1>1, MetaInvariance, PTL

(* FileInfo has no unique key on the hash, yet upload_file, delete_file and *)
(* delete_block never leave two rows for one: uploads and late deletions in  *)
(* any order, cut off or not.                                               *)
THEOREM OneRowPerHash == MetaSpec => []OneFilePerHash
BY MetaInvariance, PTL DEF MetaInv

(* No BlockInfo row outlives its FileInfo row. *)
THEOREM NoOrphans == MetaSpec => []NoOrphanRows
<1>1. MetaInv => NoOrphanRows
  BY DEF MetaInv
<1> QED
  BY <1>1, MetaInvariance, PTL

(* FinishedNum never counts a block without a normal copy. *)
THEOREM FinishedNumIsSound == MetaSpec => []FinishedNumSound
<1>1. MetaInv => FinishedNumSound
  BY DEF MetaInv
<1> QED
  BY <1>1, MetaInvariance, PTL

-----------------------------------------------------------------------------
(* An interval from 0 has as many numbers as its bound says. *)
LEMMA IntervalCount ==
    ASSUME NEW n \in Nat \ {0}
    PROVE  IsFiniteSet(0 .. n - 1) /\ Cardinality(0 .. n - 1) = n
<1> DEFINE m == n - 1
<1>1. 0 \in Int /\ m \in Int /\ ~(0 > m) /\ m - 0 + 1 = n
  OBVIOUS
<1> HIDE DEF m
<1>2. /\ IsFiniteSet(0 .. m)
      /\ Cardinality(0 .. m) = IF 0 > m THEN 0 ELSE m - 0 + 1
  BY <1>1, FS_Interval
<1>3. IsFiniteSet(0 .. m) /\ Cardinality(0 .. m) = n
  BY <1>1, <1>2
<1> QED
  BY <1>3 DEF m

(* The argument behind FILE_FINISHED: FinishedNum is at most the number of *)
(* live indexes, so with FinishedNum = BlockNum there are BlockNum of them, *)
(* and if these are all below BlockNum, no index is left without one.      *)
Complete(f) ==
    /\ Cardinality(LiveIndex(f)) >= file[f].blockNum
    /\ \/ StrayRows(f)
       \/ 0 .. file[f].blockNum - 1 \subseteq LiveIndex(f)

FullMeansLive ==
    \A f \in Fid : Exists(f) /\ file[f].blockNum = file[f].finishedNum
        => Complete(f)

(* The count of the live indexes cannot be full otherwise. *)
LEMMA FullCount == MetaInv => FullMeansLive
<1> SUFFICES ASSUME MetaInv, NEW f \in Fid, Exists(f),
                    file[f].blockNum = file[f].finishedNum
             PROVE  Complete(f)
  BY DEF FullMeansLive
<1> DEFINE n == file[f].blockNum
           S == 0 .. n - 1
<1>1. n \in Nat
  BY DEF MetaInv, MetaTypeOK, Exists, NoFile, FileRow
<1>2. Cardinality(LiveIndex(f)) >= n
  BY <1>1, LiveIndexFinite DEF MetaInv, FinishedNumSound
<1>3. CASE StrayRows(f)
  BY <1>2, <1>3 DEF Complete
<1>4. CASE n = 0
  <2>1. S = {}
    BY <1>4
  <2> QED
    BY <1>2, <2>1 DEF Complete
<1>5. CASE ~StrayRows(f) /\ n # 0
  <2>1. LiveIndex(f) \in SUBSET S
    <3>1. ASSUME NEW i \in LiveIndex(f) PROVE i \in Nat /\ i < n
      <4>1. i \in Nat
        BY MetaAssumption DEF LiveIndex
      <4>2. ~(i >= n)
        BY <1>5, <3>1 DEF StrayRows
      <4> QED
        BY <1>1, <4>1, <4>2
    <3> QED
      BY <1>1, <3>1
  <2>2. IsFiniteSet(S) /\ Cardinality(S) = n
    BY <1>1, <1>5, IntervalCount
  <2>3. /\ Cardinality(LiveIndex(f)) =< Cardinality(S)
        /\ Cardinality(S) = Cardinality(LiveIndex(f)) => S = LiveIndex(f)
    BY <2>1, <2>2, FS_Subset
  <2>4. S = LiveIndex(f)
    BY <1>1, <1>2, <2>2, <2>3, LiveIndexFinite
  <2> QED
    BY <1>2, <2>4 DEF Complete
<1> QED
  BY <1>3, <1>4, <1>5

(* The same in the next state. *)
LEMMA FullCountNext == MetaInv' => FullMeansLive'
BY FullCount, PTL

(* No procedure makes the last FILE_FINISHED answer wrong. *)
LEMMA FinishedStep ==
    MetaInv /\ FinishedMeansComplete /\ [MetaNext]_metaVars
      => FinishedMeansComplete'
<1> SUFFICES ASSUME MetaInv, FinishedMeansComplete, [MetaNext]_metaVars,
                    reply'[3] = Finished
             PROVE  \E f \in Fid : /\ file'[f].hash = reply'[1]
                                   /\ file'[f].status = "normal"
                                   /\ Complete(f)'
  BY DEF FinishedMeansComplete, Complete
<1>1. MetaInv'
  BY NextInv
<1>2. CASE \E f \in Fid, i \in UploadArg : UploadKnown(f, i)
  <2>1. PICK f \in Fid, i \in UploadArg : UploadKnown(f, i)
    BY <1>2
  <2>2. /\ reply' = <<file[f].hash, i, UploadRet(f, i)>>
        /\ Exists(f)
        /\ file[f] \in FileRow
    BY <2>1 DEF UploadKnown, MetaInv, MetaTypeOK, Exists, NoFile
  <2>3. file'[f].blockNum = file'[f].finishedNum
    BY <2>2 DEF UploadRet, Finished, BlockExists, NotUploaded
  <2>4. file'[f].hash = file[f].hash /\ file'[f].status = "normal"
    <3>1. CASE file[f].status = "deleted"
      <4>1. file' = UpdateFile(f, "normal", Cardinality(Revivable(f)))
        BY <2>1, <3>1 DEF UploadKnown
      <4> QED
        BY <4>1 DEF UpdateFile, MetaInv, MetaTypeOK
    <3>2. CASE file[f].status # "deleted"
      BY <2>1, <2>2, <3>2 DEF UploadKnown, FileRow
    <3> QED
      BY <3>1, <3>2
  <2>5. Exists(f)'
    BY <2>2, <2>4 DEF Exists
  <2>6. Complete(f)'
    BY <1>1, <2>3, <2>5, FullCountNext DEF FullMeansLive
  <2> QED
    BY <2>2, <2>4, <2>6
<1>3. CASE UNCHANGED metaVars
  <2>1. file' = file /\ block' = block /\ reply' = reply
    BY <1>3 DEF metaVars
  <2>2. PICK f \in Fid : /\ file[f].hash = reply[1]
                         /\ file[f].status = "normal"
                         /\ Complete(f)
    BY <2>1 DEF FinishedMeansComplete, Complete
  <2>3. LiveIndex(f)' = LiveIndex(f)
    BY <2>1 DEF LiveIndex, Live
  <2>4. Complete(f)'
    BY <2>1, <2>2, <2>3 DEF Complete, StrayRows
  <2> QED
    BY <2>1, <2>2, <2>4
<1>4. CASE \E h \in Hash, n \in BNum, i \in UploadArg : UploadNew(h, n, i)
  BY <1>4 DEF UploadNew, NewFile, Finished
<1>5. CASE reply' = NoReply
  BY <1>5 DEF NoReply, Finished
<1>6. \/ \E h \in Hash, n \in BNum, i \in UploadArg : UploadNew(h, n, i)
      \/ \E f \in Fid, i \in UploadArg : UploadKnown(f, i)
      \/ UNCHANGED metaVars
      \/ reply' = NoReply
  BY DEF MetaNext, DeleteFile, DeleteFileCut, UploadKnownCut,
     CopyBlock, SetDelIng, DeleteBlock, DeleteBlockCut
<1> QED
  BY <1>2, <1>3, <1>4, <1>5, <1>6

(* An upload answered FILE_FINISHED is one of a file that is not deleted   *)
(* and that has as many blocks with a normal copy as its BlockNum says:    *)
(* all of its blocks, unless a data server reported an index beyond them.  *)
(* Whatever numbers of blocks and indexes the requests and reports name,   *)
(* nothing else makes a client skip a transfer the system still needs.     *)
THEOREM FinishedIsComplete == MetaSpec => []FinishedMeansComplete
<1>1. MetaInit => FinishedMeansComplete
  BY DEF MetaInit, FinishedMeansComplete, NoReply, Finished
<1> QED
  BY <1>1, FinishedStep, MetaInvariance, PTL DEF MetaSpec

------------------------------------------------------------------------------
(* The name service with its data servers. *)

(* What is under way. *)
Routed ==
    /\ toDs \in [DS -> Seq(Command)]
    /\ toNs \in [DS -> Seq(Result)]
    /\ push \subseteq Push
    /\ grant \subseteq Grant

Kept ==
    /\ up \subseteq DS
    /\ store \in [DS -> [Fid -> [Index -> Content]]]
    /\ pass \in {"idle", "del", "trim", "wild"}
    /\ todo \subseteq Row
    /\ page \in [{"del0", "del1", "cpy"} -> Nat]
    /\ spoilt \subseteq Spoil
    /\ used \in [{"upload", "delete", "fault"} -> Nat]

(* The inductive invariant. *)
ClusterInv == MetaInv /\ Kept /\ Routed

-----------------------------------------------------------------------------
(* The state is well typed. *)
LEMMA InvTypes == ClusterInv => ClusterTypeOK
BY DEF ClusterInv, MetaInv, Kept, Routed, ClusterTypeOK

-----------------------------------------------------------------------------
(* Every step of the cluster does to the tables what a procedure does, or  *)
(* nothing.                                                                *)

(* What Upload does to the tables is upload_file. *)
LEMMA UploadSimulates ==
    ASSUME NEW h \in Hash, NEW n \in BNum, NEW i \in Index, Upload(h, n, i)
    PROVE  MetaNext
<1>0. i \in UploadArg
  BY DEF UploadArg
<1>1. UploadNew(h, n, i) \/ \E f \in Fid : UploadKnown(f, i)
  BY DEF Upload
<1> QED
  BY <1>0, <1>1 DEF MetaNext

(* The first message of a queue. *)
LEMMA HeadOf ==
    ASSUME ClusterInv, NEW d \in DS
    PROVE  /\ toNs[d] # <<>> => /\ Head(toNs[d]) \in Result
                                /\ Tail(toNs[d]) \in Seq(Result)
           /\ toDs[d] # <<>> => /\ Head(toDs[d]) \in Command
                                /\ Tail(toDs[d]) \in Seq(Command)
<1>1. toNs[d] \in Seq(Result) /\ toDs[d] \in Seq(Command)
  BY DEF ClusterInv, Routed
<1> QED
  BY <1>1, HeadTailProperties

(* A result is handled by delete_block or copy_block. *)
LEMMA RecvSimulates ==
    ASSUME ClusterInv, NEW d \in DS, NsRecv(d)
    PROVE  [MetaNext]_metaVars
<1> DEFINE f == Head(toNs[d])[2]
           i == Head(toNs[d])[3]
<1>1. Head(toNs[d]) \in Result
  BY HeadOf DEF NsRecv, NsDeleted, NsCopied
<1>2. f \in Fid /\ i \in Index
  BY <1>1 DEF Result
<1>3. \/ DeleteBlock(f, i, d)
      \/ Exists(f) /\ CopyBlock(f, i, d)
      \/ UNCHANGED metaVars
  BY DEF NsRecv, NsDeleted, NsCopied
<1> HIDE DEF f, i
<1>4. CASE DeleteBlock(f, i, d)
  BY <1>2, <1>4 DEF MetaNext
<1>5. CASE Exists(f) /\ CopyBlock(f, i, d)
  BY <1>2, <1>5 DEF MetaNext
<1> QED
  BY <1>3, <1>4, <1>5

(* A row is notified by set_del_ing. *)
LEMMA DeleteSimulates ==
    ASSUME ClusterInv, NEW r \in Row, notice_delete_block(r)
    PROVE  [MetaNext]_metaVars
<1>1. r[1] \in Fid /\ r[2] \in Index /\ r[3] \in DS
  BY DEF Row
<1>2. SetDelIng(r[1], r[2], r[3]) \/ UNCHANGED metaVars
  BY DEF notice_delete_block
<1> QED
  BY <1>1, <1>2 DEF MetaNext

(* All others leave the tables alone. *)
LEMMA StepSimulates ==
    ASSUME ClusterInv, [ClusterNext]_clusterVars PROVE [MetaNext]_metaVars
<1>0. todo \subseteq Row
  BY DEF ClusterInv, Kept
<1>1. ASSUME NEW h \in Hash, NEW n \in BNum, NEW i \in Index, Upload(h, n, i)
      PROVE  [MetaNext]_metaVars
  BY <1>1, UploadSimulates
<1>2. ASSUME NEW f \in Fid, Delete(f) PROVE [MetaNext]_metaVars
  <2>1. DeleteFile(f)
    BY <1>2 DEF Delete
  <2> QED
    BY <2>1 DEF MetaNext
<1>3. ASSUME NEW g, NEW d, ClientPut(g, d) \/ ClientPutFails(g, d) \/ ClientPutBroken(g, d)
      PROVE  UNCHANGED metaVars
  BY <1>3 DEF ClientPut, ClientPutFails, ClientPutBroken
<1>4. ASSUME NoticeStart \/ NoticeTrim PROVE UNCHANGED metaVars
  BY <1>4 DEF NoticeStart, NoticeTrim
<1>5. ASSUME NEW r \in todo, NoticeDelete(r) PROVE [MetaNext]_metaVars
  BY <1>0, <1>5, DeleteSimulates DEF NoticeDelete
<1>6. ASSUME NEW d \in DS, NsRecv(d) PROVE [MetaNext]_metaVars
  BY <1>6, RecvSimulates
<1>7. ASSUME NEW d, DsStep(d) \/ Login(d) PROVE UNCHANGED metaVars
  BY <1>7 DEF DsStep, DsDelete, DsBackup, DsBackupMissing, DsStop, Login
<1>8. ASSUME NEW p, PushDone(p) \/ PushBroken(p) PROVE UNCHANGED metaVars
  BY <1>8 DEF PushDone, PushBroken
<1>9. ASSUME Fault PROVE UNCHANGED metaVars
  BY <1>9 DEF Fault, NsCrash, SessionLost, DsCrash, DsStop
<1>10. CASE UNCHANGED clusterVars
  BY <1>10 DEF clusterVars, metaVars
<1> QED
  BY <1>1, <1>2, <1>3, <1>4, <1>5, <1>6, <1>7, <1>8, <1>9, <1>10
     DEF ClusterNext, Client, Notice

(* A step keeps the invariant when what it puts on its way is well formed. *)
LEMMA InvBy ==
    ASSUME ClusterInv, [MetaNext]_metaVars, Kept',
           toDs' \in [DS -> Seq(Command)], toNs' \in [DS -> Seq(Result)],
           push' \subseteq Push, grant' \subseteq Grant
    PROVE  ClusterInv'
BY NextInv DEF ClusterInv, Routed

(* What Spend does to the budgets. *)
LEMMA SpendType ==
    ASSUME used \in [{"upload", "delete", "fault"} -> Nat],
           NEW what \in {"upload", "delete", "fault"}, Spend(what)
    PROVE  used' \in [{"upload", "delete", "fault"} -> Nat]
BY DEF Spend

-----------------------------------------------------------------------------
(* The invariant, action by action. *)

(* An upload: the answer names servers of the map. *)
LEMMA UploadKeeps ==
    ASSUME ClusterInv, NEW h \in Hash, NEW n \in BNum, NEW i \in Index, Upload(h, n, i)
    PROVE  ClusterInv'
<1>1. PICK f \in Fid, S \in gettopn(3) :
        grant' \subseteq grant \cup {[fid |-> f, index |-> i, ds |-> S,
                                     by |-> used["upload"]]}
  BY DEF Upload
<1>2. S \subseteq DS /\ used["upload"] \in Nat
  BY <1>1 DEF gettopn, ClusterInv, Kept
<1>3. grant' \subseteq Grant
  BY <1>1, <1>2 DEF Grant, ClusterInv, Routed
<1>4. Kept'
  BY SpendType DEF Upload, netVars, dsVars, nsVars, ClusterInv, Kept
<1>5. toDs' = toDs /\ toNs' = toNs /\ push' = push /\ [MetaNext]_metaVars
  BY UploadSimulates DEF Upload, netVars, dsVars
<1> QED
  BY <1>3, <1>4, <1>5, InvBy DEF ClusterInv, Routed

(* A delete request. *)
LEMMA DeleteKeeps ==
    ASSUME ClusterInv, NEW f \in Fid, Delete(f) PROVE ClusterInv'
<1>1. [MetaNext]_metaVars
  BY DEF Delete, MetaNext
<1>2. Kept'
  BY SpendType DEF Delete, netVars, dsVars, nsVars, ClusterInv, Kept
<1>3. toDs' = toDs /\ toNs' = toNs /\ push' = push /\ grant' = grant
  BY DEF Delete, netVars, dsVars
<1> QED
  BY <1>1, <1>2, <1>3, InvBy DEF ClusterInv, Routed

(* A result is handled. *)
LEMMA RecvKeeps ==
    ASSUME ClusterInv, NEW d \in DS, NsRecv(d) PROVE ClusterInv'
<1>1. [MetaNext]_metaVars
  BY RecvSimulates
<1>2. Kept'
  BY DEF NsRecv, NsDeleted, NsCopied, dsVars, nsVars, ClusterInv, Kept
<1>3. /\ toDs' = toDs /\ push' = push /\ grant' = grant
      /\ toNs[d] # <<>> /\ toNs' = [toNs EXCEPT ![d] = Tail(@)]
  BY DEF NsRecv, NsDeleted, NsCopied, dsVars
<1>4. toNs' \in [DS -> Seq(Result)]
  BY <1>3, HeadOf DEF ClusterInv, Routed
<1> QED
  BY <1>1, <1>2, <1>3, <1>4, InvBy DEF ClusterInv, Routed

(* A row is notified. *)
LEMMA NoticeDeleteKeeps ==
    ASSUME ClusterInv, NEW r \in todo, NoticeDelete(r) PROVE ClusterInv'
<1>0. r \in Row /\ notice_delete_block(r)
  BY DEF ClusterInv, Kept, NoticeDelete
<1>1. [MetaNext]_metaVars
  BY <1>0, DeleteSimulates
<1>2. Kept'
  BY DEF NoticeDelete, dsVars, ClusterInv, Kept
<1>3. toNs' = toNs /\ push' = push /\ grant' = grant
  BY DEF NoticeDelete, dsVars
<1>4. toDs' \in [DS -> Seq(Command)]
  <2>1. r[1] \in Fid /\ r[2] \in Index /\ r[3] \in DS
    BY <1>0 DEF Row
  <2>2. CASE toDs' = toDs
    BY <2>2 DEF ClusterInv, Routed
  <2>3. CASE /\ block[r[1]][r[2]][r[3]] # "none"
             /\ toDs' = [toDs EXCEPT ![r[3]] =
                           Append(@, <<"delete", r[1], r[2], r[3]>>)]
    <3>1. <<"delete", r[1], r[2], r[3]>> \in Command
      BY <2>1 DEF Command
    <3> QED
      BY <2>1, <2>3, <3>1 DEF ClusterInv, Routed
  <2> QED
    BY <1>0, <2>2, <2>3 DEF notice_delete_block
<1> QED
  BY <1>1, <1>2, <1>3, <1>4, InvBy DEF ClusterInv, Routed

(* The rows that surplus copies are taken from. *)
LEMMA TrimKeeps ==
    ASSUME ClusterInv, NoticeTrim PROVE ClusterInv'
<1>1. PICK S \in Page(RowsWhere(Above), page.del1) :
        /\ Trim(S)
        /\ page' = [page EXCEPT !.del1 = Turn(S, page.del1)]
  BY DEF NoticeTrim
<1>2. S \subseteq Row
  BY <1>1 DEF Page, RowsWhere
<1>3. todo' \subseteq Row /\ pass' \in {"idle", "trim", "wild"}
  <2>1. CASE \E R \in [BlocksOf(S) -> SUBSET S] :
               todo' = UNION {R[b] : b \in BlocksOf(S)} /\ pass' \in {"idle", "trim"}
    BY <1>2, <2>1
  <2>2. CASE \E b \in BlocksOf(S) : \E More \in SUBSET RowsOf(b, Row) :
               todo' = RowsOf(b, S) \cup More /\ pass' = "wild"
    BY <1>2, <2>2 DEF RowsOf
  <2> QED
    BY <1>1, <2>1, <2>2 DEF Trim
<1>4. page' \in [{"del0", "del1", "cpy"} -> Nat]
  BY <1>1 DEF Turn, ClusterInv, Kept
<1>5. Kept'
  BY <1>3, <1>4 DEF NoticeTrim, netVars, dsVars, ClusterInv, Kept
<1>6. /\ toDs' = toDs /\ toNs' = toNs /\ push' = push /\ grant' = grant
      /\ UNCHANGED metaVars
  BY DEF NoticeTrim, netVars, dsVars
<1> QED
  BY <1>5, <1>6, InvBy DEF ClusterInv, Routed

(* A finite set can be listed. *)
LEMMA SetToSeqType ==
    ASSUME NEW S, IsFiniteSet(S) PROVE SetToSeq(S) \in Seq(S)
<1> DEFINE n == Cardinality(S)
<1>1. n \in Nat /\ ExistsBijection(1 .. n, S)
  BY FS_CardinalityType
<1>2. PICK f : f \in Bijection(1 .. n, S)
  BY <1>1 DEF ExistsBijection
<1>3. f \in [1 .. n -> S] /\ IsInjective(f)
  BY <1>2 DEF Bijection, Injection, IsInjective
<1>4. SetToSeq(S) \in [1 .. n -> S]
  BY <1>3 DEF SetToSeq
<1> QED
  BY <1>1, <1>4, SeqDef

(* The rows of the tables are finitely many, since ids are handed out one  *)
(* by one: so are the blocks a page of rows is about.                      *)
LEMMA FewBlocks ==
    ASSUME MetaInv, NEW N, NEW S, S \subseteq RowsWhere(N)
    PROVE  /\ IsFiniteSet(BlocksOf(S))
           /\ \A b \in BlocksOf(S) : b \in Fid \X Index
<1>1. ASSUME NEW b \in BlocksOf(S) PROVE b \in Fid \X Index /\ b[1] < nextFid
  <2>1. PICK r \in S : b = <<r[1], r[2]>>
    BY DEF BlocksOf
  <2>2. /\ r[1] \in Fid /\ r[2] \in Index /\ r[3] \in DS
        /\ block[r[1]][r[2]][r[3]] # "none"
    BY DEF RowsWhere, Row
  <2> QED
    BY <2>1, <2>2 DEF MetaInv, NoOrphanRows, OneFilePerHash
<1>2. nextFid \in Nat /\ IsFiniteSet(Index)
  BY MetaAssumption DEF MetaInv, MetaTypeOK
<1> DEFINE F == {f \in Fid : f < nextFid}
<1>3. IsFiniteSet(F)
  <2>0. F \subseteq Fid /\ Fid \subseteq Nat
    BY MetaAssumption
  <2>1. F \in SUBSET Nat
    BY <2>0
  <2>2. ASSUME NEW f \in F PROVE f <= nextFid
    <3>1. f \in Nat /\ f < nextFid
      BY <2>0
    <3> QED
      BY <1>2, <3>1
  <2> QED
    BY <1>2, <2>1, <2>2, FS_BoundedSetOfNaturals
<1>4. IsFiniteSet(F \X Index)
  BY <1>2, <1>3, FS_Product
<1>5. BlocksOf(S) \in SUBSET (F \X Index)
  BY <1>1
<1>6. IsFiniteSet(BlocksOf(S))
  BY <1>4, <1>5, FS_Subset
<1> QED
  BY <1>1, <1>6

(* The backup commands for the blocks of B. *)
BackupsOf(B) == {m \in Command : m[1] = "backup" /\ <<m[2], m[3]>> \in B}

(* Those for one block are finitely many. *)
LEMMA BackupsKnown ==
    ASSUME NEW B, NEW b \in B, b \in Fid \X Index,
           NEW T, T \subseteq DS
    PROVE  IsFiniteSet(Backups(b, T)) /\ Backups(b, T) \subseteq BackupsOf(B)
<1>1. Backups(b, T) \subseteq BackupsOf(B)
  BY DEF Backups, BackupsOf, Command
<1>2. T \in SUBSET DS /\ IsFiniteSet(DS)
  BY ClusterAssumption
<1>3. IsFiniteSet(T)
  BY <1>2, FS_Subset
<1> DEFINE g == [e \in T |-> <<"backup", b[1], b[2], e>>]
<1>4. g \in Surjection(T, Backups(b, T))
  BY DEF Surjection, Backups
<1> HIDE DEF g
<1>5. IsFiniteSet(Backups(b, T))
  BY <1>3, <1>4, FS_Surjection
<1> QED
  BY <1>1, <1>5

(* The commands of a pass for one data server. *)
LEMMA BatchKnown ==
    ASSUME NEW B, IsFiniteSet(B), B \subseteq Fid \X Index, NEW T,
           \A b \in B : T[b] \subseteq DS
    PROVE  SetToSeq(UNION {Backups(b, T[b]) : b \in B}) \in Seq(BackupsOf(B))
<1> DEFINE G == {Backups(b, T[b]) : b \in B}
           g == [b \in B |-> Backups(b, T[b])]
<1>1. \A b \in B : IsFiniteSet(g[b]) /\ g[b] \subseteq BackupsOf(B)
  BY BackupsKnown
<1>2. g \in Surjection(B, G)
  BY DEF Surjection
<1>3. IsFiniteSet(G)
  <2> HIDE DEF g, G
  <2> QED
    BY <1>2, FS_Surjection
<1>4. \A X \in G : IsFiniteSet(X) /\ X \subseteq BackupsOf(B)
  BY <1>1
<1> HIDE DEF G
<1>5. IsFiniteSet(UNION G) /\ UNION G \subseteq BackupsOf(B)
  BY <1>3, <1>4, FS_UNION
<1>6. SetToSeq(UNION G) \in Seq(BackupsOf(B))
  BY <1>5, SetToSeqType, SeqMonotonic
<1> QED
  BY <1>6 DEF G

(* The commands that get_cpy_block's rows S can make for d as the source. *)
CopiesFrom(S, d) == {m \in Command : m[1] = "backup" /\ <<m[2], m[3], d>> \in S}

(* The queues are longer by the commands of t. *)
Extended(S, t) ==
    /\ \A d \in DS : t[d] \in Seq(CopiesFrom(S, d))
    /\ toDs' = [d \in DS |-> IF d \in up THEN toDs[d] \o t[d] ELSE toDs[d]]

(* The replication part of a pass appends backup commands to the queues of *)
(* data servers that have a row for the block.                             *)
LEMMA CopyCommands ==
    ASSUME ClusterInv, NEW N, NEW S, S \subseteq RowsWhere(N), check_cpy_block(S)
    PROVE  toDs' = toDs \/ \E t : Extended(S, t)
<1>1. ASSUME NEW src \in [BlocksOf(S) -> DS], NEW T \in [BlocksOf(S) -> SUBSET DS],
             \A b \in BlocksOf(S) : <<b[1], b[2], src[b]>> \in S,
             toDs' = [d \in DS |->
               IF d \in up
               THEN toDs[d] \o SetToSeq(UNION {Backups(b, T[b]) :
                                  b \in {c \in BlocksOf(S) : src[c] = d}})
               ELSE toDs[d]]
      PROVE  \E t : Extended(S, t)
  <2> DEFINE B(d) == {c \in BlocksOf(S) : src[c] = d}
             Batch(d) == SetToSeq(UNION {Backups(b, T[b]) : b \in B(d)})
             bt == [d \in DS |-> Batch(d)]
  <2>1. ASSUME NEW d \in DS PROVE Batch(d) \in Seq(CopiesFrom(S, d))
    <3>1. /\ IsFiniteSet(BlocksOf(S))
          /\ \A b \in BlocksOf(S) : b \in Fid \X Index
      BY FewBlocks DEF ClusterInv
    <3>2. B(d) \in SUBSET BlocksOf(S)
      OBVIOUS
    <3>3. IsFiniteSet(B(d))
      BY <3>1, <3>2, FS_Subset
    <3>4. B(d) \subseteq Fid \X Index /\ \A b \in B(d) : T[b] \subseteq DS
      BY <3>1, <3>2
    <3>5. \A b \in B(d) : <<b[1], b[2], d>> \in S
      BY <1>1
    <3> HIDE DEF B
    <3>6. Batch(d) \in Seq(BackupsOf(B(d)))
      BY <3>3, <3>4, BatchKnown
    <3>7. BackupsOf(B(d)) \subseteq CopiesFrom(S, d)
      BY <3>5 DEF BackupsOf, CopiesFrom
    <3> HIDE DEF Batch
    <3> QED
      BY <3>6, <3>7, SeqMonotonic
  <2>2. toDs' = [d \in DS |-> IF d \in up THEN toDs[d] \o Batch(d) ELSE toDs[d]]
    BY <1>1
  <2> HIDE DEF Batch
  <2>3. Extended(S, bt)
    BY <2>1, <2>2 DEF Extended
  <2> HIDE DEF bt
  <2> QED
    BY <2>3
<1> QED
  BY <1>1 DEF check_cpy_block

(* The timer fires. *)
LEMMA StartKeeps ==
    ASSUME ClusterInv, NoticeStart PROVE ClusterInv'
<1>1. PICK S \in Page(RowsWhere(Below), page.cpy), D \in Page(MarkedRows, page.del0) :
         /\ check_cpy_block(S)
         /\ page' = [page EXCEPT !.cpy = Turn(S, page.cpy),
                                 !.del0 = Turn(D, page.del0)]
         /\ todo' = D
         /\ pass' = IF D = {} THEN "idle" ELSE "del"
  BY DEF NoticeStart
<1>2. S \subseteq RowsWhere(Below) /\ D \subseteq Row
  BY <1>1 DEF Page, MarkedRows
<1>3. page' \in [{"del0", "del1", "cpy"} -> Nat]
  <2>1. page \in [{"del0", "del1", "cpy"} -> Nat]
    BY DEF ClusterInv, Kept
  <2>2. Turn(S, page.cpy) \in Nat /\ Turn(D, page.del0) \in Nat
    BY <2>1 DEF Turn
  <2> QED
    BY <1>1, <2>1, <2>2
<1>4. Kept'
  BY <1>1, <1>2, <1>3 DEF NoticeStart, dsVars, ClusterInv, Kept
<1>5. /\ toNs' = toNs /\ push' = push /\ grant' = grant /\ UNCHANGED metaVars
  BY DEF NoticeStart, dsVars
<1>6. toDs' \in [DS -> Seq(Command)]
  <2>0. toDs \in [DS -> Seq(Command)]
    BY DEF ClusterInv, Routed
  <2>1. ASSUME NEW t, Extended(S, t) PROVE toDs' \in [DS -> Seq(Command)]
    <3>1. ASSUME NEW d \in DS PROVE toDs[d] \o t[d] \in Seq(Command)
      <4>1. CopiesFrom(S, d) \subseteq Command
        BY DEF CopiesFrom
      <4>2. t[d] \in Seq(Command)
        BY <2>1, <4>1, SeqMonotonic DEF Extended
      <4> QED
        BY <2>0, <4>2, ConcatProperties
    <3> QED
      BY <2>0, <2>1, <3>1 DEF Extended
  <2>2. CASE toDs' = toDs
    BY <2>0, <2>2
  <2> QED
    BY <1>1, <1>2, <2>1, <2>2, CopyCommands
<1> QED
  BY <1>4, <1>5, <1>6, InvBy DEF ClusterInv, Routed

-----------------------------------------------------------------------------
(* Data servers. *)

(* A data server that stores and reports one block. *)
LEMMA KeepType ==
    ASSUME store \in [DS -> [Fid -> [Index -> Content]]],
           NEW d \in DS, NEW f \in Fid, NEW i \in Index, NEW c \in Content,
           Keep(d, f, i, c)
    PROVE  store' \in [DS -> [Fid -> [Index -> Content]]]
BY DEF Keep

(* Its report. *)
LEMMA ReportType ==
    ASSUME toNs \in [DS -> Seq(Result)], NEW d \in DS,
           NEW what \in {"deleted", "copied"}, NEW f \in Fid, NEW i \in Index,
           Report(d, what, f, i)
    PROVE  toNs' \in [DS -> Seq(Result)]
<1>1. <<what, f, i>> \in Result
  BY DEF Result
<1> QED
  BY <1>1 DEF Report

(* Transfer t ends at d and leaves c there; it is reported, or not. *)
Ends(t, d, c, why) ==
    /\ Keep(d, t.fid, t.index, c)
    /\ Mark(t, d, why)
    /\ UNCHANGED toNs \/ Report(d, "copied", t.fid, t.index)

(* What is there then is known. *)
LEMMA EndsType ==
    ASSUME ClusterInv, NEW t, t.fid \in Fid, t.index \in Index, NEW d \in DS,
           NEW c, NEW why \in SUBSET {"write", "part"}, Ends(t, d, c, why),
           c \in Written(t, d) \cup Broken(t, d) \cup {"partial"}
    PROVE  /\ store' \in [DS -> [Fid -> [Index -> Content]]]
           /\ toNs' \in [DS -> Seq(Result)]
           /\ spoilt' \subseteq Spoil
<1>0. /\ store \in [DS -> [Fid -> [Index -> Content]]]
      /\ toNs \in [DS -> Seq(Result)]
      /\ spoilt \subseteq Spoil
  BY DEF ClusterInv, Kept, Routed
<1>1. c \in Content
  <2>1. store[d][t.fid][t.index] \in Content
    BY <1>0
  <2>2. Torn(t, d) \subseteq {"partial"}
    BY DEF Torn
  <2>3. Broken(t, d) \subseteq Content
    BY <2>1, <2>2 DEF Broken, Content
  <2>4. Written(t, d) \subseteq Content
    BY <2>2 DEF Written, Content
  <2> QED
    BY <2>3, <2>4 DEF Content
<1>2. spoilt' \subseteq Spoil
  BY <1>0 DEF Ends, Mark, Spoil
<1>3. toNs' \in [DS -> Seq(Result)]
  BY <1>0, ReportType DEF Ends
<1>4. store' \in [DS -> [Fid -> [Index -> Content]]]
  BY <1>0, <1>1, KeepType DEF Ends
<1> QED
  BY <1>2, <1>3, <1>4

(* How a client's transfer ends. *)
LEMMA ClientPutEnds ==
    ASSUME NEW g, NEW d,
           ClientPut(g, d) \/ ClientPutFails(g, d) \/ ClientPutBroken(g, d)
    PROVE  \/ \E c \in Written(g, d) : Ends(g, d, c, {})
           \/ \E c \in Broken(g, d) : Ends(g, d, c, {"write"})
           \/ \E c \in Broken(g, d) : Ends(g, d, c, {}) /\ UNCHANGED toNs
<1>1. CASE ClientPut(g, d)
  BY <1>1 DEF ClientPut, Ends
<1>2. CASE ClientPutFails(g, d)
  BY <1>2 DEF ClientPutFails, Ends
<1>3. CASE ClientPutBroken(g, d)
  BY <1>3 DEF ClientPutBroken, Ends
<1> QED
  BY <1>1, <1>2, <1>3

(* How a transfer between data servers ends. *)
LEMMA PushEnds ==
    ASSUME NEW p, PushDone(p) \/ PushBroken(p)
    PROVE  \/ \E c \in Written(p, p.dst) : Ends(p, p.dst, c, {})
           \/ Ends(p, p.dst, "partial", {"part"})
           \/ \E c \in Broken(p, p.dst) : Ends(p, p.dst, c, {"write"})
           \/ \E c \in Broken(p, p.dst) : Ends(p, p.dst, c, {}) /\ UNCHANGED toNs
<1>1. CASE PushDone(p)
  BY <1>1 DEF PushDone, Ends
<1>2. CASE PushBroken(p)
  BY <1>2 DEF PushBroken, netVars, Ends
<1> QED
  BY <1>1, <1>2

(* A client's transfer ends, broken off or not. *)
LEMMA ClientPutKeeps ==
    ASSUME ClusterInv, NEW g \in grant, NEW d \in DS,
           ClientPut(g, d) \/ ClientPutFails(g, d) \/ ClientPutBroken(g, d)
    PROVE  ClusterInv'
<1>0. /\ toDs \in [DS -> Seq(Command)]
      /\ push \subseteq Push /\ grant \subseteq Grant
  BY DEF ClusterInv, Kept, Routed
<1>1. g.fid \in Fid /\ g.index \in Index /\ g.ds \subseteq DS
  BY <1>0 DEF Grant
<1>2. /\ UNCHANGED metaVars /\ up' = up /\ toDs' = toDs /\ UNCHANGED nsVars
      /\ grant' \subseteq grant
      /\ UNCHANGED used \/ Spend("fault")
  BY DEF ClientPut, ClientPutFails, ClientPutBroken
<1>3. /\ store' \in [DS -> [Fid -> [Index -> Content]]]
      /\ toNs' \in [DS -> Seq(Result)]
      /\ spoilt' \subseteq Spoil
  <2>1. PICK c \in Written(g, d) \cup Broken(g, d), why \in SUBSET {"write", "part"} :
          Ends(g, d, c, why)
    BY ClientPutEnds
  <2> QED
    BY <1>1, <2>1, EndsType
<1>4. push' \subseteq Push
  <2>1. CASE push' = push
    BY <1>0, <2>1
  <2>2. CASE PushRest(g, d)
    <3>1. \A e \in g.ds : [fid |-> g.fid, index |-> g.index, src |-> d, dst |-> e]
                            \in Push
      BY <1>1 DEF Push
    <3> QED
      BY <1>0, <2>2, <3>1 DEF PushRest
  <2> QED
    BY <2>1, <2>2 DEF ClientPut, ClientPutFails, ClientPutBroken
<1>5. Kept'
  BY <1>2, <1>3, SpendType DEF ClusterInv, Kept, nsVars
<1> QED
  BY <1>0, <1>2, <1>3, <1>4, <1>5, InvBy

(* A transfer between data servers ends, broken off or not. *)
LEMMA PushKeeps ==
    ASSUME ClusterInv, NEW p \in push, PushDone(p) \/ PushBroken(p)
    PROVE  ClusterInv'
<1>0. /\ toDs \in [DS -> Seq(Command)]
      /\ push \subseteq Push /\ grant \subseteq Grant
  BY DEF ClusterInv, Kept, Routed
<1>1. p.fid \in Fid /\ p.index \in Index /\ p.src \in DS /\ p.dst \in DS
  BY <1>0 DEF Push
<1>2. /\ UNCHANGED metaVars /\ up' = up /\ toDs' = toDs /\ UNCHANGED nsVars
      /\ grant' = grant /\ push' \subseteq push
      /\ UNCHANGED used \/ Spend("fault")
  BY DEF PushDone, PushBroken, netVars
<1>3. /\ store' \in [DS -> [Fid -> [Index -> Content]]]
      /\ toNs' \in [DS -> Seq(Result)]
      /\ spoilt' \subseteq Spoil
  <2>1. PICK c \in Written(p, p.dst) \cup Broken(p, p.dst) \cup {"partial"},
             why \in SUBSET {"write", "part"} : Ends(p, p.dst, c, why)
    BY PushEnds
  <2> QED
    BY <1>1, <2>1, EndsType
<1>4. Kept'
  BY <1>2, <1>3, SpendType DEF ClusterInv, Kept, nsVars
<1> QED
  BY <1>0, <1>2, <1>3, <1>4, InvBy

(* What a deletion spoils. *)
LEMMA CrossingsType ==
    ASSUME NEW d \in DS, NEW B \in SUBSET (Fid \X Index)
    PROVE  Crossings(d, B) \subseteq Spoil
BY DEF Crossings, Spoil

(* A command is carried out. *)
LEMMA CommandKeeps ==
    ASSUME ClusterInv, NEW d \in DS, DsDelete(d) \/ DsBackup(d)
    PROVE  ClusterInv'
<1> DEFINE m == Head(toDs[d])
<1>0. /\ store \in [DS -> [Fid -> [Index -> Content]]]
      /\ toNs \in [DS -> Seq(Result)]
      /\ toDs \in [DS -> Seq(Command)]
      /\ push \subseteq Push /\ grant \subseteq Grant
  BY DEF ClusterInv, Kept, Routed
<1>1. m \in Command /\ Tail(toDs[d]) \in Seq(Command)
  BY HeadOf DEF DsDelete, DsBackup
<1>2. m[2] \in Fid /\ m[3] \in Index /\ m[4] \in DS
  BY <1>1 DEF Command
<1>3. /\ UNCHANGED metaVars /\ up' = up /\ UNCHANGED nsVars
      /\ grant' = grant /\ used' = used
      /\ toDs' = [toDs EXCEPT ![d] = Tail(@)]
  BY DEF DsDelete, DsBackup
<1>4. \/ /\ Keep(d, m[2], m[3], "none") /\ Report(d, "deleted", m[2], m[3])
         /\ push' = push /\ spoilt' = spoilt \cup Crossings(d, {<<m[2], m[3]>>})
      \/ /\ store' = store /\ toNs' = toNs /\ spoilt' = spoilt
         /\ push' = push \cup {[fid |-> m[2], index |-> m[3], src |-> d, dst |-> m[4]]}
  BY DEF DsDelete, DsBackup
<1> HIDE DEF m
<1>5. /\ store' \in [DS -> [Fid -> [Index -> Content]]]
      /\ toNs' \in [DS -> Seq(Result)]
  BY <1>0, <1>2, <1>4, KeepType, ReportType DEF Content
<1>6. [fid |-> m[2], index |-> m[3], src |-> d, dst |-> m[4]] \in Push
  BY <1>2 DEF Push
<1>7. push' \subseteq Push
  BY <1>0, <1>4, <1>6
<1>8. Kept'
  <2>1. Crossings(d, {<<m[2], m[3]>>}) \subseteq Spoil
    BY <1>2, CrossingsType
  <2> QED
    BY <1>3, <1>4, <1>5, <2>1 DEF ClusterInv, Kept, nsVars
<1>9. toDs' \in [DS -> Seq(Command)]
  BY <1>0, <1>1, <1>3
<1> QED
  BY <1>0, <1>3, <1>5, <1>7, <1>8, <1>9, InvBy

(* The process of a data server ends. *)
LEMMA StopKeeps ==
    ASSUME ClusterInv, NEW d \in DS, NEW disk \in [Fid -> [Index -> Content]],
           DsStop(d, disk), UNCHANGED used \/ Spend("fault"),
           spoilt' \subseteq Spoil
    PROVE  ClusterInv'
<1>0. /\ store \in [DS -> [Fid -> [Index -> Content]]]
      /\ toNs \in [DS -> Seq(Result)]
      /\ toDs \in [DS -> Seq(Command)]
      /\ push \subseteq Push /\ grant \subseteq Grant
  BY DEF ClusterInv, Kept, Routed
<1>1. /\ <<>> \in Seq(Command) /\ <<>> \in Seq(Result)
  OBVIOUS
<1>2. /\ toDs' \in [DS -> Seq(Command)] /\ toNs' \in [DS -> Seq(Result)]
      /\ push' \subseteq Push /\ grant' = grant /\ UNCHANGED metaVars
  BY <1>0, <1>1 DEF DsStop
<1>3. Kept'
  BY SpendType DEF DsStop, ClusterInv, Kept, nsVars
<1> QED
  BY <1>0, <1>2, <1>3, InvBy

(* A backup command for a missing block ends the process. *)
LEMMA MissingKeeps ==
    ASSUME ClusterInv, NEW d \in DS, DsBackupMissing(d) PROVE ClusterInv'
<1>1. PICK n \in 1 .. Len(toDs[d]) :
        /\ DsStop(d, Executed(d, n))
        /\ spoilt' = spoilt \cup Crossings(d, DeletedBy(d, n))
        /\ UNCHANGED used
  BY DEF DsBackupMissing
<1>2. Executed(d, n) \in [Fid -> [Index -> Content]]
  BY DEF Executed, Content, ClusterInv, Kept
<1>3. Crossings(d, DeletedBy(d, n)) \subseteq Spoil
  BY CrossingsType DEF DeletedBy
<1> QED
  BY <1>1, <1>2, <1>3, StopKeeps DEF ClusterInv, Kept

(* A crash leaves the disk as it is. *)
LEMMA CrashKeeps ==
    ASSUME ClusterInv, NEW d \in DS, DsCrash(d) PROVE ClusterInv'
<1>1. store[d] \in [Fid -> [Index -> Content]]
  BY DEF ClusterInv, Kept
<1> QED
  BY <1>1, StopKeeps DEF DsCrash, ClusterInv, Kept

(* The end of a queue of results. *)
LEMMA RestKnown ==
    ASSUME ClusterInv, NEW d \in DS, NEW n \in Nat
    PROVE  SubSeq(toNs[d], n + 1, Len(toNs[d])) \in Seq(Result)
<1>1. toNs[d] \in Seq(Result)
  BY DEF ClusterInv, Routed
<1>2. Len(toNs[d]) \in Nat /\ \A i \in 1 .. Len(toNs[d]) : toNs[d][i] \in Result
  BY <1>1, LenProperties
<1>3. \A i \in n + 1 .. Len(toNs[d]) : toNs[d][i] \in Result
  BY <1>2
<1> QED
  BY <1>2, <1>3, SubSeqProperties

(* The results that stay are the end of the queue. *)
LEMMA SessionKeeps ==
    ASSUME ClusterInv, NEW d \in DS, SessionLost(d) PROVE ClusterInv'
<1>0. /\ toNs \in [DS -> Seq(Result)] /\ toDs \in [DS -> Seq(Command)]
      /\ push \subseteq Push /\ grant \subseteq Grant
  BY DEF ClusterInv, Routed
<1>1. Len(toNs[d]) \in Nat
  BY <1>0
<1>2. PICK n \in 0 .. Len(toNs[d]) :
        toNs' = [toNs EXCEPT ![d] = SubSeq(@, n + 1, Len(@))]
  BY DEF SessionLost
<1>3. SubSeq(toNs[d], n + 1, Len(toNs[d])) \in Seq(Result)
  BY <1>1, RestKnown
<1>4. toNs' \in [DS -> Seq(Result)]
  BY <1>0, <1>2, <1>3
<1>5. toDs' \in [DS -> Seq(Command)]
  BY <1>0 DEF SessionLost
<1>6. push' = push /\ grant' = grant /\ UNCHANGED metaVars
  BY DEF SessionLost, dsVars
<1>7. Kept'
  BY SpendType DEF SessionLost, ClusterInv, Kept, dsVars, nsVars
<1> QED
  BY <1>0, <1>4, <1>5, <1>6, <1>7, InvBy

(* The name service dies; every queue loses its front. *)
LEMMA NsCrashKeeps ==
    ASSUME ClusterInv, NsCrash PROVE ClusterInv'
<1>0. /\ toNs \in [DS -> Seq(Result)] /\ toDs \in [DS -> Seq(Command)]
      /\ push \subseteq Push /\ grant \subseteq Grant
  BY DEF ClusterInv, Routed
<1>2. PICK n \in [DS -> 0 .. MaxQueue] :
        toNs' = [d \in DS |-> SubSeq(toNs[d], n[d] + 1, Len(toNs[d]))]
  BY DEF NsCrash
<1>3. \A d \in DS : SubSeq(toNs[d], n[d] + 1, Len(toNs[d])) \in Seq(Result)
  BY RestKnown, ClusterAssumption
<1>4. toNs' \in [DS -> Seq(Result)]
  BY <1>2, <1>3
<1>5. toDs' \in [DS -> Seq(Command)]
  BY <1>0 DEF NsCrash
<1>6. push' = push /\ grant' = grant /\ UNCHANGED metaVars
  BY DEF NsCrash, dsVars
<1>7. Kept'
  BY SpendType DEF NsCrash, ClusterInv, Kept, dsVars
<1> QED
  BY <1>0, <1>4, <1>5, <1>6, <1>7, InvBy

(* A login sends nothing. *)
LEMMA LoginKeeps ==
    ASSUME ClusterInv, NEW d \in DS, Login(d) PROVE ClusterInv'
<1>1. /\ toNs' = toNs /\ toDs' = toDs /\ push' = push /\ grant' = grant
      /\ UNCHANGED metaVars
  BY DEF Login, dsVars
<1>2. Kept'
  BY DEF Login, ClusterInv, Kept, dsVars, nsVars
<1> QED
  BY <1>1, <1>2, InvBy DEF ClusterInv, Routed

-----------------------------------------------------------------------------
(* At the start nothing is under way. *)
LEMMA ClusterStart == ClusterInit => ClusterInv
<1> SUFFICES ASSUME ClusterInit PROVE ClusterInv
  OBVIOUS
<1>1. MetaInv
  BY InitInv DEF ClusterInit
<1>2. Kept
  BY ClusterAssumption DEF ClusterInit, Kept, Content
<1>3. <<>> \in Seq(Command) /\ <<>> \in Seq(Result)
  OBVIOUS
<1>4. Routed
  BY <1>3 DEF ClusterInit, Routed
<1> QED
  BY <1>1, <1>2, <1>4 DEF ClusterInv

(* Every step keeps the invariant. *)
LEMMA ClusterStep == ClusterInv /\ [ClusterNext]_clusterVars => ClusterInv'
<1> SUFFICES ASSUME ClusterInv, [ClusterNext]_clusterVars PROVE ClusterInv'
  OBVIOUS
<1>1. CASE Client
  BY <1>1, UploadKeeps, DeleteKeeps, ClientPutKeeps DEF Client
<1>2. CASE Notice
  BY <1>2, StartKeeps, TrimKeeps, NoticeDeleteKeeps DEF Notice
<1>3. CASE Fault
  BY <1>3, NsCrashKeeps, SessionKeeps, CrashKeeps DEF Fault
<1>4. ASSUME NEW d \in DS, NsRecv(d) \/ DsStep(d) \/ Login(d) PROVE ClusterInv'
  BY <1>4, RecvKeeps, CommandKeeps, MissingKeeps, LoginKeeps DEF DsStep
<1>5. ASSUME NEW p \in push, PushDone(p) \/ PushBroken(p) PROVE ClusterInv'
  BY <1>5, PushKeeps
<1>6. CASE UNCHANGED clusterVars
  <2>1. /\ UNCHANGED metaVars /\ up' = up /\ toDs' = toDs /\ toNs' = toNs
        /\ store' = store /\ push' = push /\ grant' = grant /\ pass' = pass
        /\ todo' = todo /\ page' = page /\ used' = used /\ spoilt' = spoilt
    BY <1>6 DEF clusterVars, metaVars
  <2>2. Kept'
    BY <2>1 DEF ClusterInv, Kept
  <2> QED
    BY <2>1, <2>2, InvBy DEF ClusterInv, Routed
<1> QED
  BY <1>1, <1>2, <1>3, <1>4, <1>5, <1>6 DEF ClusterNext

(* ClusterInv is an invariant of the name service and its data servers. *)
THEOREM ClusterInvariance == ClusterSpec => []ClusterInv
BY ClusterStart, ClusterStep, PTL DEF ClusterSpec

(* Refinement: whatever messages are lost, late or about files that are    *)
(* gone, the handlers of the name service change the tables only the way   *)
(* the stored procedures do; so everything that is proved of MetaSpec      *)
(* holds of the cluster.                                                   *)
THEOREM TablesImplemented == ClusterSpec => MetaSpec
<1>1. ClusterInit => MetaInit
  BY DEF ClusterInit
<1>2. ClusterInv /\ [ClusterNext]_clusterVars => [MetaNext]_metaVars
  BY StepSimulates
<1> QED
  BY <1>1, <1>2, ClusterInvariance, PTL DEF ClusterSpec, MetaSpec

-----------------------------------------------------------------------------
(* Commands and results of a deletion. *)

(* What a queue contains after one more, or one less, message. *)
LEMMA ContainsAppend ==
    ASSUME NEW S, NEW s \in Seq(S), NEW e \in S, NEW x
    PROVE  Contains(Append(s, e), x) <=> Contains(s, x) \/ x = e
<1>1. /\ Len(s) \in Nat /\ Len(Append(s, e)) = Len(s) + 1
      /\ Append(s, e)[Len(s) + 1] = e
      /\ \A i \in 1 .. Len(s) : Append(s, e)[i] = s[i]
  OBVIOUS
<1> QED
  BY <1>1 DEF Contains

(* A message that is not the first one stays. *)
LEMMA ContainsTail ==
    ASSUME NEW S, NEW s \in Seq(S), s # <<>>, NEW x, Contains(s, x), x # Head(s)
    PROVE  Contains(Tail(s), x)
<1>1. PICK i \in 1 .. Len(s) : s[i] = x
  BY DEF Contains
<1>2. /\ Len(s) \in Nat /\ Len(Tail(s)) = Len(s) - 1 /\ Head(s) = s[1]
      /\ \A j \in 1 .. Len(Tail(s)) : Tail(s)[j] = s[j + 1]
  OBVIOUS
<1>3. i - 1 \in 1 .. Len(Tail(s)) /\ i - 1 + 1 = i
  BY <1>1, <1>2
<1>4. Tail(s)[i - 1] = x
  BY <1>1, <1>2, <1>3
<1> QED
  BY <1>3, <1>4 DEF Contains

(* Messages stay when others are put behind them. *)
LEMMA ContainsConcat ==
    ASSUME NEW S, NEW s \in Seq(S), NEW t \in Seq(S), NEW x, Contains(s, x)
    PROVE  Contains(s \o t, x)
<1>1. PICK i \in 1 .. Len(s) : s[i] = x
  BY DEF Contains
<1>2. /\ Len(s) \in Nat /\ Len(t) \in Nat /\ Len(s \o t) = Len(s) + Len(t)
      /\ (s \o t)[i] = s[i]
  BY <1>1, ConcatProperties, LenProperties
<1>3. i \in 1 .. Len(s \o t)
  BY <1>1, <1>2
<1> QED
  BY <1>1, <1>2, <1>3 DEF Contains

(* The row is not newly in Status 2 and its command or result is not gone. *)
Still(r) ==
    /\ block'[r[1]][r[2]][r[3]] = "deleting" => block[r[1]][r[2]][r[3]] = "deleting"
    /\ Contains(toDs[r[3]], <<"delete", r[1], r[2], r[3]>>)
         => Contains(toDs'[r[3]], <<"delete", r[1], r[2], r[3]>>)
    /\ Contains(toNs[r[3]], <<"deleted", r[1], r[2]>>)
         => Contains(toNs'[r[3]], <<"deleted", r[1], r[2]>>)

(* The row gets stuck only with its session. *)
NotStuck(r) == Stranded(r)' => Stranded(r) \/ r[3] \notin up'

(* Such a step strands no row. *)
LEMMA StillNotStuck == ASSUME NEW r, Still(r) PROVE NotStuck(r)
BY DEF Still, NotStuck, Stranded

(* No procedure of a request puts a row into Status 2. *)
LEMMA RequestsDoNotDelete ==
    ASSUME MetaTypeOK, NEW r \in Row, NEW f \in Fid,
           DeleteFile(f) \/ \E i \in Index : UploadKnown(f, i)
    PROVE  block'[r[1]][r[2]][r[3]] = "deleting" => block[r[1]][r[2]][r[3]] = "deleting"
<1>1. r[1] \in Fid /\ r[2] \in Index /\ r[3] \in DS
  BY DEF Row
<1>2. ASSUME NEW s \in {"normal", "deleted"}, NEW t \in {"normal", "deleted"},
             block' = [block EXCEPT ![f] = Restatus(f, s, t)]
      PROVE  block'[r[1]][r[2]][r[3]] = "deleting" => block[r[1]][r[2]][r[3]] = "deleting"
  BY <1>1, <1>2 DEF Restatus, MetaTypeOK
<1>3. CASE block' = block
  BY <1>3
<1> QED
  BY <1>2, <1>3 DEF UploadKnown, DeleteFile

(* One row changes. *)
LEMMA RowChange ==
    ASSUME MetaTypeOK, NEW r \in Row, NEW f \in Fid, NEW i \in Index, NEW d \in DS, NEW s
    PROVE  SetRow(f, i, d, s)[r[1]][r[2]][r[3]] =
             IF r = <<f, i, d>> THEN s ELSE block[r[1]][r[2]][r[3]]
BY DEF SetRow, Row, MetaTypeOK

(* The queue of another data server, or one that only grows. *)
LEMMA ReportStill ==
    ASSUME ClusterInv, NEW r \in Row, NEW d \in DS, NEW what \in {"deleted", "copied"},
           NEW f \in Fid, NEW i \in Index, Report(d, what, f, i),
           Contains(toNs[r[3]], <<"deleted", r[1], r[2]>>)
    PROVE  Contains(toNs'[r[3]], <<"deleted", r[1], r[2]>>)
<1>1. toNs \in [DS -> Seq(Result)] /\ r[3] \in DS
  BY DEF ClusterInv, Routed, Row
<1>2. <<what, f, i>> \in Result
  BY DEF Result
<1>3. toNs'[r[3]] = IF r[3] = d THEN Append(toNs[d], <<what, f, i>>) ELSE toNs[r[3]]
  BY <1>1 DEF Report
<1> QED
  BY <1>1, <1>2, <1>3, ContainsAppend

(* The next message of a queue that is about something else. *)
LEMMA NextStill ==
    ASSUME ClusterInv, NEW r \in Row, NEW d \in DS
    PROVE  /\ /\ toNs[d] # <<>> /\ toNs' = [toNs EXCEPT ![d] = Tail(@)]
              /\ r[3] = d => Head(toNs[d]) # <<"deleted", r[1], r[2]>>
              /\ Contains(toNs[r[3]], <<"deleted", r[1], r[2]>>)
              => Contains(toNs'[r[3]], <<"deleted", r[1], r[2]>>)
           /\ /\ toDs[d] # <<>> /\ toDs' = [toDs EXCEPT ![d] = Tail(@)]
              /\ r[3] = d => Head(toDs[d]) # <<"delete", r[1], r[2], r[3]>>
              /\ Contains(toDs[r[3]], <<"delete", r[1], r[2], r[3]>>)
              => Contains(toDs'[r[3]], <<"delete", r[1], r[2], r[3]>>)
<1>1. /\ toNs \in [DS -> Seq(Result)] /\ toDs \in [DS -> Seq(Command)]
      /\ r[3] \in DS
  BY DEF ClusterInv, Routed, Row
<1>2. CASE r[3] # d
  BY <1>1, <1>2
<1>3. CASE r[3] = d
  <2>1. ASSUME toNs[d] # <<>>, toNs' = [toNs EXCEPT ![d] = Tail(@)],
               Head(toNs[d]) # <<"deleted", r[1], r[2]>>,
               Contains(toNs[d], <<"deleted", r[1], r[2]>>)
        PROVE  Contains(toNs'[d], <<"deleted", r[1], r[2]>>)
    <3>1. toNs[d] \in Seq(Result) /\ toNs'[d] = Tail(toNs[d])
      BY <1>1, <2>1
    <3>2. Contains(Tail(toNs[d]), <<"deleted", r[1], r[2]>>)
      BY <2>1, <3>1, ContainsTail
    <3> QED
      BY <3>1, <3>2
  <2>2. ASSUME toDs[d] # <<>>, toDs' = [toDs EXCEPT ![d] = Tail(@)],
               Head(toDs[d]) # <<"delete", r[1], r[2], r[3]>>,
               Contains(toDs[d], <<"delete", r[1], r[2], r[3]>>)
        PROVE  Contains(toDs'[d], <<"delete", r[1], r[2], r[3]>>)
    <3>1. toDs[d] \in Seq(Command) /\ toDs'[d] = Tail(toDs[d])
      BY <1>1, <2>2
    <3>2. Contains(Tail(toDs[d]), <<"delete", r[1], r[2], r[3]>>)
      BY <2>2, <3>1, ContainsTail
    <3> QED
      BY <3>1, <3>2
  <2> QED
    BY <1>3, <2>1, <2>2
<1> QED
  BY <1>2, <1>3

(* A result is handled: only the row it is about changes. *)
LEMMA RecvNotStuck ==
    ASSUME ClusterInv, NEW r \in Row, NEW d \in DS, NsRecv(d) PROVE NotStuck(r)
<1> DEFINE m == Head(toNs[d])
<1>0. MetaTypeOK /\ toNs[d] # <<>> /\ toNs' = [toNs EXCEPT ![d] = Tail(@)] /\ toDs' = toDs
  BY DEF ClusterInv, MetaInv, NsRecv, NsDeleted, NsCopied
<1>1. m \in Result
  BY <1>0, HeadOf
<1>2. m[2] \in Fid /\ m[3] \in Index /\ m = <<m[1], m[2], m[3]>>
  BY <1>1 DEF Result
<1>3. r = <<r[1], r[2], r[3]>>
  BY DEF Row
<1>4. CASE NsCopied(d)
  <2>1. m[1] = "copied" /\ (block' = SetRow(m[2], m[3], d, "normal") \/ block' = block)
    BY <1>4 DEF NsCopied, CopyBlock, metaVars
  <2>2. block'[r[1]][r[2]][r[3]] = "deleting" => block[r[1]][r[2]][r[3]] = "deleting"
    BY <1>0, <1>2, <2>1, RowChange
  <2>3. m # <<"deleted", r[1], r[2]>>
    BY <2>1
  <2>4. Still(r)
    BY <1>0, <2>2, <2>3, NextStill DEF Still
  <2> QED
    BY <2>4, StillNotStuck
<1>5. CASE NsDeleted(d)
  <2>1. /\ m[1] = "deleted"
        /\ block' = IF block[m[2]][m[3]][d] = "deleting"
                    THEN SetRow(m[2], m[3], d, "none") ELSE block
    BY <1>5 DEF NsDeleted, DeleteBlock
  <2>2. CASE r = <<m[2], m[3], d>>
    <3>1. r[1] = m[2] /\ r[2] = m[3] /\ r[3] = d
      BY <2>2
    <3>2. block'[r[1]][r[2]][r[3]] # "deleting"
      BY <1>0, <1>2, <2>1, <2>2, <3>1, RowChange
    <3> QED
      BY <3>2 DEF NotStuck, Stranded
  <2>3. CASE r # <<m[2], m[3], d>>
    <3>1. block'[r[1]][r[2]][r[3]] = "deleting" => block[r[1]][r[2]][r[3]] = "deleting"
      BY <1>0, <1>2, <2>1, <2>3, RowChange
    <3>2. r[3] = d => m # <<"deleted", r[1], r[2]>>
      BY <1>2, <1>3, <2>3
    <3>3. Still(r)
      BY <1>0, <3>1, <3>2, NextStill DEF Still
    <3> QED
      BY <3>3, StillNotStuck
  <2> QED
    BY <2>2, <2>3
<1> QED
  BY <1>4, <1>5 DEF NsRecv

(* A row is notified: a row that gets Status 2 gets its command. *)
LEMMA NoticeNotStuck ==
    ASSUME ClusterInv, NEW r \in Row, NEW q \in todo, NoticeDelete(q)
    PROVE  NotStuck(r)
<1>0. /\ MetaTypeOK /\ q \in Row /\ notice_delete_block(q) /\ toNs' = toNs
      /\ toDs \in [DS -> Seq(Command)]
  BY DEF ClusterInv, MetaInv, Kept, Routed, NoticeDelete
<1>1. /\ q[1] \in Fid /\ q[2] \in Index /\ q[3] \in DS /\ q = <<q[1], q[2], q[3]>>
      /\ r[1] \in Fid /\ r[2] \in Index /\ r[3] \in DS /\ r = <<r[1], r[2], r[3]>>
  BY <1>0 DEF Row
<1> DEFINE c == <<"delete", q[1], q[2], q[3]>>
<1>2. CASE block' = block /\ toDs' = toDs
  <2>1. Still(r)
    BY <1>0, <1>2 DEF Still
  <2> QED
    BY <2>1, StillNotStuck
<1>3. CASE /\ block[q[1]][q[2]][q[3]] = "deleting" /\ toDs' = toDs
           /\ block' = SetRow(q[1], q[2], q[3], "deleting")
  <2>1. block'[r[1]][r[2]][r[3]] = "deleting" => block[r[1]][r[2]][r[3]] = "deleting"
    BY <1>0, <1>1, <1>3, RowChange
  <2>2. Still(r)
    BY <1>0, <1>3, <2>1 DEF Still
  <2> QED
    BY <2>2, StillNotStuck
<1>4. CASE /\ block[q[1]][q[2]][q[3]] # "none"
           /\ block' = SetRow(q[1], q[2], q[3], "deleting")
           /\ toDs' = [toDs EXCEPT ![q[3]] = Append(@, c)]
  <2>1. c \in Command
    BY <1>1 DEF Command
  <2>2. /\ Contains(toDs'[q[3]], c)
        /\ \A x : Contains(toDs[r[3]], x) => Contains(toDs'[r[3]], x)
    <3>1. /\ toDs'[q[3]] = Append(toDs[q[3]], c)
          /\ toDs'[r[3]] = IF r[3] = q[3] THEN Append(toDs[r[3]], c) ELSE toDs[r[3]]
      BY <1>0, <1>1, <1>4
    <3>2. toDs[q[3]] \in Seq(Command) /\ toDs[r[3]] \in Seq(Command)
      BY <1>0, <1>1
    <3> HIDE DEF c
    <3>3. Contains(Append(toDs[q[3]], c), c)
      BY <2>1, <3>2, ContainsAppend
    <3>4. ASSUME NEW x, Contains(toDs[r[3]], x) PROVE Contains(Append(toDs[r[3]], c), x)
      BY <2>1, <3>2, <3>4, ContainsAppend
    <3> QED
      BY <3>1, <3>3, <3>4
  <2>3. CASE r = q
    BY <2>2, <2>3 DEF NotStuck, Stranded
  <2>4. CASE r # q
    <3>1. block'[r[1]][r[2]][r[3]] = block[r[1]][r[2]][r[3]]
      BY <1>0, <1>1, <1>4, <2>4, RowChange
    <3>2. Still(r)
      BY <1>0, <2>2, <3>1 DEF Still
    <3> QED
      BY <3>2, StillNotStuck
  <2> QED
    BY <2>3, <2>4
<1> QED
  BY <1>0, <1>2, <1>3, <1>4 DEF notice_delete_block, SetDelIng, metaVars

(* A command is carried out: its result takes its place. *)
LEMMA CommandNotStuck ==
    ASSUME ClusterInv, NEW r \in Row, NEW d \in DS, DsDelete(d) \/ DsBackup(d)
    PROVE  NotStuck(r)
<1> DEFINE m == Head(toDs[d])
<1>0. /\ block' = block /\ toDs[d] # <<>> /\ toDs' = [toDs EXCEPT ![d] = Tail(@)]
      /\ r[3] \in DS /\ toNs \in [DS -> Seq(Result)]
  BY DEF DsDelete, DsBackup, metaVars, Row, ClusterInv, Routed
<1>1. m \in Command
  BY <1>0, HeadOf
<1>2. m[2] \in Fid /\ m[3] \in Index
  BY <1>1 DEF Command
<1>3. CASE r[3] = d /\ m = <<"delete", r[1], r[2], r[3]>>
  <2>1. Report(d, "deleted", r[1], r[2]) /\ r[1] \in Fid /\ r[2] \in Index
    BY <1>2, <1>3 DEF DsDelete, DsBackup
  <2>2. toNs[d] \in Seq(Result) /\ <<"deleted", r[1], r[2]>> \in Result
    BY <1>0, <2>1 DEF Result
  <2>3. toNs'[r[3]] = Append(toNs[d], <<"deleted", r[1], r[2]>>)
    BY <1>0, <1>3, <2>1 DEF Report
  <2>4. Contains(toNs'[r[3]], <<"deleted", r[1], r[2]>>)
    BY <2>2, <2>3, ContainsAppend
  <2> QED
    BY <2>4 DEF NotStuck, Stranded
<1>4. CASE r[3] = d => m # <<"delete", r[1], r[2], r[3]>>
  <2>1. toNs' = toNs \/ Report(d, "deleted", m[2], m[3])
    BY DEF DsDelete, DsBackup
  <2>2. Contains(toNs[r[3]], <<"deleted", r[1], r[2]>>)
          => Contains(toNs'[r[3]], <<"deleted", r[1], r[2]>>)
    BY <1>2, <2>1, ReportStill
  <2>3. Still(r)
    BY <1>0, <1>4, <2>2, NextStill DEF Still
  <2> QED
    BY <2>3, StillNotStuck
<1> QED
  BY <1>3, <1>4

(* Blocks are written and reported. *)
LEMMA TransferNotStuck ==
    ASSUME ClusterInv, NEW r \in Row,
           \/ \E g \in grant, d \in DS :
                ClientPut(g, d) \/ ClientPutFails(g, d) \/ ClientPutBroken(g, d)
           \/ \E p \in push : PushDone(p) \/ PushBroken(p)
    PROVE  NotStuck(r)
<1>0. block' = block /\ toDs' = toDs
  BY DEF ClientPut, ClientPutFails, ClientPutBroken, PushDone, PushBroken, metaVars, netVars
<1>1. \/ toNs' = toNs
      \/ \E d \in DS, f \in Fid, i \in Index : Report(d, "copied", f, i)
  <2>1. ASSUME NEW g \in grant, NEW d \in DS,
               ClientPut(g, d) \/ ClientPutFails(g, d) \/ ClientPutBroken(g, d)
        PROVE  \/ toNs' = toNs
               \/ /\ g.fid \in Fid /\ g.index \in Index
                  /\ Report(d, "copied", g.fid, g.index)
    <3>1. g \in Grant
      BY DEF ClusterInv, Routed
    <3>2. g.fid \in Fid /\ g.index \in Index
      BY <3>1 DEF Grant
    <3> QED
      BY <2>1, <3>2 DEF ClientPut, ClientPutFails, ClientPutBroken
  <2>2. ASSUME NEW p \in push, PushDone(p) \/ PushBroken(p)
        PROVE  \/ toNs' = toNs
               \/ /\ p.dst \in DS /\ p.fid \in Fid /\ p.index \in Index
                  /\ Report(p.dst, "copied", p.fid, p.index)
    <3>1. p \in Push
      BY DEF ClusterInv, Routed
    <3>2. p.dst \in DS /\ p.fid \in Fid /\ p.index \in Index
      BY <3>1 DEF Push
    <3> QED
      BY <2>2, <3>2 DEF PushDone, PushBroken, netVars
  <2> QED
    BY <2>1, <2>2
<1>2. Contains(toNs[r[3]], <<"deleted", r[1], r[2]>>)
        => Contains(toNs'[r[3]], <<"deleted", r[1], r[2]>>)
  BY <1>1, ReportStill
<1>3. Still(r)
  BY <1>0, <1>2 DEF Still
<1> QED
  BY <1>3, StillNotStuck

(* The timer fires: commands are only added. *)
LEMMA StartNotStuck ==
    ASSUME ClusterInv, NEW r \in Row, NoticeStart PROVE NotStuck(r)
<1>0. /\ block' = block /\ toNs' = toNs /\ r[3] \in DS
      /\ toDs \in [DS -> Seq(Command)]
  BY DEF NoticeStart, metaVars, Row, ClusterInv, Routed
<1>1. PICK S \in Page(RowsWhere(Below), page.cpy) : check_cpy_block(S)
  BY DEF NoticeStart
<1>2. S \subseteq RowsWhere(Below)
  BY <1>1 DEF Page
<1>3. ASSUME NEW x, Contains(toDs[r[3]], x) PROVE Contains(toDs'[r[3]], x)
  <2>1. ASSUME NEW t, Extended(S, t) PROVE Contains(toDs'[r[3]], x)
    <3>1. CopiesFrom(S, r[3]) \subseteq Command
      BY DEF CopiesFrom
    <3>2. t[r[3]] \in Seq(Command)
      BY <1>0, <2>1, <3>1, SeqMonotonic DEF Extended
    <3>3. Contains(toDs[r[3]] \o t[r[3]], x)
      BY <1>0, <1>3, <3>2, ContainsConcat
    <3> QED
      BY <1>0, <1>3, <2>1, <3>3 DEF Extended
  <2> QED
    BY <1>1, <1>2, <1>3, <2>1, CopyCommands
<1>4. Still(r)
  BY <1>0, <1>3 DEF Still
<1> QED
  BY <1>4, StillNotStuck

(* The end of a session strands its own rows only. *)
LEMMA FaultNotStuck ==
    ASSUME ClusterInv, NEW r \in Row, Fault \/ \E d \in DS : DsBackupMissing(d)
    PROVE  NotStuck(r)
<1>0. r[3] \in DS /\ block' = block
  BY DEF Row, Fault, NsCrash, SessionLost, DsCrash, DsBackupMissing, DsStop, metaVars
<1>1. \/ up' = {}
      \/ \E d \in DS : /\ up' = up \ {d}
                       /\ r[3] # d => toDs'[r[3]] = toDs[r[3]] /\ toNs'[r[3]] = toNs[r[3]]
  <2>0. toDs \in [DS -> Seq(Command)] /\ toNs \in [DS -> Seq(Result)]
    BY DEF ClusterInv, Routed
  <2>1. ASSUME NEW d \in DS, NEW disk, DsStop(d, disk)
        PROVE  /\ up' = up \ {d}
               /\ r[3] # d => toDs'[r[3]] = toDs[r[3]] /\ toNs'[r[3]] = toNs[r[3]]
    BY <1>0, <2>0, <2>1 DEF DsStop
  <2>2. ASSUME NEW d \in DS, SessionLost(d)
        PROVE  /\ up' = up \ {d}
               /\ r[3] # d => toDs'[r[3]] = toDs[r[3]] /\ toNs'[r[3]] = toNs[r[3]]
    BY <1>0, <2>0, <2>2 DEF SessionLost
  <2>3. ASSUME NsCrash PROVE up' = {}
    BY <2>3 DEF NsCrash
  <2> QED
    BY <2>1, <2>2, <2>3 DEF Fault, DsCrash, DsBackupMissing
<1>2. r[3] \notin up' \/ Still(r)
  BY <1>0, <1>1 DEF Still
<1> QED
  BY <1>2, StillNotStuck DEF NotStuck

(* No step strands a row whose session lives. *)
LEMMA StepNotStuck ==
    ASSUME ClusterInv, [ClusterNext]_clusterVars, NEW r \in Row PROVE NotStuck(r)
<1>0. MetaTypeOK
  BY DEF ClusterInv, MetaInv
<1>1. ASSUME NEW f \in Fid, NEW i \in Index, UploadKnown(f, i), UNCHANGED netVars
      PROVE  NotStuck(r)
  <2>1. Still(r)
    BY <1>0, <1>1, RequestsDoNotDelete DEF Still, netVars
  <2> QED
    BY <2>1, StillNotStuck
<1>2. ASSUME NEW h \in Hash, NEW n \in BNum, NEW i \in Index, Upload(h, n, i)
      PROVE  NotStuck(r)
  <2>1. CASE UploadNew(h, n, i)
    <3>1. block' = block /\ UNCHANGED netVars
      BY <1>2, <2>1 DEF Upload, UploadNew
    <3>2. Still(r)
      BY <3>1 DEF Still, netVars
    <3> QED
      BY <3>2, StillNotStuck
  <2>2. ASSUME NEW f \in Fid, UploadKnown(f, i) PROVE NotStuck(r)
    BY <1>1, <1>2, <2>2 DEF Upload
  <2> QED
    BY <1>2, <2>1, <2>2 DEF Upload
<1>3. ASSUME NEW f \in Fid, Delete(f) PROVE NotStuck(r)
  <2>1. Still(r)
    BY <1>0, <1>3, RequestsDoNotDelete DEF Delete, Still, netVars
  <2> QED
    BY <2>1, StillNotStuck
<1>4. ASSUME block' = block, toDs' = toDs, toNs' = toNs PROVE NotStuck(r)
  <2>1. Still(r)
    BY <1>4 DEF Still
  <2> QED
    BY <2>1, StillNotStuck
<1>5. CASE NoticeTrim \/ UNCHANGED clusterVars \/ \E d \in DS : Login(d)
  BY <1>4, <1>5 DEF NoticeTrim, Login, clusterVars, metaVars, netVars
<1> QED
  BY <1>2, <1>3, <1>5, NoticeNotStuck, StartNotStuck, RecvNotStuck, CommandNotStuck,
     TransferNotStuck, FaultNotStuck
     DEF ClusterNext, Client, Notice, DsStep

(* While the session of a data server lives, a row with Status 2 has its   *)
(* delete command or its result under way, for any number of files, data   *)
(* servers, copies, faults and queued messages.                            *)
THEOREM OnlySessionsStrand == ClusterSpec => StrandedOnlyBySession
<1>1. ClusterInv /\ [ClusterNext]_clusterVars
        => [\A r \in Row : Stranded(r)' => Stranded(r) \/ r[3] \notin up']_clusterVars
  BY StepNotStuck DEF NotStuck
<1> QED
  BY <1>1, ClusterInvariance, PTL DEF ClusterSpec, StrandedOnlyBySession

-----------------------------------------------------------------------------
(* Rows and blocks. *)

(* The name service has, or will get, a row that sends clients to d for    *)
(* the block; a row with Status 1 can come back.                           *)
Claimed(d, f, i) ==
    \/ block[f][i][d] \in {"normal", "deleted"}
    \/ Contains(toNs[d], <<"copied", f, i>>)

Clean(d, f, i) ==
    \A w \in {"write", "race", "part"} : <<w, d, f, i>> \notin spoilt

(* The strengthening that is inductive: a claim is true from the report    *)
(* on, and in a row that is only marked.                                   *)
Sound == \A d \in DS, f \in Fid, i \in Index :
            Claimed(d, f, i) /\ Clean(d, f, i) => store[d][f][i] = "full"

(* A claim is sound in the next state if it was made before and the block  *)
(* is untouched, or if the block is whole.                                 *)
SoundStep(d, f, i) ==
    Claimed(d, f, i)' /\ Clean(d, f, i)'
      => \/ Claimed(d, f, i) /\ store'[d][f][i] = store[d][f][i]
         \/ store'[d][f][i] = "full"

(* What is spoilt stays so. *)
LEMMA StaysSpoilt ==
    ASSUME NEW d, NEW f, NEW i, Clean(d, f, i)', spoilt \subseteq spoilt'
    PROVE  Clean(d, f, i)
BY DEF Clean

LEMMA SoundBy ==
    ASSUME Sound, spoilt \subseteq spoilt',
           \A d \in DS, f \in Fid, i \in Index : SoundStep(d, f, i)
    PROVE  Sound'
<1> SUFFICES ASSUME NEW d \in DS, NEW f \in Fid, NEW i \in Index,
                    Claimed(d, f, i)', Clean(d, f, i)'
             PROVE  store'[d][f][i] = "full"
  BY DEF Sound
<1>1. Clean(d, f, i)
  BY StaysSpoilt
<1>2. SoundStep(d, f, i)
  OBVIOUS
<1> QED
  BY <1>1, <1>2 DEF Sound, SoundStep

(* Nothing new is claimed and no block is touched. *)
LEMMA SoundKept ==
    ASSUME Sound, spoilt \subseteq spoilt', store' = store,
           \A d \in DS, f \in Fid, i \in Index : Claimed(d, f, i)' => Claimed(d, f, i)
    PROVE  Sound'
BY SoundBy DEF SoundStep

(* What the end of a queue contains, the queue does. *)
LEMMA ContainsRest ==
    ASSUME NEW S, NEW s \in Seq(S), NEW n \in Nat, NEW x,
           Contains(SubSeq(s, n + 1, Len(s)), x)
    PROVE  Contains(s, x)
<1> DEFINE q == SubSeq(s, n + 1, Len(s))
<1>1. Len(s) \in Nat /\ \A k \in 1 .. Len(s) : s[k] \in S
  BY LenProperties
<1>2. /\ Len(q) = IF n + 1 <= Len(s) THEN Len(s) - (n + 1) + 1 ELSE 0
      /\ \A k \in 1 .. Len(q) : q[k] = s[n + 1 + k - 1]
  BY <1>1, SubSeqProperties
<1>3. PICK k \in 1 .. Len(q) : q[k] = x
  BY DEF Contains
<1>4. n + 1 + k - 1 \in 1 .. Len(s)
  BY <1>1, <1>2, <1>3
<1>5. s[n + 1 + k - 1] = x
  BY <1>2, <1>3
<1> QED
  BY <1>4, <1>5 DEF Contains

(* The same without the first message. *)
LEMMA ContainsBefore ==
    ASSUME NEW S, NEW s \in Seq(S), s # <<>>, NEW x
    PROVE  /\ Contains(Tail(s), x) => Contains(s, x)
           /\ Contains(s, Head(s))
<1>1. /\ Len(s) \in Nat \ {0} /\ Len(Tail(s)) = Len(s) - 1 /\ Head(s) = s[1]
      /\ \A j \in 1 .. Len(Tail(s)) : Tail(s)[j] = s[j + 1]
  OBVIOUS
<1>2. ASSUME NEW j \in 1 .. Len(Tail(s)), Tail(s)[j] = x PROVE Contains(s, x)
  <2>1. j + 1 \in 1 .. Len(s) /\ s[j + 1] = x
    BY <1>1, <1>2
  <2> QED
    BY <2>1 DEF Contains
<1>3. 1 \in 1 .. Len(s)
  BY <1>1
<1> QED
  BY <1>1, <1>2, <1>3 DEF Contains

(* An empty queue contains nothing. *)
LEMMA ContainsNone == ASSUME NEW x PROVE ~Contains(<<>>, x)
BY DEF Contains

(* A request claims nothing: it marks rows or brings back marked ones. *)
LEMMA RequestClaims ==
    ASSUME MetaTypeOK, NEW h, NEW n, NEW j,
           UploadNew(h, n, j) \/ \E g \in Fid : UploadKnown(g, j) \/ DeleteFile(g),
           NEW d \in DS, NEW f \in Fid, NEW i \in Index,
           block'[f][i][d] \in {"normal", "deleted"}
    PROVE  block[f][i][d] \in {"normal", "deleted"}
<1>1. ASSUME NEW g \in Fid, NEW s \in {"normal", "deleted"}, NEW t \in {"normal", "deleted"},
             block' = [block EXCEPT ![g] = Restatus(g, s, t)]
      PROVE  block[f][i][d] \in {"normal", "deleted"}
  BY <1>1 DEF Restatus, MetaTypeOK
<1>2. CASE block' = block
  BY <1>2
<1> QED
  BY <1>1, <1>2 DEF UploadNew, UploadKnown, DeleteFile

(* Uploads and deletes keep claims true. *)
LEMMA RequestSound ==
    ASSUME ClusterInv, Sound,
           \/ \E h \in Hash, n \in BNum, i \in Index : Upload(h, n, i)
           \/ \E f \in Fid : Delete(f)
    PROVE  Sound'
<1>0. MetaTypeOK
  BY DEF ClusterInv, MetaInv
<1>1. toNs' = toNs /\ store' = store /\ spoilt' = spoilt
  BY DEF Upload, Delete, netVars, dsVars
<1>2. \E h, n, j :
        UploadNew(h, n, j) \/ \E g \in Fid : UploadKnown(g, j) \/ DeleteFile(g)
  BY DEF Upload, Delete
<1>3. ASSUME NEW d \in DS, NEW f \in Fid, NEW i \in Index, Claimed(d, f, i)'
      PROVE  Claimed(d, f, i)
  BY <1>0, <1>1, <1>2, <1>3, RequestClaims DEF Claimed
<1> QED
  BY <1>1, <1>3, SoundKept

(* A row that is notified is not claimed any more. *)
LEMMA NoticeSound ==
    ASSUME ClusterInv, Sound, NEW r \in todo, NoticeDelete(r) PROVE Sound'
<1>0. MetaTypeOK /\ r \in Row /\ r[1] \in Fid /\ r[2] \in Index /\ r[3] \in DS
  BY DEF ClusterInv, MetaInv, Kept, Row
<1>1. toNs' = toNs /\ store' = store /\ spoilt' = spoilt
  BY DEF NoticeDelete, dsVars
<1>2. block' = block \/ block' = SetRow(r[1], r[2], r[3], "deleting")
  BY DEF NoticeDelete, notice_delete_block, SetDelIng, metaVars
<1>3. ASSUME NEW d \in DS, NEW f \in Fid, NEW i \in Index, Claimed(d, f, i)'
      PROVE  Claimed(d, f, i)
  <2>1. block \in [Fid -> [Index -> [DS -> BlockStatus]]]
    BY <1>0 DEF MetaTypeOK
  <2>2. block'[f][i][d] = block[f][i][d] \/ block'[f][i][d] = "deleting"
    <3>1. CASE block' = block
      BY <3>1
    <3>2. CASE block' = SetRow(r[1], r[2], r[3], "deleting")
      <4>1. CASE f = r[1] /\ i = r[2] /\ d = r[3]
        BY <2>1, <3>2, <4>1 DEF SetRow
      <4>2. CASE f # r[1] \/ i # r[2] \/ d # r[3]
        BY <1>0, <2>1, <3>2, <4>2 DEF SetRow
      <4> QED
        BY <4>1, <4>2
    <3> QED
      BY <1>2, <3>1, <3>2
  <2> QED
    <3>1. CASE block'[f][i][d] = "deleting"
      <4>1. block'[f][i][d] \notin {"normal", "deleted"}
        BY ONLY <3>1
      <4> QED
        BY <1>1, <1>3, <4>1, Zenon DEF Claimed
    <3>2. CASE block'[f][i][d] = block[f][i][d]
      BY <1>1, <1>3, <3>2, Zenon DEF Claimed
    <3> QED
      BY <2>2, <3>1, <3>2
<1> QED
  BY <1>1, <1>3, SoundKept

(* A report becomes a row. *)
LEMMA RecvSound ==
    ASSUME ClusterInv, Sound, NEW e \in DS, NsRecv(e) PROVE Sound'
<1> DEFINE m == Head(toNs[e])
<1>0. /\ MetaTypeOK /\ toNs[e] # <<>> /\ toNs' = [toNs EXCEPT ![e] = Tail(@)]
      /\ toNs \in [DS -> Seq(Result)]
      /\ store' = store /\ spoilt' = spoilt
  BY DEF ClusterInv, MetaInv, Routed, NsRecv, NsDeleted, NsCopied, dsVars
<1>1. m \in Result /\ toNs[e] \in Seq(Result)
  BY <1>0, HeadOf
<1>2. m[2] \in Fid /\ m[3] \in Index /\ m = <<m[1], m[2], m[3]>>
  BY <1>1 DEF Result
<1>3. \/ block' = block
      \/ block' = SetRow(m[2], m[3], e, "none")
      \/ m[1] = "copied" /\ block' = SetRow(m[2], m[3], e, "normal")
  BY DEF NsRecv, NsDeleted, NsCopied, DeleteBlock, CopyBlock, metaVars
<1>4. Contains(toNs[e], m) /\ \A x : Contains(Tail(toNs[e]), x) => Contains(toNs[e], x)
  BY <1>0, <1>1, ContainsBefore
<1> HIDE DEF m
<1>5. ASSUME NEW d \in DS, NEW f \in Fid, NEW i \in Index, Claimed(d, f, i)'
      PROVE  Claimed(d, f, i)
  <2>1. CASE Contains(toNs'[d], <<"copied", f, i>>)
    BY <1>0, <1>4, <2>1 DEF Claimed
  <2>2. CASE block'[f][i][d] \in {"normal", "deleted"}
    <3>1. CASE block[f][i][d] \in {"normal", "deleted"}
      BY <3>1 DEF Claimed
    <3>2. CASE block[f][i][d] \notin {"normal", "deleted"}
      <4>1. m[1] = "copied" /\ m[2] = f /\ m[3] = i /\ d = e
        BY <1>0, <1>2, <1>3, <2>2, <3>2 DEF SetRow, MetaTypeOK
      <4>2. m = <<"copied", f, i>>
        BY <1>2, <4>1
      <4> QED
        BY <1>4, <4>1, <4>2 DEF Claimed
    <3> QED
      BY <3>1, <3>2
  <2> QED
    BY <1>5, <2>1, <2>2 DEF Claimed
<1> QED
  BY <1>0, <1>5, SoundKept

(* A transfer ends. *)
LEMMA EndsSound ==
    ASSUME ClusterInv, Sound, NEW t, t.fid \in Fid, t.index \in Index, NEW e \in DS,
           NEW c, NEW why, Ends(t, e, c, why), block' = block,
           \/ c \in Written(t, e)
           \/ why \cap {"write", "part"} # {}
           \/ c \in Broken(t, e) /\ toNs' = toNs
    PROVE  Sound'
<1>0. /\ store \in [DS -> [Fid -> [Index -> Content]]]
      /\ toNs \in [DS -> Seq(Result)]
      /\ spoilt \subseteq spoilt'
  BY DEF ClusterInv, Kept, Routed, Ends, Mark
<1>1. ASSUME NEW d \in DS, NEW f \in Fid, NEW i \in Index PROVE SoundStep(d, f, i)
  <2>1. CASE d # e \/ f # t.fid \/ i # t.index
    <3>1. store'[d][f][i] = store[d][f][i]
      BY <1>0, <2>1 DEF Ends, Keep
    <3>2. Contains(toNs'[d], <<"copied", f, i>>) => Contains(toNs[d], <<"copied", f, i>>)
      <4>1. CASE toNs' = toNs \/ d # e
        BY <1>0, <4>1 DEF Ends, Report
      <4>2. CASE d = e /\ Report(e, "copied", t.fid, t.index)
        <5>1. /\ toNs'[d] = Append(toNs[d], <<"copied", t.fid, t.index>>)
              /\ toNs[d] \in Seq(Result) /\ <<"copied", t.fid, t.index>> \in Result
          BY <1>0, <4>2 DEF Report, Result
        <5>2. <<"copied", f, i>> # <<"copied", t.fid, t.index>>
          BY <2>1, <4>2
        <5> QED
          BY <5>1, <5>2, ContainsAppend
      <4> QED
        BY <4>1, <4>2 DEF Ends
    <3> QED
      BY <3>1, <3>2 DEF SoundStep, Claimed
  <2>2. CASE d = e /\ f = t.fid /\ i = t.index
    <3>0. store'[d][f][i] = c
      BY <1>0, <2>2 DEF Ends, Keep
    <3> SUFFICES ASSUME Claimed(d, f, i)', Clean(d, f, i)'
                 PROVE  c = "full"
      BY <3>0 DEF SoundStep
    <3>1. \A w \in why : w \notin {"write", "part"}
      BY <2>2 DEF Clean, Ends, Mark
    <3>2. ~Raced(t, e)
      <4>1. ASSUME Raced(t, e) PROVE <<"race", e, f, i>> \in spoilt'
        BY <2>2, <4>1 DEF Ends, Mark
      <4> QED
        BY <2>2, <4>1 DEF Clean
    <3>3. CASE c \in Written(t, e)
      BY <3>2, <3>3 DEF Written, Torn
    <3>4. CASE c \in Broken(t, e) /\ toNs' = toNs
      <4>1. Claimed(d, f, i) /\ Clean(d, f, i)
        BY <1>0, <3>4, StaysSpoilt DEF Claimed
      <4>2. store[e][t.fid][t.index] = "full"
        BY <2>2, <4>1 DEF Sound
      <4> QED
        BY <3>2, <3>4, <4>2 DEF Broken, Torn
    <3> QED
      BY <3>1, <3>3, <3>4
  <2> QED
    BY <2>1, <2>2
<1> QED
  BY <1>0, <1>1, SoundBy

LEMMA TransferSound ==
    ASSUME ClusterInv, Sound,
           \/ \E g \in grant, d \in DS :
                ClientPut(g, d) \/ ClientPutFails(g, d) \/ ClientPutBroken(g, d)
           \/ \E p \in push : PushDone(p) \/ PushBroken(p)
    PROVE  Sound'
<1>0. block' = block /\ push \subseteq Push /\ grant \subseteq Grant
  BY DEF ClientPut, ClientPutFails, ClientPutBroken, PushDone, PushBroken, metaVars,
         ClusterInv, Routed
<1>1. ASSUME NEW g \in grant, NEW d \in DS,
             ClientPut(g, d) \/ ClientPutFails(g, d) \/ ClientPutBroken(g, d)
      PROVE  Sound'
  <2>1. g.fid \in Fid /\ g.index \in Index
    BY <1>0 DEF Grant
  <2>2. PICK c, why : /\ Ends(g, d, c, why)
                      /\ \/ c \in Written(g, d)
                         \/ why \cap {"write", "part"} # {}
                         \/ c \in Broken(g, d) /\ toNs' = toNs
    BY <1>1, ClientPutEnds
  <2> QED
    BY <1>0, <2>1, <2>2, EndsSound
<1>2. ASSUME NEW p \in push, PushDone(p) \/ PushBroken(p) PROVE Sound'
  <2>1. p.fid \in Fid /\ p.index \in Index /\ p.dst \in DS
    BY <1>0 DEF Push
  <2>2. PICK c, why : /\ Ends(p, p.dst, c, why)
                      /\ \/ c \in Written(p, p.dst)
                         \/ why \cap {"write", "part"} # {}
                         \/ c \in Broken(p, p.dst) /\ toNs' = toNs
    BY <1>2, PushEnds
  <2> QED
    BY <1>0, <2>1, <2>2, EndsSound
<1> QED
  BY <1>1, <1>2

(* What crosses a deletion is recorded. *)
LEMMA CrossingIn ==
    ASSUME NEW d, NEW f, NEW i, Crossed(d, f, i)
    PROVE  <<"race", d, f, i>> \in Crossings(d, {<<f, i>>})
<1> DEFINE b == <<f, i>>
<1>1. b[1] = f /\ b[2] = i
  OBVIOUS
<1>2. Crossed(d, b[1], b[2])
  BY <1>1
<1> HIDE DEF b
<1>3. <<"race", d, b[1], b[2]>> \in Crossings(d, {b})
  BY <1>2, Zenon DEF Crossings
<1> QED
  BY <1>1, <1>3 DEF b

(* A block is deleted: nobody claims it, or the deletion crossed the claim. *)
LEMMA DsDeleteSound ==
    ASSUME ClusterInv, Sound, NEW e \in DS, DsDelete(e) PROVE Sound'
<1> DEFINE m == Head(toDs[e])
<1>0. /\ store \in [DS -> [Fid -> [Index -> Content]]]
      /\ toNs \in [DS -> Seq(Result)] /\ block' = block
      /\ Keep(e, m[2], m[3], "none") /\ Report(e, "deleted", m[2], m[3])
      /\ spoilt' = spoilt \cup Crossings(e, {<<m[2], m[3]>>})
  BY DEF ClusterInv, Kept, Routed, DsDelete, metaVars
<1>1. m \in Command
  BY HeadOf DEF DsDelete
<1>2. m[2] \in Fid /\ m[3] \in Index
  BY <1>1 DEF Command
<1> HIDE DEF m
<1>3. ASSUME NEW d \in DS, NEW f \in Fid, NEW i \in Index, Claimed(d, f, i)'
      PROVE  Claimed(d, f, i)
  <2>1. CASE d # e
    BY <1>0, <1>3, <2>1 DEF Claimed, Report
  <2>2. CASE d = e
    <3>1. /\ toNs'[d] = Append(toNs[d], <<"deleted", m[2], m[3]>>)
          /\ toNs[d] \in Seq(Result) /\ <<"deleted", m[2], m[3]>> \in Result
      BY <1>0, <1>2, <2>2 DEF Report, Result
    <3>2. <<"copied", f, i>> # <<"deleted", m[2], m[3]>>
      OBVIOUS
    <3>3. Contains(toNs'[d], <<"copied", f, i>>) => Contains(toNs[d], <<"copied", f, i>>)
      BY <3>1, <3>2, ContainsAppend
    <3> QED
      BY <1>0, <1>3, <3>3 DEF Claimed
  <2> QED
    BY <2>1, <2>2
<1>4. ASSUME NEW d \in DS, NEW f \in Fid, NEW i \in Index PROVE SoundStep(d, f, i)
  <2>1. CASE d # e \/ f # m[2] \/ i # m[3]
    <3>1. store'[d][f][i] = store[d][f][i]
      BY <1>0, <1>2, <2>1 DEF Keep
    <3> QED
      BY <1>3, <3>1 DEF SoundStep
  <2>2. CASE d = e /\ f = m[2] /\ i = m[3]
    <3>1. ASSUME Claimed(d, f, i) PROVE <<"race", d, f, i>> \in spoilt'
      <4>1. Crossed(e, m[2], m[3])
        BY <2>2, <3>1 DEF Claimed, Crossed
      <4>2. <<"race", e, m[2], m[3]>> \in Crossings(e, {<<m[2], m[3]>>})
        BY <4>1, CrossingIn
      <4> QED
        BY <1>0, <2>2, <4>2
    <3> QED
      BY <1>3, <3>1 DEF SoundStep, Clean
  <2> QED
    BY <2>1, <2>2
<1> QED
  BY <1>0, <1>4, SoundBy

(* The process of a data server ends; the deletions read with the command  *)
(* that ended it have been carried out.                                    *)
LEMMA MissingSound ==
    ASSUME ClusterInv, Sound, NEW e \in DS, DsBackupMissing(e) PROVE Sound'
<1>1. PICK n \in 1 .. Len(toDs[e]) :
        /\ DsStop(e, Executed(e, n))
        /\ spoilt' = spoilt \cup Crossings(e, DeletedBy(e, n))
  BY DEF DsBackupMissing
<1>0. /\ store \in [DS -> [Fid -> [Index -> Content]]]
      /\ toNs \in [DS -> Seq(Result)]
      /\ block' = block /\ toNs' = [toNs EXCEPT ![e] = <<>>]
      /\ store' = [store EXCEPT ![e] = Executed(e, n)]
  BY <1>1 DEF ClusterInv, Kept, Routed, DsStop, metaVars
<1>2. ASSUME NEW d \in DS, NEW f \in Fid, NEW i \in Index PROVE SoundStep(d, f, i)
  <2>1. CASE d # e
    BY <1>0, <2>1 DEF SoundStep, Claimed
  <2>2. CASE d = e
    <3>1. Claimed(d, f, i)' => block[f][i][d] \in {"normal", "deleted"}
      BY <1>0, <2>2, ContainsNone DEF Claimed
    <3>2. CASE <<f, i>> \in DeletedBy(e, n)
      <4>1. ASSUME block[f][i][d] \in {"normal", "deleted"}
            PROVE  <<"race", d, f, i>> \in spoilt'
        BY <1>1, <2>2, <3>2, <4>1 DEF Crossings, Crossed
      <4> QED
        BY <3>1, <4>1 DEF SoundStep, Clean
    <3>3. CASE <<f, i>> \notin DeletedBy(e, n)
      <4>1. store'[d][f][i] = store[d][f][i]
        BY <1>0, <2>2, <3>3 DEF Executed
      <4> QED
        BY <3>1, <4>1 DEF SoundStep, Claimed
    <3> QED
      BY <3>2, <3>3
  <2> QED
    BY <2>1, <2>2
<1> QED
  BY <1>1, <1>2, SoundBy

(* Sessions, crashes: reports are lost and the disks stay. *)
LEMMA FaultSound == ASSUME ClusterInv, Sound, Fault PROVE Sound'
<1>0. /\ block' = block /\ spoilt' = spoilt /\ store' = store
      /\ toNs \in [DS -> Seq(Result)]
  BY DEF ClusterInv, Kept, Routed, Fault, NsCrash, SessionLost, DsCrash, DsStop, metaVars, dsVars
<1>1. ASSUME NEW d \in DS, NEW x, Contains(toNs'[d], x) PROVE Contains(toNs[d], x)
  <2>0. toNs[d] \in Seq(Result) /\ Len(toNs[d]) \in Nat
    BY <1>0
  <2>1. CASE toNs'[d] = toNs[d]
    BY <1>1, <2>1
  <2>2. CASE toNs'[d] = <<>>
    BY <1>1, <2>2, ContainsNone
  <2>3. ASSUME NEW n \in Nat, toNs'[d] = SubSeq(toNs[d], n + 1, Len(toNs[d]))
        PROVE  Contains(toNs[d], x)
    BY <1>1, <2>0, <2>3, ContainsRest
  <2>4. CASE NsCrash
    <3>1. PICK n \in [DS -> 0 .. MaxQueue] :
            toNs' = [e \in DS |-> SubSeq(toNs[e], n[e] + 1, Len(toNs[e]))]
      BY <2>4 DEF NsCrash
    <3>2. n[d] \in Nat /\ toNs'[d] = SubSeq(toNs[d], n[d] + 1, Len(toNs[d]))
      <4>1. n[d] \in 0 .. MaxQueue
        BY <3>1
      <4>2. MaxQueue \in Nat
        BY ClusterAssumption
      <4>3. n[d] \in Nat
        BY ONLY <4>1, <4>2
      <4> QED
        BY <3>1, <4>3
    <3> QED
      BY <2>3, <3>2
  <2>5. ASSUME NEW e \in DS, SessionLost(e) PROVE Contains(toNs[d], x)
    <3>1. PICK n \in 0 .. Len(toNs[e]) :
            toNs' = [toNs EXCEPT ![e] = SubSeq(@, n + 1, Len(@))]
      BY <2>5 DEF SessionLost
    <3>2. CASE d # e
      BY <1>0, <2>1, <3>1, <3>2
    <3>3. CASE d = e
      <4>1. n \in Nat /\ toNs'[d] = SubSeq(toNs[d], n + 1, Len(toNs[d]))
        BY <1>0, <2>0, <3>1, <3>3
      <4> QED
        BY <2>3, <4>1
    <3> QED
      BY <3>2, <3>3
  <2>6. ASSUME NEW e \in DS, DsCrash(e) PROVE Contains(toNs[d], x)
    BY <1>0, <2>1, <2>2, <2>6 DEF DsCrash, DsStop
  <2> QED
    BY <2>4, <2>5, <2>6 DEF Fault
<1>2. ASSUME NEW d \in DS, NEW f \in Fid, NEW i \in Index, Claimed(d, f, i)'
      PROVE  Claimed(d, f, i)
  BY <1>0, <1>1, <1>2 DEF Claimed
<1> QED
  BY <1>0, <1>2, SoundKept

(* Every step keeps every claim true. *)
LEMMA SoundNext == ClusterInv /\ Sound /\ [ClusterNext]_clusterVars => Sound'
<1> SUFFICES ASSUME ClusterInv, Sound, [ClusterNext]_clusterVars PROVE Sound'
  OBVIOUS
<1>1. ASSUME block' = block, toNs' = toNs, store' = store, spoilt' = spoilt
      PROVE  Sound'
  BY <1>1, SoundKept DEF Claimed
<1>2. CASE NoticeStart \/ NoticeTrim \/ UNCHANGED clusterVars
  BY <1>1, <1>2 DEF NoticeStart, NoticeTrim, clusterVars, metaVars, netVars, dsVars
<1>3. ASSUME NEW d \in DS, Login(d) \/ DsBackup(d) PROVE Sound'
  BY <1>1, <1>3 DEF Login, DsBackup, metaVars, dsVars
<1>4. CASE Client
  BY <1>4, RequestSound, TransferSound DEF Client
<1>5. CASE Notice
  BY <1>2, <1>5, NoticeSound DEF Notice
<1>6. ASSUME NEW d \in DS, NsRecv(d) \/ DsStep(d) \/ Login(d) PROVE Sound'
  BY <1>3, <1>6, RecvSound, DsDeleteSound, MissingSound DEF DsStep
<1> QED
  BY <1>2, <1>4, <1>5, <1>6, TransferSound, FaultSound DEF ClusterNext

(* A normal row is that of a data server with the whole block, for any     *)
(* number of files, servers, requests, deletions, lost sessions, crashes   *)
(* and broken transfers, as long as at this server no write of the block   *)
(* failed, no two transfers and no deletion and copy of it overlapped, and *)
(* what was pushed to it was whole.                                        *)
THEOREM RowsHaveBlocks == ClusterSpec => []LiveRowHasBlock
<1>1. ClusterInit => Sound
  <2> SUFFICES ASSUME ClusterInit, NEW d \in DS, NEW f \in Fid, NEW i \in Index
               PROVE  ~Claimed(d, f, i)
    BY DEF Sound
  <2> QED
    BY ContainsNone DEF ClusterInit, MetaInit, Claimed
<1>2. ClusterInv /\ Sound => LiveRowHasBlock
  <2> SUFFICES ASSUME ClusterInv, Sound, NEW r \in Row,
                      block[r[1]][r[2]][r[3]] = "normal",
                      \A w \in {"write", "race", "part"} :
                          <<w, r[3], r[1], r[2]>> \notin spoilt
               PROVE  store[r[3]][r[1]][r[2]] = "full"
    BY InvTypes DEF LiveRowHasBlock
  <2>1. r[1] \in Fid /\ r[2] \in Index /\ r[3] \in DS
    BY DEF Row
  <2> QED
    BY <2>1 DEF Sound, Claimed, Clean
<1> QED
  BY <1>1, <1>2, SoundNext, ClusterInvariance, PTL DEF ClusterSpec
=============================================================================
