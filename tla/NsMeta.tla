------------------------------- MODULE NsMeta -------------------------------
(***************************************************************************)
(* The metadata of the name service: the tables FileInfo and BlockInfo of  *)
(* nameservice/sql/createdb.sql, the stored procedures that change them    *)
(* (procedure.sql) and the triggers that keep FinishedNum (trigger.sql).   *)
(*                                                                         *)
(* The name service runs one event loop and waits for every CALL, so the   *)
(* procedures never interleave.  A procedure is however several            *)
(* autocommitted statements: a database that dies between two of them      *)
(* keeps the effect of the first ones (the ...Cut actions).                *)
(***************************************************************************)
EXTENDS Integers, FiniteSets

CONSTANTS Hash,       \* file hashes (MD5 values)
          Fid,        \* file ids handed out by AUTO_INCREMENT
          Index,      \* block indexes
          DS,         \* data server ids
          BNum,       \* the numbers of blocks that upload requests name
          NoHash      \* the Hash of a FileInfo row that does not exist

(* gfs_busi_upload.c refuses a request with no block or more than 150.  It *)
(* compares the index neither with that number nor the number with the one *)
(* of an earlier request, so every request picks both.                     *)
ASSUME MetaAssumption ==
    /\ Fid \subseteq Nat
    /\ NoHash \notin Hash
    /\ Index \subseteq Nat
    /\ IsFiniteSet(Index)
    /\ \A n \in BNum : n \in Nat /\ n >= 1 /\ n =< 150

VARIABLES file,    \* FileInfo: one row per file id
          block,   \* BlockInfo: Status of the row (FileID, Blockindex, DSID)
          nextFid, \* AUTO_INCREMENT counter of FileInfo
          reply    \* what upload_file returned last: <<hash, bindex, ret>>

metaVars == <<file, block, nextFid, reply>>

(* Status of a BlockInfo row: 0 normal, 1 deleted, 2 deleting; "none" when *)
(* there is no such row.                                                   *)
BlockStatus == {"none", "normal", "deleted", "deleting"}

FileRow == [hash : Hash, blockNum : Nat, finishedNum : Int,
            status : {"normal", "deleted"}]

NoFile == [hash |-> NoHash, blockNum |-> 0, finishedNum |-> 0,
           status |-> "normal"]

(* Return values of upload_file. *)
NewFile     == 20
NotUploaded == 21
BlockExists == 12
Finished    == 13
NoReply     == <<NoHash, -1, 0>>

-----------------------------------------------------------------------------
(* What the procedures and the triggers count. *)

Exists(f) == file[f].hash # NoHash

Live(f, i) == {d \in DS : block[f][i][d] = "normal"}

OneLive(f, i) == \E d \in DS : Live(f, i) = {d}

LiveIndex(f) == {i \in Index : Live(f, i) # {}}

HasRows(f) == \E i \in Index, d \in DS : block[f][i][d] # "none"

(* A slip: a row that goes to Status 2 is not counted down. *)
updblock_NoDeleting(f, i, s) ==
    IF Live(f, i) = {} /\ s = "normal" THEN 1
    ELSE IF OneLive(f, i) /\ s = "deleted" THEN -1 ELSE 0

(* Trigger updblock, BEFORE UPDATE: what a row of block i of file f that   *)
(* gets Status s adds to FinishedNum.  It looks at the number of normal    *)
(* rows, and not at the Status the row had.                                *)
updblock(f, i, s) ==
    IF Live(f, i) = {} /\ s = "normal" THEN 1
    ELSE IF OneLive(f, i) /\ s \in {"deleted", "deleting"} THEN -1 ELSE 0

(* Trigger cpyblock, BEFORE INSERT of a normal row. *)
cpyblock(f, i) == IF Live(f, i) = {} THEN 1 ELSE 0

(* UPDATE BlockInfo SET Status=t WHERE FileID=f AND Status=s *)
Restatus(f, s, t) ==
    [i \in Index |-> [d \in DS |->
        IF block[f][i][d] = s THEN t ELSE block[f][i][d]]]

(* The row (FileID=f, Blockindex=i, DSID=d) gets Status s. *)
SetRow(f, i, d, s) == [block EXCEPT ![f][i][d] = s]

(* Indexes that a Restatus(f, "deleted", "normal") brings back: the first  *)
(* of their rows finds no normal row and is counted, the others are not.   *)
Revivable(f) ==
    {i \in Index : Live(f, i) = {} /\ \E d \in DS : block[f][i][d] = "deleted"}

(* UPDATE FileInfo SET Status=st, FinishedNum=FinishedNum+n WHERE FileID=f *)
UpdateFile(f, st, n) ==
    [file EXCEPT ![f] = [hash |-> file[f].hash, blockNum |-> file[f].blockNum,
                         finishedNum |-> file[f].finishedNum + n,
                         status |-> st]]

AddFinished(f, n) == UpdateFile(f, file[f].status, n)

-----------------------------------------------------------------------------
MetaInit ==
    /\ file = [f \in Fid |-> NoFile]
    /\ block = [f \in Fid |-> [i \in Index |-> [d \in DS |-> "none"]]]
    /\ nextFid = 1
    /\ reply = NoReply

(* The value upload_file selects once the tables are up to date. *)
UploadRet(f, i) ==
    IF file'[f].blockNum = file'[f].finishedNum THEN Finished
    ELSE IF i = -1
         THEN IF file'[f].finishedNum > 0 THEN BlockExists ELSE NotUploaded
         ELSE IF \E d \in DS : block'[f][i][d] = "normal"
              THEN BlockExists ELSE NotUploaded

-----------------------------------------------------------------------------
(* Slips the properties below must notice; each stands in for the          *)
(* definition of the same name without the suffix, and no action uses it.  *)

(* The file row is looked up WHERE Status=0, so a deleted file gets a twin.*)
UploadNew_LiveOnly(h, n, i) ==
    /\ \A f \in Fid : file[f].hash = h => file[f].status # "normal"
    /\ nextFid \in Fid
    /\ file' = [file EXCEPT ![nextFid] =
                  [hash |-> h, blockNum |-> n,
                   finishedNum |-> 0, status |-> "normal"]]
    /\ nextFid' = nextFid + 1
    /\ reply' = <<h, i, NewFile>>
    /\ UNCHANGED block

(* The blocks come back and the file keeps Status 1. *)
UploadKnown_NoReset(f, i) ==
    /\ Exists(f)
    /\ IF file[f].status = "deleted"
       THEN /\ block' = [block EXCEPT ![f] = Restatus(f, "deleted", "normal")]
            /\ file' = AddFinished(f, Cardinality(Revivable(f)))
       ELSE UNCHANGED <<file, block>>
    /\ reply' = <<file[f].hash, i, UploadRet(f, i)>>
    /\ UNCHANGED nextFid

(* A file with FinishedNum 0 is dropped without looking for its rows. *)
DeleteFile_NoCount(f) ==
    /\ Exists(f)
    /\ file' = [file EXCEPT ![f] = NoFile]
    /\ file[f].finishedNum = 0
    /\ reply' = NoReply
    /\ UNCHANGED <<block, nextFid>>

(* The row of the last block loses its hash and keeps its other columns. *)
DeleteBlock_HashOnly(f, i, d) ==
    /\ block[f][i][d] = "deleting"
    /\ block' = SetRow(f, i, d, "none")
    /\ file' = IF HasRows(f)' THEN file ELSE [file EXCEPT ![f].hash = NoHash]
    /\ reply' = NoReply
    /\ UNCHANGED nextFid

-----------------------------------------------------------------------------
(* upload_file for a hash that has no row: INSERT INTO FileInfo, with the  *)
(* number of blocks this request names.                                    *)
UploadNew(h, n, i) ==
    /\ \A f \in Fid : file[f].hash # h
    /\ nextFid \in Fid
    /\ file' = [file EXCEPT ![nextFid] =
                  [hash |-> h, blockNum |-> n,
                   finishedNum |-> 0, status |-> "normal"]]
    /\ nextFid' = nextFid + 1
    /\ reply' = <<h, i, NewFile>>
    /\ UNCHANGED block

(* upload_file for a hash that has one: a deleted file comes back with the *)
(* rows that are still only marked, and the answer is read off the tables. *)
(* The number of blocks of the request is not looked at.                   *)
UploadKnown(f, i) ==
    /\ Exists(f)
    /\ IF file[f].status = "deleted"
       THEN /\ block' = [block EXCEPT ![f] = Restatus(f, "deleted", "normal")]
            /\ file' = UpdateFile(f, "normal", Cardinality(Revivable(f)))
       ELSE UNCHANGED <<file, block>>
    /\ reply' = <<file[f].hash, i, UploadRet(f, i)>>
    /\ UNCHANGED nextFid

(* delete_file: nothing happens when FinishedNum is negative, or zero      *)
(* while the file has rows.                                                *)
DeleteFile(f) ==
    /\ Exists(f)
    /\ \/ /\ file[f].finishedNum > 0
          /\ file' = UpdateFile(f, "deleted", -Cardinality(LiveIndex(f)))
          /\ block' = [block EXCEPT ![f] = Restatus(f, "normal", "deleted")]
       \/ /\ file[f].finishedNum = 0
          /\ ~HasRows(f)
          /\ file' = [file EXCEPT ![f] = NoFile]
          /\ UNCHANGED block
    /\ reply' = NoReply
    /\ UNCHANGED nextFid

(* copy_block: data server d reports that it holds block i of file f.      *)
CopyBlock(f, i, d) ==
    /\ Exists(f)
    /\ file' = AddFinished(f, IF block[f][i][d] = "none"
                              THEN cpyblock(f, i)
                              ELSE updblock(f, i, "normal"))
    /\ block' = SetRow(f, i, d, "normal")
    /\ reply' = NoReply
    /\ UNCHANGED nextFid

(* set_del_ing: the UPDATE matches the row whatever its Status, and the    *)
(* trigger runs even when the row already has Status 2.                    *)
SetDelIng(f, i, d) ==
    /\ block[f][i][d] # "none"
    /\ file' = AddFinished(f, updblock(f, i, "deleting"))
    /\ block' = SetRow(f, i, d, "deleting")
    /\ reply' = NoReply
    /\ UNCHANGED nextFid

(* delete_block: data server d reports that it dropped block i of file f.  *)
(* Only a row with Status 2 is removed; trigger delblock counts down for a *)
(* row with Status 0 only, so never here.  The FileInfo row goes when the  *)
(* file has no BlockInfo row left.                                         *)
DeleteBlock(f, i, d) ==
    /\ block' = IF block[f][i][d] = "deleting"
                THEN SetRow(f, i, d, "none") ELSE block
    /\ file' = IF \A j \in Index, e \in DS : block'[f][j][e] = "none"
               THEN [file EXCEPT ![f] = NoFile] ELSE file
    /\ reply' = NoReply
    /\ UNCHANGED nextFid

-----------------------------------------------------------------------------
(* The database dies inside a procedure, after its first statement.        *)

(* delete_file: FileInfo is marked, no block is. *)
DeleteFileCut(f) ==
    /\ Exists(f)
    /\ file[f].finishedNum > 0
    /\ file' = UpdateFile(f, "deleted", 0)
    /\ reply' = NoReply
    /\ UNCHANGED <<block, nextFid>>

(* upload_file: the rows are back, FileInfo still says deleted. *)
UploadKnownCut(f) ==
    /\ Exists(f)
    /\ file[f].status = "deleted"
    /\ block' = [block EXCEPT ![f] = Restatus(f, "deleted", "normal")]
    /\ file' = AddFinished(f, Cardinality(Revivable(f)))
    /\ reply' = NoReply
    /\ UNCHANGED nextFid

(* delete_block: the last row is gone, the FileInfo row stays. *)
DeleteBlockCut(f, i, d) ==
    /\ block[f][i][d] = "deleting"
    /\ block' = SetRow(f, i, d, "none")
    /\ reply' = NoReply
    /\ UNCHANGED <<file, nextFid>>

-----------------------------------------------------------------------------
(* The index of an upload request; -1 asks for the file as a whole. *)
UploadArg == Index \cup {-1}

MetaNext ==
    \/ \E h \in Hash, n \in BNum, i \in UploadArg : UploadNew(h, n, i)
    \/ \E f \in Fid :
         \/ \E i \in UploadArg : UploadKnown(f, i)
         \/ DeleteFile(f)
         \/ DeleteFileCut(f)
         \/ UploadKnownCut(f)
         \/ \E i \in Index, d \in DS :
              \/ CopyBlock(f, i, d)
              \/ SetDelIng(f, i, d)
              \/ DeleteBlock(f, i, d)
              \/ DeleteBlockCut(f, i, d)

MetaSpec == MetaInit /\ [][MetaNext]_metaVars

-----------------------------------------------------------------------------
(* The tables hold rows of the declared columns. *)
MetaTypeOK ==
    /\ file \in [Fid -> FileRow \cup {NoFile}]
    /\ block \in [Fid -> [Index -> [DS -> BlockStatus]]]
    /\ nextFid \in Nat
    /\ reply \in (Hash \cup {NoHash}) \X (Index \cup {-1})
                   \X {0, NewFile, NotUploaded, BlockExists, Finished}

(* There is one FileInfo row per hash: upload_file and delete_file read    *)
(* FileID with SELECT ... INTO, which fails on two rows, and createdb.sql  *)
(* declares no unique key.  File ids are never handed out twice.           *)
OneFilePerHash ==
    /\ \A f, g \in Fid : Exists(f) /\ file[f].hash = file[g].hash => f = g
    /\ \A f \in Fid : Exists(f) => f < nextFid

(* No BlockInfo row outlives its FileInfo row, although there is no        *)
(* foreign key and three procedures delete from either table.              *)
NoOrphanRows ==
    \A f \in Fid, i \in Index, d \in DS :
        block[f][i][d] # "none" => Exists(f)

(* FinishedNum never counts a block that has no normal copy, whatever mix  *)
(* of uploads, deletes, late copy reports, deletion passes and database    *)
(* crashes runs.                                                           *)
FinishedNumSound ==
    \A f \in Fid :
        Exists(f) => file[f].finishedNum =< Cardinality(LiveIndex(f))

(* Rows of the file outside of 0 .. BlockNum - 1: copy_block inserts       *)
(* whatever index the data server reports.                                 *)
StrayRows(f) == \E i \in LiveIndex(f) : i >= file[f].blockNum

(* An upload is answered FILE_FINISHED, which makes the client skip the    *)
(* transfer, only when the file is not deleted and as many indexes as its  *)
(* BlockNum have a normal copy that download_file returns.  These are all  *)
(* of its blocks, unless a data server reported an index the file does not *)
(* have: then the answer may come while a block is missing.                *)
FinishedMeansComplete ==
    reply[3] = Finished =>
        \E f \in Fid :
            /\ file[f].hash = reply[1]
            /\ file[f].status = "normal"
            /\ Cardinality(LiveIndex(f)) >= file[f].blockNum
            /\ \/ StrayRows(f)
               \/ 0 .. file[f].blockNum - 1 \subseteq LiveIndex(f)

(* The inductive invariant of the metadata. *)
MetaInv == MetaTypeOK /\ OneFilePerHash /\ NoOrphanRows /\ FinishedNumSound
=============================================================================
