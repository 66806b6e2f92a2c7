----------------------------- MODULE DsTransfer -----------------------------
(***************************************************************************)
(* Transfers of one block at one data server: uploads from clients         *)
(* (DSClientPutTask), copies from other servers (DSPutTask), downloads     *)
(* (DSClientGetTask), the copies an upload passes on (DSPushTask) and the  *)
(* name service's delete command, all on threads of their own.             *)
(*                                                                         *)
(* A transfer moves one buffer at a time, and its calls of the block store *)
(* are cut where the code holds no lock: get_logic_block returns a bare    *)
(* pointer, new_single_block looks twice, deletes and creates in separate  *)
(* critical sections.  A block has Segs segments of one buffer each; what  *)
(* matters of a segment is whether the upload's bytes are in the file.     *)
(* Two uploads of a block bring the same bytes.                            *)
(***************************************************************************)
EXTENDS Integers, FiniteSets

CONSTANTS
    Put,          \* tasks that write
    Get,          \* download tasks
    Segs,         \* blockinfo::MaxBlockSize, the data area of a block file
    Null,
    Requests,     \* ranges asked for, in segments from 1
    MaxObj,       \* LogicBlock objects ever made
    MaxStart, MaxDel, MaxFail, MaxDead

Task == Put \cup Get
Obj == 1..MaxObj
ReqRange(t, r) == r[t].from .. r[t].to

ASSUME TransferAssumption ==
    /\ Put \cap Get = {} /\ Segs \in Nat \ {0} /\ MaxObj \in Nat \ {0} /\ Null \notin 1..MaxObj
    /\ \A r \in Requests : r.from \in Nat \ {0} /\ r.to \in Nat /\ r.from <= r.to

VARIABLES
    lb,           \* the LogicBlock in logic_blocks_, or Null
    data,         \* segments that were written to the file of each object
    freed,        \* objects deleted
    pc, req,      \* of each task: where it is and the range asked for
    pos,          \* RecvBlockdataOffset, read_offset: the next segment
    got,          \* DataRecvLen; of a reader, the segments it sent
    ptr,          \* logic_block, while the task works with it
    one,          \* everything came with the request
    rc,           \* retcode of the answer
    hit, err,     \* auxiliary: the block was deleted, or a write failed, since
                  \* the task started
    whole,        \* auxiliary: what the task found stored when it was to be
    bad,          \* auxiliary: tasks that promised or sent what was not stored
    used

store == <<lb, data, freed>>
task == <<pc, req, pos, got, ptr, one, rc>>
aux == <<hit, err, whole, bad>>
vars == <<store, task, aux, used>>

Budget == [start |-> MaxStart, del |-> MaxDel, fail |-> MaxFail, dead |-> MaxDead]
Spend(k) == used[k] < Budget[k] /\ used' = [used EXCEPT ![k] = @ + 1]

All == [from |-> 1, to |-> Segs]

Stored == IF lb = Null THEN {} ELSE data[lb]

TransferInit ==
    /\ lb = Null /\ data = [o \in Obj |-> {}] /\ freed = {}
    /\ pc = [t \in Task |-> "idle"] /\ req = [t \in Task |-> All]
    /\ pos = [t \in Task |-> 1] /\ got = [t \in Task |-> 0]
    /\ ptr = [t \in Task |-> Null] /\ one = [t \in Task |-> FALSE]
    /\ rc = [t \in Task |-> "none"]
    /\ hit = [t \in Task |-> FALSE] /\ err = [t \in Task |-> FALSE]
    /\ whole = [t \in Task |-> FALSE] /\ bad = {}
    /\ used = [k \in DOMAIN Budget |-> 0]

At(t, p) == pc[t] = p
Goto(t, p) == pc' = [pc EXCEPT ![t] = p]

(* Run returns -1 and the task is deleted. *)
End(t) ==
    /\ pc' = [pc EXCEPT ![t] = "idle"] /\ req' = [req EXCEPT ![t] = All]
    /\ pos' = [pos EXCEPT ![t] = 1] /\ got' = [got EXCEPT ![t] = 0]
    /\ ptr' = [ptr EXCEPT ![t] = Null] /\ one' = [one EXCEPT ![t] = FALSE]
    /\ rc' = [rc EXCEPT ![t] = "none"]
    /\ hit' = [hit EXCEPT ![t] = FALSE] /\ err' = [err EXCEPT ![t] = FALSE]
    /\ whole' = [whole EXCEPT ![t] = FALSE] /\ bad' = bad \ {t}

(* The process dies (null pointer, freed object).  The block and its bytes *)
(* are there when it comes back; tasks are not.                            *)
Die ==
    /\ Spend("dead")
    /\ pc' = [t \in Task |-> "idle"] /\ req' = [t \in Task |-> All]
    /\ pos' = [t \in Task |-> 1] /\ got' = [t \in Task |-> 0]
    /\ ptr' = [t \in Task |-> Null] /\ one' = [t \in Task |-> FALSE]
    /\ rc' = [t \in Task |-> "none"]
    /\ hit' = [t \in Task |-> FALSE] /\ err' = [t \in Task |-> FALSE]
    /\ whole' = [t \in Task |-> FALSE] /\ bad' = {}
    /\ UNCHANGED store

------------------------------------------------------------------------------
(* Variations of actions, for the mutants. *)
ReturnedEarly(t, ret) ==
    LET last == got[t] >= req[t].to - req[t].from IN
    /\ pos' = [pos EXCEPT ![t] = @ + 1]
    /\ err' = [err EXCEPT ![t] = @ \/ ret # "ok"]
    /\ rc' = [rc EXCEPT ![t] = IF last THEN "ok" ELSE @]
    /\ Goto(t, IF last \/ ret = "neg" THEN "resp" ELSE "recv")
    /\ ptr' = [ptr EXCEPT ![t] = Null]
    /\ UNCHANGED <<req, got, one, hit, whole, bad>>

PassedTwo(t, good, p) ==
    /\ bad' = IF good THEN bad ELSE bad \cup {t}
    /\ pos' = [pos EXCEPT ![t] = @ + IF p = "busy" THEN 2 ELSE 1]
    /\ Goto(t, IF p = "busy" THEN "busy" ELSE IF pos[t] < req[t].to THEN "look" ELSE "end")
    /\ got' = [got EXCEPT ![t] = @ + 1]
    /\ ptr' = [ptr EXCEPT ![t] = Null]
    /\ UNCHANGED <<store, req, one, rc, hit, err, whole>>

LookWaits(t) ==
    /\ At(t, "look") /\ lb # Null
    /\ ptr' = [ptr EXCEPT ![t] = lb]
    /\ Goto(t, "read")
    /\ UNCHANGED <<store, req, pos, got, one, rc, aux, used>>

(* The object leaves the map and is deleted. *)
Free ==
    /\ lb' = Null /\ freed' = freed \cup {lb}
    /\ data' = [data EXCEPT ![lb] = {}]
    /\ hit' = [t \in Task |-> hit[t] \/ ~At(t, "idle")]

------------------------------------------------------------------------------
(* Uploads *)

(* A request arrives, with all of its bytes or none of them. *)
PutStart(t, r, all) ==
    /\ At(t, "idle") /\ Spend("start")
    /\ req' = [req EXCEPT ![t] = r]
    /\ one' = [one EXCEPT ![t] = all /\ r.from = r.to]
    /\ pos' = [pos EXCEPT ![t] = r.from]
    /\ got' = [got EXCEPT ![t] = IF one'[t] THEN 1 ELSE 0]
    /\ hit' = [hit EXCEPT ![t] = FALSE] /\ err' = [err EXCEPT ![t] = FALSE]
    /\ rc' = [rc EXCEPT ![t] = IF r.from > Segs + 1 THEN "error" ELSE "none"]
    /\ Goto(t, IF r.from > Segs + 1 THEN "resp" ELSE IF one'[t] THEN "find" ELSE "recv")
    /\ bad' = bad \ {t}
    /\ UNCHANGED <<store, ptr, whole>>

(* The next buffer.  One that goes past the block ends the transfer. *)
ReqLen(t) == req[t].to - req[t].from + 1

Recv(t) ==
    /\ At(t, "recv")
    /\ got' = [got EXCEPT ![t] = IF pos[t] > Segs THEN ReqLen(t) ELSE @ + 1]
    /\ Goto(t, "find")
    /\ UNCHANGED <<store, req, pos, ptr, one, rc, aux, used>>

(* The connection ends; what was written stays ("rollback {}").            *)
PutBreak(t) ==
    /\ pc[t] \in {"recv", "send"}
    /\ End(t)
    /\ UNCHANGED <<store, used>>

(* What the task makes of the return value of write_raw_data: "ok", "pos"  *)
(* (TFS_ERROR, which is 1) or "neg".  Only negative values are errors, and *)
(* after the last buffer not even they.                                    *)
Returned(t, ret) ==
    LET last == got[t] >= ReqLen(t) IN
    /\ pos' = [pos EXCEPT ![t] = @ + 1]
    /\ err' = [err EXCEPT ![t] = @ \/ ret # "ok"]
    /\ rc' = [rc EXCEPT ![t] = IF last /\ ~one[t] THEN "ok"
                                ELSE IF ret = "neg" THEN "internal"
                                ELSE IF last THEN "ok" ELSE @]
    /\ Goto(t, IF last \/ ret = "neg" THEN "resp" ELSE "recv")
    /\ ptr' = [ptr EXCEPT ![t] = Null]
    /\ UNCHANGED <<req, got, one, hit, whole, bad>>

(* DataManagement::write_raw_data *)
Find(t) ==
    /\ At(t, "find")
    /\ ptr' = [ptr EXCEPT ![t] = lb]
    /\ Goto(t, IF lb = Null THEN "again" ELSE "write")
    /\ UNCHANGED <<store, req, pos, got, one, rc, aux, used>>

(* new_single_block: the block is looked up once more ... *)
Again(t) ==
    /\ At(t, "again")
    /\ Goto(t, IF lb = Null THEN "new" ELSE "del")
    /\ UNCHANGED <<store, req, pos, got, ptr, one, rc, aux, used>>

(* ... "first del it" ... *)
FirstDel(t) ==
    /\ At(t, "del") /\ lb # Null
    /\ Free
    /\ Goto(t, "new")
    /\ UNCHANGED <<req, pos, got, ptr, one, rc, err, whole, bad, used>>

FirstDelGone(t) ==
    /\ At(t, "del") /\ lb = Null
    /\ Returned(t, "pos")
    /\ UNCHANGED <<store, used>>

(* ... and new_block makes it. *)
New(t) ==
    LET o == CHOOSE o \in Obj : o \notin freed IN
    /\ At(t, "new") /\ lb = Null /\ freed # Obj
    /\ lb' = o
    /\ Goto(t, "fetch")
    /\ UNCHANGED <<data, freed, req, pos, got, ptr, one, rc, aux, used>>

(* It exists already. *)
NewExists(t) ==
    /\ At(t, "new") /\ lb # Null
    /\ Returned(t, "pos")
    /\ UNCHANGED <<store, used>>

(* No block file is free, or a write of the store fails. *)
NewFails(t) ==
    /\ At(t, "new") /\ lb = Null
    /\ Spend("fail")
    /\ Returned(t, "pos")
    /\ UNCHANGED store

(* The new object is looked up; nobody looks whether it is there. *)
Fetch(t) ==
    /\ At(t, "fetch")
    /\ IF lb = Null THEN Die
       ELSE /\ ptr' = [ptr EXCEPT ![t] = lb]
            /\ Goto(t, "write")
            /\ UNCHANGED <<store, req, pos, got, one, rc, aux, used>>

(* LogicBlock::write_raw_data; past the end it returns TFS_ERROR. *)
Write(t) ==
    /\ At(t, "write") /\ ptr[t] \notin freed
    /\ IF pos[t] > Segs
       THEN Returned(t, "pos") /\ UNCHANGED store
       ELSE /\ Returned(t, "ok")
            /\ data' = [data EXCEPT ![ptr[t]] = @ \cup {pos[t]}]
            /\ UNCHANGED <<lb, freed>>
    /\ UNCHANGED used

WriteFails(t) ==
    /\ At(t, "write") /\ ptr[t] \notin freed /\ pos[t] <= Segs
    /\ Spend("fail")
    /\ Returned(t, "neg")
    /\ UNCHANGED store

(* The object was deleted since it was looked up: the process dies, or the *)
(* write goes nowhere, with any result, or its memory is the new object's. *)
WriteFreed(t) ==
    /\ At(t, "write") /\ ptr[t] \in freed
    /\ \/ Die
       \/ \E ret \in {"ok", "pos", "neg"} : Returned(t, ret) /\ UNCHANGED <<store, used>>
       \/ /\ lb # Null /\ pos[t] <= Segs
          /\ data' = [data EXCEPT ![lb] = @ \cup {pos[t]}]
          /\ Returned(t, "ok") /\ UNCHANGED <<lb, freed, used>>

(* The answer.  PUTOK is reported to the name service before it is sent.   *)
Respond(t) ==
    /\ At(t, "resp")
    /\ whole' = [whole EXCEPT ![t] = rc[t] = "ok" /\ ReqRange(t, req) \subseteq Stored]
    /\ bad' = IF rc[t] = "ok" /\ ~whole'[t] THEN bad \cup {t} ELSE bad
    /\ Goto(t, "send")
    /\ UNCHANGED <<store, req, pos, got, ptr, one, rc, hit, err, used>>

(* It is sent, whatever it says, and the block is passed on to a backup if *)
(* the request named one.  The push task goes on in t's place.             *)
Sent(t, backup) ==
    /\ At(t, "send")
    /\ IF backup
       THEN /\ pos' = [pos EXCEPT ![t] = req[t].from] /\ got' = [got EXCEPT ![t] = 0]
            /\ Goto(t, "look")
            /\ UNCHANGED <<req, ptr, one, rc, aux>>
       ELSE End(t)
    /\ UNCHANGED <<store, used>>

------------------------------------------------------------------------------
(* Downloads, and the reading side of a push *)

(* GETOK is sent if the block exists. *)
GetStart(t, r) ==
    /\ At(t, "idle") /\ Spend("start")
    /\ lb # Null
    /\ req' = [req EXCEPT ![t] = r] /\ pos' = [pos EXCEPT ![t] = r.from]
    /\ hit' = [hit EXCEPT ![t] = FALSE]
    /\ whole' = [whole EXCEPT ![t] = ReqRange(t, req') \subseteq Stored]
    /\ got' = [got EXCEPT ![t] = 0]
    /\ Goto(t, "look")
    /\ bad' = bad \ {t}
    /\ UNCHANGED <<store, ptr, one, rc, err>>

Look(t) ==
    /\ At(t, "look")
    /\ IF lb = Null THEN End(t)
       ELSE /\ ptr' = [ptr EXCEPT ![t] = lb]
            /\ Goto(t, "read")
            /\ UNCHANGED <<req, pos, got, one, rc, aux>>
    /\ UNCHANGED <<store, used>>

(* One buffer is read and sent, or the socket does not take it yet: then   *)
(* it is kept (busy).                                                      *)
Passed(t, good, p) ==
    /\ bad' = IF good THEN bad ELSE bad \cup {t}
    /\ pos' = [pos EXCEPT ![t] = @ + 1]
    /\ Goto(t, IF p = "busy" THEN "busy" ELSE IF pos[t] < req[t].to THEN "look" ELSE "end")
    /\ got' = [got EXCEPT ![t] = @ + 1]
    /\ ptr' = [ptr EXCEPT ![t] = Null]
    /\ UNCHANGED <<store, req, one, rc, hit, err, whole>>

(* A segment of the block, or past its end the old content of the buffer   *)
(* (EXIT_FAILURE is 1, not negative).                                      *)
Read(t, p) ==
    /\ At(t, "read") /\ ptr[t] \notin freed /\ pos[t] # Segs + 1
    /\ Passed(t, pos[t] \in data[ptr[t]], p)
    /\ UNCHANGED used

(* At the end of the block 0 bytes are read, with success, for ever. *)
ReadEnd(t) ==
    /\ At(t, "read") /\ ptr[t] \notin freed /\ pos[t] = Segs + 1
    /\ Goto(t, "loop")
    /\ UNCHANGED <<store, req, pos, got, ptr, one, rc, aux, used>>

ReadFails(t) ==
    /\ At(t, "read") /\ pos[t] # Segs + 1
    /\ Spend("fail")
    /\ End(t)
    /\ UNCHANGED store

ReadFreed(t) ==
    /\ At(t, "read") /\ ptr[t] \in freed
    /\ \/ Die
       \/ Passed(t, FALSE, "sent") /\ UNCHANGED used

(* The peer reads. *)
Busy(t) ==
    /\ At(t, "busy")
    /\ Goto(t, IF pos[t] <= req[t].to THEN "look" ELSE "end")
    /\ UNCHANGED <<store, req, pos, got, ptr, one, rc, aux, used>>

(* The peer closes, or does not read for ten seconds (downloads only). *)
Timeout(t) ==
    /\ t \in Get /\ At(t, "busy")
    /\ End(t)
    /\ UNCHANGED <<store, used>>

ReadDone(t) ==
    /\ At(t, "end")
    /\ End(t)
    /\ UNCHANGED <<store, used>>

------------------------------------------------------------------------------
(* The delete command; the answer to the name service does not depend on   *)
(* what it did.                                                            *)
Delete ==
    /\ lb # Null /\ Spend("del")
    /\ Free
    /\ UNCHANGED <<task, err, whole, bad>>

Store(t) ==
    \/ Find(t) \/ Again(t) \/ FirstDel(t) \/ FirstDelGone(t)
    \/ New(t) \/ NewExists(t) \/ NewFails(t) \/ Fetch(t)
    \/ Write(t) \/ WriteFails(t) \/ WriteFreed(t)
Reading(t) ==
    \/ Look(t) \/ Read(t, "sent") \/ ReadEnd(t) \/ ReadFails(t) \/ ReadFreed(t) \/ ReadDone(t)

Next ==
    \/ \E t \in Put :
        \/ \E r \in Requests, all \in BOOLEAN : PutStart(t, r, all)
        \/ Recv(t) \/ PutBreak(t) \/ Store(t) \/ Respond(t)
        \/ \E backup \in BOOLEAN : Sent(t, backup)
    \/ \E t \in Get : \E r \in Requests : GetStart(t, r)
    \/ \E t \in Task : Reading(t) \/ Read(t, "busy") \/ Busy(t) \/ Timeout(t)
    \/ Delete

Spec == TransferInit /\ [][Next]_vars

(* Threads run their tasks, unless one of them is in the endless loop, and *)
(* the timer thread its timers.                                            *)
NoLoop == \A t \in Task : ~At(t, "loop")
TransferFair ==
    /\ \A t \in Get : WF_vars(NoLoop /\ Reading(t)) /\ WF_vars(NoLoop /\ (Busy(t) \/ Timeout(t)))
    /\ \A t \in Put : WF_vars(NoLoop /\ (Store(t) \/ Respond(t)))

FairSpec == Spec /\ TransferFair

------------------------------------------------------------------------------
TransferTypeOK ==
    /\ lb \in Obj \cup {Null} /\ freed \subseteq Obj
    /\ data \in [Obj -> SUBSET (1..Segs)]
    /\ pc \in [Task -> {"idle", "recv", "find", "again", "del", "new", "fetch", "write",
                        "resp", "send", "look", "read", "busy", "loop", "end"}]
    /\ pos \in [Task -> Nat] /\ got \in [Task -> Nat]
    /\ ptr \in [Task -> Obj \cup {Null}]
    /\ rc \in [Task -> {"none", "ok", "internal", "error"}]
    /\ used \in [DOMAIN Budget -> Nat]

(* A copy is reported to the name service only when every segment of the   *)
(* request is in the block, unless a write of this task failed or the      *)
(* block was deleted under it: several uploads of one block do no harm to  *)
(* each other as long as it exists, in whatever order their buffers come,  *)
(* and the map never leads to a LogicBlock that one of them has freed.     *)
StoredWhenReported ==
    /\ TransferTypeOK
    /\ lb \notin freed
    /\ \A t \in Put : t \in bad /\ pc[t] = "send" => hit[t] \/ err[t]

(* A download that found its range stored sends the stored bytes and all   *)
(* of them, unless the block was deleted while it was reading: what is     *)
(* written in the meantime and a busy socket make no difference.           *)
GetHonest ==
    \A t \in Get :
        /\ t \in bad => hit[t] \/ ~whole[t]
        /\ pc[t] = "end" => got[t] = ReqLen(t)

(* A download of a range inside the block ends, also when its client stops *)
(* reading and whatever happens to the block.                              *)
GetEnds ==
    \A t \in Get : (pc[t] # "idle" /\ req[t].to <= Segs) ~> (pc[t] = "idle" \/ ~NoLoop)
=============================================================================
