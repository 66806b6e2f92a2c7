------------------------------ MODULE NsCluster ------------------------------
(***************************************************************************)
(* The name service and its data servers around the metadata of NsMeta:    *)
(* the requests that change the tables, the timer pass that replicates and *)
(* deletes blocks (busi/gfs_busi_notice.c), the data servers that carry    *)
(* out its commands (DSMessageProcess.cpp, the Put and Push tasks) and the *)
(* TCP sessions between them, which lose what is in flight when they end.  *)
(*                                                                         *)
(* The name service is single-threaded: while a pass has rows left to      *)
(* notify, it handles nothing else.  A step of the pass is one row.        *)
(***************************************************************************)
EXTENDS NsMeta, SequencesExt

CONSTANTS Copies,     \* gfs_global->copies
          PageSize,   \* @page_num of get_del_block and get_cpy_block (50)
          MaxUpload,  \* bound: upload requests of clients
          MaxDelete,  \* bound: delete requests of clients
          MaxFault,   \* bound: lost sessions, crashes and broken transfers
          MaxQueue    \* bound: messages queued in one direction

ASSUME ClusterAssumption ==
    /\ {Copies, PageSize, MaxQueue} \subseteq Nat \ {0}
    /\ {MaxUpload, MaxDelete, MaxFault} \subseteq Nat
    /\ IsFiniteSet(DS)

VARIABLES
    up,     \* data servers in the map of gfs_net_map.c
    toDs,   \* toDs[d]: commands of the name service d has not handled
    toNs,   \* toNs[d]: results in fMessageQueue of d or on their way
    store,  \* store[d][f][i]: what d keeps of block i of file f
    push,   \* DSPushTasks: block i of f from src to dst
    grant,  \* upload answers clients act on: block i of f to servers ds; by
            \* tells two clients with the same answer apart
    pass,   \* the part of the timer pass that runs
    todo,   \* rows the pass has still to notify
    page,   \* del0_pages, del1_pages and cpy_pages of gfs_sql.c
    spoilt, \* auxiliary: at which blocks of which servers something met
    used    \* what is spent of the bounds

clusterVars == <<file, block, nextFid, reply, up, toDs, toNs, store, push,
                 grant, pass, todo, page, spoilt, used>>

netVars == <<up, toDs, toNs>>
dsVars  == <<store, push, spoilt>>
nsVars  == <<pass, todo, page>>

Row     == Fid \X Index \X DS
Content == {"none", "partial", "full"}
Push    == [fid : Fid, index : Index, src : DS, dst : DS]
Grant   == [fid : Fid, index : Index, ds : SUBSET DS, by : Nat]

(* Commands 0x05 (delete) and 0x07 (backup to dst), results 0x06 and 0x08. *)
Command == {"delete", "backup"} \X Fid \X Index \X DS
Result  == {"deleted", "copied"} \X Fid \X Index

(* What can spoil a block at a data server: a write that fails and is      *)
(* reported all the same, two transfers (or a deletion and a copy) of it   *)
(* that overlap, a copy of a block that is not whole.                      *)
Spoil == {"write", "race", "part"} \X DS \X Fid \X Index

Spend(what) == /\ used[what] > 0
               /\ used' = [used EXCEPT ![what] = @ - 1]

-----------------------------------------------------------------------------
ClusterInit ==
    /\ MetaInit
    /\ up = DS
    /\ toDs = [d \in DS |-> <<>>]
    /\ toNs = [d \in DS |-> <<>>]
    /\ store = [d \in DS |-> [f \in Fid |-> [i \in Index |-> "none"]]]
    /\ push = {}
    /\ grant = {}
    /\ pass = "idle"
    /\ todo = {}
    /\ page = [del0 |-> 0, del1 |-> 0, cpy |-> 0]
    /\ spoilt = {}
    /\ used = [upload |-> MaxUpload, delete |-> MaxDelete, fault |-> MaxFault]

-----------------------------------------------------------------------------
(* Requests of clients. *)

(* gfs_net_map_gettopn: the least loaded data servers, at most three.  The *)
(* load is not modelled, so any of that many.                              *)
gettopn(n) == {S \in SUBSET up : /\ Cardinality(S) =< n
                                 /\ S # up => Cardinality(S) = n}

(* gfs_busi_upload_handle: refused without a data server; the answer lets  *)
(* the client send block i unless the block or the whole file is there.    *)
Upload(h, n, i) ==
    /\ pass = "idle"
    /\ up # {}
    /\ Spend("upload")
    /\ \E f \in Fid, S \in gettopn(3) :
         /\ \/ UploadNew(h, n, i) /\ f = nextFid
            \/ file[f].hash = h /\ UploadKnown(f, i)
         /\ grant' = IF reply'[3] \in {NewFile, NotUploaded}
                     THEN grant \cup {[fid |-> f, index |-> i, ds |-> S,
                                        by |-> used["upload"]]}
                     ELSE grant
    /\ UNCHANGED <<netVars, dsVars, nsVars>>

(* gfs_busi_delete_file_handle *)
Delete(f) ==
    /\ pass = "idle"
    /\ Spend("delete")
    /\ DeleteFile(f)
    /\ UNCHANGED <<netVars, dsVars, nsVars, grant>>

-----------------------------------------------------------------------------
(* The timer pass: gfs_busi_notice_handle. *)

(* LIMIT idx*PageSize, PageSize of a SELECT without ORDER BY: any rows, as *)
(* many as that page has.                                                  *)
Page(R, idx) ==
    LET left == Cardinality(R) - idx * PageSize
    IN  {S \in SUBSET R :
            Cardinality(S) = IF left < 0 THEN 0
                             ELSE IF left < PageSize THEN left ELSE PageSize}

(* A slip: the cursor stays behind the last page. *)
Turn_Stay(S, idx) == IF S = {} THEN idx ELSE idx + 1
(* The static cursor moves on after a page with rows, else back to 0. *)
Turn(S, idx) == IF S = {} THEN 0 ELSE idx + 1

RowsOf(b, S) == {r \in S : <<r[1], r[2]>> = b}

BlocksOf(S) == {<<r[1], r[2]>> : r \in S}

(* Rows of BlockInfo, of any Status, of the blocks whose number of normal  *)
(* rows is in N.                                                           *)
RowsWhere(N) ==
    {r \in Row : /\ block[r[1]][r[2]][r[3]] # "none"
                 /\ Cardinality(Live(r[1], r[2])) \in N}

(* The counts get_cpy_block and get_del_block look for: a GROUP BY over    *)
(* normal rows returns no block without one.                               *)
Below == 1 .. Copies - 1
Above == Copies + 1 .. Cardinality(DS)

(* The rows with Status 1 or 2. *)
MarkedRows == {r \in Row : block[r[1]][r[2]][r[3]] \in {"deleted", "deleting"}}

(* A slip: one target too few. *)
CopyTargets_Less(R) ==
    {T \in SUBSET (up \ {r[3] : r \in R}) :
        Cardinality(T) = IF Cardinality(R) + 1 < Copies THEN 1 ELSE 0}

(* gfs_busi_cpys_handle for one block whose rows on the page are R: one    *)
(* backup command to the source, the first row's data server, for each of  *)
(* the Copies - dsnum servers taken from the map; a source that is not in  *)
(* the map gets none.                                                      *)
CopyTargets(R) ==
    LET have == {r[3] : r \in R}
        new  == up \ have
        num  == Copies - Cardinality(R)
    IN  {T \in SUBSET new :
            IF num < 1 THEN T = {}
            ELSE Cardinality(T) =< num /\ (T # new => Cardinality(T) = num)}

Backups(b, T) == {<<"backup", b[1], b[2], e>> : e \in T}

(* gfs_busi_check_cpy_block: needs two servers in the map (it asks for the *)
(* ten least loaded).  The backup commands of a pass for one data server   *)
(* commute, so their order is left to SetToSeq.                            *)
check_cpy_block(S) ==
    IF Cardinality(up) < 2 \/ S = {} THEN UNCHANGED toDs
    ELSE \E src \in [BlocksOf(S) -> DS], T \in [BlocksOf(S) -> SUBSET DS] :
           /\ \A b \in BlocksOf(S) : /\ <<b[1], b[2], src[b]>> \in S
                                     /\ T[b] \in CopyTargets(RowsOf(b, S))
           /\ toDs' = [d \in DS |->
                IF d \in up
                THEN toDs[d] \o SetToSeq(UNION {Backups(b, T[b]) :
                                   b \in {c \in BlocksOf(S) : src[c] = d}})
                ELSE toDs[d]]

(* The timer fires: gfs_busi_check_cpy_block, then the first query of      *)
(* gfs_busi_check_del_block, which gives up when the page is empty.        *)
NoticeStart ==
    /\ pass = "idle"
    /\ \A d \in DS : Len(toDs[d]) < MaxQueue
    /\ \E S \in Page(RowsWhere(Below), page.cpy), D \in Page(MarkedRows, page.del0) :
         /\ check_cpy_block(S)
         /\ page' = [page EXCEPT !.cpy = Turn(S, page.cpy),
                                 !.del0 = Turn(D, page.del0)]
         /\ todo' = D
         /\ pass' = IF D = {} THEN "idle" ELSE "del"
    /\ UNCHANGED <<metaVars, up, toNs, dsVars, grant, used>>

(* gfs_busi_notice_delete_block for one row: skipped when the server is    *)
(* not in the map; the command is only sent when set_del_ing changed the   *)
(* row (mysql_affected_rows), so not for a row that had Status 2.          *)
notice_delete_block(r) ==
    IF r[3] \in up /\ block[r[1]][r[2]][r[3]] # "none"
    THEN /\ SetDelIng(r[1], r[2], r[3])
         /\ toDs' = IF block[r[1]][r[2]][r[3]] = "deleting" THEN toDs
                    ELSE [toDs EXCEPT ![r[3]] =
                            Append(@, <<"delete", r[1], r[2], r[3]>>)]
    ELSE UNCHANGED <<metaVars, toDs>>

NoticeDelete(r) ==
    /\ r \in todo
    /\ todo' = todo \ {r}
    /\ notice_delete_block(r)
    /\ pass' = IF pass = "trim" /\ todo' = {} THEN "idle" ELSE pass
    /\ UNCHANGED <<up, toNs, dsVars, grant, page, used>>

(* The second query: blocks with more than Copies normal rows.  Of the     *)
(* rows of such a block that are on the page, normal or not, the first     *)
(* dsnum - Copies are deleted.                                             *)
Surplus(b, S) == {R \in SUBSET RowsOf(b, S) :
                    Cardinality(R) = Cardinality(RowsOf(b, S)) - Copies}

(* The page may hold fewer than Copies of the rows of a block.  The number *)
(* is unsigned: the loop notifies the rows and whatever lies behind them   *)
(* until the process is killed by a read outside of its memory.            *)
Wraps(b, S) == Cardinality(RowsOf(b, S)) < Copies

Trim(S) ==
    \/ /\ \A b \in BlocksOf(S) : ~Wraps(b, S)
       /\ \E R \in [BlocksOf(S) -> SUBSET S] :
            /\ \A b \in BlocksOf(S) : R[b] \in Surplus(b, S)
            /\ todo' = UNION {R[b] : b \in BlocksOf(S)}
       /\ pass' = IF todo' = {} THEN "idle" ELSE "trim"
    \/ \E b \in BlocksOf(S) :
         /\ Wraps(b, S)
         /\ \E More \in SUBSET RowsOf(b, Row) : todo' = RowsOf(b, S) \cup More
         /\ pass' = "wild"

NoticeTrim ==
    /\ pass = "del"
    /\ todo = {}
    /\ \E S \in Page(RowsWhere(Above), page.del1) :
         /\ Trim(S)
         /\ page' = [page EXCEPT !.del1 = Turn(S, page.del1)]
    /\ UNCHANGED <<metaVars, netVars, dsVars, grant, used>>

-----------------------------------------------------------------------------
(* Results of data servers, one per handler. *)

(* gfs_busi_delete_block_handle (0x06) *)
NsDeleted(d) ==
    /\ pass = "idle"
    /\ d \in up
    /\ toNs[d] # <<>>
    /\ Head(toNs[d])[1] = "deleted"
    /\ DeleteBlock(Head(toNs[d])[2], Head(toNs[d])[3], d)
    /\ toNs' = [toNs EXCEPT ![d] = Tail(@)]
    /\ UNCHANGED <<up, toDs, dsVars, nsVars, grant, used>>

(* A slip: copy_block inserts the row without looking for the file. *)
NsCopied_NoFile(d) ==
    /\ pass = "idle"
    /\ d \in up
    /\ toNs[d] # <<>>
    /\ Head(toNs[d])[1] = "copied"
    /\ block' = SetRow(Head(toNs[d])[2], Head(toNs[d])[3], d, "normal")
    /\ toNs' = [toNs EXCEPT ![d] = Tail(@)]
    /\ UNCHANGED <<file, nextFid, reply, up, toDs, dsVars, nsVars, grant, used>>

(* gfs_busi_copy_block_handle (0x08): copy_block ignores unknown files. *)
NsCopied(d) ==
    /\ pass = "idle"
    /\ d \in up
    /\ toNs[d] # <<>>
    /\ Head(toNs[d])[1] = "copied"
    /\ LET f == Head(toNs[d])[2]
       IN  IF Exists(f) THEN CopyBlock(f, Head(toNs[d])[3], d)
           ELSE UNCHANGED metaVars
    /\ toNs' = [toNs EXCEPT ![d] = Tail(@)]
    /\ UNCHANGED <<up, toDs, dsVars, nsVars, grant, used>>

NsRecv(d) == NsDeleted(d) \/ NsCopied(d)

-----------------------------------------------------------------------------
(* Data servers. *)

Room(d) == Len(toNs[d]) < MaxQueue

Keep(d, f, i, c) == store' = [store EXCEPT ![d][f][i] = c]

Report(d, what, f, i) == toNs' = [toNs EXCEPT ![d] = Append(@, <<what, f, i>>)]

(* No other transfer of the block that t is about may be writing at d.  A  *)
(* client may have begun with any server of its answer.                    *)
Alone(t, d) ==
    /\ \A g \in grant :
         g.fid = t.fid /\ g.index = t.index /\ d \in g.ds => g = t
    /\ \A p \in push :
         p.fid = t.fid /\ p.index = t.index /\ p.dst = d => p = t

(* Two transfers that both find no block create it, and new_single_block   *)
(* deletes the one that is there ("first del it") with what the other has  *)
(* written; the same happens to a transfer a delete command meets.         *)
Raced(t, d) ==
    \/ <<"race", d, t.fid, t.index>> \in spoilt
    \/ store[d][t.fid][t.index] = "none" /\ ~Alone(t, d)

Torn(t, d) == IF Raced(t, d) THEN {"partial"} ELSE {}

(* What a transfer that breaks off or whose writes fail leaves:            *)
(* write_raw_data has created the block, unless it broke before the first  *)
(* buffer was full, and writes over a block that is there.                 *)
Broken(t, d) ==
    LET c == store[d][t.fid][t.index]
    IN  Torn(t, d) \cup IF c = "none" THEN {"none", "partial"} ELSE {c}

(* What a transfer that comes to its end leaves. *)
Written(t, d) == {"full"} \cup Torn(t, d)

(* The auxiliary record of the end of transfer t at d. *)
Mark(t, d, why) ==
    spoilt' = spoilt \cup
        {<<w, d, t.fid, t.index>> :
            w \in why \cup IF Raced(t, d) THEN {"race"} ELSE {}}

(* The block is pushed to the other servers of the answer. *)
PushRest(g, d) ==
    push' = push \cup {[fid |-> g.fid, index |-> g.index, src |-> d, dst |-> e] :
                          e \in g.ds \ {d}}

(* DSClientPutTask: the block is written, the name service notified, the   *)
(* client answered and, if the answer could be sent, the block pushed to   *)
(* the other servers of the grant.                                         *)
ClientPut(g, d) ==
    /\ g \in grant
    /\ d \in g.ds
    /\ Room(d)
    /\ \E c \in Written(g, d) : Keep(d, g.fid, g.index, c)
    /\ Mark(g, d, {})
    /\ Report(d, "copied", g.fid, g.index)
    /\ grant' = grant \ {g}
    /\ PushRest(g, d)
    /\ UNCHANGED <<metaVars, up, toDs, nsVars, used>>

(* Writes fail: write_raw_data returns TFS_ERROR, which is positive and no *)
(* error to the task, or fails for the last buffer, after which the answer *)
(* becomes PUTOK.  The block is reported and pushed like a whole one.      *)
ClientPutFails(g, d) ==
    /\ g \in grant
    /\ d \in g.ds
    /\ Room(d)
    /\ Spend("fault")
    /\ \E c \in Broken(g, d) : Keep(d, g.fid, g.index, c)
    /\ Mark(g, d, {"write"})
    /\ Report(d, "copied", g.fid, g.index)
    /\ grant' = grant \ {g}
    /\ PushRest(g, d)
    /\ UNCHANGED <<metaVars, up, toDs, nsVars>>

(* A slip: a transfer that broke off is reported as well. *)
ClientPutBroken_Reported(g, d) ==
    /\ g \in grant
    /\ d \in g.ds
    /\ Spend("fault")
    /\ Room(d)
    /\ \E c \in Broken(g, d) : Keep(d, g.fid, g.index, c)
    /\ Mark(g, d, {})
    /\ Report(d, "copied", g.fid, g.index)
    /\ grant' = grant \ {g}
    /\ UNCHANGED <<metaVars, up, toDs, push, nsVars>>

(* The client is gone before its data is complete, or before its answer:   *)
(* then the block is written and reported, and not pushed.                 *)
ClientPutBroken(g, d) ==
    /\ g \in grant
    /\ d \in g.ds
    /\ Spend("fault")
    /\ \/ /\ \E c \in Broken(g, d) : Keep(d, g.fid, g.index, c)
          /\ UNCHANGED toNs
       \/ /\ Room(d)
          /\ \E c \in Written(g, d) : Keep(d, g.fid, g.index, c)
          /\ Report(d, "copied", g.fid, g.index)
    /\ Mark(g, d, {})
    /\ grant' = grant \ {g}
    /\ UNCHANGED <<metaVars, up, toDs, push, nsVars>>

(* DSPushTask at src and DSPutTask at dst: what src has arrives, is        *)
(* written and reported to the name service; a write that fails is         *)
(* reported here too.                                                      *)
PushDone(p) ==
    LET c == store[p.src][p.fid][p.index]
    IN  /\ p \in push
        /\ Room(p.dst)
        /\ c # "none"
        /\ \/ /\ c = "full"
              /\ \E k \in Written(p, p.dst) : Keep(p.dst, p.fid, p.index, k)
              /\ Mark(p, p.dst, {})
              /\ UNCHANGED used
           \/ /\ c = "partial"
              /\ Keep(p.dst, p.fid, p.index, "partial")
              /\ Mark(p, p.dst, {"part"})
              /\ UNCHANGED used
           \/ /\ Spend("fault")
              /\ \E k \in Broken(p, p.dst) : Keep(p.dst, p.fid, p.index, k)
              /\ Mark(p, p.dst, {"write"})
        /\ Report(p.dst, "copied", p.fid, p.index)
        /\ push' = push \ {p}
        /\ UNCHANGED <<metaVars, up, toDs, nsVars, grant>>

(* The transfer breaks off, or the source finds its block deleted; nobody  *)
(* is told.                                                                *)
PushBroken(p) ==
    /\ p \in push
    /\ IF store[p.src][p.fid][p.index] = "none" THEN UNCHANGED used
       ELSE Spend("fault")
    /\ \E c \in Broken(p, p.dst) : Keep(p.dst, p.fid, p.index, c)
    /\ Mark(p, p.dst, {})
    /\ push' = push \ {p}
    /\ UNCHANGED <<metaVars, netVars, nsVars, grant>>

(* A delete command is carried out while the block is being written again, *)
(* or after a copy of it was reported that is or will be a row.            *)
Crossed(d, f, i) ==
    \/ block[f][i][d] \in {"normal", "deleted"}
    \/ Contains(toNs[d], <<"copied", f, i>>)
    \/ \E g \in grant : g.fid = f /\ g.index = i /\ d \in g.ds
    \/ \E p \in push : p.fid = f /\ p.index = i /\ p.dst = d

Crossings(d, B) ==
    {<<"race", d, b[1], b[2]>> : b \in {b \in B : Crossed(d, b[1], b[2])}}

(* A slip: a result that finds another one queued is dropped. *)
DsDelete_OneResult(d) ==
    /\ toDs[d] # <<>>
    /\ LET m == Head(toDs[d])
       IN  /\ m[1] = "delete"
           /\ Keep(d, m[2], m[3], "none")
           /\ IF toNs[d] = <<>> THEN Report(d, "deleted", m[2], m[3])
              ELSE UNCHANGED toNs
           /\ spoilt' = spoilt \cup Crossings(d, {<<m[2], m[3]>>})
    /\ toDs' = [toDs EXCEPT ![d] = Tail(@)]
    /\ UNCHANGED <<metaVars, up, push, nsVars, grant, used>>

(* NS_COMMAND_CHUNK_DEL: the result of del_single_block is not looked at. *)
DsDelete(d) ==
    /\ toDs[d] # <<>>
    /\ Room(d)
    /\ LET m == Head(toDs[d])
       IN  /\ m[1] = "delete"
           /\ Keep(d, m[2], m[3], "none")
           /\ Report(d, "deleted", m[2], m[3])
           /\ spoilt' = spoilt \cup Crossings(d, {<<m[2], m[3]>>})
    /\ toDs' = [toDs EXCEPT ![d] = Tail(@)]
    /\ UNCHANGED <<metaVars, up, push, nsVars, grant, used>>

(* NS_COMMAND_CHUNK_BACKUP of a block that is there. *)
DsBackup(d) ==
    /\ toDs[d] # <<>>
    /\ LET m == Head(toDs[d])
       IN  /\ m[1] = "backup"
           /\ store[d][m[2]][m[3]] # "none"
           /\ push' = push \cup {[fid |-> m[2], index |-> m[3],
                                  src |-> d, dst |-> m[4]]}
    /\ toDs' = [toDs EXCEPT ![d] = Tail(@)]
    /\ UNCHANGED <<metaVars, up, toNs, store, spoilt, nsVars, grant, used>>

(* The blocks that the first n commands of the queue of d delete. *)
DeletedBy(d, n) ==
    {b \in Fid \X Index :
        \E k \in 1 .. n : toDs[d][k] = <<"delete", b[1], b[2], d>>}

(* The store of d after the first n commands of its queue. *)
Executed(d, n) ==
    [f \in Fid |-> [i \in Index |->
        IF <<f, i>> \in DeletedBy(d, n) THEN "none" ELSE store[d][f][i]]]

(* The process of d ends, by a crash or because it is stopped: its queues, *)
(* tasks and transfers are gone, its disk stays.                           *)
DsStop(d, disk) ==
    /\ store' = [store EXCEPT ![d] = disk]
    /\ up' = up \ {d}
    /\ toDs' = [toDs EXCEPT ![d] = <<>>]
    /\ toNs' = [toNs EXCEPT ![d] = <<>>]
    /\ push' = {p \in push : d \notin {p.src, p.dst}}
    /\ UNCHANGED <<metaVars, nsVars, grant>>

(* A backup command for a block that is not there: MessageTransaction      *)
(* fails, again() deletes the socket, the commands read together with this *)
(* one are still carried out, and the next Reads uses the deleted socket.  *)
DsBackupMissing(d) ==
    /\ toDs[d] # <<>>
    /\ LET m == Head(toDs[d])
       IN  m[1] = "backup" /\ store[d][m[2]][m[3]] = "none"
    /\ \E n \in 1 .. Len(toDs[d]) :
         /\ DsStop(d, Executed(d, n))
         /\ spoilt' = spoilt \cup Crossings(d, DeletedBy(d, n))
    /\ UNCHANGED used

-----------------------------------------------------------------------------
(* Sessions and crashes. *)

(* The session ends: what is on its way is lost, results still in          *)
(* fMessageQueue stay.  The name service notices before the data server    *)
(* logs in again, because the connection was reset: when its own idle      *)
(* timer is first, it dies (gfs_timer_loop_run deletes the timer twice),   *)
(* which is NsCrash.                                                       *)
SessionLost(d) ==
    /\ d \in up
    /\ Spend("fault")
    /\ up' = up \ {d}
    /\ toDs' = [toDs EXCEPT ![d] = <<>>]
    /\ \E n \in 0 .. Len(toNs[d]) :
         toNs' = [toNs EXCEPT ![d] = SubSeq(@, n + 1, Len(@))]
    /\ UNCHANGED <<metaVars, dsVars, nsVars, grant>>

DsCrash(d) ==
    /\ Spend("fault")
    /\ DsStop(d, store[d])
    /\ UNCHANGED spoilt

(* gfs_busi_login_handle *)
Login(d) ==
    /\ pass = "idle"
    /\ d \notin up
    /\ up' = up \cup {d}
    /\ UNCHANGED <<metaVars, toDs, toNs, dsVars, nsVars, grant, used>>

(* The name service dies, by chance or in a wild pass, and starts again    *)
(* with its cursors at 0 and nobody logged in.                             *)
NsCrash ==
    /\ IF pass = "wild" /\ todo = {} THEN UNCHANGED used ELSE Spend("fault")
    /\ up' = {}
    /\ toDs' = [d \in DS |-> <<>>]
    /\ \E n \in [DS -> 0 .. MaxQueue] :
         toNs' = [d \in DS |-> SubSeq(toNs[d], n[d] + 1, Len(toNs[d]))]
    /\ pass' = "idle"
    /\ todo' = {}
    /\ page' = [del0 |-> 0, del1 |-> 0, cpy |-> 0]
    /\ UNCHANGED <<metaVars, dsVars, grant>>

-----------------------------------------------------------------------------
DsStep(d) == DsDelete(d) \/ DsBackup(d) \/ DsBackupMissing(d)

Client ==
    \/ \E h \in Hash, n \in BNum, i \in Index : Upload(h, n, i)
    \/ \E f \in Fid : Delete(f)
    \/ \E g \in grant, d \in DS :
         ClientPut(g, d) \/ ClientPutFails(g, d) \/ ClientPutBroken(g, d)

Notice == NoticeStart \/ NoticeTrim \/ \E r \in todo : NoticeDelete(r)

Fault == NsCrash \/ \E d \in DS : SessionLost(d) \/ DsCrash(d)

ClusterNext ==
    \/ Client
    \/ Notice
    \/ Fault
    \/ \E d \in DS : NsRecv(d) \/ DsStep(d) \/ Login(d)
    \/ \E p \in push : PushDone(p) \/ PushBroken(p)

ClusterSpec == ClusterInit /\ [][ClusterNext]_clusterVars

(* What the scheduling of the code guarantees: both event loops serve      *)
(* every readable socket and every timer that is due again and again, a    *)
(* data server without session tries to log in for ever, and a transfer    *)
(* that nothing breaks ends.                                               *)
Fairness ==
    /\ SF_clusterVars(NoticeStart)
    /\ WF_clusterVars(NoticeTrim)
    /\ WF_clusterVars(\E r \in todo : NoticeDelete(r))
    /\ \A d \in DS : /\ SF_clusterVars(NsRecv(d))
                     /\ WF_clusterVars(DsStep(d))
                     /\ SF_clusterVars(Login(d))
    /\ WF_clusterVars(\E p \in push : PushDone(p) \/ PushBroken(p))

ClusterFairSpec == ClusterSpec /\ Fairness

-----------------------------------------------------------------------------
(* Types of the state around the metadata. *)
ClusterTypeOK ==
    /\ MetaTypeOK
    /\ up \subseteq DS
    /\ \A d \in DS : toDs[d] \in Seq(Command) /\ toNs[d] \in Seq(Result)
    /\ store \in [DS -> [Fid -> [Index -> Content]]]
    /\ push \subseteq Push
    /\ grant \subseteq Grant
    /\ pass \in {"idle", "del", "trim", "wild"}
    /\ todo \subseteq Row
    /\ page \in [{"del0", "del1", "cpy"} -> Nat]
    /\ spoilt \subseteq Spoil
    /\ used \in [{"upload", "delete", "fault"} -> Nat]

(* A row with Status 2 that no command and no result is about any more.    *)
Stranded(r) ==
    /\ block[r[1]][r[2]][r[3]] = "deleting"
    /\ ~Contains(toDs[r[3]], <<"delete", r[1], r[2], r[3]>>)
    /\ ~Contains(toNs[r[3]], <<"deleted", r[1], r[2]>>)

(* While the session of a data server lives, a row with Status 2 always    *)
(* has a delete command or its result under way, however copies, repeated  *)
(* deletions and earlier results are interleaved with them: a row gets     *)
(* stuck in "deleting" only in the step that ends the session.             *)
StrandedOnlyBySession ==
    [][\A r \in Row : Stranded(r)' => Stranded(r) \/ r[3] \notin up']_clusterVars

(* A row that a deletion marked (Status 1 or 2) goes in the end, or an     *)
(* upload or a copy brings it back, or it is stranded: get_del_block       *)
(* selects the marked rows in every pass, but set_del_ing sends a command  *)
(* only once.  No other interleaving of commands, results and passes keeps *)
(* a row marked.                                                           *)
MarkedRowGoes ==
    \A r \in Row : block[r[1]][r[2]][r[3]] \in {"deleted", "deleting"}
                     ~> \/ block[r[1]][r[2]][r[3]] \in {"none", "normal"}
                        \/ Stranded(r)

(* Something of kind w happened to block i of file f at some server. *)
SpoiltBy(W, f, i) == \E w \in W, d \in DS : <<w, d, f, i>> \in spoilt

(* A row with Status 0 is that of a data server that holds the whole       *)
(* block; download_file sends clients there.  Lost sessions, crashes,      *)
(* transfers that break off and deletions in any order do not change that: *)
(* it takes, at this very server, a write that fails and is reported, two  *)
(* transfers or a deletion and a copy of the block that overlap, or a copy *)
(* that was pushed by a server whose own block was not whole.              *)
LiveRowHasBlock ==
    /\ ClusterTypeOK
    /\ \A r \in Row :
         /\ block[r[1]][r[2]][r[3]] = "normal"
         /\ \A w \in {"write", "race", "part"} :
                <<w, r[3], r[1], r[2]>> \notin spoilt
         => store[r[3]][r[1]][r[2]] = "full"

(* Replication: a block that is uploaded gets Copies normal rows in the    *)
(* end, whatever sessions, servers and transfers fail on the way, unless a *)
(* write of it failed: every backup command to a server that has the row   *)
(* and not the block stops that server.                                    *)
UnderReplicatedRepaired ==
    \A f \in Fid, i \in Index :
        Live(f, i) # {} ~> \/ Cardinality(Live(f, i)) >= Copies
                           \/ SpoiltBy({"write"}, f, i)

(* Removing surplus copies never leaves a block with fewer than Copies     *)
(* normal rows.                                                            *)
TrimKeepsCopies ==
    [][\A f \in Fid, i \in Index :
          pass = "trim" /\ Live(f, i)' # Live(f, i)
              => Cardinality(Live(f, i)') >= Copies]_clusterVars
=============================================================================
