# TEFS in TLA+

TEFS (GVFS) stores files as blocks on data servers. This directory holds TLA+
modules of its core, TLC configurations that check them on small instances, and
TLAPS proofs. Paths below are relative to `src/`.

## 1. The system

| Part | Where | State | Operations |
|---|---|---|---|
| Name service (NS) | `nameservice/`, C, one thread, epoll, MySQL | tables `FileInfo`, `BlockInfo`; connection nodes, delay queue, timers; a memory pool per connection; the map of logged-in data servers; page cursors of the timer pass | messages 0x01 login, 0x02 upload, 0x03 download, 0x04 delete file, 0x06 block deleted, 0x08 block copied, 0x09 heartbeat, 0x0a file size; a timer pass that sends 0x05 delete and 0x07 backup |
| Data server (DS) | `dataserver/SOURCES/GV-DataServer-1.0/`, C++; own parts `src/`, `message/`, `diskmanager/src`; tasks on the threads of `CommonUtilitiesLib` | block files, bitmap and super block on disk; logic and physical block maps; the NS session and its queue of results; put, push and get tasks | client put and get, push between data servers, delete and backup commands |
| Proxy | `gvfsproxy/src/`, C, nginx-like: a master, workers, an event loop each; own logic in `private/` | per-request upload, download and delete state machines, pools of connections and body buffers; process table, accept mutex in shared memory | HTTP upload, download, delete, query; NS and DS upstreams; fork, death and quit of workers |

A client asks the NS where to put a block (0x02), sends it to one DS, which
reports it (0x08) and pushes it to the other servers of the answer; each of them
reports its copy. HTTP clients do the same through the proxy. Deleting a file
only marks rows. Every 300 s a pass of the NS sends backup commands for blocks
with too few copies and delete commands for marked rows and surplus copies; the
DS answers with 0x06 and 0x08. NS and DS share nothing but these messages: what
is under way when a TCP session ends is lost, and nothing is acknowledged.

### What is hard

* **Tables.** Procedures are several autocommitted statements; triggers keep a
  counter. The pass works on pages of a table it changes, and on rows that are
  not normal.
* **Messages between NS and DS.** Commands and results cross: a copy report may
  overtake or follow a deletion of the same block; a lost command must be
  repeated, and some are not.
* **Connections of the NS.** Nodes are closed inside handlers, closed twice and
  reused while the delay queue, the map of data servers or a request still refers
  to them; input noted once is not reported again by an edge-triggered epoll.
* **Threads of the DS.** A transfer holds bare pointers between critical
  sections; a delete or a second upload of the block may come in between. The
  task that reports results is woken by transfers, a timer and a socket, and has
  one send buffer for two kinds of packets.
* **Disk.** Either process may crash with work in flight, the DS with a
  half-written block, bitmap or super block.
* **Proxy.** One upstream after the other in one request, each with its timer,
  while the client's timer is switched off and on; a NULL upstream after a failed
  send; a send that waits for its peer keeps the whole event loop waiting. Workers
  die with the accept mutex, and two deaths are one signal.

What makes the parts correct: the tables agree with each other and with what data
servers hold; `FILE_FINISHED` is only said of a complete file; marked blocks go;
uploaded blocks get their copies; an acknowledged block survives a crash; a copy
is reported only when it is there; no connection, buffer or piece of memory is
used by two; every request is answered or its connection closed; one worker
accepts at a time and a dead one is replaced. The code does not keep all of this
without exception; section 5 lists what it does instead.

`hazards` in `PROJECT.json` lists these one by one, at the line where they bite.

## 2. Modules and how they correspond to the code

| Module | Models | Composition |
|---|---|---|
| `NsMeta` | `nameservice/sql/procedure.sql`, `trigger.sql`, `createdb.sql`: the metadata | - |
| `NsCluster` | the name service around the tables (`busi/`, `gfs_busi_notice.c`, `gfs_sql.c`) and the data servers' side of its messages | extends `NsMeta`, implements `MetaSpec` |
| `NsNet` | `nameservice/net/`, `event/`, `core/gfs_handle.c`, `gfs.c`: connections of the name service | - |
| `NsMem` | `nameservice/core/gfs_mem.c`: the memory pool of a connection | - |
| `BlockStore` | `diskmanager/src/blockfile_manager.cpp`, `superblock_impl.cpp`: where a data server keeps its blocks | implements `DurableBlocks` |
| `DurableBlocks` | what `BlockStore` promises its callers | abstract |
| `DsTransfer` | put, copy, push and get tasks (`DSClientPutTask`, `DSPutTask`, `DSPushTask`, `DSClientGetTask`) and the data path under them (`data_management.cpp`, `logic_block.cpp`, `data_handle.cpp`) | - |
| `DsSession` | `NameServersession.cpp`, `DSTCPServerSocket.cpp` and the scheduler (`Task.cpp`, `IdleTask.cpp`, `EventContext.cpp`, `ev.cpp`) | - |
| `GvfsProxy` | one worker of the proxy: `private/`, `http/gvfs_http_request*.c`, `gvfs_http_buf.c` | - |
| `ProxyWorkers` | master and workers: `os/unix/gvfs_process*.c`, `event/`, `core/gvfs_shmtx.c` | - |
| `NsClusterProofs`, `NsNetProofs`, `NsMemProofs`, `BlockStoreProofs`, `DsTransferProofs`, `DsSessionProofs`, `GvfsProxyProofs`, `ProxyWorkersProofs` | theorems | extend their modules; `NsClusterProofs` has those about `NsMeta` too |
| `MC...` | constants, bounds and symmetry for TLC | extend their modules; `MCDataServer` has `DsTransfer` and `DsSession` |

**NsMeta.** `file` is FileInfo, keyed by its auto-increment id (`nextFid`);
`block[f][i][d]` is the Status of the BlockInfo row of block `i` of file `f` on
data server `d`, `"none"` if there is no row; `reply` is what `upload_file`
answered last. One action per procedure. Trigger effects are part of the action:
`updblock` and `cpyblock` give what the triggers add to FinishedNum. A procedure
is several autocommitted statements, so for each one with more than one there is
a `...Cut` action that stops after the first, which is what a database leaves that
dies in between. Hash strings, names and sizes are model values. A request names
the number of blocks (`BNum`) and an index as it likes: `gfs_busi_upload.c:95-108`
bounds each and compares neither with the other nor with the row, `upload_file`
stores the number of the first request, and `copy_block` inserts any index.

**NsCluster.** `up` is the map of logged-in data servers, `toDs[d]` and `toNs[d]`
the commands and results between the two processes (in order: one TCP connection;
when it ends the commands are lost, and of the results those already sent, while
the rest waits in `fMessageQueue` unless the data server died), `store[d][f][i]`
what the data server keeps of a block (`none`, `partial`, `full`), `push` the
copies between data servers under way, `grant` the upload answers clients act on.
The timer pass is split where the code handles one row after the other:
`NoticeStart` (copy query, backup commands, first delete query), `NoticeDelete(r)`
per row, `NoticeTrim` (second query). The name service has one thread, so nothing
else of it runs during a pass (`pass = "idle"` is a guard of its handlers); data
servers and clients do run. `page` holds the static page cursors. A SELECT without
ORDER BY may return any rows, and the load by which data servers are chosen is not
kept, so the model chooses any. The steps of the data server are whole tasks: a
transfer ends well (`ClientPut`, `PushDone`), breaks off and leaves nothing or a
part (`...Broken`), or its writes fail and it is reported all the same
(`ClientPutFails`, the last branch of `PushDone`). Two transfers of a block to one
server that both find no block there may spoil it, because `new_single_block`
deletes what it finds (`Raced`, `Torn`), and so may a delete command that meets a
transfer or a report (`Crossed`). `DsTransfer` has all this call by call; here the
auxiliary `spoilt` notes where which of it happened: `write`, `race`, or `part` for
a copy pushed from a block that was not whole.

**NsNet.** One node per connection (`Net`): its fd is in `open` or the node is in
`free`; `next` and `prev` are the ring of the delay queue, which the model keeps
as pointers because closing a node inside the ring and setting it up again is what
can go wrong. A round of the loop is the phases `timer`, `delay` and `epoll`; `q`
and `batch` are its cursors. `map` and `mapFree` are the map of data servers with
its nodes that are never given back. The kernel side is `inq`, `edge`, `blocked`
and `end`. A message is two halves, so that buffers and the network can cut it;
answers that do not fit into the socket are `sbuf`. A send that blocks inside a
request spins (`spin`), as the code does. When the worker dies of what it finds
(a timer deleted twice, a ring that is broken) it is forked again with everything
empty. `Queue` is what the loop over the delay queue reaches from its head, and
`jammed` notes a command put off on a node that waits there without input, after
which nodes can drop out of the ring (section 5).

**NsMem.** The tags of each page by their offset, the eight lists of free blocks,
the large blocks, the counters, and what is handed out (`live`). `gfs_mem_malloc`,
`gfs_mem_free` with its merges, `gfs_mem_pool_reset`, destroy and create are
actions; word sizes, classes and thresholds are those of the code. `stale` keeps
the pointers of a request whose connection was closed under it: `gfs_net_close`
resets the pool and `gfs_busi_destory` frees into it afterwards. What such a free
finds is modelled; what the damaged pool hands out later is not.

**BlockStore.** `prefix`, `bits` and `dcount` are the disk (heads of block files,
the two copies of the bitmap, the counters in the super block), `bitmap`, `logic`,
`compact`, `physical` and `count` the memory. Every operation holds `rw_lock_`,
so there is one at a time; but each is a sequence of writes, and `step` says
which comes next. `new_block` is `NewBlock`, `NewBitmap`, `NewSuper`, each with
its failure, which leads to `rollback_superblock` (`UndoBitmap`, `UndoSuper`).
`del_block` is `DelBlock`, `DelBitmap`, `DelSuper`. `bootstrap` is `Bootstrap`,
then one step per block file. `Crash` ends the process at any point, with the
write that was due done, half done or not done; `PowerLoss` also takes back heads
that nothing synced (`heads`: what a file may show after it). `acked` is an
auxiliary variable, what callers were told. A write changes one bit of the
bitmap, so a copy torn in the middle is the old or the new copy; after a failed
write the next one carries two changes, and the model takes a copy as written or
not also then.

**DurableBlocks** is the same store without files, maps and order of writes: a set
of blocks, one call at a time, an indivisible moment at which the call takes
effect, and crashes that lose the call and nothing else. `StoreKeepsPromise` in
`BlockStore` is this specification under the mapping that reads `stored` off the
bitmap and the heads on disk.

**DsTransfer.** One block. `lb` is the `LogicBlock` the map holds, `data` the
segments in the file of each object, `freed` the objects that were deleted. Each
task has `pc`, its range `req`, its position and `ptr`, the bare pointer it got
from `get_logic_block` and uses without a lock. `write_raw_data` is `Find`,
`Again`, `FirstDel`, `New`, `Fetch`, `Write`; `read_raw_data` is `Look`, `Read`.
A use of a freed object may do anything the allocator allows (`WriteFreed`,
`ReadFreed`). Return codes are kept as they are: errors of the store are positive
and callers test for negative ones. Reading at the end of the block returns 0 with
success, and the task loops for ever on its thread (`loop`).

**DsSession.** `fState`, `fEvents`, `sendbusy`, `fSendBuffer` are the fields of
that name; `stage` is where the task is on the scheduler or inside `Run`, `seen`
the events this `Run` took and has not handled. `Signal`, `Return` and
`ReturnIdle` are the lock-free hand-over of a task between threads; `idle` is the
timer of the idle thread; `watch`, `pool` and `edge` are epoll as the shim uses it
(`EventPool` keeps the first mask of a socket only). `SendV` ignores a packet when
the buffer still holds another one (`Goes`); `again` keeps bytes of the old session
(`torn`), and a refused command makes the loop read from a deleted socket (`Dies`;
the parent forks the process again). `fSocket` is not set by the constructor; the
model takes it as NULL, which is what memory fresh from the system holds.

**GvfsProxy.** Everything a worker keeps of a client is one record `cl[c]`: the
handlers of its two connections, their timers, buffers and what they hold, and
auxiliary fields for what the client sent and the data server got. The worker is
an event loop, so a handler is one step; servers may answer, fail, close or stay
silent at each. `up = "null"` is `r->upstream == NULL` after a failed send: the
next handler that uses it ends the worker (`Die`). A handler that passes on body
chunks uses `gvfs_completed_send`, which sleeps and retries as long as the peer
does not read: `Stall(c)` sets `stuck`, and no step of the loop (`Loop`) is
possible until `Resume(c)`. `Silence(c)` is a data server that sends nothing more
in a relay (`mute`), when no timer is armed.

**ProxyWorkers.** `proc` is `gvfs_processes`, `pending` the signals blocked until
`sigsuspend`, `reap`, `quit`, `live` the variables of that name, `lock` the word in
shared memory. A worker's round is cut where it uses the mutex, its epoll or the
channel. `Crash` is a handler that dies: of an event (`wait` without the mutex,
`posted`) or of a timer or an accepted client (`accept`, with the mutex or
without); dying elsewhere leaves no state these do not. `Kill`, failing forks and
failing `epoll_ctl` are faults too. `Stall(p)` is a worker that has clients and
waits in `gvfs_completed_send`; it takes no step until `Resume(p)`.

## 3. Runs

| Run | Expect | What it checks |
|---|---|---|
| `meta` | pass | all interleavings of the procedures, cut-offs included: one row per hash, no block row without file, FinishedNum never too high, `FILE_FINISHED` only for files with as many live indexes as blocks, which are all of them unless an index beyond was reported |
| `session` | pass | `NsCluster` implements `MetaSpec`; rows get stuck in Status 2 only in the step that ends a session; with uploads, a deletion and a fault in any order a normal row has its block, unless that block was `spoilt` at that server |
| `delete` | pass | every marked row goes, is brought back or gets stranded: with deletions, revivals and backup commands mixed and no fault |
| `repair` | pass | without deletions every uploaded block gets its copies, whatever sessions, servers and transfers fail, unless a write of it failed and was reported |
| `trim` | violation | removal of surplus copies counts rows of any Status and can leave fewer than `copies`; `findings` quotes the query it contradicts |
| `store_crash` | pass | over crashes, what was acknowledged is kept and what was deleted stays deleted; the count of used files is off by at most one per crash; `BlockStore` implements `DurableBlocks` |
| `store_fault` | pass | failing writes, crashes and power failures in any order: bitmap, maps and heads agree whenever no operation runs |
| `net` | pass | entries of the map are open connections of their data server; free list and open nodes partition the pool; noted input is in the delay queue and is read; a message that arrives whole is kept |
| `mem` | pass | blocks tile their pages, lists and counters are exact, what is handed out is apart and large enough; tags never disagree unless a connection was closed inside a request |
| `dataserver` | pass | transfers: a copy is reported only when stored, a download sends stored bytes and ends; session: results are sent once and in order, none waits for ever, a session that ended comes back |
| `proxy` | pass | buffers are not shared and always at hand, uploads reach the data server whole and in order, open connections have a timer outside of a relay, every request is settled unless its data server falls silent in a relay or a stalled send keeps the loop |
| `workers` | pass | one worker accepts at a time, the mutex does not stay with anybody, crashed workers are replaced, clients accepted while a worker is left that is not stalled, workers that were told to quit end unless stalled |

Each property says in its comment what it leaves out. Where the code does not
keep a promise in full, the property names the exception (`spoilt`, `Stranded`,
`StrayRows`, `hit`, `err`, `mixed`, `torn`, `stale`, `Stuck`, `Spinning`, `jammed`,
`mute`, `stuck`, `stalled`), so that it shows that nothing else can break it; the
hazard it belongs to says so in its note.

### Bounds

* `meta`: one hash, since procedures about different hashes touch different rows,
  with three file ids: it can be deleted and come back under a new id. Requests
  name one block or two and any of three indexes, so that a report can name an
  index the file does not have while a block of it is missing. Two data servers:
  a block can have zero, one and two copies, which is what the triggers tell
  apart. FinishedNum
  may drift down without limit (`updblock` subtracts for rows that were not
  normal), so `Bound` stops below -1.
* `NsCluster`: one file of one block, since rows of different blocks meet only on
  a page; two data servers with `Copies` 2, so that backup commands are sent and
  meet delete commands, and in `trim` three with `Copies` 1, so that there are too
  many copies. `session` has two uploads, a deletion and a fault (2.2 million
  states), `delete` an upload and two deletions: a row that a late copy report revived can
  be in the queue for deletion and backup and be deleted again (250 thousand states); `repair` two
  uploads and two faults. `MaxUpload`, `MaxDelete` and `MaxFault` (lost
  sessions, crashes) are 0 to 2, enough for a second request or failure to meet
  what the first left behind; `MaxQueue` bounds messages per connection: a sender
  waits when it is full, the pass does not start.
* `BlockStore`: three block files, so the disk can be full and a block can return
  to another file than it had; three blocks and three crashes in `store_crash`;
  two blocks with one crash, two failing writes and two power failures in
  `store_fault`, which is what it takes to get two and three files with the head
  of the same block (`LoadTwin`, `LoadTriplet`).
* `net`: two nodes, so one can be reused while the other is in the ring; three
  accepts, two messages, one of them cut, one command, one peer that stops
  reading, one fault; a map of two nodes, so that it runs out; `rbuf` of three
  halves, so that its end cuts a message. `Overlap` lets a data server log in
  again before its old connection is closed.
* `mem`: one page at the start and one more, three blocks at a time, sizes of the
  smallest class, of a middle one, of nearly a page and of a large block.
* `dataserver`: the two modules share a run, `half` says which one moves, and
  fairness of the other holds because nothing of it is enabled. Two uploads and a
  download of a block of two buffers, three objects, one delete, one failed write,
  one dead connection; ranges inside, across and behind the end. Two results, so
  that they can be swapped, and two of: a command, a refused command or
  connection, a reset, a full connection.
* `proxy`: two clients compete for four connections and four buffers (one
  connection listens); blocks of three chunks, buffers of two, so that a body is
  more than a buffer and not a multiple; five requests.
* `workers`: two workers, four pids, two clients, two crashes or stalls and one
  other fault: both workers can die or be stalled at once, and one can be replaced
  while the other is stalled.

`CHECK_DEADLOCK FALSE` is used where the system may stop: a data server that
finds two different copies of the bitmap refuses to start; a proxy that quit; a
data server whose bounded number of requests is done.

### Fairness

* `delete`, `repair` (`ClusterFairSpec`): the timer of the name service fires
  every 300 s for ever and the pass runs to its end (`NoticeStart` strong, since
  requests may occupy the thread when it is due; its later steps weak). Messages
  on a connection that stays up are handled by the name service (strong: a pass may
  occupy it and sessions may come and go); a data server goes on through the
  commands it has (weak). One that lost its session logs in again (strong), which
  `SessionReturns` checks in `DsSession`. Some transfer under way ends, one way or
  the other (weak); that a broken one is not always the outcome follows from
  `MaxFault`. Clients are under no fairness.
* `net`: weak, for the one thread. Peers are free.
* `dataserver`: weak, for each thread of the scheduler (task threads, idle thread,
  event thread) and for the steps between `AddMessageToQueue` and `Signal` of a
  transfer; a task thread caught in the endless read gives no fairness to the
  tasks behind it (`NoLoop`). A socket that stays busy is ended by the timeout
  task, which `WF(Busy \/ Timeout)` says. The name service answers a registration
  and reads what it is sent; connections are made or reset. Uploads wait for
  their clients without limit.
* `proxy`: weak, for the client's timer and for the relay of a download to
  continue or end, both only while no handler keeps the loop waiting and, of the
  relay, while its data server is not silent. Nothing makes a silent data server
  speak or a peer read: `Silence`, `Stall` and `Resume` are free.
* `workers`: weak, for the master and each round of a worker that is not stalled.
  Signals, crashes, clients, `Stall` and `Resume` are free.

## 4. Proofs

All proofs hold for every value of the constants. Assumptions: `MetaAssumption`
(file ids and block indexes are natural numbers, the indexes are finitely many,
requests name 1 to 150 blocks), `ClusterAssumption` (finitely many data servers;
copies, page size and the bound of a queue are at least one), `StoreAssumption` (at least one block file; the
empty head is no block), `WorkersAssumption` (at least one worker, the bounds are
natural numbers), `PoolAssumption` (finitely many clients and buffers, and as many
buffers as connections), `SizeAssumption` (blocks and buffers hold at least one
segment), `TransferAssumption` (uploads and downloads are different tasks, a
request names at least one segment), `SessionAssumption` (a registration, a
heartbeat and an empty buffer are no results), `NetAssumption` (finitely many nodes, buffer
and map sizes are natural numbers), `MemAssumption` (a pool is created with at least
one page and no more than there can be; finitely many sizes, none of them 0).

* `NsClusterProofs`, first part: `MetaInvariance` proves `MetaInv`, the conjunction of types,
  one row per hash, no orphans and FinishedNum soundness. The parts need each
  other: dropping the file row is harmless only because no block row is left, and
  a new row for a hash only because there was none. The core is what each action
  does to the set of indexes with a normal copy (`LiveIndex`), compared with what
  the trigger adds: `OneRowStep`, `ReviveCount`, `DropOne`, `KeepAll`.
  `TypeCorrect`, `OneRowPerHash`, `NoOrphans` and `FinishedNumIsSound` follow. No
  relation between indexes and numbers of blocks is assumed. `FinishedIsComplete`
  says what the answer means nevertheless: FinishedNum is at most the number of
  live indexes, so there are at least BlockNum of them, and if none is beyond the
  file a counting argument gives that they are its blocks.
* `BlockStoreProofs`: `MapsAlwaysAgree` and `StoreTypes` by `StoreInv`, which says
  what the maps look like in the middle of every operation and at every position
  of the scan; it needs that heads name owners, because otherwise deleting one
  block could free the file of another. It holds with any number of faults of any
  kind. `AckSurvives` assumes `MaxFail = 0` and `MaxPower = 0` (a deletion whose
  bitmap write failed is back after a restart, and block heads are never synced)
  and uses `DurableInv`: each copy of the bitmap on disk selects files of
  different blocks, all acknowledged ones among them and none deleted, and differs
  from memory by the one block under way. Torn bitmaps are handled by
  `PendingSound`: either copy is sound.
  `PromiseKept`, under the same two assumptions: every step of `BlockStore` is a
  step of `DurableBlocks` or leaves it unchanged. The write of the first copy of
  the bitmap is the moment at which a call takes effect; that a crash inside it
  shows the old or the new set, and that a restart reads back exactly this set,
  follow from `DurableInv`. `DriftBounded`, under the same two as well: the counter
  in memory agrees with the bitmap in memory up to one for each crash, and the one
  on disk is the same or one off between the write of the bitmap and that of the
  super-block (`Tallies`).
* `ProxyWorkersProofs`: `OneWorkerAccepts`, by `HolderLocks`: a worker between
  trylock and unlock is the one the shared word names. The master takes the mutex
  only from a dead process, so never from such a worker.
* `NsClusterProofs`, second part: `ClusterInvariance` proves `ClusterInv`: the tables satisfy
  `MetaInv`, and every command, result, transfer and upload answer under way is
  about a file id, an index and data servers there are (`Kept`, `Routed`).
  `TablesImplemented` is the refinement `ClusterSpec => MetaSpec`: every step calls
  at most one procedure, with arguments the procedure may be called with; so the
  theorems of the first part hold in the composed system. `OnlySessionsStrand` follows each row with Status 2 to its delete command
  or the result of it, through the queues of its data server: a step that takes one
  of them out puts the other in or ends the row. `RowsHaveBlocks` holds with any
  number of deletions and faults. A normal row alone is not inductive, since it may
  come from a report under way or from a marked row that is revived; so `Sound`
  says it of all three (`Claimed`): unless something in `spoilt` is about that block
  at that server, the server holds all of it. Each step then either leaves the block
  alone and makes no new claim, leaves it whole, or notes why not (`SoundStep`).
* `DsSessionProofs`: `ResultsInOrder` by `SessionInv`, whose core is `Ordered`: the
  results that have been sent, the one in ResMessage and those in fMessageQueue
  continue one increasing sequence, in which nothing is missing but what was lost
  with a session or a process. Every step has one of a few outcomes for the results
  (`Outcome`): nothing, one is queued, taken out, sent or lost. `Staged`, `Tasked`
  and `Linked` say where the task and its socket can be.
* `NsNetProofs`: `NetInvariance` proves `NetInv`. `Pooled` says that the free list
  holds no node twice and no open one; `Chained` says where `next` may be null
  without the node having been noted; `Named` says that a connection is known to
  the map under the id of its peer or under none, without which the login of one
  data server could leave another entry pointing to a closed node; `Buffered`
  bounds what the buffers hold. `PoolAlwaysSound` and `MapAlwaysLive` follow.
  `WholeAlwaysKept` needs `KeptInv` on top: as long as no message was torn by the
  peer and nobody blocked the socket, what lies in the receive buffer and on the
  way behind it is a sequence of whole messages, wherever the end of the buffer
  cuts one of them (`Framed`), so that moving the rest to the front and reading on
  completes it. `DelayAlwaysComplete` is about reachability along `next`. Its
  `DelayInv` says that there is a sequence without repetitions whose members are
  strung together by `next` and `prev` from the head of the ring round to it
  (`Line`), that the open nodes with noted input are in it, and that nodes that
  wait to be written and are asked for output are not in it without input (`Asks`).
  The cursor needs care: a node taken out keeps its own pointers, so `q` may stand
  on a node that is no longer in the sequence but still points to what follows.
  Once a node was set up again inside the ring or the queue is jammed, nothing is
  claimed until the worker has died. That a member of the sequence is in `Queue`
  goes by the first place a closed set could leave out.
* `DsTransferProofs`: `ReportedIsStored` and `DownloadsAreHonest` by
  `TransferInv`: what each task holds, has received, answered or serves agrees
  with the block, at every point at which the task can give up the thread, and a
  block that is handed out is never one that was freed.
* `GvfsProxyProofs`: `BuffersUnshared`, `BufferAlwaysAtHand`, `ClientsWatched` and
  `UploadInOrder` by `ProxyInv`. Its parts need each other: a client is watched
  only because its download found a buffer, and one is at hand because
  every buffer that is not free belongs to a connected client of its own and there
  are no more clients than buffers (`Pooled`). A stalled send changes nothing of a
  client; that one handler at most waits is `OneStuck`.
* `NsMemProofs`: `MemInvariance` proves `MemInv`, which is one of two things.
  `SoundInv`, while nobody has pointers from before a reset: every page is cut at
  edges that are at least `BLOCK_MIN` apart, with a header behind and a footer in
  front of each edge and no other words (`CutBy`); between two neighbouring edges
  lies one block whose tags agree, and no two free ones meet (`Good`); the lists
  hold the free blocks, each once and in its class (`Listing`); blocks handed out
  are used ones, large enough and different (`Apart`); and the counters are sums
  over these. `Tiled` alone is not inductive: that a block can be merged needs that
  the free neighbour is in a list, that it is taken out of the right one needs that
  it is there once, and that the used block of a page's head is never freed needs
  that no block handed out starts there. The sums are taken by a fold over a set;
  what adding, removing or changing one member does to them follows from a function
  that gives the sum of every subset (`Sums`), and whether two such functions
  agree by a smallest subset on which they would not.
  `StaleInv`, after a reset inside a request: the request goes on to free its
  blocks in pages whose first block now claims everything. Then sizes overlap, but
  every block that is listed or still held ends at an old edge or beyond the page,
  where it would be undefined (`Lands`), no two of them end at the same one
  (`Ends`), and a footer in front of a held block leads back to a block that ends
  there (`Backs`). So whatever merges, no word outside the old edges is written and
  the tags around the page and its head keep their values (`Sealed`), from which the
  next reset makes a sound pool. Without this half `NeverCrossed` would say nothing
  about a connection that was once closed inside a request.
  `AlwaysTiled`, `ListsAlwaysExact`, `LiveAlwaysApart` and `NeverCrossedElse` follow.

So every invariant that a run checks is a theorem. Only model-checked: every
liveness property, which is out of the prover's reach under fairness.

## 5. What is not modelled

`components` in `PROJECT.json` lists every part with its reason. Most of the
repository's lines are vendored: Darwin Streaming Server libraries (of which
`DsSession` has the scheduler), the block-file code of TFS beyond what the data
server calls, and nginx's core and HTTP parser; they are left out with byte layouts,
configuration, formatting and logging. The MySQL pool is used by one thread, one
connection at a time; what it can do to the tables are the `...Cut` actions.

Seen in the code while modelling and covered by no passing property:

* a two-block file whose data servers reported the indexes 0 and 7 is answered
  `FILE_FINISHED` with block 1 missing (`StrayRows`): indexes are compared with
  nothing, and the number of blocks of a later request is ignored;
* a delete command lost with its session is never repeated, because its row
  already has Status 2 (`StrandedOnlyBySession` says that nothing else strands it).
  No fault is needed: a revived row leaves `[delete, backup]` in the queue, a second
  deletion makes it `[backup, delete]` once the first is done, the backup command
  for the block that is gone stops the data server, and the delete is lost;
* a write that fails is reported as stored, since callers test for negative return
  values and the last buffer's is overwritten by `PUTOK` (`write` in `spoilt`, `err`
  in `DsTransfer`). A server with such a row is then asked for backups of a block it
  does not hold, which stops it, so the block may never get its copies;
* two uploads of a block at one server delete each other's data ("first del it",
  `race`);
* a copy report handled after the pass marked the row revives the row while its
  block is being deleted (`race` as well);
* without marked rows surplus copies are never removed;
* the surplus count `dsnum - copies` wraps around when a page boundary cuts the
  rows of a block (`Wraps`);
* a power failure can lose an acknowledged block (`PowerLoss`; `Acknowledged` is
  checked without);
* a result that meets a heartbeat in the send buffer is lost or sent twice
  (`mixed` of `DsSession`); `NsCluster` assumes that results on a session that
  stays up arrive;
* a data server that waits in the delay queue with nothing but a write event can be
  unblocked by a command of the timer pass, block again and have another command put
  off; its next output event inserts it into the ring a second time
  (`event/gfs_event.c:164` asks only for `GFS_EVENT_READ`), and the nodes behind its
  first place drop out with their input noted, for which no further event comes.
  This takes two commands and two blocked sends, which is beyond the bounds of
  `net`; the proof of `DelayAlwaysComplete` met it. `jammed` names the case, and
  the theorem says that nothing else loses a node;
* a client that stops reading a download, or a data server that stops reading an
  upload, keeps a worker of the proxy in `gvfs_completed_send` without limit: no
  timer of it fires, no other client of it is served, it reads no quit from its
  channel. With as many stalled transfers as workers nobody is accepted although
  all of them live;
* a relay has no timer at all: a data server that falls silent in one keeps the
  client waiting for ever;
* a master that wakes up to a death and a quit at once may leave without telling
  its workers (`live`, `gvfs_process_cycle.c:110`); `QuitEnds` is about workers
  that were told;
* in `gvfs_http_process_request` the body handler runs inside the loop that reads
  headers (`gvfs_http_request.c:314-317`); when it closes the request, the loop
  goes on with memory that was given back. The model ends the handler there;
* `connect` to a server blocks the worker (`gvfs_event_connect.c:76`) until the
  kernel gives up; the model takes it as a step that fails or succeeds. Requests to
  servers and answers without a body are taken to fit into the socket's buffer;
* the hand-over of a socket from a session to a put or get task, while the event
  thread may still signal the old one (the comment at
  `CommonUtilitiesLib/EventContext.cpp:95` says so), and `EventPool`, whose
  `memset` covers a quarter of it (`ev.cpp:495`).

## 6. Plan

1. Proofs: the safety halves of the liveness properties.
2. `DsEvents`: the event thread and the hand-over of sockets between tasks.
3. A composition of `DsSession` and `NsCluster`, so that results lost in the send
   buffer reach the tables; of `GvfsProxy` and `NsCluster`.
4. Pure algorithms: the codec of `message/`, the HTTP parser, `queue_sort`,
   `choose_physic_block`.
