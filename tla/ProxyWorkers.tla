---------------------------- MODULE ProxyWorkers ----------------------------
(***************************************************************************)
(* The processes of the HTTP proxy: a master that forks workers, collects  *)
(* the dead ones and forks them again, and workers that take turns at the  *)
(* listening socket by a mutex in shared memory.                           *)
(*                                                                         *)
(* The master blocks its signals except in sigsuspend, so its handlers run *)
(* only there.  A worker's loop is cut where the mutex, the listening      *)
(* socket or the channel to the master is used.  What a worker does for    *)
(* its clients is the module GvfsProxy; here it may die of it, or stay in  *)
(* gvfs_completed_send for as long as a peer does not read.                *)
(* "stop" and "quit" differ in nothing but names and are one.              *)
(***************************************************************************)
EXTENDS Naturals, FiniteSets

CONSTANTS
    N,            \* worker_processes
    MaxPid,       \* processes ever forked
    MaxConn,      \* clients that connect
    MaxCrash,     \* workers that die of a signal, sends a peer does not take
    MaxFault      \* workers that exit(2) because they could not start or were
                  \* signalled, forks that fail, epoll_ctl calls that fail

ASSUME WorkersAssumption ==
    /\ N \in Nat \ {0} /\ MaxPid \in Nat /\ N <= MaxPid
    /\ MaxConn \in Nat /\ MaxCrash \in Nat /\ MaxFault \in Nat

Slot == 1..N
Pid == 1..MaxPid
NoPid == 0

VARIABLES
    master,       \* "sleep" (sigsuspend), "reap", "tell", or "gone"
    pending,      \* signals the master has not handled
    reap, quit, live,   \* gvfs_reap, gvfs_quit, live
    proc,         \* gvfs_processes
    nextPid,
    pc,           \* where a process is
    held,         \* gvfs_accept_mutex_held; the listening socket is in epoll
    posted,       \* gvfs_posted_accept_events is not empty
    told,         \* GVFS_CMD_QUIT is in the channel
    leave,        \* the worker's gvfs_quit or gvfs_terminate
    serves,       \* workers that have accepted a client
    stalled,      \* workers that wait in gvfs_completed_send
    lock,         \* *gvfs_accept_mutex.lock
    conn,         \* clients in the queue of the listening socket
    used

masterVars == <<master, pending, reap, quit, live, proc, nextPid>>
clientVars == <<serves, stalled>>
workerVars == <<pc, held, posted, told, leave, clientVars>>
vars == <<masterVars, workerVars, lock, conn, used>>

Budget == [conn |-> MaxConn, crash |-> MaxCrash, fault |-> MaxFault]
Spend(k) == used[k] < Budget[k] /\ used' = [used EXCEPT ![k] = @ + 1]

Running == {"init", "loop", "wait", "accept", "unlock", "posted"}
Dead == {"crashed", "exited"}

(* gvfs_start_worker_processes *)
Init ==
    /\ master = "sleep" /\ pending = {} /\ reap = FALSE /\ quit = FALSE /\ live = TRUE
    /\ proc = [i \in Slot |-> [pid |-> i, exited |-> FALSE, respawn |-> TRUE]]
    /\ nextPid = N + 1
    /\ pc = [p \in Pid |-> IF p \in Slot THEN "init" ELSE "none"]
    /\ held = [p \in Pid |-> FALSE] /\ posted = [p \in Pid |-> FALSE]
    /\ told = [p \in Pid |-> FALSE] /\ leave = [p \in Pid |-> FALSE]
    /\ serves = {} /\ stalled = {}
    /\ lock = NoPid /\ conn = 0
    /\ used = [k \in DOMAIN Budget |-> 0]

At(p, l) == pc[p] = l /\ p \notin stalled
Goto(p, l) == pc' = [pc EXCEPT ![p] = l]

------------------------------------------------------------------------------
(* A worker *)

(* gvfs_worker_process_init *)
Start(p) ==
    /\ At(p, "init")
    /\ Goto(p, "loop")
    /\ UNCHANGED <<clientVars, masterVars, held, posted, told, leave, lock, conn, used>>

(* A process ends, with its memory and its end of the channel, but not with *)
(* the mutex: it waits to be collected, and the master is signalled.        *)
End(p, how) ==
    /\ Goto(p, how)
    /\ pending' = IF master = "gone" THEN pending ELSE pending \cup {"chld"}
    /\ held' = [held EXCEPT ![p] = FALSE] /\ posted' = [posted EXCEPT ![p] = FALSE]
    /\ told' = [told EXCEPT ![p] = FALSE] /\ leave' = [leave EXCEPT ![p] = FALSE]
    /\ serves' = serves \ {p}
    /\ UNCHANGED <<stalled, master, reap, quit, live, proc, nextPid, lock, conn>>

StartFails(p) ==
    /\ At(p, "init")
    /\ Spend("fault")
    /\ End(p, "exited")

(* gvfs_trylock_accept_mutex: the one who gets the mutex looks at the       *)
(* listening socket from now on, until it finds the mutex taken.            *)
TryLock(p) ==
    /\ At(p, "loop")
    /\ Goto(p, "wait")
    /\ held' = [held EXCEPT ![p] = (lock = NoPid)]
    /\ lock' = IF lock = NoPid THEN p ELSE lock
    /\ UNCHANGED <<clientVars, masterVars, posted, told, leave, conn, used>>

(* epoll_ctl fails: the mutex is given back, or the socket stays in epoll;  *)
(* the round ends here.                                                     *)
TryLockFails(p) ==
    /\ At(p, "loop") /\ held[p] = (lock # NoPid)
    /\ Spend("fault")
    /\ IF leave[p] THEN End(p, "exited")
       ELSE UNCHANGED <<masterVars, workerVars, lock, conn>>

(* What arrived on the channel. *)
Heard(p) == leave' = [leave EXCEPT ![p] = @ \/ told[p]]

WaitMore(p) ==
    /\ At(p, "wait")
    /\ Goto(p, "accept")
    /\ posted' = [posted EXCEPT ![p] = held[p] /\ conn > 1]
    /\ IF held[p] THEN UNCHANGED leave ELSE Heard(p)
    /\ UNCHANGED <<clientVars, masterVars, held, told, lock, conn, used>>

(* gvfs_epoll_process_events: the holder of the mutex only notes events,    *)
(* the others handle theirs.                                                *)
Wait(p) ==
    /\ At(p, "wait")
    /\ Goto(p, "accept")
    /\ posted' = [posted EXCEPT ![p] = held[p] /\ conn > 0]
    /\ IF held[p] THEN UNCHANGED leave ELSE Heard(p)
    /\ UNCHANGED <<clientVars, masterVars, held, told, lock, conn, used>>

(* gvfs_event_expire_timers, and then gvfs_event_accept if it was noted: one *)
(* client, and accept does not block.                                       *)
Accept(p) ==
    /\ At(p, "accept")
    /\ Goto(p, "unlock")
    /\ posted' = [posted EXCEPT ![p] = FALSE]
    /\ IF posted[p] /\ conn > 0
       THEN conn' = conn - 1 /\ serves' = serves \cup {p}
       ELSE UNCHANGED <<conn, serves>>
    /\ UNCHANGED <<masterVars, held, told, leave, stalled, lock, used>>

(* gvfs_shmtx_unlock *)
Unlock(p) ==
    /\ At(p, "unlock")
    /\ Goto(p, "posted")
    /\ lock' = IF held[p] /\ lock = p THEN NoPid ELSE lock
    /\ UNCHANGED <<clientVars, masterVars, held, posted, told, leave, conn, used>>

(* The events noted, and the end of the round. *)
Hears(p) == leave[p] \/ (held[p] /\ told[p])

Posted(p) ==
    /\ At(p, "posted") /\ ~Hears(p)
    /\ Goto(p, "loop")
    /\ UNCHANGED <<clientVars, masterVars, held, posted, told, leave, lock, conn, used>>

(* gvfs_worker_process_exit *)
Exit(p) ==
    /\ At(p, "posted") /\ Hears(p)
    /\ End(p, "exited")
    /\ UNCHANGED used

(* Somebody signals the worker itself. *)
Kill(p) ==
    /\ pc[p] \in Running /\ ~leave[p]
    /\ Spend("fault")
    /\ leave' = [leave EXCEPT ![p] = TRUE]
    /\ UNCHANGED <<clientVars, masterVars, pc, held, posted, told, lock, conn>>

(* A handler dies: of a timer, of an accepted client or of any event, with  *)
(* the mutex or without.                                                    *)
Crash(p) ==
    /\ pc[p] \in {"wait", "accept", "posted"}
    /\ p \notin stalled
    /\ At(p, "wait") => ~held[p]
    /\ Spend("crash")
    /\ End(p, "crashed")

(* A handler of a client's event sends to a peer that does not read: the    *)
(* worker sleeps and tries again, and leaves all else alone.  Events are    *)
(* handled without the mutex.                                               *)
Stall(p) ==
    /\ At(p, "posted") \/ (At(p, "wait") /\ ~held[p])
    /\ p \in serves
    /\ Spend("crash")
    /\ stalled' = stalled \cup {p}
    /\ UNCHANGED <<masterVars, pc, held, posted, told, leave, serves, lock, conn>>

(* The peer reads on, or its connection fails. *)
Resume(p) ==
    /\ p \in stalled
    /\ stalled' = stalled \ {p}
    /\ UNCHANGED <<masterVars, pc, held, posted, told, leave, serves, lock, conn, used>>

------------------------------------------------------------------------------
(* The master *)

(* gvfs_process_get_status: every dead child is collected, and the mutex   *)
(* taken from it.                                                          *)
Zombies == {p \in Pid : pc[p] \in Dead}

get_statusKeeps ==
    /\ pc' = [p \in Pid |-> IF p \in Zombies THEN "gone" ELSE pc[p]]
    /\ proc' = [i \in Slot |->
                  IF proc[i].pid \in Zombies
                  THEN [proc[i] EXCEPT !.exited = TRUE,
                                       !.respawn = @ /\ pc[proc[i].pid] # "exited"]
                  ELSE proc[i]]
    /\ UNCHANGED lock

get_statusFrees ==
    /\ pc' = [p \in Pid |-> IF p \in Zombies THEN "gone" ELSE pc[p]]
    /\ lock' = IF Zombies # {} THEN NoPid ELSE lock
    /\ proc' = [i \in Slot |->
                  IF proc[i].pid \in Zombies
                  THEN [proc[i] EXCEPT !.exited = TRUE,
                                       !.respawn = @ /\ pc[proc[i].pid] # "exited"]
                  ELSE proc[i]]

get_status ==
    /\ pc' = [p \in Pid |-> IF p \in Zombies THEN "gone" ELSE pc[p]]
    /\ lock' = IF lock \in Zombies THEN NoPid ELSE lock
    /\ proc' = [i \in Slot |->
                  IF proc[i].pid \in Zombies
                  THEN [proc[i] EXCEPT !.exited = TRUE,
                                       !.respawn = @ /\ pc[proc[i].pid] # "exited"]
                  ELSE proc[i]]

(* sigsuspend returns after one or more handlers; with S empty it was      *)
(* another signal (SIGIO of a channel).                                    *)
Signalled(S) ==
    /\ master = "sleep"
    /\ master' = "reap"
    /\ pending' = pending \ S
    /\ reap' = (reap \/ "chld" \in S)
    /\ quit' = (quit \/ "quit" \in S)
    /\ IF "chld" \in S THEN get_status ELSE UNCHANGED <<pc, lock, proc>>
    /\ UNCHANGED <<live, nextPid, held, posted, told, leave, clientVars, conn, used>>

(* gvfs_reap_children.  An entry that died of a signal is forked again,    *)
(* with failing forks F; the others are dropped.  live says that one was   *)
(* forked, not that one is alive.                                          *)
Exited == {i \in Slot : proc[i].pid # NoPid /\ proc[i].exited}
Forked(F) == {i \in Exited : proc[i].respawn /\ ~quit} \ F
NewPid(i, F) == nextPid + Cardinality({j \in Forked(F) : j < i})

ForgetOne(F) ==
    LET one == CHOOSE i \in Forked(F) : TRUE
    IN  [i \in Slot |->
           IF Forked(F) # {} /\ i = one
             THEN [proc[i] EXCEPT !.pid = NewPid(i, F), !.exited = FALSE]
           ELSE IF i \in Exited /\ i \notin F THEN [proc[i] EXCEPT !.pid = NoPid]
           ELSE proc[i]]

(* The table afterwards. *)
Reaped(F) ==
    [i \in Slot |->
       IF i \in Forked(F) THEN [proc[i] EXCEPT !.pid = NewPid(i, F), !.exited = FALSE]
       ELSE IF i \in Exited /\ i \notin F THEN [proc[i] EXCEPT !.pid = NoPid]
       ELSE proc[i]]

reap_children(F) ==
    /\ master = "reap" /\ reap
    /\ F \subseteq {i \in Exited : proc[i].respawn /\ ~quit}
    /\ used.fault + Cardinality(F) <= MaxFault
    /\ used' = [used EXCEPT !.fault = @ + Cardinality(F)]
    /\ nextPid + Cardinality(Forked(F)) <= MaxPid + 1
    /\ master' = "tell" /\ reap' = FALSE
    /\ proc' = Reaped(F)
    /\ live' = (Forked(F) # {})
    /\ nextPid' = nextPid + Cardinality(Forked(F))
    /\ pc' = [p \in Pid |->
                IF \E i \in Forked(F) : p = NewPid(i, F) THEN "init" ELSE pc[p]]
    /\ UNCHANGED <<pending, quit, held, posted, told, leave, clientVars, lock, conn>>

NothingToReap ==
    /\ master = "reap" /\ ~reap
    /\ master' = "tell"
    /\ UNCHANGED <<pending, reap, quit, live, proc, nextPid, workerVars, lock,
                   conn, used>>

(* gvfs_master_process_exit *)
MasterExit ==
    /\ master = "tell" /\ ~live /\ quit
    /\ master' = "gone"
    /\ UNCHANGED <<pending, reap, quit, live, proc, nextPid, workerVars, lock,
                   conn, used>>

TellNext ==
    /\ master = "tell" /\ (live \/ ~quit)
    /\ master' = "sleep"
    /\ reap' = (reap \/ (quit /\ Exited # {}))
    /\ told' = [p \in Pid |-> told[p] \/ (quit /\ p = proc[1].pid /\ pc[p] \in Running)]
    /\ UNCHANGED <<pending, quit, live, proc, nextPid, pc, held, posted, leave,
                   clientVars, lock, conn, used>>

(* gvfs_signal_worker_processes, if there is something to tell.  An entry   *)
(* whose fork failed has no channel and no process: it is to be reaped.     *)
Tell ==
    /\ master = "tell" /\ (live \/ ~quit)
    /\ master' = "sleep"
    /\ reap' = (reap \/ (quit /\ Exited # {}))
    /\ told' = [p \in Pid |-> \/ told[p]
                              \/ /\ quit
                                 /\ pc[p] \in Running
                                 /\ \E i \in Slot : proc[i].pid = p]
    /\ UNCHANGED <<pending, quit, live, proc, nextPid, pc, held, posted, leave,
                   clientVars, lock, conn, used>>

------------------------------------------------------------------------------
(* Around the proxy *)

Connect ==
    /\ Spend("conn")
    /\ conn' = conn + 1
    /\ UNCHANGED <<masterVars, workerVars, lock>>

(* gvfs_proxy -s quit *)
Quit ==
    /\ master # "gone" /\ ~quit /\ "quit" \notin pending
    /\ pending' = pending \cup {"quit"}
    /\ UNCHANGED <<master, reap, quit, live, proc, nextPid, workerVars, lock, conn, used>>

------------------------------------------------------------------------------
Round(p) ==
    \/ Start(p) \/ TryLock(p) \/ Wait(p) \/ Accept(p) \/ Unlock(p) \/ Posted(p) \/ Exit(p)
Master ==
    \/ \E S \in SUBSET pending : S # {} /\ Signalled(S)
    \/ \E F \in SUBSET Slot : reap_children(F)
    \/ NothingToReap \/ MasterExit \/ Tell

Next ==
    \/ \E p \in Pid : \/ Round(p) \/ StartFails(p) \/ TryLockFails(p) \/ Kill(p)
                      \/ Crash(p) \/ Stall(p) \/ Resume(p)
    \/ Master
    \/ quit /\ pending = {} /\ Signalled({})
    \/ Connect
    \/ Quit

Spec == Init /\ [][Next]_vars

(* The kernel schedules every process; epoll_wait is left every 100 ms, by  *)
(* its timeout or by the interval timer.  A worker that is stalled does     *)
(* nothing until its peer reads, and no peer is bound to.                   *)
FairSpec == Spec /\ WF_vars(Master) /\ \A p \in Pid : WF_vars(Round(p))

------------------------------------------------------------------------------
(* Two workers never wait for clients or accept at the same time, whoever  *)
(* dies with the mutex, and although a worker that gave it back keeps the  *)
(* listening socket in its epoll.                                          *)
Accepting(p) == held[p] /\ pc[p] \in {"wait", "accept"}
OneAcceptor == \A p, r \in Pid : Accepting(p) /\ Accepting(r) => p = r

(* The mutex does not stay with a worker, dead or alive, as long as there  *)
(* is a master: it becomes free.                                           *)
LockMoves == lock # NoPid ~> (lock = NoPid \/ master = "gone")

(* A worker that died of a signal is replaced, also when two die at once,  *)
(* or another one while the master handles the first, unless the fork      *)
(* fails or the proxy is shutting down.                                    *)
Stuck(i) == proc[i].pid # NoPid /\ proc[i].exited /\ ~reap /\ master = "sleep"
CrashReplaced ==
    \A i \in Slot :
        (proc[i].pid # NoPid /\ pc[proc[i].pid] = "crashed")
        ~> (quit \/ Stuck(i) \/ (proc[i].pid # NoPid /\ pc[proc[i].pid] \in Running))

(* Clients are accepted as long as a worker is left or will be forked that *)
(* is not kept in gvfs_completed_send by a peer that does not read.        *)
Lost(i) == proc[i].pid = NoPid \/ ~proc[i].respawn \/ Stuck(i)
ClientsAccepted ==
    (conn > 0) ~> \/ conn = 0
                  \/ quit
                  \/ \A i \in Slot : Lost(i) \/ proc[i].pid \in stalled

(* Once the master has told its workers to quit each of them ends, also one *)
(* that outlives it, but for those that a peer that does not read keeps.    *)
QuitEnds ==
    (quit /\ master = "sleep")
    ~> [](\A p \in Pid : pc[p] \in Running => p \in stalled)
=============================================================================
