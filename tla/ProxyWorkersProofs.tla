------------------------- MODULE ProxyWorkersProofs -------------------------
(***************************************************************************)
(* The accept mutex for any number of workers, crashes and faults.         *)
(*                                                                         *)
(* OneAcceptor by itself is not inductive: it says nothing of the mutex.   *)
(* HolderLocks does: a worker that holds the mutex, from gvfs_shmtx_trylock *)
(* to gvfs_shmtx_unlock, is the one the word in shared memory names.  The  *)
(* master takes the mutex only from a process that is dead, so not from    *)
(* one of these.                                                           *)
(***************************************************************************)
EXTENDS ProxyWorkers, TLAPS

Holding == {"wait", "accept", "unlock"}

HolderLocks ==
    /\ pc \in [Pid -> Running \cup Dead \cup {"none", "gone"}]
    /\ held \in [Pid -> BOOLEAN]
    /\ \A p \in Pid : held[p] /\ pc[p] \in Holding => lock = p

(* 0 is no process. *)
LEMMA NoPidIsNone == \A p \in Pid : p # NoPid
BY WorkersAssumption DEF Pid, NoPid

(* At the start nobody holds the mutex. *)
LEMMA HolderLocksInit == Init => HolderLocks
BY DEF Init, HolderLocks, Holding, Running, Dead

(* A process that ends holds nothing any more, and disturbs nobody. *)
LEMMA EndKeeps ==
    ASSUME HolderLocks, NEW p \in Pid, NEW how \in Dead, End(p, how)
    PROVE  HolderLocks'
BY DEF HolderLocks, Holding, Running, Dead, End, Goto

(* Every step of a worker keeps HolderLocks; TryLock and Unlock are the     *)
(* two that write the mutex.                                               *)
LEMMA WorkerKeeps ==
    ASSUME HolderLocks, NEW p \in Pid,
           \/ Round(p) \/ StartFails(p) \/ TryLockFails(p) \/ Kill(p)
           \/ Crash(p) \/ Stall(p) \/ Resume(p)
    PROVE  HolderLocks'
<1> "exited" \in Dead /\ "crashed" \in Dead
  BY DEF Dead
<1>1. CASE Start(p)
  BY <1>1 DEF Start, HolderLocks, Holding, Running, Dead, At, Goto
<1>2. CASE TryLock(p)
  BY <1>2, NoPidIsNone DEF TryLock, HolderLocks, Holding, Running, Dead, At, Goto
<1>3. CASE Wait(p)
  BY <1>3 DEF Wait, HolderLocks, Holding, Running, Dead, At, Goto
<1>4. CASE Accept(p)
  BY <1>4 DEF Accept, HolderLocks, Holding, Running, Dead, At, Goto
<1>5. CASE Unlock(p)
  BY <1>5, NoPidIsNone DEF Unlock, HolderLocks, Holding, Running, Dead, At, Goto
<1>6. CASE Posted(p)
  BY <1>6 DEF Posted, HolderLocks, Holding, Running, Dead, At, Goto
<1>7. CASE Exit(p)
  BY <1>7, EndKeeps DEF Exit
<1>8. CASE StartFails(p)
  BY <1>8, EndKeeps DEF StartFails
<1>9. CASE TryLockFails(p)
  <2>1. CASE End(p, "exited")
    BY <2>1, EndKeeps
  <2>2. CASE UNCHANGED <<masterVars, workerVars, lock, conn>>
    BY <2>2 DEF HolderLocks, workerVars
  <2> QED
    BY <1>9, <2>1, <2>2 DEF TryLockFails
<1>10. CASE Kill(p)
  BY <1>10 DEF Kill, HolderLocks
<1>11. CASE Crash(p)
  BY <1>11, EndKeeps DEF Crash
<1>12. CASE Stall(p) \/ Resume(p)
  BY <1>12 DEF Stall, Resume, HolderLocks
<1> QED
  BY <1>1, <1>2, <1>3, <1>4, <1>5, <1>6, <1>7, <1>8, <1>9, <1>10, <1>11, <1>12 DEF Round

(* A signal handler of the master does: it frees the mutex of the dead only, and *)
(* a process it forks starts without it.                                   *)
LEMMA SignalledKeeps ==
    ASSUME HolderLocks, NEW S, Signalled(S)
    PROVE  HolderLocks'
<1>1. CASE "chld" \in S
  <2>1. held' = held /\ get_status
    BY <1>1 DEF Signalled
  <2>2. pc' \in [Pid -> Running \cup Dead \cup {"none", "gone"}]
    BY <2>1 DEF get_status, HolderLocks
  <2>3. ASSUME NEW p \in Pid, held[p], pc'[p] \in Holding
        PROVE  lock' = p
    <3>1. p \notin Zombies /\ pc[p] \in Holding
      BY <2>1, <2>3 DEF get_status, Holding
    <3>2. lock = p
      BY <3>1, <2>3 DEF HolderLocks
    <3> QED
      BY <3>1, <3>2, <2>1 DEF get_status
  <2> QED
    BY <2>1, <2>2, <2>3 DEF HolderLocks
<1>2. CASE "chld" \notin S
  BY <1>2 DEF Signalled, HolderLocks
<1> QED
  BY <1>1, <1>2

(* The steps of the master. *)
LEMMA MasterKeeps ==
    ASSUME HolderLocks, Master
    PROVE  HolderLocks'
<1>1. CASE \E S \in SUBSET pending : S # {} /\ Signalled(S)
  BY <1>1, SignalledKeeps
<1>2. ASSUME NEW F \in SUBSET Slot, reap_children(F)
      PROVE  HolderLocks'
  <2>1. /\ held' = held /\ lock' = lock
        /\ pc' = [p \in Pid |->
                    IF \E i \in Forked(F) : p = NewPid(i, F) THEN "init" ELSE pc[p]]
    BY <1>2 DEF reap_children
  <2> QED
    BY <2>1 DEF HolderLocks, Holding, Running
<1>3. CASE NothingToReap \/ MasterExit \/ Tell
  BY <1>3 DEF NothingToReap, MasterExit, Tell, HolderLocks, workerVars
<1> QED
  BY <1>1, <1>2, <1>3 DEF Master

(* HolderLocks is an invariant. *)
LEMMA HolderLocksStep == HolderLocks /\ [Next]_vars => HolderLocks'
<1> SUFFICES ASSUME HolderLocks, [Next]_vars PROVE HolderLocks'
  OBVIOUS
<1>1. CASE Connect \/ Quit \/ UNCHANGED vars
  BY <1>1 DEF Connect, Quit, vars, workerVars, HolderLocks
<1>2. CASE Signalled({})
  BY <1>2, SignalledKeeps
<1> QED
  BY <1>1, <1>2, WorkerKeeps, MasterKeeps DEF Next

(* Two workers never accept at once: for any number of workers and of      *)
(* crashes, wherever they fall, gvfs_process_get_status frees the mutex of *)
(* nobody who still uses it.                                               *)
THEOREM OneWorkerAccepts == Spec => []OneAcceptor
<1>1. HolderLocks => OneAcceptor
  BY DEF HolderLocks, OneAcceptor, Accepting, Holding
<1> QED
  BY <1>1, HolderLocksInit, HolderLocksStep, PTL DEF Spec
=============================================================================
