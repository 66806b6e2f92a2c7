----------------------------- MODULE DsSession -----------------------------
(***************************************************************************)
(* The task of a data server that keeps the session with the name service  *)
(* (src/NameServersession.cpp, DSTCPServerSocket.cpp) on the scheduler it  *)
(* runs on (CommonUtilitiesLib: Task.cpp, IdleTask.cpp, the event thread   *)
(* and its epoll shim).                                                    *)
(*                                                                         *)
(* Run is cut where another thread can do something it would notice: the   *)
(* tasks that queue a result and signal it, the idle thread, the event     *)
(* thread and the network.  Time is not kept: a task in a timer heap may   *)
(* run at any moment, and a heartbeat may be due at any idle event.        *)
(***************************************************************************)
EXTENDS Naturals, Sequences, FiniteSets, SequencesExt

CONSTANTS
    Reg, Beat,   \* the packets of registration and heartbeat
    Unset,       \* EventPool[fd] = -1, an empty fSendBuffer, no ResMessage
    MaxResult,   \* results of commands and transfers
    MaxTurn      \* commands, and connections refused, reset or full

ASSUME SessionAssumption ==
    /\ MaxResult \in Nat /\ MaxTurn \in Nat
    /\ {Reg, Beat, Unset} \cap 1..MaxResult = {} /\ Unset \notin {Reg, Beat}

Result == 1..MaxResult
Packet == Result \cup {Reg, Beat}
Flag == {"start", "read", "write", "idle", "alive"}

VARIABLES
    fState,      \* where the session is
    fEvents,     \* events of the task, "alive" while a thread or queue has it
    stage,       \* where the task is: off, due to run, or inside Run
    seen,        \* events of this Run that are still to be handled
    idle,        \* fIdleElem is in the heap of the idle thread
    queue,       \* fMessageQueue
    late,        \* results that are queued, their Signal still to come
    res,         \* ResMessage
    sendbusy,
    fSendBuffer, \* the packet the socket has not sent to its end
    torn,        \* fRecvBuffer starts with a part of an earlier session
    conn,        \* the connection: none, syn, up, reset
    room,        \* the kernel takes more to send
    inq,         \* what has arrived
    watch,       \* what epoll watches
    pool,        \* EventPool[fd]
    edge,        \* edges epoll has to report
    asked,       \* the name service has the registration and has to answer
    sent,        \* results sent to their end, up to the first mixed one
    lost,        \* results that went with a session or a process
    woken,       \* signalled while connected, results not all sent yet
    mixed,       \* a packet was sent where fSendBuffer held another one
    spent        \* budgets

taskVars == <<fState, fEvents, stage, seen, idle>>
outbox == <<queue, late, res, sendbusy, fSendBuffer>>
net == <<conn, room, inq, watch, pool, edge, asked>>
ghost == <<sent, lost, woken, mixed>>
sessionVars == <<taskVars, outbox, torn, net, ghost, spent>>

Allowed == [result |-> MaxResult, turn |-> MaxTurn]
Use(b) == spent[b] < Allowed[b] /\ spent' = [spent EXCEPT ![b] = @ + 1]

(* A result fits the bound, those of commands on their way counted. *)
Spare == spent.result + Len(SelectSeq(inq, LAMBDA m : m = "cmd")) < MaxResult

(* The socket is deleted: out of epoll, out of EventPool, closed. *)
NoSocket ==
    /\ conn' = "none" /\ room' = TRUE /\ inq' = <<>> /\ asked' = FALSE
    /\ watch' = {} /\ pool' = Unset /\ edge' = {} /\ fSendBuffer' = Unset

(* Nothing is to be sent, read or reported. *)
Nothing ==
    /\ seen = {} /\ idle = FALSE /\ queue = <<>> /\ late = 0 /\ res = Unset /\ sendbusy = FALSE
    /\ fSendBuffer = Unset /\ torn = FALSE /\ room = TRUE /\ inq = <<>>
    /\ edge = {} /\ asked = FALSE /\ sent = <<>> /\ lost = {} /\ woken = FALSE /\ mixed = FALSE
    /\ spent = [b \in DOMAIN Allowed |-> 0]

SessionInit ==
    /\ fState = "initial" /\ fEvents = {"start", "alive"} /\ stage = "due"
    /\ conn = "none" /\ watch = {} /\ pool = Unset
    /\ Nothing

------------------------------------------------------------------------------
(* The scheduler. *)

(* Task::Signal: the thread that sets kAlive puts the task into a queue. *)
Signal(e) ==
    /\ fEvents' = fEvents \cup {e, "alive"}
    /\ stage' = IF "alive" \in fEvents THEN stage ELSE "due"

(* GetEvents, and where Run goes on. *)
Body(s) == CASE s = "initial" -> "open" [] s = "sendRegister" -> "register"
             [] s = "recvResponse" -> "response" [] s = "connected" -> "connected"

(* TaskThread::Entry calls Run, for a task from its queue, from its heap   *)
(* when the time has come, or once more because an event came in.          *)
Run ==
    /\ stage = "due"
    /\ seen' = fEvents \ {"start", "alive"} /\ fEvents' = {"alive"}
    /\ stage' = Body(fState)
    /\ UNCHANGED <<fState, idle, outbox, torn, net, ghost, spent>>

Return_Drop ==
    /\ stage = "return"
    /\ fEvents' = {} /\ stage' = "off" /\ seen' = {}
    /\ UNCHANGED <<fState, idle, outbox, torn, net, ghost, spent>>

(* Run returned 0: compare_and_store lets go of the task unless an event   *)
(* came in meanwhile.                                                      *)
Return ==
    /\ stage = "return"
    /\ IF fEvents = {"alive"} THEN fEvents' = {} /\ stage' = "off"
                              ELSE UNCHANGED fEvents /\ stage' = "due"
    /\ seen' = {}
    /\ UNCHANGED <<fState, idle, outbox, torn, net, ghost, spent>>

ReturnIdle_Off ==
    /\ stage = "returnIdle"
    /\ fEvents' = {} /\ stage' = "off" /\ seen' = {}
    /\ UNCHANGED <<fState, idle, outbox, torn, net, ghost, spent>>

(* Run returned IdleTime: the task goes to the heap of the thread and      *)
(* stays alive, so no Signal wakes it before its time.                     *)
ReturnIdle ==
    /\ stage = "returnIdle"
    /\ fEvents' = fEvents \cup {"idle"} /\ stage' = "due" /\ seen' = {}
    /\ UNCHANGED <<fState, idle, outbox, torn, net, ghost, spent>>

(* IdleTaskThread::Entry takes the task out of its heap and signals it. *)
IdleFires ==
    /\ idle
    /\ idle' = FALSE
    /\ Signal("idle")
    /\ UNCHANGED <<fState, seen, outbox, torn, net, ghost, spent>>

------------------------------------------------------------------------------
(* Sockets. *)

Ready == (IF inq # <<>> THEN {"in"} ELSE {})
         \cup (IF conn = "up" /\ room THEN {"out"} ELSE {})
         \cup (IF conn = "reset" THEN {"hup"} ELSE {})

(* RequestEvent: the first call adds the socket, a later one changes what  *)
(* is watched, unless EventPool, which keeps the first mask, has the same. *)
Edges(mask, new) == IF "et" \in mask THEN new \cap (mask \cup {"hup"}) ELSE {}
RequestEvent(mask) ==
    IF pool = mask THEN UNCHANGED <<watch, pool, edge>>
    ELSE /\ watch' = mask /\ edge' = Edges(mask, Ready)
         /\ pool' = IF pool = Unset THEN mask ELSE pool

(* What the event thread finds: conditions of a level-triggered mask, or   *)
(* edges not reported yet.                                                 *)
Reported == IF "et" \in watch THEN edge ELSE Ready \cap (watch \cup {"hup"})

(* EventThread::Entry resolves the socket and signals the task. *)
EventSignal ==
    /\ Reported # {}
    /\ Signal("read")
    /\ edge' = {}
    /\ UNCHANGED <<fState, seen, idle, outbox, torn, conn, room, inq, watch, pool, asked,
                   ghost, spent>>

(* Sendall: what fSendBuffer still holds goes first, and then nothing of p *)
(* is sent; the caller cannot tell.                                        *)
Goes(p) == IF fSendBuffer = Unset THEN p ELSE fSendBuffer
SendAll(p) ==
    /\ fSendBuffer' = Unset
    /\ mixed' = (mixed \/ Goes(p) # p)
    /\ sent' = IF Goes(p) \in Result /\ ~mixed' THEN Append(sent, Goes(p)) ELSE sent
    /\ UNCHANGED woken
    /\ asked' = (asked \/ Goes(p) = Reg)
NotSent(p) == fSendBuffer' = Goes(p) /\ mixed' = (mixed \/ Goes(p) # p)

(* again(): the socket is deleted; what was being sent is lost. *)
again ==
    /\ fState' = "initial" /\ sendbusy' = FALSE
    /\ NoSocket
    /\ lost' = lost \cup ({res} \ {Unset})
    /\ res' = Unset /\ woken' = FALSE
    /\ UNCHANGED <<sent, mixed>>

(* A packet goes out on a connection that was reset. *)
SendFails ==
    /\ again
    /\ stage' = "returnIdle"
    /\ UNCHANGED <<fEvents, seen, idle, queue, late, torn, spent>>

(* The process ends on a NULL socket, and its parent forks another one. *)
Dies ==
    /\ fState' = "initial" /\ fEvents' = {"start", "alive"} /\ stage' = "due" /\ seen' = {}
    /\ idle' = FALSE /\ queue' = <<>> /\ late' = 0 /\ res' = Unset /\ sendbusy' = FALSE
    /\ torn' = FALSE
    /\ NoSocket
    /\ lost' = lost \cup ToSet(queue) \cup ({res} \ {Unset}) /\ woken' = FALSE
    /\ UNCHANGED <<sent, mixed, spent>>

------------------------------------------------------------------------------
(* NameServerSession::Run. *)

(* kInitial: a new socket; the connection may be under way, there at once  *)
(* or refused.                                                             *)
Open ==
    /\ stage = "open"
    /\ \/ /\ conn' = "syn" /\ fState' = "sendRegister" /\ stage' = "return"
          /\ watch' = {"out"} /\ pool' = {"out"} /\ edge' = {}
       \/ /\ conn' = "up" /\ fState' = "sendRegister" /\ stage' = "register"
          /\ UNCHANGED <<watch, pool, edge>>
    /\ UNCHANGED <<fEvents, seen, idle, outbox, torn, room, inq, asked, ghost, spent>>

Refused ==
    /\ stage = "open"
    /\ Use("turn")
    /\ stage' = "returnIdle"
    /\ UNCHANGED <<fState, fEvents, seen, idle, outbox, torn, net, ghost>>

(* kSendRegister *)
Register ==
    /\ stage = "register" /\ conn = "up"
    /\ IF room
       THEN /\ SendAll(Reg)
            /\ fState' = "recvResponse" /\ stage' = "response"
            /\ UNCHANGED <<watch, pool, edge>>
       ELSE /\ NotSent(Reg)
            /\ RequestEvent({"out", "et"})
            /\ stage' = "return"
            /\ UNCHANGED <<fState, sent, woken, asked>>
    /\ UNCHANGED <<fEvents, seen, idle, queue, late, res, sendbusy, torn, conn, room, inq,
                   lost, spent>>

RegisterAgain ==
    /\ stage = "register" /\ conn = "syn"
    /\ NotSent(Reg)
    /\ RequestEvent({"out", "et"})
    /\ stage' = "return"
    /\ UNCHANGED <<fState, fEvents, seen, idle, queue, late, res, sendbusy, torn, conn, room,
                   inq, asked, sent, lost, woken, spent>>

RegisterFails == stage = "register" /\ conn = "reset" /\ SendFails

(* kRecvRegisterResponse, the whole answer has arrived. *)
Response ==
    /\ stage = "response" /\ inq # <<>> /\ Head(inq) = "answer"
    /\ inq' = Tail(inq)
    /\ idle' = TRUE
    /\ fState' = "connected" /\ stage' = "connected"
    /\ RequestEvent({"in"})
    /\ UNCHANGED <<fEvents, seen, outbox, torn, conn, room, asked, ghost, spent>>

ResponseWaits ==
    /\ stage = "response" /\ inq = <<>> /\ conn = "up"
    /\ RequestEvent({"in"})
    /\ stage' = "return"
    /\ UNCHANGED <<fState, fEvents, seen, idle, outbox, torn, conn, room, inq, asked, ghost,
                   spent>>

ResponseFails == stage = "response" /\ inq = <<>> /\ conn = "reset" /\ SendFails

(* kConnected, messages. *)
Receiving == stage = "connected" /\ "read" \in seen

(* A part of a message that a reset cut off; again() keeps it. *)
ReadPart ==
    /\ stage = "response" \/ Receiving
    /\ inq # <<>> /\ Head(inq) = "part"
    /\ inq' = Tail(inq) /\ torn' = TRUE
    /\ UNCHANGED <<taskVars, outbox, conn, room, watch, pool, edge, asked, ghost, spent>>

(* A delete command; notify_ns_del_ok queues its result and signals the    *)
(* task that runs.                                                         *)
Command ==
    /\ Receiving /\ ~torn /\ inq # <<>> /\ Head(inq) = "cmd"
    /\ Use("result")
    /\ inq' = Tail(inq)
    /\ queue' = Append(queue, spent.result + 1)
    /\ woken' = TRUE
    /\ Signal("write")
    /\ UNCHANGED <<fState, seen, idle, late, res, sendbusy, fSendBuffer, torn, conn, room,
                   watch, pool, edge, asked, sent, lost, mixed>>

(* A command that is refused: again() deletes the socket the loop then     *)
(* reads from.                                                             *)
Refuse ==
    /\ Receiving /\ inq # <<>> /\ Head(inq) = "bad"
    /\ Dies

(* What follows a part of an earlier session is read as the rest of it:    *)
(* something is carried out, or refused, or waited for.                    *)
Garbled ==
    /\ stage = "response" \/ Receiving
    /\ torn /\ inq # <<>> /\ Head(inq) # "part"
    /\ \/ Dies
       \/ /\ inq' = Tail(inq)
          /\ UNCHANGED <<taskVars, outbox, torn, conn, room, watch, pool, edge, asked, ghost, spent>>

NoInput ==
    /\ Receiving /\ inq = <<>> /\ conn = "up"
    /\ seen' = seen \ {"read"}
    /\ UNCHANGED <<fState, fEvents, stage, idle, outbox, torn, net, ghost, spent>>

RecvFails == Receiving /\ inq = <<>> /\ conn = "reset" /\ SendFails

(* kConnected, the idle event: a heartbeat when its time has come, and the *)
(* timer again, unless the heartbeat found the connection full.            *)
Beating == stage = "connected" /\ "read" \notin seen /\ "idle" \in seen

Timer ==
    /\ Beating
    /\ idle' = TRUE /\ seen' = seen \ {"idle"}
    /\ UNCHANGED <<fState, fEvents, stage, outbox, torn, net, ghost, spent>>

Heartbeat ==
    /\ Beating /\ conn = "up" /\ room
    /\ SendAll(Beat)
    /\ idle' = TRUE /\ seen' = seen \ {"idle"}
    /\ UNCHANGED <<fState, fEvents, stage, queue, late, res, sendbusy, torn, conn, room, inq,
                   watch, pool, edge, lost, spent>>

HeartbeatWaits ==
    /\ Beating /\ conn = "up" /\ ~room
    /\ NotSent(Beat)
    /\ woken' = FALSE
    /\ stage' = "return"
    /\ UNCHANGED <<fState, fEvents, seen, idle, queue, late, res, sendbusy, torn, net, sent,
                   lost, spent>>

HeartbeatFails == Beating /\ conn = "reset" /\ SendFails

(* kConnected, results. *)
InSend == stage = "connected" /\ seen \cap {"read", "idle"} = {}
Sending == stage = "send" \/ (InSend /\ ("write" \in seen \/ sendbusy))

NoResult ==
    /\ InSend /\ "write" \notin seen /\ ~sendbusy
    /\ stage' = "return"
    /\ UNCHANGED <<fState, fEvents, seen, idle, outbox, torn, net, ghost, spent>>

GetMessage ==
    /\ Sending /\ res = Unset /\ queue # <<>>
    /\ res' = Head(queue) /\ queue' = Tail(queue)
    /\ stage' = "send"
    /\ UNCHANGED <<fState, fEvents, seen, idle, late, sendbusy, fSendBuffer, torn, net, ghost, spent>>

QueueEmpty ==
    /\ Sending /\ res = Unset /\ queue = <<>>
    /\ RequestEvent({"in"})
    /\ stage' = "return" /\ woken' = FALSE
    /\ UNCHANGED <<fState, fEvents, seen, idle, outbox, torn, conn, room, inq, asked, sent,
                   lost, mixed, spent>>

SendResult ==
    /\ Sending /\ res # Unset /\ conn = "up" /\ room
    /\ SendAll(res)
    /\ res' = Unset /\ sendbusy' = FALSE
    /\ stage' = "send"
    /\ UNCHANGED <<fState, fEvents, seen, idle, queue, late, torn, conn, room, inq, watch, pool,
                   edge, lost, spent>>

SendWaits ==
    /\ Sending /\ res # Unset /\ conn = "up" /\ ~room
    /\ NotSent(res)
    /\ sendbusy' = TRUE
    /\ RequestEvent({"in", "out", "et"})
    /\ stage' = "return"
    /\ UNCHANGED <<fState, fEvents, seen, idle, queue, late, res, torn, conn, room, inq, asked,
                   sent, lost, woken, spent>>

SendResultFails_Requeue ==
    /\ Sending /\ res # Unset /\ conn = "reset"
    /\ fState' = "initial" /\ sendbusy' = FALSE /\ NoSocket
    /\ queue' = Append(queue, res) /\ res' = Unset /\ woken' = FALSE
    /\ stage' = "returnIdle"
    /\ UNCHANGED <<fEvents, seen, idle, late, torn, sent, lost, mixed, spent>>

SendResultFails == Sending /\ res # Unset /\ conn = "reset" /\ SendFails

------------------------------------------------------------------------------
(* The others. *)

(* A transfer is done: notify_ns_backup_ok queues the result, then it      *)
(* signals the task.                                                       *)
AddMessage ==
    /\ Spare /\ Use("result")
    /\ queue' = Append(queue, spent.result + 1)
    /\ late' = late + 1
    /\ UNCHANGED <<taskVars, res, sendbusy, fSendBuffer, torn, net, ghost>>

SignalWrite ==
    /\ late > 0
    /\ late' = late - 1
    /\ Signal("write")
    /\ woken' = (woken \/ fState = "connected")
    /\ UNCHANGED <<fState, seen, idle, queue, res, sendbusy, fSendBuffer, torn, net, sent, lost,
                   mixed, spent>>

(* The network and the name service. *)
Arrives(m) == inq' = Append(inq, m) /\ edge' = Edges(watch, edge \cup {"in"})

Connects ==
    /\ conn = "syn"
    /\ conn' = "up" /\ edge' = Edges(watch, edge \cup {"out"})
    /\ UNCHANGED <<taskVars, outbox, torn, room, inq, watch, pool, asked, ghost, spent>>

Answer ==
    /\ asked /\ conn = "up"
    /\ asked' = FALSE /\ Arrives("answer")
    /\ UNCHANGED <<taskVars, outbox, torn, conn, room, watch, pool, ghost, spent>>

SendCommand ==
    /\ conn = "up" /\ fState = "connected"
    /\ Use("turn")
    /\ (Spare /\ Arrives("cmd")) \/ Arrives("bad")
    /\ UNCHANGED <<taskVars, outbox, torn, conn, room, watch, pool, asked, ghost>>

(* The connection is reset, perhaps in the middle of a message. *)
Reset ==
    /\ conn \in {"syn", "up"}
    /\ Use("turn")
    /\ conn' = "reset" /\ edge' = Edges(watch, edge \cup {"hup"})
    /\ \/ inq' = inq
       \/ inq' = <<>>
       \/ fState \in {"recvResponse", "connected"} /\ inq' = Append(inq, "part")
    /\ asked' = FALSE
    /\ UNCHANGED <<taskVars, outbox, torn, room, watch, pool, ghost>>

Fill ==
    /\ conn = "up" /\ room
    /\ Use("turn")
    /\ room' = FALSE
    /\ UNCHANGED <<taskVars, outbox, torn, conn, inq, watch, pool, edge, asked, ghost>>

Drain ==
    /\ ~room
    /\ room' = TRUE /\ edge' = Edges(watch, edge \cup {"out"})
    /\ UNCHANGED <<taskVars, outbox, torn, conn, inq, watch, pool, asked, ghost, spent>>

------------------------------------------------------------------------------
InRun ==
    \/ Open \/ Refused \/ Register \/ RegisterAgain \/ RegisterFails
    \/ Response \/ ResponseWaits \/ ResponseFails \/ ReadPart
    \/ Command \/ Refuse \/ Garbled \/ NoInput \/ RecvFails
    \/ Timer \/ Heartbeat \/ HeartbeatWaits \/ HeartbeatFails
    \/ NoResult \/ GetMessage \/ QueueEmpty \/ SendResult \/ SendWaits \/ SendResultFails

TaskThread == Run \/ Return \/ ReturnIdle \/ InRun
Peer == Connects \/ Answer \/ Drain

SessionNext ==
    \/ TaskThread \/ IdleFires \/ EventSignal \/ AddMessage \/ SignalWrite
    \/ Peer \/ SendCommand \/ Reset \/ Fill

SessionSpec == SessionInit /\ [][SessionNext]_sessionVars

(* Every thread of the data server gets its turn, timers fire, the name    *)
(* service answers a registration and reads what it is sent.               *)
SessionFair ==
    /\ WF_sessionVars(TaskThread) /\ WF_sessionVars(IdleFires)
    /\ WF_sessionVars(EventSignal) /\ WF_sessionVars(SignalWrite)
    /\ WF_sessionVars(Connects) /\ WF_sessionVars(Answer) /\ WF_sessionVars(Drain)

------------------------------------------------------------------------------
(* Properties. *)

SessionTypeOK ==
    /\ fState \in {"initial", "sendRegister", "recvResponse", "connected"}
    /\ fEvents \subseteq Flag /\ seen \subseteq Flag
    /\ ("alive" \in fEvents) = (stage # "off")
    /\ res \in Result \cup {Unset} /\ fSendBuffer \in Packet \cup {Unset}
    /\ (conn = "none") = (fState = "initial")

(* The name service gets every result that leaves the queue once and in    *)
(* order, and none is missing but what was being sent when a session or    *)
(* the process ended, unless a heartbeat and a result met in fSendBuffer.  *)
SentInOrder ==
    /\ SessionTypeOK
    /\ ~mixed =>
         /\ \A i, j \in DOMAIN sent : i < j => sent[i] < sent[j]
         /\ \A m \in Result :
              (\E i \in DOMAIN sent : m < sent[i]) => m \in ToSet(sent) \cup lost

(* After a signal while the session is connected the queue of results gets *)
(* empty, unless the session ends or a heartbeat finds the connection full.*)
ResultsLeave == woken ~> ~woken

(* A session that ended is set up again, unless a part of a message of the *)
(* old one is left in fRecvBuffer.                                         *)
SessionReturns == fState # "connected" ~> (fState = "connected" \/ torn)
=============================================================================
