-------------------------------- MODULE NsNet --------------------------------
(***************************************************************************)
(* Connections of the name service: the pool of connection nodes, the      *)
(* epoll loop with its delay queue, framing, answers that cannot be sent   *)
(* at once, idle timers and the map from data servers to connections.      *)
(*                                                                         *)
(* The service has one thread.  One round of gfs_event_loop_run is the     *)
(* timers (phase "timer"), the delay queue ("delay") and the events of one *)
(* epoll_wait ("epoll").  Peers and the network act between its steps.     *)
(*                                                                         *)
(* Messages are cut in two halves, <<k, 1>> and <<k, 2>>; the kernel may   *)
(* hand over the first without the second.  Kinds are "login", "req" (any  *)
(* request that is answered) and "nte" (heartbeats and reports).           *)
(***************************************************************************)
EXTENDS Integers, Sequences, FiniteSets, SequencesExt

CONSTANTS
    Net,          \* connection nodes, max_num of them
    DS,           \* data servers
    Client,       \* the other peers: proxies and tools
    NoDS, NoNet, Ring, Null, Listen,
    MapSize,      \* GFS_NET_DS_MAPS, 1024 in the code
    RbufLen,      \* halves that fit into rbuf, 4096 bytes in the code
    SbufLen,      \* answers that fit into sbuf
    Overlap,      \* may a data server connect again before its old
                  \* connection was closed here?
    MaxAccept, MaxMsg, MaxTorn, MaxCmd, MaxBlock,
    MaxFault      \* peers that end a connection, idle timeouts

ASSUME NetAssumption ==
    /\ NoDS \notin DS /\ Client \notin DS /\ NoNet \notin Net
    /\ Ring \notin Net /\ Null \notin Net /\ Ring # Null /\ Listen \notin Net
    /\ IsFiniteSet(Net) /\ MapSize \in Nat /\ RbufLen \in Nat /\ SbufLen \in Nat
    /\ Overlap \in BOOLEAN

VARIABLES
    phase,        \* where the thread is
    q,            \* cursor of gfs_event_delay_run
    batch,        \* events of the last epoll_wait not looked at yet
    free,         \* free_list of the pool
    client_num,   \* gfs_global->client_num
    open,         \* nodes whose fd is open
    ready,        \* ev.ready of a node: "read", "write", "net"
    flag,         \* ev.flag: which events epoll reports, "in" or "out"
    next, prev,   \* ev.qnode of each node and of the head of loop->delay
    user,         \* user.dsid, NoDS unless user.ctype is a data server
    rbuf, sbuf,   \* halves received, number of answers waiting
    map,          \* the tree of gfs_net_map.c
    mapFree,      \* length of maplist
    peer, inq, torn, edge, blocked, end,
                  \* the kernel: who is at the other end, halves that wait, the
                  \* message whose second half is to come, events epoll has not
                  \* reported, a peer that does not read, and whether the peer
                  \* ended the connection
    dropped,      \* auxiliary: the parser threw a part of a message away
    jammed,       \* auxiliary: a command was put off on a node that is in the
                  \* delay queue without input
    used          \* how often each bounded input happened

thread == <<phase, q, batch>>
pool == <<free, client_num, open>>
event == <<ready, flag, next, prev>>
names == <<user, map, mapFree>>
buffers == <<rbuf, sbuf, dropped, jammed>>
kernel == <<peer, inq, torn, edge, blocked, end>>
vars == <<thread, pool, event, names, buffers, kernel, used>>

Kind == {"login", "req", "nte"}
Half == Kind \X {1, 2}
Links == Net \cup {Ring, Null}
Budget == [accept |-> MaxAccept, msg |-> MaxMsg, torn |-> MaxTorn, cmd |-> MaxCmd,
           block |-> MaxBlock, fault |-> MaxFault]
Spend(k) == used[k] < Budget[k] /\ used' = [used EXCEPT ![k] = @ + 1]

(* What parse and handler see of a worker that was just started.  Every    *)
(* node was set up by gfs_net_pool_create; nothing is connected.           *)
NetInit ==
    /\ phase = "timer" /\ q = Ring /\ batch = {}
    /\ free = SetToSeq(Net)
    /\ client_num = 0 /\ open = {}
    /\ ready = [c \in Net |-> {}]
    /\ flag = [c \in Net |-> "in"]
    /\ next = [x \in Net \cup {Ring} |-> IF x = Ring THEN Ring ELSE Null]
    /\ prev = [x \in Net \cup {Ring} |-> IF x = Ring THEN Ring ELSE Null]
    /\ user = [c \in Net |-> NoDS]
    /\ rbuf = [c \in Net |-> <<>>] /\ sbuf = [c \in Net |-> 0]
    /\ map = [d \in DS |-> NoNet] /\ mapFree = MapSize
    /\ peer = [c \in Net |-> Client] /\ inq = [c \in Net |-> <<>>]
    /\ torn = [c \in Net |-> "none"] /\ edge = [c \in Net |-> {}]
    /\ blocked = [c \in Net |-> FALSE]
    /\ end = [c \in Net |-> "up"]
    /\ dropped = FALSE /\ jammed = FALSE /\ used = [k \in DOMAIN Budget |-> 0]

(* The worker dies on a null pointer and the parent forks another one,     *)
(* from the memory it had before it ever accepted.                         *)
Die ==
    /\ phase' = "timer" /\ q' = Ring /\ batch' = {}
    /\ free' = SetToSeq(Net)
    /\ client_num' = 0 /\ open' = {}
    /\ ready' = [c \in Net |-> {}]
    /\ flag' = [c \in Net |-> "in"]
    /\ next' = [x \in Net \cup {Ring} |-> IF x = Ring THEN Ring ELSE Null]
    /\ prev' = [x \in Net \cup {Ring} |-> IF x = Ring THEN Ring ELSE Null]
    /\ user' = [c \in Net |-> NoDS]
    /\ rbuf' = [c \in Net |-> <<>>] /\ sbuf' = [c \in Net |-> 0]
    /\ map' = [d \in DS |-> NoNet] /\ mapFree' = MapSize
    /\ peer' = [c \in Net |-> Client] /\ inq' = [c \in Net |-> <<>>]
    /\ torn' = [c \in Net |-> "none"] /\ edge' = [c \in Net |-> {}]
    /\ blocked' = [c \in Net |-> FALSE]
    /\ end' = [c \in Net |-> "up"] /\ jammed' = FALSE /\ UNCHANGED dropped

------------------------------------------------------------------------------
(* The delay queue, a ring of pointers. *)

(* gfs_queue_insert_tail(&loop->delay, x), also for an x that is in a list *)
(* already.  The assignments are made one after the other.                 *)
insert_tail(x) ==
    LET p == prev[Ring]
        nx == [next EXCEPT ![p] = x] IN
    /\ next' = [nx EXCEPT ![x] = Ring]
    /\ prev' = [prev EXCEPT ![x] = p, ![Ring] = x]

(* gfs_queue_remove(x); it follows both pointers of x. *)
Linked(x) == next[x] # Null /\ prev[x] # Null

queue_remove(x) ==
    LET pv == [prev EXCEPT ![next[x]] = prev[x]] IN
    /\ prev' = pv
    /\ next' = [next EXCEPT ![pv[x]] = next[x]]

(* The nodes gfs_event_delay_run comes to: what every set has that contains *)
(* the first one and with each node the next.                              *)
Closed(S) == next[Ring] \in S /\ \A x \in S \cap Net : next[x] \in S
Queue == { x \in Links : \A S \in SUBSET Links : Closed(S) => x \in S }

------------------------------------------------------------------------------
(* Variations of the operators below, for the mutants. *)
map_removeKeeps(d) == map' = map

CloseNodeListed(c, n) ==
    /\ open' = open \ {c}
    /\ free' = <<c>> \o free
    /\ rbuf' = [rbuf EXCEPT ![c] = <<>>]
    /\ sbuf' = [sbuf EXCEPT ![c] = 0]
    /\ client_num' = client_num - n
    /\ inq' = [inq EXCEPT ![c] = <<>>] /\ torn' = [torn EXCEPT ![c] = "none"]
    /\ edge' = [edge EXCEPT ![c] = {}] /\ end' = [end EXCEPT ![c] = "up"]
    /\ peer' = [peer EXCEPT ![c] = Client] /\ blocked' = [blocked EXCEPT ![c] = FALSE]
    /\ UNCHANGED <<dropped, jammed>>

RestDropped(b) == <<>>

------------------------------------------------------------------------------
(* gfs_net_close: the node goes back to the head of free_list, whatever    *)
(* list it is in; the map loses the entry of its data server, whoever the  *)
(* entry points to; client_num goes down, here n times for n calls in a    *)
(* row.  Its event stays where it is.                                      *)
map_remove(d) ==
    map' = IF mapFree > 0 /\ d # NoDS THEN [map EXCEPT ![d] = NoNet] ELSE map

CloseNode(c, n) ==
    /\ open' = open \ {c}
    /\ free' = <<c>> \o RemoveFirst(free, c)
    /\ rbuf' = [rbuf EXCEPT ![c] = <<>>]
    /\ sbuf' = [sbuf EXCEPT ![c] = 0]
    /\ client_num' = client_num - n
    /\ inq' = [inq EXCEPT ![c] = <<>>] /\ torn' = [torn EXCEPT ![c] = "none"]
    /\ edge' = [edge EXCEPT ![c] = {}] /\ end' = [end EXCEPT ![c] = "up"]
    /\ peer' = [peer EXCEPT ![c] = Client] /\ blocked' = [blocked EXCEPT ![c] = FALSE]
    /\ UNCHANGED <<dropped, jammed>>

net_close(c, n) == CloseNode(c, n) /\ map_remove(user[c]) /\ UNCHANGED <<user, mapFree>>

(* gfs_net_map_add of one connection, kept for a run of logins. *)
map_add(d, c) ==
    IF mapFree = 0 THEN UNCHANGED <<map, mapFree>>
    ELSE /\ map' = [map EXCEPT ![d] = c]
         /\ mapFree' = IF map[d] = NoNet THEN mapFree - 1 ELSE mapFree

------------------------------------------------------------------------------
(* gfs_net_packet_parse_tcp until it finds nothing more.  A whole message  *)
(* at the front is taken.  A first half alone is kept only when the buffer *)
(* is filled to its end: otherwise the scan runs over it and drops it.  A  *)
(* second half has no valid length, and everything behind it is dropped.   *)
Whole(b) ==
    { n \in 0..Len(b) \div 2 :
        \A i \in 1..n : b[2 * i - 1][2] = 1 /\ b[2 * i] = <<b[2 * i - 1][1], 2>> }
Packets(b) ==
    [i \in 1..Max(Whole(b)) |-> b[2 * i - 1][1]]
Rest(b) ==
    LET t == SubSeq(b, 2 * Len(Packets(b)) + 1, Len(b))
    IN  IF Len(b) = RbufLen /\ t # <<>> /\ t[1][2] = 1 THEN t ELSE <<>>

Drops(b) == Len(Rest(b)) + 2 * Len(Packets(b)) # Len(b)

(* How many of the messages are answered. *)
Answers(p) == Cardinality({i \in DOMAIN p : p[i] # "nte"})

(* Answers go out through gfs_handle_tcp_send.  If the peer does not read, *)
(* they stay in sbuf, the node is not ready any more and epoll reports     *)
(* only that it can be written.  When they do not fit, the thread spins in *)
(* gfs_busi_handle until the peer reads: Room is a guard.                  *)
Room(c, n) == blocked[c] => sbuf[c] + n <= SbufLen

tcp_send(c, n, r) ==
    IF n = 0
    THEN /\ ready' = [ready EXCEPT ![c] = r]
         /\ UNCHANGED <<flag, sbuf, edge>>
    ELSE IF blocked[c]
    THEN /\ sbuf' = [sbuf EXCEPT ![c] = @ + n]
         /\ ready' = [ready EXCEPT ![c] = r \ {"net"}]
         /\ flag' = [flag EXCEPT ![c] = "out"]
         /\ edge' = [edge EXCEPT ![c] = @ \ {"in", "out"}]
    ELSE /\ sbuf' = [sbuf EXCEPT ![c] = 0]
         /\ ready' = [ready EXCEPT ![c] = r \cup {"net"}]
         /\ flag' = [flag EXCEPT ![c] = "in"]
         /\ edge' = [edge EXCEPT ![c] =
                       IF flag[c] = "in" THEN @
                       ELSE { e \in @ \cup {"in"} :
                                e = "hup" \/ (e = "in" /\ (inq[c] # <<>> \/ end[c] # "up")) }]

------------------------------------------------------------------------------
(* Timers *)

(* A send that works makes a blocked node ready again and asks epoll for   *)
(* input; if a write event was noted, what rbuf still holds is parsed.  If  *)
(* the send has to wait on a node that is in the delay queue without input, *)
(* the event that it can be written puts the node into the queue twice, and *)
(* the queue loses the nodes behind its first place (jammed).               *)
Command(c) ==
    /\ tcp_send(c, 1, ready[c] \ {"write"})
    /\ jammed' = (jammed \/ (blocked[c] /\ "read" \notin ready[c] /\ c \in Queue))
    /\ IF "write" \in ready[c]
       THEN /\ rbuf' = [rbuf EXCEPT ![c] = Rest(@)]
            /\ dropped' = (dropped \/ Drops(rbuf[c]))
       ELSE UNCHANGED <<rbuf, dropped>>

(* A command of the timer pass to the connection the map has for d. *)
Notice(d) ==
    LET c == map[d] IN
    /\ phase = "timer" /\ c \in open /\ end[c] # "rst" /\ Room(c, 1)
    /\ Spend("cmd")
    /\ Command(c)
    /\ UNCHANGED <<thread, pool, next, prev, names, peer, inq, torn, blocked, end>>

(* sbuf is full and the peer does not read: the loop around the send does  *)
(* not end before the peer reads.                                          *)
NoticeSpin(d) ==
    LET c == map[d] IN
    /\ phase = "timer" /\ c \in open /\ end[c] # "rst" /\ ~Room(c, 1)
    /\ Spend("cmd")
    /\ phase' = "spin" /\ q' = c
    /\ UNCHANGED <<batch, pool, event, names, buffers, kernel>>

SpinEnd ==
    /\ phase = "spin" /\ ~blocked[q] /\ end[q] # "rst"
    /\ phase' = "timer"
    /\ Command(q)
    /\ UNCHANGED <<q, batch, pool, next, prev, names, peer, inq, torn, blocked, end, used>>

(* The peer resets the connection: it is closed, the loop goes on, and its *)
(* next send, on a closed node, closes the node once more.                 *)
SpinReset ==
    /\ phase = "spin" /\ end[q] = "rst"
    /\ phase' = "timer"
    /\ net_close(q, 2)
    /\ UNCHANGED <<q, batch, event, used>>

(* The command when the peer has reset the connection, or the node is not  *)
(* open at all: send fails and the connection is closed.                   *)
NoticeFails(d) ==
    LET c == map[d] IN
    /\ phase = "timer" /\ c # NoNet /\ (c \notin open \/ end[c] = "rst")
    /\ Spend("cmd")
    /\ net_close(c, 1)
    /\ UNCHANGED <<thread, event>>

(* The timer of an idle connection: gfs_net_close takes its timer out of   *)
(* the tree, and gfs_timer_loop_run deletes it from the tree once more.    *)
IdleTimeout(c) ==
    /\ phase = "timer" /\ c \in open
    /\ Spend("fault")
    /\ Die

TimerEndNoDelay ==
    /\ phase = "timer"
    /\ phase' = "delay" /\ q' = Ring
    /\ UNCHANGED <<batch, pool, event, names, buffers, kernel, used>>

TimerEnd ==
    /\ phase = "timer"
    /\ phase' = "delay" /\ q' = next[Ring]
    /\ UNCHANGED <<batch, pool, event, names, buffers, kernel, used>>

------------------------------------------------------------------------------
(* gfs_event_delay_run *)

(* A node that waits to write is passed over.  A node that was set up      *)
(* again while it was in the queue has no links, and the worker dies.      *)
DelaySkip ==
    /\ phase = "delay" /\ q \in Net /\ "net" \notin ready[q]
    /\ IF Linked(q)
       THEN /\ q' = next[q]
            /\ UNCHANGED <<phase, batch, pool, event, names, buffers, kernel>>
       ELSE Die
    /\ UNCHANGED used

(* A node without input is only taken out. *)
DelayIdle ==
    /\ phase = "delay" /\ q \in Net /\ "net" \in ready[q] /\ "read" \notin ready[q]
    /\ IF Linked(q)
       THEN /\ queue_remove(q) /\ q' = next'[q]
            /\ UNCHANGED <<phase, batch, pool, ready, flag, names, buffers, kernel>>
       ELSE Die
    /\ UNCHANGED used

(* gfs_net_tcp_recv fills rbuf.  If it comes to the end of the stream, or  *)
(* the node is not open (recv fails), the connection is closed and what    *)
(* was received is lost.                                                   *)
Fits(c) == Len(rbuf[c]) + Len(inq[c]) < RbufLen

DelayClose ==
    /\ phase = "delay" /\ q \in Net /\ {"net", "read"} \subseteq ready[q]
    /\ q \notin open \/ end[q] = "rst" \/ (end[q] = "fin" /\ Fits(q))
    /\ net_close(q, 1)
    /\ queue_remove(q) /\ q' = next'[q]
    /\ UNCHANGED <<phase, batch, ready, flag, used>>

(* The messages of b are handled and answered.  A login notes the data     *)
(* server and enters it in the map.                                        *)
Handled(c, b, r) ==
    LET p == Packets(b)
        login == peer[c] \in DS /\ Contains(p, "login") IN
    /\ Room(c, Answers(p))
    /\ tcp_send(c, Answers(p), r)
    /\ rbuf' = [rbuf EXCEPT ![c] = Rest(b)] /\ dropped' = (dropped \/ Drops(b))
    /\ UNCHANGED jammed
    /\ IF login THEN user' = [user EXCEPT ![c] = peer[c]] /\ map_add(peer[c], c)
       ELSE UNCHANGED names

(* Everything was read (EAGAIN): the node leaves the queue. *)
DelayRecv ==
    /\ phase = "delay" /\ q \in open /\ {"net", "read"} \subseteq ready[q]
    /\ end[q] = "up" /\ Fits(q)
    /\ Handled(q, rbuf[q] \o inq[q], ready[q] \ {"read"})
    /\ inq' = [inq EXCEPT ![q] = <<>>]
    /\ queue_remove(q) /\ q' = next'[q]
    /\ UNCHANGED <<phase, batch, pool, peer, torn, blocked, end, used>>

(* The peer resets the connection after its message was read: the answer   *)
(* cannot be sent and the connection is closed inside the request, whose   *)
(* memory gfs_busi_destory then frees in a pool that was reset (NsMem):    *)
(* the worker dies of it or goes on.  A login was noted before.            *)
LoginClosed(d, c) ==
    /\ user' = [user EXCEPT ![c] = d]
    /\ mapFree' = IF mapFree > 0 /\ map[d] = NoNet THEN mapFree - 1 ELSE mapFree
    /\ map' = IF mapFree = 0 THEN map
              ELSE [map EXCEPT ![d] = IF mapFree' > 0 THEN NoNet ELSE c]

AnswerFails ==
    LET p == Packets(rbuf[q] \o inq[q]) IN
    /\ phase = "delay" /\ q \in open /\ {"net", "read"} \subseteq ready[q]
    /\ end[q] = "up" /\ Fits(q) /\ Answers(p) > 0
    /\ Spend("fault")
    /\ \/ Die
       \/ /\ CloseNode(q, 1)
          /\ IF peer[q] \in DS /\ Contains(p, "login") THEN LoginClosed(peer[q], q)
             ELSE map_remove(user[q]) /\ UNCHANGED <<user, mapFree>>
          /\ ready' = [ready EXCEPT ![q] = @ \ {"read"}]
          /\ queue_remove(q) /\ q' = next'[q]
          /\ UNCHANGED <<phase, batch, flag>>

DelayRecvFullRemoves ==
    LET n == RbufLen - Len(rbuf[q]) IN
    /\ phase = "delay" /\ q \in open /\ {"net", "read"} \subseteq ready[q]
    /\ end[q] # "rst" /\ ~Fits(q)
    /\ Handled(q, rbuf[q] \o SubSeq(inq[q], 1, n), ready[q])
    /\ inq' = [inq EXCEPT ![q] = SubSeq(@, n + 1, Len(@))]
    /\ queue_remove(q) /\ q' = next'[q]
    /\ UNCHANGED <<phase, batch, pool, peer, torn, blocked, end, used>>

(* rbuf is full (GFS_NET_OUTOF_MEMORY): the node stays in the queue. *)
DelayRecvFull ==
    LET n == RbufLen - Len(rbuf[q]) IN
    /\ phase = "delay" /\ q \in open /\ {"net", "read"} \subseteq ready[q]
    /\ end[q] # "rst" /\ ~Fits(q)
    /\ Handled(q, rbuf[q] \o SubSeq(inq[q], 1, n), ready[q])
    /\ inq' = [inq EXCEPT ![q] = SubSeq(@, n + 1, Len(@))]
    /\ q' = next[q]
    /\ UNCHANGED <<phase, batch, pool, next, prev, peer, torn, blocked, end, used>>

(* epoll_wait: every pending event, with or without new connections. *)
EpollWait(l) ==
    /\ phase = "delay" /\ q = Ring
    /\ phase' = "epoll"
    /\ batch' = { c \in open : edge[c] # {} } \cup l
    /\ UNCHANGED <<q, pool, event, names, buffers, kernel, used>>

------------------------------------------------------------------------------
(* The events of one epoll_wait *)

EpollError(c) ==
    /\ phase = "epoll" /\ c \in batch /\ "hup" \in edge[c]
    /\ batch' = batch \ {c}
    /\ net_close(c, 1)
    /\ UNCHANGED <<phase, q, event, used>>

(* Input and output events are only noted; a node without input noted is   *)
(* put into the delay queue.                                               *)
EpollEvent(c) ==
    /\ phase = "epoll" /\ c \in batch /\ "hup" \notin edge[c]
    /\ batch' = batch \ {c}
    /\ IF "read" \notin ready[c] THEN insert_tail(c) ELSE UNCHANGED <<next, prev>>
    /\ ready' = [ready EXCEPT ![c] = @ \cup (IF "in" \in edge[c] THEN {"read"} ELSE {})
                                       \cup (IF "out" \in edge[c] THEN {"write"} ELSE {})]
    /\ edge' = [edge EXCEPT ![c] = {}]
    /\ UNCHANGED <<phase, q, pool, flag, names, buffers, peer, inq, torn, blocked, end,
                   used>>

(* gfs_net_tcp_accept and gfs_net_node_get: the node at the head of        *)
(* free_list is set up; its event, links included, is cleared.             *)
Accept(p, more) ==
    LET c == free[1] IN
    /\ phase = "epoll" /\ Listen \in batch
    /\ Overlap \/ p = Client \/ \A n \in open : peer[n] # p
    /\ client_num < Cardinality(Net) /\ free # <<>>
    /\ Spend("accept")
    /\ batch' = IF more THEN batch ELSE batch \ {Listen}
    /\ free' = Tail(free) /\ open' = open \cup {c}
    /\ client_num' = client_num + 1
    /\ ready' = [ready EXCEPT ![c] = {"net"}] /\ flag' = [flag EXCEPT ![c] = "in"]
    /\ next' = [next EXCEPT ![c] = Null] /\ prev' = [prev EXCEPT ![c] = Null]
    /\ user' = [user EXCEPT ![c] = NoDS]
    /\ peer' = [peer EXCEPT ![c] = p]
    /\ UNCHANGED <<phase, q, buffers, map, mapFree, inq, torn, edge, blocked, end>>

(* The limit is reached, or the pool is empty although the limit is not:   *)
(* the new socket is closed, or left open and forgotten.                   *)
AcceptNot ==
    /\ phase = "epoll" /\ Listen \in batch
    /\ client_num >= Cardinality(Net) \/ free = <<>>
    /\ batch' = batch \ {Listen}
    /\ UNCHANGED <<phase, q, pool, event, names, buffers, kernel, used>>

EpollEnd ==
    /\ phase = "epoll" /\ batch \subseteq {Listen}
    /\ phase' = "timer" /\ batch' = {}
    /\ UNCHANGED <<q, pool, event, names, buffers, kernel, used>>

------------------------------------------------------------------------------
(* Peers and the network.  The thread does not look at them while it goes  *)
(* through the events of an epoll_wait, so what happens then counts as     *)
(* happening afterwards.                                                   *)

Live(c) == phase # "epoll" /\ c \in open /\ end[c] = "up"

Raise(c, e) == [edge EXCEPT ![c] = IF flag[c] = e THEN @ \cup {e} ELSE @]

(* Data servers log in first; their reports follow.  Clients ask. *)
Message(c, k) ==
    /\ Live(c) /\ torn[c] = "none"
    /\ k = "req" => peer[c] = Client
    /\ k = "login" => peer[c] \in DS /\ user[c] = NoDS /\ inq[c] = <<>>
    /\ k = "nte" => user[c] # NoDS
    /\ edge' = Raise(c, "in")
    /\ UNCHANGED <<thread, pool, event, names, buffers, peer, blocked, end>>

(* A message arrives whole, or its first half before the second. *)
Send(c, k) ==
    /\ Message(c, k)
    /\ Spend("msg")
    /\ inq' = [inq EXCEPT ![c] = @ \o << <<k, 1>>, <<k, 2>> >>]
    /\ UNCHANGED torn

SendHalf(c, k) ==
    /\ Message(c, k)
    /\ Spend("torn")
    /\ inq' = [inq EXCEPT ![c] = Append(@, <<k, 1>>)]
    /\ torn' = [torn EXCEPT ![c] = k]

SendRest(c) ==
    /\ Live(c) /\ torn[c] # "none"
    /\ inq' = [inq EXCEPT ![c] = Append(@, <<torn[c], 2>>)]
    /\ torn' = [torn EXCEPT ![c] = "none"]
    /\ edge' = Raise(c, "in")
    /\ UNCHANGED <<thread, pool, event, names, buffers, peer, blocked, end, used>>

(* The peer closes or resets the connection. *)
End(c, how) ==
    /\ Live(c)
    /\ Spend("fault")
    /\ end' = [end EXCEPT ![c] = how]
    /\ edge' = IF how = "rst" THEN [edge EXCEPT ![c] = @ \cup {"hup"}] ELSE Raise(c, "in")
    /\ UNCHANGED <<thread, pool, event, names, buffers, peer, inq, torn, blocked>>

(* The peer stops reading, and reads again.  Its window fills up only by   *)
(* what is sent, so not while sbuf waits to be sent.                       *)
Block(c) ==
    /\ Live(c) /\ ~blocked[c] /\ sbuf[c] = 0
    /\ Spend("block")
    /\ blocked' = [blocked EXCEPT ![c] = TRUE]
    /\ UNCHANGED <<thread, pool, event, names, buffers, peer, inq, torn, edge, end>>

Unblock(c) ==
    /\ phase # "epoll" /\ c \in open /\ blocked[c]
    /\ blocked' = [blocked EXCEPT ![c] = FALSE]
    /\ edge' = Raise(c, "out")
    /\ UNCHANGED <<thread, pool, event, names, buffers, peer, inq, torn, end, used>>

------------------------------------------------------------------------------
Delay == DelaySkip \/ DelayIdle \/ DelayClose \/ DelayRecv \/ DelayRecvFull
Epoll == AcceptNot \/ EpollEnd \/ \E c \in Net : EpollError(c) \/ EpollEvent(c)

Next ==
    \/ \E d \in DS : Notice(d) \/ NoticeSpin(d) \/ NoticeFails(d)
    \/ SpinEnd \/ SpinReset \/ AnswerFails
    \/ \E c \in Net : IdleTimeout(c)
    \/ TimerEnd
    \/ Delay
    \/ \E l \in SUBSET {Listen} : EpollWait(l)
    \/ Epoll
    \/ \E p \in DS \cup {Client}, more \in BOOLEAN : Accept(p, more)
    \/ \E c \in Net : \/ \E k \in Kind : Send(c, k) \/ SendHalf(c, k)
                      \/ SendRest(c)
                      \/ \E how \in {"fin", "rst"} : End(c, how)
                      \/ Block(c)
                      \/ Unblock(c)

Spec == NetInit /\ [][Next]_vars

(* The thread takes its next step; a round runs the timers, the delay      *)
(* queue and what epoll_wait returned.  Nobody has to connect or send.     *)
Thread == SpinEnd \/ SpinReset \/ TimerEnd \/ Delay \/ Epoll \/ \E l \in SUBSET {Listen} : EpollWait(l)
FairSpec == Spec /\ WF_vars(Thread)

------------------------------------------------------------------------------
NetTypeOK ==
    /\ phase \in {"timer", "spin", "delay", "epoll"} /\ q \in Net \cup {Ring}
    /\ batch \subseteq Net \cup {Listen} /\ open \subseteq Net
    /\ free \in Seq(Net) /\ client_num \in Int
    /\ ready \in [Net -> SUBSET {"read", "write", "net"}]
    /\ flag \in [Net -> {"in", "out"}]
    /\ next \in [Net \cup {Ring} -> Links] /\ prev \in [Net \cup {Ring} -> Links]
    /\ user \in [Net -> DS \cup {NoDS}]
    /\ rbuf \in [Net -> Seq(Half)] /\ sbuf \in [Net -> Nat]
    /\ map \in [DS -> Net \cup {NoNet}] /\ mapFree \in 0..MapSize
    /\ peer \in [Net -> DS \cup {Client}] /\ inq \in [Net -> Seq(Half)]
    /\ torn \in [Net -> Kind \cup {"none"}]
    /\ edge \in [Net -> SUBSET {"in", "out", "hup"}]
    /\ blocked \in [Net -> BOOLEAN] /\ end \in [Net -> {"up", "fin", "rst"}]
    /\ used \in [DOMAIN Budget -> Nat]

(* As long as a map node is left, an entry of the map is an open           *)
(* connection that this data server logged in on, however connections are  *)
(* closed, closed twice and reused: commands never go to another peer.     *)
MapLive ==
    mapFree > 0 =>
        \A d \in DS : map[d] # NoNet => map[d] \in open /\ user[map[d]] = d

(* A connection may be closed twice (by a failing command and again by the *)
(* delay queue), but client_num never counts more than the open ones: the  *)
(* service does not refuse a peer it has room for.                         *)
ClientsCounted == client_num <= Cardinality(open)

(* free_list and the open nodes never overlap, and no node is lost or      *)
(* listed twice, although gfs_net_close unlinks nodes that are free; the   *)
(* number of clients never exceeds the open nodes.                         *)
PoolSound ==
    /\ NetTypeOK
    /\ ClientsCounted
    /\ \A c \in Net : (c \in open) # (\E i \in DOMAIN free : free[i] = c)
    /\ Len(free) + Cardinality(open) = Cardinality(Net)

(* As long as no send blocks, a message that arrives whole is never thrown *)
(* away, also when the end of rbuf cuts it: DelayRecvFull keeps its first  *)
(* half for the next round.                                                *)
WholeKept == dropped => used.torn > 0 \/ used.block > 0

(* A node whose input was noted is in the delay queue, so that its requests *)
(* are read although epoll reports nothing for them any more.  There are   *)
(* two exceptions: a node set up again while it was in the queue has lost  *)
(* its links, and the thread is about to die of it; and a command that was *)
(* put off on a node of the queue (jammed).                                *)
Unlinked == \E c \in Queue \cap Net : ~Linked(c)
DelayComplete ==
    \A c \in open : "read" \in ready[c] => c \in Queue \/ Unlinked \/ jammed

(* Input of a connection is read, unless its peer does not read, or the    *)
(* thread spins on one that does not, or the queue is jammed.              *)
Spinning == phase = "spin" \/ (phase = "delay" /\ q \in Net /\ blocked[q])
InputRead ==
    \A c \in Net : ("read" \in ready[c]) ~>
        (c \notin open \/ "read" \notin ready[c] \/ "net" \notin ready[c] \/ Spinning \/ jammed)
=============================================================================
