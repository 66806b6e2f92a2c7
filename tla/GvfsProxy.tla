------------------------------ MODULE GvfsProxy ------------------------------
(***************************************************************************)
(* One worker of the HTTP proxy: its client connections, the upstream      *)
(* connection each request holds to the name service and then to a data    *)
(* server, the timers on both, and the two pools of the worker: connections*)
(* and body buffers.                                                       *)
(*                                                                         *)
(* The worker is one event loop, so a handler is one step.  A handler that *)
(* passes on chunks sends them with gvfs_completed_send, which sleeps and  *)
(* tries again until the peer takes them: the whole loop waits meanwhile,  *)
(* with stuck the client whose handler it is.  Everything the worker keeps *)
(* for a client is the record cl[c]:                                       *)
(*   conn    the read handler of the client's connection                   *)
(*   up      r->upstream: "null" when the pointer was set to NULL, "none"  *)
(*           without a connection, else the handler of the connection      *)
(*   op, asked, told   the request, whether the client waits for an answer,*)
(*           and the last answer                                           *)
(*   ctimer, utimer    timer_set of the client's and the upstream's event  *)
(*   rbuf, body, want, recvd    request_body, what it holds, body_size and *)
(*           recv_size                                                     *)
(*   dbuf, dlen   download_body and what it holds                          *)
(*   sent, dsGot, broken   chunks the client sent, chunks the data server  *)
(*           got, and whether that connection is broken                    *)
(*   due     chunks promised by a Content-Length and not yet delivered     *)
(*   mute    the data server that answered a download sends nothing more   *)
(*   gone    a read from the client failed: nothing more comes from it     *)
(* A block is Size chunks and a body buffer holds BufLen of them.  Clients *)
(* follow the interface document: they wait for the answer of a request    *)
(* before the next one, and upload a block in two requests, GET upload and *)
(* then POST upload with the body.                                         *)
(***************************************************************************)
EXTENDS Naturals, Sequences, FiniteSets

CONSTANTS Clients,   \* client connections that may exist
          Bufs,      \* body buffers of the worker
          NoBuf,     \* the NULL buffer
          Conns,     \* connections of the worker, the listening one included
          Size,      \* chunks of a block
          BufLen,    \* chunks a body buffer holds
          MaxReq     \* bound: requests the clients make in all

(* gvfs_http_process_init creates one buffer for every connection. *)
ASSUME PoolAssumption ==
    /\ IsFiniteSet(Clients)
    /\ IsFiniteSet(Bufs)
    /\ NoBuf \notin Bufs
    /\ Conns \in Nat
    /\ Cardinality(Bufs) = Conns

ASSUME SizeAssumption ==
    /\ Size \in Nat \ {0}
    /\ BufLen \in Nat \ {0}
    /\ MaxReq \in Nat

VARIABLES cl,     \* what the worker keeps for every client
          free,   \* gvfs_http_request_body_buf_list
          stuck,  \* the client whose handler waits in gvfs_completed_send
          made    \* requests made, for the bound

vars == <<cl, free, stuck, made>>

Ops == {"query", "upload", "download", "delete"}

Closed == [conn |-> "closed", up |-> "none", op |-> "query", asked |-> FALSE,
           told |-> "none", ctimer |-> FALSE, utimer |-> FALSE,
           rbuf |-> NoBuf, body |-> <<>>, want |-> 0, recvd |-> 0,
           dbuf |-> NoBuf, dlen |-> 0, sent |-> 0, dsGot |-> <<>>,
           broken |-> FALSE, due |-> 0, mute |-> FALSE, gone |-> FALSE]

Init == /\ cl = [c \in Clients |-> Closed]
        /\ free = Bufs
        /\ stuck = {}
        /\ made = 0

-----------------------------------------------------------------------------
(* The pools. *)

Open == {c \in Clients : cl[c].conn # "closed"}

Upstreams == {c \in Clients : cl[c].up \notin {"none", "null"}}

(* gvfs_get_connection finds a free connection. *)
FreeConnection == 1 + Cardinality(Open) + Cardinality(Upstreams) < Conns

ReturnedNever(b) == {}

(* What gvfs_http_free_request_body_buf puts back in the list. *)
Returned(b) == {b} \ {NoBuf}

-----------------------------------------------------------------------------
(* The calls the handlers share. *)

(* gvfs_http_finalize_request sends the answer and reinitialises r.  An     *)
(* answer nobody asked for reaches the client before its next request.      *)
Finalize(s, answer) ==
    [s EXCEPT !.told = IF s.asked THEN answer ELSE "stray",
              !.asked = FALSE, !.want = 0, !.recvd = 0]

CloseUpstreamKeeps(s) ==
    [s EXCEPT !.up = "none", !.utimer = FALSE, !.dlen = 0]

(* gvfs_close_upstream; its download_body goes back to the list. *)
CloseUpstream(s) ==
    [s EXCEPT !.up = "none", !.utimer = FALSE, !.dbuf = NoBuf, !.dlen = 0]

(* The end of a handler that fails or is done: answer, close the upstream. *)
Done(c, answer) ==
    /\ cl' = [cl EXCEPT ![c] = CloseUpstream(Finalize(@, answer))]
    /\ free' = free \cup Returned(cl[c].dbuf)
    /\ UNCHANGED made

(* A NULL upstream is dereferenced: the worker dies, its sockets are closed *)
(* and the master forks a new one.                                          *)
Die ==
    /\ cl' = [c \in Clients |-> Closed]
    /\ free' = Bufs
    /\ UNCHANGED made

(* gvfs_http_close_request. *)
CloseRequest(c) ==
    /\ cl' = [cl EXCEPT ![c] = Closed]
    /\ free' = free \cup Returned(cl[c].dbuf) \cup Returned(cl[c].rbuf)
    /\ UNCHANGED made

-----------------------------------------------------------------------------
(* The client's connection. *)

(* gvfs_event_accept, gvfs_http_init_request: the first read arms the timer. *)
Accept(c) ==
    /\ cl[c].conn = "closed"
    /\ FreeConnection
    /\ cl' = [cl EXCEPT ![c] = [Closed EXCEPT !.conn = "head", !.ctimer = TRUE]]
    /\ UNCHANGED <<free, made>>

(* The client closed its connection or sent what is no request. *)
ClientEnds(c) ==
    /\ cl[c].conn # "closed"
    /\ cl[c].up # "null"
    /\ CloseRequest(c)

(* The read fails: the answer is 500 and the connection stays open, for    *)
(* the timer, although nothing more comes from the client.                 *)
ClientReadFails(c) ==
    /\ cl[c].conn # "closed"
    /\ ~cl[c].gone
    /\ cl' = [cl EXCEPT ![c] = [Finalize(@, "fail") EXCEPT !.ctimer = TRUE,
                                                          !.gone = TRUE]]
    /\ UNCHANGED <<free, made>>

ClientTimerIdle(c) ==
    /\ cl[c].conn # "closed"
    /\ cl[c].ctimer
    /\ cl[c].up = "none"
    /\ CloseRequest(c)

(* Two minutes without a byte from the client. *)
ClientTimer(c) ==
    /\ cl[c].conn # "closed"
    /\ cl[c].ctimer
    /\ cl[c].up # "null"
    /\ CloseRequest(c)

(* The same on a request whose upstream is NULL, and the next request there. *)
NullUpstream(c) ==
    /\ cl[c].conn # "closed"
    /\ cl[c].up = "null"
    /\ Die

-----------------------------------------------------------------------------
(* gvfs_http_request_handler: a request without a body goes to the name    *)
(* service.                                                                *)

MayAsk(c) ==
    /\ cl[c].conn = "head"
    /\ cl[c].up = "none"
    /\ ~cl[c].asked
    /\ ~cl[c].gone
    /\ cl[c].due = 0
    /\ made < MaxReq

Asking(c, o) ==
    [cl[c] EXCEPT !.op = o, !.asked = TRUE, !.told = "none", !.ctimer = TRUE,
                  !.want = 0]

(* The name service is connected and has the request; 30 s to answer. *)
Ask(c, o) ==
    /\ MayAsk(c)
    /\ FreeConnection
    /\ cl' = [cl EXCEPT ![c] = [Asking(c, o) EXCEPT !.up = "nsHead",
                                                    !.utimer = TRUE]]
    /\ made' = made + 1
    /\ UNCHANGED free

(* The requests, gvfs_ns_upload_request and its kin. *)
AskUpload(c) == Ask(c, "upload")
AskDownload(c) == Ask(c, "download")
AskDelete(c) == Ask(c, "delete")
AskQuery(c) == Ask(c, "query")

(* No connection is free, the connect fails or the query does not parse. *)
AskRefused(c, o) ==
    /\ MayAsk(c)
    /\ cl' = [cl EXCEPT ![c] = Finalize(Asking(c, o), "fail")]
    /\ made' = made + 1
    /\ UNCHANGED free

(* The send fails: the connection is closed and r->upstream set to NULL. *)
AskSendFails(c, o) ==
    /\ MayAsk(c)
    /\ FreeConnection
    /\ cl' = [cl EXCEPT ![c] = [Finalize(Asking(c, o), "fail")
                                  EXCEPT !.up = "null"]]
    /\ made' = made + 1
    /\ UNCHANGED free

-----------------------------------------------------------------------------
(* The answer of the name service. *)

(* gvfs_ns_process_response_header: the header is read, the body handler is *)
(* next and the timer stays.                                                *)
NsHead(c) ==
    /\ cl[c].up = "nsHead"
    /\ cl' = [cl EXCEPT ![c].up = "nsBody"]
    /\ UNCHANGED <<free, made>>

(* The name service closes, the read fails, or a part arrives between two  *)
(* reads of one call: received has grown, rsize has shrunk, and the read of *)
(* zero bytes that follows is taken for a close.                           *)
NsFails(c) ==
    /\ cl[c].up \in {"nsHead", "nsBody"}
    /\ Done(c, "fail")

(* 30 s: gvfs_ns_process_response_header answers 406. *)
NsTimer(c) ==
    /\ cl[c].up = "nsHead"
    /\ cl[c].utimer
    /\ Done(c, "fail")

(* gvfs_ns_process_response_body has no test of timedout: it reads nothing *)
(* and returns, without a timer from now on.                               *)
NsTimerBody(c) ==
    /\ cl[c].up = "nsBody"
    /\ cl[c].utimer
    /\ cl' = [cl EXCEPT ![c].utimer = FALSE]
    /\ UNCHANGED <<free, made>>

(* gvfs_ns_process: the answer to a query or a delete is passed on to the  *)
(* client and ends the upstream ...                                        *)
NsQueried(c, answer) ==
    /\ cl[c].up = "nsBody"
    /\ cl[c].op = "query"
    /\ Done(c, answer)

NsDeleted(c, answer) ==
    /\ cl[c].up = "nsBody"
    /\ cl[c].op = "delete"
    /\ Done(c, answer)

(* ... and so is one that names no data server: the file is complete        *)
(* already, or it does not exist.                                          *)
NsNamesNone(c, answer) ==
    /\ cl[c].up = "nsBody"
    /\ cl[c].op \in {"upload", "download"}
    /\ Done(c, answer)

(* gvfs_ns_file_upload_completed: the connection to the name service is     *)
(* closed, a data server is connected and has the request, and the client  *)
(* is told to send the block.  There is no timer on the data server.       *)
NsUpload(c) ==
    /\ cl[c].up = "nsBody"
    /\ cl[c].op = "upload"
    /\ cl' = [cl EXCEPT ![c] = [Finalize(CloseUpstream(@), "go")
                                  EXCEPT !.up = "dsHead", !.dsGot = <<>>,
                                         !.sent = 0, !.broken = FALSE]]
    /\ UNCHANGED <<free, made>>

(* gvfs_ns_file_download_completed: the data server is asked, 30 s. *)
NsDownload(c) ==
    /\ cl[c].up = "nsBody"
    /\ cl[c].op = "download"
    /\ cl' = [cl EXCEPT ![c] = [CloseUpstream(@) EXCEPT !.up = "dsHead",
                                                        !.utimer = TRUE]]
    /\ UNCHANGED <<free, made>>

(* No data server is reached. *)
NsNoDs(c) ==
    /\ cl[c].up = "nsBody"
    /\ cl[c].op \in {"upload", "download"}
    /\ Done(c, "fail")

(* The send to the data server fails: r->upstream is NULL, and the failed: *)
(* end of the body handler closes the upstream of r after its answer.      *)
NsDsSendFails(c) ==
    /\ cl[c].up = "nsBody"
    /\ cl[c].op \in {"upload", "download"}
    /\ Die

-----------------------------------------------------------------------------
(* The block on its way to the data server. *)

(* gvfs_http_write_request_body, or nothing for the data server when the   *)
(* connection is closed and the chunks go to a local file.  A send that    *)
(* fails is logged and nothing else.                                       *)
WriteBody(s, ok) ==
    IF s.up # "dsHead" THEN s
    ELSE IF s.body = <<>> \/ (ok /\ ~s.broken) THEN [s EXCEPT !.dsGot = @ \o s.body]
    ELSE [s EXCEPT !.broken = TRUE]

EmptiedNot(s) == s

(* request_body->pos = request_body->last = request_body->start. *)
Emptied(s) == [s EXCEPT !.body = <<>>]

MayPost(c) ==
    /\ cl[c].conn = "head"
    /\ cl[c].op = "upload"
    /\ ~cl[c].asked
    /\ ~cl[c].gone
    /\ made < MaxReq

(* POST upload with the first k chunks in the segment of the headers: they *)
(* go to the data server at once, and body_size is what is left unless     *)
(* that is nothing.                                                        *)
Post(c, k, ok) ==
    /\ MayPost(c)
    /\ cl[c].up = "dsHead"
    /\ made' = made + 1
    /\ LET s == [cl[c] EXCEPT !.asked = TRUE, !.ctimer = TRUE,
                              !.want = IF k < Size THEN Size - k ELSE Size,
                              !.sent = k, !.body = [i \in 1..k |-> i]]
       IN  IF free = {}
             THEN /\ cl' = [cl EXCEPT ![c] = Finalize(s, "fail")]
                  /\ UNCHANGED free
             ELSE \E b \in free :
                    /\ cl' = [cl EXCEPT ![c] = [WriteBody(s, ok) EXCEPT
                                !.conn = "body", !.rbuf = b, !.body = <<>>]]
                    /\ free' = free \ {b}

(* The data server is gone by the time of the POST: without its query the  *)
(* request is refused.                                                     *)
PostLate(c) ==
    /\ MayPost(c)
    /\ cl[c].up = "none"
    /\ cl[c].told = "stray"
    /\ made' = made + 1
    /\ cl' = [cl EXCEPT ![c] = Finalize(Asking(c, "upload"), "fail")]
    /\ UNCHANGED free

(* gvfs_http_do_read_client_request_body: a chunk is read; the last one    *)
(* arms the data server's timer and is written, a full buffer is written   *)
(* and emptied.                                                            *)
ReadBody(c, ok) ==
    /\ cl[c].conn = "body"
    /\ ~cl[c].gone
    /\ cl[c].sent < Size
    /\ LET s == [cl[c] EXCEPT !.sent = @ + 1, !.recvd = @ + 1, !.ctimer = TRUE,
                              !.body = Append(@, cl[c].sent + 1)]
       IN  cl' = [cl EXCEPT ![c] =
                    IF s.recvd = s.want
                      THEN [WriteBody(s, ok) EXCEPT
                              !.utimer = s.up = "dsHead" \/ @]
                    ELSE IF Len(s.body) >= BufLen
                      THEN Emptied(WriteBody(s, ok))
                    ELSE s]
    /\ UNCHANGED <<free, made>>

-----------------------------------------------------------------------------
(* The answer of the data server. *)

(* An upload: the code of the data server is passed on.  The data server    *)
(* reports success only for a block it has in full (external).             *)
DsUploaded(c, answer) ==
    /\ cl[c].up = "dsHead"
    /\ cl[c].op = "upload"
    /\ ~cl[c].broken
    /\ answer = "ok" => Len(cl[c].dsGot) >= Size
    /\ Done(c, answer)

(* The data server closes, the read fails, or the header came in two parts. *)
DsFails(c) ==
    /\ cl[c].up = "dsHead"
    /\ Done(c, "fail")

(* 30 s after the request of a download or the last chunk of an upload. *)
DsTimer(c) ==
    /\ cl[c].up = "dsHead"
    /\ cl[c].utimer
    /\ Done(c, "fail")

(* Part of a header: the timer is deleted before the read that comes short. *)
DsPart(c) ==
    /\ cl[c].up = "dsHead"
    /\ cl[c].utimer
    /\ cl' = [cl EXCEPT ![c].utimer = FALSE]
    /\ UNCHANGED <<free, made>>

(* A download: a buffer is taken, the headers go to the client and the     *)
(* relay starts.  On 200 the client's timer is deleted; without a buffer   *)
(* the answer is 503 and the timer stays deleted.                          *)
DsDownload(c, ok) ==
    /\ cl[c].up = "dsHead"
    /\ cl[c].op = "download"
    /\ LET s == [cl[c] EXCEPT !.utimer = FALSE, !.ctimer = @ /\ ~ok]
       IN  IF free = {}
             THEN /\ cl' = [cl EXCEPT ![c] = CloseUpstream(Finalize(s, "fail"))]
                  /\ UNCHANGED free
             ELSE \E b \in free :
                    /\ cl' = [cl EXCEPT ![c] =
                         [Finalize(s, IF ok THEN "ok" ELSE "fail") EXCEPT
                            !.up = "relay", !.dbuf = b, !.dlen = 0,
                            !.want = Size, !.due = IF ok THEN Size ELSE 0]]
                    /\ free' = free \ {b}
    /\ UNCHANGED made

RelayedUnarmed(s) == CloseUpstream(s)

(* end: of gvfs_ds_process_respodse_body. *)
Relayed(s) == CloseUpstream([s EXCEPT !.ctimer = TRUE])

(* A chunk from the data server: the last one and a full buffer are written *)
(* to the client.  A send that fails is logged and nothing else.           *)
Relay(c) ==
    /\ cl[c].up = "relay"
    /\ ~cl[c].mute
    /\ cl[c].due > cl[c].dlen
    /\ LET s == [cl[c] EXCEPT !.recvd = @ + 1, !.dlen = @ + 1]
           written == [s EXCEPT !.due = @ - s.dlen, !.dlen = 0]
       IN  IF s.recvd = s.want
             THEN /\ cl' = [cl EXCEPT ![c] = Relayed(written)]
                  /\ free' = free \cup Returned(s.dbuf)
             ELSE /\ cl' = [cl EXCEPT ![c] = IF s.dlen >= BufLen
                                               THEN written ELSE s]
                  /\ UNCHANGED free
    /\ UNCHANGED made

(* The data server closes or the read fails. *)
RelayEnds(c) ==
    /\ cl[c].up = "relay"
    /\ ~cl[c].mute
    /\ cl' = [cl EXCEPT ![c] = Relayed(@)]
    /\ free' = free \cup Returned(cl[c].dbuf)
    /\ UNCHANGED made

(* The data server or the way to it is gone without a word: nothing comes   *)
(* from it any more, and no timer of the relay is armed.                    *)
Silence(c) ==
    /\ stuck = {}
    /\ cl[c].up = "relay"
    /\ ~cl[c].mute
    /\ cl' = [cl EXCEPT ![c].mute = TRUE]
    /\ UNCHANGED <<free, stuck, made>>

-----------------------------------------------------------------------------
(* gvfs_completed_send. *)

(* The next chunk makes a handler of c send to the data server or, in a     *)
(* relay, to the client.                                                    *)
Sends(c) ==
    \/ /\ cl[c].up = "relay"
       /\ ~cl[c].mute
       /\ cl[c].due > cl[c].dlen
       /\ cl[c].recvd + 1 = cl[c].want \/ cl[c].dlen + 1 >= BufLen
    \/ /\ cl[c].conn = "body"
       /\ cl[c].up = "dsHead"
       /\ ~cl[c].gone
       /\ cl[c].sent < Size
       /\ cl[c].recvd + 1 = cl[c].want \/ Len(cl[c].body) + 1 >= BufLen
    \/ /\ MayPost(c)
       /\ cl[c].up = "dsHead"
       /\ free # {}

(* The peer does not take what is sent: EAGAIN, sleep, again.  The worker   *)
(* does nothing else.                                                       *)
Stall(c) ==
    /\ stuck = {}
    /\ Sends(c)
    /\ stuck' = {c}
    /\ UNCHANGED <<cl, free, made>>

(* The peer reads on or its connection fails, and the handler goes on. *)
Resume(c) ==
    /\ stuck = {c}
    /\ \/ Relay(c)
       \/ \E ok \in BOOLEAN : \/ ReadBody(c, ok)
                              \/ \E k \in 1..Size : Post(c, k, ok)
    /\ stuck' = {}

-----------------------------------------------------------------------------
Answers == {"ok", "fail"}

ClientStep(c) ==
    \/ Accept(c)
    \/ ClientEnds(c)
    \/ ClientReadFails(c)
    \/ AskUpload(c) \/ AskDownload(c) \/ AskDelete(c) \/ AskQuery(c)
    \/ \E o \in Ops : AskRefused(c, o) \/ AskSendFails(c, o)
    \/ \E k \in 0..Size, ok \in BOOLEAN : Post(c, k, ok)
    \/ PostLate(c)
    \/ \E ok \in BOOLEAN : ReadBody(c, ok)

NsStep(c) ==
    \/ NsHead(c)
    \/ NsFails(c)
    \/ \E a \in Answers : NsQueried(c, a) \/ NsDeleted(c, a) \/ NsNamesNone(c, a)
    \/ NsUpload(c)
    \/ NsDownload(c)
    \/ NsNoDs(c)
    \/ NsDsSendFails(c)

DsStep(c) ==
    \/ \E a \in Answers : DsUploaded(c, a)
    \/ DsFails(c)
    \/ DsPart(c)
    \/ \E ok \in BOOLEAN : DsDownload(c, ok)
    \/ Relay(c)
    \/ RelayEnds(c)

TimerStep(c) ==
    \/ ClientTimer(c)
    \/ NullUpstream(c)
    \/ NsTimer(c)
    \/ NsTimerBody(c)
    \/ DsTimer(c)

(* A step of the event loop, which no handler keeps waiting. *)
Loop(A) == stuck = {} /\ A /\ UNCHANGED stuck

Next == \E c \in Clients :
          \/ Loop(ClientStep(c) \/ NsStep(c) \/ DsStep(c) \/ TimerStep(c))
          \/ Silence(c)
          \/ Stall(c)
          \/ Resume(c)

Spec == Init /\ [][Next]_vars

(* The loop expires the client's timer as long as no handler keeps it       *)
(* waiting, and a data server that is there goes on sending or ends.  No    *)
(* peer is bound to read: a stall may last for ever.                        *)
FairSpec ==
    /\ Spec
    /\ \A c \in Clients : /\ WF_vars(Loop(ClientTimer(c) \/ NullUpstream(c)))
                          /\ WF_vars(Loop(Relay(c) \/ RelayEnds(c)))

-----------------------------------------------------------------------------
(* Properties. *)

Block == [i \in 1..Size |-> i]

(* Every variable has its type. *)
ProxyTypeOK ==
    /\ cl \in [Clients ->
         [conn : {"closed", "head", "body"},
          up : {"null", "none", "nsHead", "nsBody", "dsHead", "relay"},
          op : Ops, asked : BOOLEAN,
          told : {"none", "go", "stray"} \cup Answers,
          ctimer : BOOLEAN, utimer : BOOLEAN,
          rbuf : Bufs \cup {NoBuf}, body : Seq(1..Size), want : 0..Size,
          recvd : 0..Size, dbuf : Bufs \cup {NoBuf}, dlen : 0..BufLen,
          sent : 0..Size, dsGot : Seq(1..Size), broken : BOOLEAN,
          due : 0..Size, mute : BOOLEAN, gone : BOOLEAN]]
    /\ free \subseteq Bufs
    /\ stuck = {} \/ \E c \in Clients : stuck = {c}
    /\ made \in 0..MaxReq

(* No body buffer is shared: one that is request_body or download_body of a *)
(* request is neither in the list of free buffers nor held by another, and  *)
(* a request holds one at most, while its handlers use it.                  *)
BufsUnshared ==
    /\ ProxyTypeOK
    /\ \A c \in Clients :
         /\ cl[c].rbuf = NoBuf \/ cl[c].dbuf = NoBuf
         /\ cl[c].rbuf \notin free /\ cl[c].dbuf \notin free
         /\ cl[c].rbuf # NoBuf => cl[c].conn = "body"
         /\ cl[c].dbuf # NoBuf => cl[c].up = "relay" /\ cl[c].conn = "head"
    /\ \A c, d \in Clients : c # d =>
         {cl[c].rbuf, cl[c].dbuf} \cap {cl[d].rbuf, cl[d].dbuf} = {NoBuf}

(* One buffer per connection is enough: a request that needs a buffer finds *)
(* one, so the 503 of gvfs_ds_process_respodse_header, which would leave    *)
(* the client without a timer, is never sent.                               *)
BufAtHand ==
    \A c \in Clients : cl[c].up = "dsHead" /\ cl[c].rbuf = NoBuf => free # {}

(* Every open client connection has its timer armed, unless a download is   *)
(* being relayed to it.                                                     *)
Watched ==
    \A c \in Clients :
      cl[c].conn # "closed" => cl[c].ctimer \/ cl[c].up = "relay"

(* An upload reported as done to the client is one whose chunks went to the *)
(* data server once each and in order, however headers, full buffers and    *)
(* the last part split them.                                                *)
StoredInOrder ==
    \A c \in Clients :
      cl[c].conn = "body" /\ cl[c].told = "ok" => cl[c].dsGot = Block

(* Every request is answered or its connection closed, a promised download  *)
(* is delivered in full or its connection closed, and the buffers of both   *)
(* go back to the list.  It takes a data server that falls silent in a      *)
(* relay to keep its own client from that, and a peer that does not take    *)
(* what the worker sends to keep them all.                                  *)
Settled(c) == /\ ~cl[c].asked
              /\ cl[c].due = 0
              /\ cl[c].rbuf = NoBuf
              /\ cl[c].dbuf = NoBuf

RequestsSettle ==
    \A c \in Clients :
      ~Settled(c) ~> Settled(c) \/ cl[c].mute \/ stuck # {}
=============================================================================
