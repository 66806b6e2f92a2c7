--------------------------- MODULE GvfsProxyProofs ---------------------------
(***************************************************************************)
(* The worker of the proxy for any number of clients, connections and      *)
(* requests and any block and buffer size.                                 *)
(*                                                                         *)
(* The invariants of GvfsProxy depend on one another.  Watched needs that  *)
(* a download finds a buffer (BufAtHand); BufAtHand needs that every       *)
(* buffer that is not free is held by a client of its own, that the holder *)
(* is connected, and that no more clients are connected than there are     *)
(* buffers; BufsUnshared needs where a connection is when its request has  *)
(* a buffer.  ProxyInv is their inductive strengthening: Kept says of each *)
(* client what its handlers rely on, Pooled that no buffer is lost.        *)
(***************************************************************************)
EXTENDS GvfsProxy, FiniteSetTheorems, SequenceTheorems, TLAPS

Fields == {"conn", "up", "op", "asked", "told", "ctimer", "utimer", "rbuf", "body",
           "want", "recvd", "dbuf", "dlen", "sent", "dsGot", "broken", "due", "mute",
           "gone"}

(* The type of a client's record, field by field. *)
IsClient(s) == s = [f \in Fields |-> s[f]]

Typed(s) ==
    /\ s.conn \in {"closed", "head", "body"}
    /\ s.up \in {"null", "none", "nsHead", "nsBody", "dsHead", "relay"}
    /\ s.op \in Ops /\ s.asked \in BOOLEAN
    /\ s.told \in {"none", "go", "stray"} \cup Answers
    /\ s.ctimer \in BOOLEAN /\ s.utimer \in BOOLEAN
    /\ s.rbuf \in Bufs \cup {NoBuf} /\ s.dbuf \in Bufs \cup {NoBuf}
    /\ s.body \in Seq(1..Size) /\ s.dsGot \in Seq(1..Size)
    /\ s.want \in 0..Size /\ s.recvd \in 0..Size /\ s.sent \in 0..Size
    /\ s.due \in 0..Size /\ s.dlen \in 0..BufLen
    /\ s.broken \in BOOLEAN /\ s.mute \in BOOLEAN /\ s.gone \in BOOLEAN

(* Where the connection and the upstream of a request can be together. *)
Placed(s) ==
    /\ s.conn = "closed" => s = Closed
    /\ s.up \in {"null", "nsHead", "nsBody", "relay"} => s.conn = "head"
    /\ s.conn = "body" => s.op = "upload"
    /\ s.rbuf # NoBuf => s.conn = "body"
    /\ s.dbuf # NoBuf => s.up = "relay"
    /\ s.conn # "closed" => s.ctimer \/ s.up = "relay"

(* The counters of a download that is relayed: what is due and is not in   *)
(* the buffer has still to be received, so recv_size stays in its bounds.  *)
Relaying(s) ==
    s.up = "relay" => /\ s.dlen < BufLen
                      /\ s.due = 0 \/ s.due + s.recvd =< Size + s.dlen

(* The first n chunks of the block. *)
Chunks(n) == [i \in 1..n |-> i]

(* The chunks of an upload are at the data server or in the buffer, unless *)
(* the connection to it broke.                                             *)
Uploading(s) ==
    /\ s.conn = "head" /\ s.up = "dsHead" /\ s.op = "upload" =>
         s.dsGot = <<>> /\ ~s.broken /\ s.recvd = 0 /\ s.told # "ok"
    /\ s.conn = "body" => s.recvd =< s.sent
    /\ s.conn = "body" /\ s.up = "dsHead" =>
         /\ s.told # "ok"
         /\ s.sent < Size /\ ~s.gone => s.sent + s.want = Size + s.recvd
         /\ ~s.broken => IF s.sent < Size THEN s.dsGot \o s.body = Chunks(s.sent)
                                          ELSE s.dsGot = Chunks(Size)
    /\ s.conn = "body" /\ s.told = "ok" => s.sent = Size /\ s.dsGot = Block

Kept(s) == IsClient(s) /\ Typed(s) /\ Placed(s) /\ Relaying(s) /\ Uploading(s)

Held(s) == {s.rbuf, s.dbuf} \ {NoBuf}

Pooled ==
    /\ \A c \in Clients : free \cap Held(cl[c]) = {}
    /\ \A c, d \in Clients : c # d => Held(cl[c]) \cap Held(cl[d]) = {}
    /\ \A b \in Bufs : b \in free \/ \E c \in Clients : b \in Held(cl[c])

ProxyInv ==
    /\ cl = [c \in Clients |-> cl[c]]
    /\ \A c \in Clients : Kept(cl[c])
    /\ free \subseteq Bufs
    /\ made \in 0..MaxReq
    /\ Pooled
    /\ Cardinality(Open) =< Conns

(* One handler at most keeps the loop waiting. *)
OneStuck == stuck = {} \/ \E c \in Clients : stuck = {c}

-----------------------------------------------------------------------------
(* The type invariant, client by client. *)
LEMMA TypeByClient ==
    ASSUME OneStuck, cl = [c \in Clients |-> cl[c]], free \subseteq Bufs, made \in 0..MaxReq,
           \A c \in Clients : IsClient(cl[c]) /\ Typed(cl[c])
    PROVE  ProxyTypeOK
BY DEF ProxyTypeOK, IsClient, Typed, Fields, OneStuck

(* A client that is not connected has a record as good as any. *)
LEMMA ClosedKept == Kept(Closed) /\ Held(Closed) = {}
<1>1. IsClient(Closed) /\ Typed(Closed)
  BY SizeAssumption, EmptySeq DEF Closed, IsClient, Typed, Fields, Ops, Answers
<1>2. Placed(Closed) /\ Relaying(Closed) /\ Uploading(Closed)
  BY DEF Closed, Placed, Relaying, Uploading
<1> QED
  BY <1>1, <1>2 DEF Kept, Held, Closed

(* The connected clients are finitely many. *)
LEMMA OpenFinite ==
    IsFiniteSet(Open) /\ Cardinality(Open) \in Nat
BY PoolAssumption, FS_Subset, FS_CardinalityType DEF Open

(* The same after a step. *)
LEMMA OpenFiniteNext ==
    IsFiniteSet(Open') /\ Cardinality(Open') \in Nat
BY PoolAssumption, FS_Subset, FS_CardinalityType DEF Open

(* One more is at most one more. *)
LEMMA AddOne ==
    ASSUME NEW S, NEW x, IsFiniteSet(S)
    PROVE  Cardinality(S \cup {x}) =< Cardinality(S) + 1
<1>1. Cardinality(S) \in Nat
  BY FS_CardinalityType
<1>2. Cardinality(S \cup {x}) = IF x \in S THEN Cardinality(S) ELSE Cardinality(S) + 1
  BY FS_AddElement
<1> QED
  BY <1>1, <1>2

(* A handler works on one client: what it has to see to is that the record *)
(* of this client is kept, that a buffer it takes comes from the list and  *)
(* one it gives up goes back there, and that there is a connection for it. *)
LEMMA OneClientKeeps ==
    ASSUME ProxyInv, NEW c \in Clients, NEW s, Kept(s),
           cl' = [cl EXCEPT ![c] = s], made' \in 0..MaxReq,
           free' \cap Held(s) = {},
           free' \cup Held(s) = free \cup Held(cl[c]),
           s.conn = "closed" \/ cl[c].conn # "closed" \/ Cardinality(Open) < Conns
    PROVE  ProxyInv'
<1>1. cl = [d \in Clients |-> cl[d]] /\ free \subseteq Bufs
  BY DEF ProxyInv
<1>2. /\ cl' = [d \in Clients |-> cl'[d]]
      /\ cl'[c] = s /\ \A d \in Clients : d # c => cl'[d] = cl[d]
  BY <1>1
<1>3. Kept(cl[c])
  BY DEF ProxyInv
<1>4. Held(s) \subseteq Bufs /\ Held(cl[c]) \subseteq Bufs
  BY <1>3 DEF Held, Kept, Typed
<1>5. \A d \in Clients : Kept(cl'[d])
  BY <1>2 DEF ProxyInv
<1>6. Pooled'
  BY <1>1, <1>2, <1>4 DEF ProxyInv, Pooled
<1>7. Cardinality(Open') =< Conns
  <2>1. CASE Open' \subseteq Open
    BY <2>1, OpenFinite, OpenFiniteNext, FS_Subset, PoolAssumption DEF ProxyInv
  <2>2. CASE ~(Open' \subseteq Open)
    <3>1. Open' = Open \cup {c} /\ Cardinality(Open) < Conns
      BY <2>2, <1>2 DEF Open
    <3>2. Cardinality(Open \cup {c}) =< Cardinality(Open) + 1
      BY OpenFinite, AddOne
    <3> QED
      BY <3>1, <3>2, OpenFinite, OpenFiniteNext, PoolAssumption
  <2> QED
    BY <2>1, <2>2
<1>8. free' \subseteq Bufs
  BY <1>1, <1>4
<1> QED
  BY <1>2, <1>5, <1>6, <1>7, <1>8 DEF ProxyInv

(* What a handler of c finds. *)
LEMMA Found ==
    ASSUME ProxyInv, NEW c \in Clients
    PROVE  /\ Kept(cl[c]) /\ Held(cl[c]) \subseteq Bufs
           /\ free \subseteq Bufs /\ free \cap Held(cl[c]) = {} /\ made \in 0..MaxReq
<1>1. Kept(cl[c]) /\ free \subseteq Bufs /\ free \cap Held(cl[c]) = {} /\ made \in 0..MaxReq
  BY DEF ProxyInv, Pooled
<1> QED
  BY <1>1 DEF Kept, Typed, Held

(* A worker that starts, or starts again. *)
LEMMA FreshKept ==
    ASSUME cl = [c \in Clients |-> Closed], free = Bufs, made \in 0..MaxReq
    PROVE  ProxyInv
<1>1. \A c \in Clients : cl[c] = Closed
  OBVIOUS
<1>2. Open = {}
  BY <1>1 DEF Open, Closed
<1>3. Cardinality(Open) = 0
  BY <1>2, FS_EmptySet
<1>4. Pooled
  BY <1>1, ClosedKept DEF Pooled
<1> QED
  BY <1>1, <1>3, <1>4, ClosedKept, PoolAssumption DEF ProxyInv

-----------------------------------------------------------------------------
(* One lemma for each way a handler leaves the record of its client.       *)

(* The answer, and the end of the upstream. *)
LEMMA DoneKept ==
    ASSUME NEW s, Kept(s), NEW answer \in Answers,
           s.up \in {"nsHead", "nsBody", "dsHead"},
           answer = "ok" /\ s.up = "dsHead" => Len(s.dsGot) >= Size /\ ~s.broken
    PROVE  LET r == CloseUpstream(Finalize(s, answer)) IN
           /\ Kept(r) /\ r.rbuf = s.rbuf /\ r.dbuf = NoBuf /\ r.conn = s.conn
<1> DEFINE r == CloseUpstream(Finalize(s, answer))
<1> USE DEF Kept
<1>1. IsClient(r)
  BY DEF IsClient, CloseUpstream, Finalize
<1>2. /\ r.conn = s.conn /\ r.up = "none" /\ r.op = s.op /\ r.rbuf = s.rbuf
      /\ r.dbuf = NoBuf /\ r.ctimer = s.ctimer /\ r.sent = s.sent /\ r.dsGot = s.dsGot
      /\ r.told = (IF s.asked THEN answer ELSE "stray") /\ r.recvd = 0
  BY DEF IsClient, Fields, CloseUpstream, Finalize
<1>3. Typed(r)
  BY SizeAssumption DEF IsClient, Fields, CloseUpstream, Finalize, Typed, Answers
<1>4. Placed(r)
  BY <1>2 DEF Placed, Closed
<1>5. Relaying(r)
  BY <1>2 DEF Relaying
<1>6. Uploading(r)
  <2>1. s.conn = "body" /\ answer = "ok" => s.sent = Size /\ s.dsGot = Block
    <3> SUFFICES ASSUME s.conn = "body", answer = "ok"
                 PROVE  s.sent = Size /\ s.dsGot = Block
      OBVIOUS
    <3>1. s.up = "dsHead" /\ Len(s.dsGot) >= Size /\ ~s.broken
      BY DEF Placed
    <3>2. CASE s.sent < Size
      <4>1. s.dsGot \o s.body = Chunks(s.sent)
        BY <3>1, <3>2 DEF Uploading
      <4>2. Len(s.dsGot \o s.body) = Len(s.dsGot) + Len(s.body)
        BY ConcatProperties DEF Typed
      <4>3. Len(Chunks(s.sent)) = s.sent
        BY SizeAssumption DEF Typed, Chunks
      <4>4. Len(s.dsGot) \in Nat /\ Len(s.body) \in Nat /\ s.sent \in Nat
        BY LenProperties DEF Typed
      <4>5. Len(s.dsGot) + Len(s.body) = s.sent
        BY <4>1, <4>2, <4>3
      <4>6. Len(s.dsGot) >= Size
        BY <3>1
      <4>7. \A a, b, n \in Nat : a + b = n /\ a >= Size => ~(n < Size)
        BY SizeAssumption
      <4> QED
        BY <3>2, <4>4, <4>5, <4>6, <4>7
    <3>3. CASE ~(s.sent < Size)
      BY <3>1, <3>3, SizeAssumption DEF Uploading, Typed, Chunks, Block
    <3> QED
      BY <3>2, <3>3
  <2>2. s.conn = "body" => s.sent \in Nat
    BY SizeAssumption DEF Typed
  <2> QED
    BY <1>2, <2>1, <2>2 DEF Uploading
<1> QED
  BY <1>1, <1>2, <1>3, <1>4, <1>5, <1>6
(* The handlers that end so. *)
LEMMA DoneKeeps ==
    ASSUME ProxyInv, NEW c \in Clients, NEW answer \in Answers, Done(c, answer),
           cl[c].up \in {"nsHead", "nsBody", "dsHead"},
           answer = "ok" /\ cl[c].up = "dsHead" => Len(cl[c].dsGot) >= Size /\ ~cl[c].broken
    PROVE  ProxyInv'
<1> DEFINE s == CloseUpstream(Finalize(cl[c], answer))
<1>1. Kept(cl[c]) /\ free \cap Held(cl[c]) = {} /\ made \in 0..MaxReq
  BY Found
<1>2. Kept(s) /\ s.rbuf = cl[c].rbuf /\ s.dbuf = NoBuf /\ s.conn = cl[c].conn
  BY <1>1, DoneKept
<1>3. cl[c].dbuf = NoBuf /\ cl[c].conn # "closed"
  BY <1>1 DEF Kept, Placed, Closed
<1>4. free' = free /\ Held(s) = Held(cl[c])
  BY <1>2, <1>3 DEF Done, Returned, Held
<1>5. cl' = [cl EXCEPT ![c] = s] /\ made' = made
  BY DEF Done
<1> HIDE DEF s
<1> QED
  BY <1>1, <1>2, <1>3, <1>4, <1>5, OneClientKeeps

(* The client's connection is closed. *)
LEMMA CloseKeeps ==
    ASSUME ProxyInv, NEW c \in Clients, CloseRequest(c)
    PROVE  ProxyInv'
<1>1. free \cap Held(cl[c]) = {} /\ made \in 0..MaxReq
  BY Found
<1>2. free' = free \cup Held(cl[c])
  BY DEF CloseRequest, Returned, Held
<1>3. Closed.conn = "closed"
  BY DEF Closed
<1> QED
  BY <1>1, <1>2, <1>3, ClosedKept, OneClientKeeps DEF CloseRequest

(* The worker dies and another one starts. *)
LEMMA DieKeeps ==
    ASSUME ProxyInv, Die
    PROVE  ProxyInv'
<1>1. cl' = [c \in Clients |-> Closed] /\ free' = Bufs /\ made' \in 0..MaxReq
  BY DEF Die, ProxyInv
<1>2. \A c \in Clients : cl'[c] = Closed
  BY <1>1
<1>3. Open' = {}
  BY <1>2 DEF Open, Closed
<1>4. Cardinality(Open') = 0
  BY <1>3, FS_EmptySet
<1>5. Pooled'
  BY <1>1, <1>2, ClosedKept DEF Pooled
<1> QED
  BY <1>1, <1>2, <1>4, <1>5, ClosedKept, PoolAssumption DEF ProxyInv

(* A client is accepted only while a connection is free. *)
LEMMA AcceptKeeps ==
    ASSUME ProxyInv, NEW c \in Clients, Accept(c)
    PROVE  ProxyInv'
<1> DEFINE s == [Closed EXCEPT !.conn = "head", !.ctimer = TRUE]
<1>1. Kept(cl[c]) /\ free \cap Held(cl[c]) = {} /\ made \in 0..MaxReq
  BY Found
<1>2. cl[c] = Closed
  BY <1>1 DEF Accept, Kept, Placed
<1>3. Kept(s) /\ Held(s) = {}
  <2>1. IsClient(s) /\ Typed(s)
    BY ClosedKept DEF Kept, IsClient, Typed, Closed, Fields
  <2>2. Placed(s) /\ Relaying(s) /\ Uploading(s)
    BY DEF Placed, Relaying, Uploading, Closed
  <2> QED
    BY <2>1, <2>2 DEF Kept, Held, Closed
<1>4. Cardinality(Open) < Conns
  <2>1. IsFiniteSet(Upstreams) /\ Cardinality(Upstreams) \in Nat
    BY PoolAssumption, FS_Subset, FS_CardinalityType DEF Upstreams
  <2> QED
    BY <2>1, OpenFinite, PoolAssumption DEF Accept, FreeConnection
<1>5. cl' = [cl EXCEPT ![c] = s] /\ free' = free /\ made' = made
  BY DEF Accept
<1> HIDE DEF s
<1> QED
  BY <1>1, <1>2, <1>3, <1>4, <1>5, ClosedKept, OneClientKeeps

(* A request to the name service, one that is refused, and one whose send  *)
(* fails.                                                                  *)
LEMMA AskKeeps ==
    ASSUME ProxyInv, NEW c \in Clients, NEW o \in Ops,
           cl[c].conn = "head", cl[c].up = "none", made < MaxReq, made' = made + 1, free' = free,
           \/ cl' = [cl EXCEPT ![c] = [Asking(c, o) EXCEPT !.up = "nsHead", !.utimer = TRUE]]
           \/ cl' = [cl EXCEPT ![c] = Finalize(Asking(c, o), "fail")]
           \/ cl' = [cl EXCEPT ![c] = [Finalize(Asking(c, o), "fail") EXCEPT !.up = "null"]]
    PROVE  ProxyInv'
<1>1. Kept(cl[c]) /\ free \cap Held(cl[c]) = {} /\ made \in 0..MaxReq
  BY Found
<1>2. made' \in 0..MaxReq
  BY <1>1, SizeAssumption
<1>3. ASSUME NEW s, IsClient(s), Typed(s), s.conn = "head", s.ctimer,
             s.up \in {"none", "null", "nsHead"}, s.rbuf = cl[c].rbuf, s.dbuf = cl[c].dbuf,
             cl' = [cl EXCEPT ![c] = s]
      PROVE  ProxyInv'
  <2>1. Kept(s)
    BY <1>1, <1>3 DEF Kept, Placed, Relaying, Uploading
  <2>2. Held(s) = Held(cl[c])
    BY <1>3 DEF Held
  <2> QED
    BY <1>1, <1>2, <1>3, <2>1, <2>2, OneClientKeeps
<1>4. IsClient(cl[c]) /\ Typed(cl[c])
  BY <1>1 DEF Kept
<1> USE DEF Asking, Finalize, IsClient
<1>5. CASE cl' = [cl EXCEPT ![c] = [Asking(c, o) EXCEPT !.up = "nsHead", !.utimer = TRUE]]
  <2> DEFINE s == [Asking(c, o) EXCEPT !.up = "nsHead", !.utimer = TRUE]
  <2>1. IsClient(s)
    BY <1>4
  <2>2. /\ s.conn = "head" /\ s.ctimer /\ s.up = "nsHead"
        /\ s.rbuf = cl[c].rbuf /\ s.dbuf = cl[c].dbuf
    BY <1>4 DEF Fields
  <2>3. Typed(s)
    BY <1>4, SizeAssumption DEF Fields, Typed
  <2> HIDE DEF s
  <2> QED
    BY <1>3, <1>5, <2>1, <2>2, <2>3 DEF s
<1>6. CASE cl' = [cl EXCEPT ![c] = Finalize(Asking(c, o), "fail")]
  <2> DEFINE s == Finalize(Asking(c, o), "fail")
  <2>1. IsClient(s)
    BY <1>4
  <2>2. /\ s.conn = "head" /\ s.ctimer /\ s.up = "none"
        /\ s.rbuf = cl[c].rbuf /\ s.dbuf = cl[c].dbuf
    BY <1>4 DEF Fields
  <2>3. Typed(s)
    BY <1>4, SizeAssumption DEF Fields, Typed, Answers
  <2> HIDE DEF s
  <2> QED
    BY <1>3, <1>6, <2>1, <2>2, <2>3 DEF s
<1>7. CASE cl' = [cl EXCEPT ![c] = [Finalize(Asking(c, o), "fail") EXCEPT !.up = "null"]]
  <2> DEFINE s == [Finalize(Asking(c, o), "fail") EXCEPT !.up = "null"]
  <2>1. IsClient(s)
    BY <1>4
  <2>2. /\ s.conn = "head" /\ s.ctimer /\ s.up = "null"
        /\ s.rbuf = cl[c].rbuf /\ s.dbuf = cl[c].dbuf
    BY <1>4 DEF Fields
  <2>3. Typed(s)
    BY <1>4, SizeAssumption DEF Fields, Typed, Answers
  <2> HIDE DEF s
  <2> QED
    BY <1>3, <1>7, <2>1, <2>2, <2>3 DEF s
<1> QED
  BY <1>5, <1>6, <1>7
(* A timer that is deleted and a handler that is replaced. *)
LEMMA FieldKeeps ==
    ASSUME ProxyInv, NEW c \in Clients, NsHead(c) \/ NsTimerBody(c) \/ DsPart(c)
    PROVE  ProxyInv'
<1>1. Kept(cl[c]) /\ free \cap Held(cl[c]) = {} /\ made \in 0..MaxReq
  BY Found
<1>2. CASE NsHead(c)
  <2> DEFINE s == [cl[c] EXCEPT !.up = "nsBody"]
  <2>1. IsClient(s) /\ Typed(s)
    BY <1>1 DEF Kept, IsClient, Typed, Fields
  <2>2. Placed(s) /\ Relaying(s) /\ Uploading(s)
    BY <1>1, <1>2 DEF NsHead, Kept, Placed, Relaying, Uploading, IsClient, Fields, Closed
  <2>3. Held(s) = Held(cl[c]) /\ cl[c].conn # "closed"
    BY <1>1, <1>2 DEF NsHead, Held, Kept, Placed, IsClient, Fields
  <2>4. Kept(s)
    BY <2>1, <2>2 DEF Kept
  <2>5. cl' = [cl EXCEPT ![c] = s] /\ free' = free /\ made' = made
    BY <1>2 DEF NsHead
  <2> HIDE DEF s
  <2> QED
    BY <1>1, <2>3, <2>4, <2>5, OneClientKeeps
<1>3. CASE NsTimerBody(c) \/ DsPart(c)
  <2> DEFINE s == [cl[c] EXCEPT !.utimer = FALSE]
  <2>1. IsClient(s) /\ Typed(s)
    BY <1>1 DEF Kept, IsClient, Typed, Fields
  <2>2. cl[c].conn # "closed"
    BY <1>1, <1>3 DEF NsTimerBody, DsPart, Kept, Placed, Closed
  <2>3. Placed(s)
    BY <1>1, <2>2 DEF Kept, Placed, IsClient, Fields
  <2>4. Relaying(s)
    BY <1>1 DEF Kept, Relaying, IsClient, Fields
  <2>5. Uploading(s)
    BY <1>1 DEF Kept, Uploading, IsClient, Fields
  <2>6. Held(s) = Held(cl[c])
    BY <1>1 DEF Held, Kept, IsClient, Fields
  <2>7. cl' = [cl EXCEPT ![c] = s] /\ free' = free /\ made' = made
    BY <1>3 DEF NsTimerBody, DsPart
  <2>8. Kept(s)
    BY <2>1, <2>3, <2>4, <2>5 DEF Kept
  <2> HIDE DEF s
  <2> QED
    BY <1>1, <2>2, <2>6, <2>7, <2>8, OneClientKeeps
<1> QED
  BY <1>2, <1>3

(* A data server that falls silent changes what comes, not what is kept. *)
LEMMA SilenceKeeps ==
    ASSUME ProxyInv, NEW c \in Clients, Silence(c)
    PROVE  ProxyInv'
<1> DEFINE s == [cl[c] EXCEPT !.mute = TRUE]
<1>1. Kept(cl[c]) /\ free \cap Held(cl[c]) = {} /\ made \in 0..MaxReq
  BY Found
<1>2. IsClient(s) /\ Typed(s)
  BY <1>1 DEF Kept, IsClient, Typed, Fields
<1>3. cl[c].conn # "closed"
  BY <1>1 DEF Silence, Kept, Placed, Closed
<1>4. Placed(s)
  BY <1>1, <1>3 DEF Kept, Placed, IsClient, Fields
<1>5. Relaying(s)
  BY <1>1 DEF Kept, Relaying, IsClient, Fields
<1>6. Uploading(s)
  BY <1>1 DEF Kept, Uploading, IsClient, Fields
<1>7. Held(s) = Held(cl[c])
  BY <1>1 DEF Held, Kept, IsClient, Fields
<1>8. cl' = [cl EXCEPT ![c] = s] /\ free' = free /\ made' = made
  BY DEF Silence
<1>9. Kept(s)
  BY <1>2, <1>4, <1>5, <1>6 DEF Kept
<1> HIDE DEF s
<1> QED
  BY <1>1, <1>3, <1>7, <1>8, <1>9, OneClientKeeps

(* A read that fails: the request is answered, its timer is armed and it   *)
(* keeps its buffer until the connection is closed.                        *)
LEMMA ReadFailsKeeps ==
    ASSUME ProxyInv, NEW c \in Clients, ClientReadFails(c)
    PROVE  ProxyInv'
<1> DEFINE o == cl[c]
           s == [Finalize(o, "fail") EXCEPT !.ctimer = TRUE, !.gone = TRUE]
<1>1. Kept(o) /\ free \cap Held(o) = {} /\ made \in 0..MaxReq
  BY Found
<1>2. IsClient(o) /\ Typed(o) /\ o.conn # "closed"
  BY <1>1 DEF Kept, ClientReadFails
<1>3. cl' = [cl EXCEPT ![c] = s] /\ free' = free /\ made' = made
  BY DEF ClientReadFails
<1>4. IsClient(s)
  BY <1>2 DEF IsClient, Finalize
<1>5. /\ s.conn = o.conn /\ s.up = o.up /\ s.op = o.op /\ s.rbuf = o.rbuf
      /\ s.dbuf = o.dbuf /\ s.ctimer = TRUE /\ s.gone = TRUE /\ s.dlen = o.dlen
      /\ s.due = o.due /\ s.sent = o.sent /\ s.dsGot = o.dsGot /\ s.body = o.body
      /\ s.broken = o.broken /\ s.recvd = 0 /\ s.told # "ok"
  BY <1>2 DEF IsClient, Fields, Finalize
<1>6. Typed(s)
  BY <1>2, SizeAssumption DEF IsClient, Fields, Finalize, Typed, Answers
<1> HIDE DEF s
<1>7. Placed(s)
  BY <1>1, <1>2, <1>5 DEF Kept, Placed
<1>8. Relaying(s)
  <2>1. o.due \in Nat /\ o.due =< Size /\ o.dlen \in Nat
    BY <1>2, SizeAssumption DEF Typed
  <2>2. s.due + s.recvd =< Size + s.dlen
    BY <1>5, <2>1, SizeAssumption
  <2> QED
    BY <1>1, <1>5, <2>2 DEF Kept, Relaying
<1>9. Uploading(s)
  <2>1. o.sent \in Nat
    BY <1>2, SizeAssumption DEF Typed
  <2>2. s.recvd =< s.sent
    BY <1>5, <2>1
  <2>3. Uploading(o)
    BY <1>1 DEF Kept
  <2> HIDE DEF o
  <2>4. s.conn = "body" /\ s.up = "dsHead" /\ ~s.broken =>
          IF s.sent < Size THEN s.dsGot \o s.body = Chunks(s.sent)
                           ELSE s.dsGot = Chunks(Size)
    BY <1>5, <2>3 DEF Uploading
  <2>5. s.conn = "head" /\ s.up = "dsHead" /\ s.op = "upload" =>
          s.dsGot = <<>> /\ ~s.broken
    BY <1>5, <2>3 DEF Uploading
  <2> QED
    BY <1>5, <2>2, <2>4, <2>5 DEF Uploading
<1>10. Kept(s) /\ Held(s) = Held(o)
  BY <1>4, <1>5, <1>6, <1>7, <1>8, <1>9 DEF Kept, Held
<1> QED
  BY <1>1, <1>2, <1>3, <1>10, OneClientKeeps

(* The name service names a data server. *)
LEMMA NamedKeeps ==
    ASSUME ProxyInv, NEW c \in Clients, NsUpload(c) \/ NsDownload(c)
    PROVE  ProxyInv'
<1>1. Kept(cl[c]) /\ free \cap Held(cl[c]) = {} /\ made \in 0..MaxReq
  BY Found
<1>2. cl[c].conn = "head" /\ cl[c].rbuf = NoBuf /\ cl[c].dbuf = NoBuf /\ cl[c].ctimer
  BY <1>1 DEF NsUpload, NsDownload, Kept, Placed
<1>3. IsClient(cl[c]) /\ Typed(cl[c])
  BY <1>1 DEF Kept
<1>4. CASE NsUpload(c)
  <2> DEFINE s == [Finalize(CloseUpstream(cl[c]), "go")
                     EXCEPT !.up = "dsHead", !.dsGot = <<>>, !.sent = 0, !.broken = FALSE]
  <2>1. IsClient(s)
    BY <1>3 DEF IsClient, CloseUpstream, Finalize
  <2>2. /\ s.conn = "head" /\ s.up = "dsHead" /\ s.rbuf = NoBuf /\ s.dbuf = NoBuf
        /\ s.ctimer /\ s.dsGot = <<>> /\ s.broken = FALSE /\ s.recvd = 0
        /\ s.told \in {"go", "stray"}
    BY <1>2, <1>3 DEF IsClient, Fields, CloseUpstream, Finalize
  <2>3. Typed(s)
    BY <1>3, SizeAssumption, EmptySeq DEF IsClient, Fields, CloseUpstream, Finalize, Typed
  <2>4. Kept(s) /\ Held(s) = {} /\ Held(cl[c]) = {}
    BY <1>2, <2>1, <2>2, <2>3 DEF Kept, Placed, Relaying, Uploading, Held
  <2>5. cl' = [cl EXCEPT ![c] = s] /\ free' = free /\ made' = made
    BY <1>4 DEF NsUpload
  <2> HIDE DEF s
  <2> QED
    BY <1>1, <1>2, <2>4, <2>5, OneClientKeeps
<1>5. CASE NsDownload(c)
  <2> DEFINE s == [CloseUpstream(cl[c]) EXCEPT !.up = "dsHead", !.utimer = TRUE]
  <2>1. IsClient(s)
    BY <1>3 DEF IsClient, CloseUpstream
  <2>2. /\ s.conn = "head" /\ s.up = "dsHead" /\ s.op = "download"
        /\ s.rbuf = NoBuf /\ s.dbuf = NoBuf /\ s.ctimer
    BY <1>2, <1>3, <1>5 DEF IsClient, Fields, CloseUpstream, NsDownload
  <2>3. Typed(s)
    BY <1>3, SizeAssumption DEF IsClient, Fields, CloseUpstream, Typed
  <2>4. Kept(s) /\ Held(s) = {} /\ Held(cl[c]) = {}
    BY <1>2, <2>1, <2>2, <2>3 DEF Kept, Placed, Relaying, Uploading, Held
  <2>5. cl' = [cl EXCEPT ![c] = s] /\ free' = free /\ made' = made
    BY <1>5 DEF NsDownload
  <2> HIDE DEF s
  <2> QED
    BY <1>1, <1>2, <2>4, <2>5, OneClientKeeps
<1> QED
  BY <1>4, <1>5

-----------------------------------------------------------------------------
(* Buffers. *)

(* If no buffer were free, every buffer would have a holder, a connected   *)
(* client, and no client holds two: a client without a buffer is one       *)
(* connected client more than there are connections.                       *)
LEMMA BufferLeft ==
    ASSUME ProxyInv, NEW c \in Clients, cl[c].conn # "closed",
           cl[c].rbuf = NoBuf, cl[c].dbuf = NoBuf
    PROVE  free # {}
<1> SUFFICES ASSUME free = {}
             PROVE  FALSE
  OBVIOUS
<1> DEFINE holder == [b \in Bufs |-> CHOOSE d \in Clients : b \in Held(cl[d])]
           others == Open \ {c}
<1>1. \A b \in Bufs : holder[b] \in Clients /\ b \in Held(cl[holder[b]])
  BY DEF ProxyInv, Pooled
<1>2. \A b \in Bufs : holder[b] \in others
  <2> SUFFICES ASSUME NEW b \in Bufs
               PROVE  holder[b] \in others
    OBVIOUS
  <2>1. Kept(cl[holder[b]]) /\ b \in Held(cl[holder[b]])
    BY <1>1 DEF ProxyInv
  <2>2. cl[holder[b]].conn # "closed"
    BY <2>1, ClosedKept DEF Kept, Placed
  <2>3. holder[b] # c
    BY <2>1 DEF Held
  <2> QED
    BY <1>1, <2>2, <2>3 DEF Open
<1>3. holder \in [Bufs -> others]
  BY <1>2
<1>4. \A x, y \in Bufs : holder[x] = holder[y] => x = y
  <2> SUFFICES ASSUME NEW x \in Bufs, NEW y \in Bufs, holder[x] = holder[y]
               PROVE  x = y
    OBVIOUS
  <2>1. Kept(cl[holder[x]]) /\ {x, y} \subseteq Held(cl[holder[x]])
    BY <1>1 DEF ProxyInv
  <2> QED
    BY <2>1 DEF Kept, Placed, Held
<1>5. IsFiniteSet(others) /\ Cardinality(others) = Cardinality(Open) - 1
  BY OpenFinite, FS_RemoveElement DEF Open
<1>6. Cardinality(others) < Cardinality(Bufs)
  BY <1>5, OpenFinite, PoolAssumption DEF ProxyInv
<1> HIDE DEF holder, others
<1> QED
  BY <1>3, <1>4, <1>5, <1>6, FS_PigeonHole, PoolAssumption
-----------------------------------------------------------------------------
(* The body of an upload. *)

(* The first chunks are a sequence, and the next one goes to its end. *)
LEMMA ChunksProperties ==
    ASSUME NEW n \in Nat
    PROVE  /\ Chunks(n) \in Seq(1..n) /\ Len(Chunks(n)) = n
           /\ Chunks(0) = <<>>
           /\ <<>> \o Chunks(n) = Chunks(n)
           /\ Append(Chunks(n), n + 1) = Chunks(n + 1)
<1>1. Chunks(n) \in Seq(1..n) /\ Len(Chunks(n)) = n
  BY IsASeq DEF Chunks
<1>2. Chunks(0) = <<>>
  <2>1. Chunks(0) \in Seq(1..0) /\ Len(Chunks(0)) = 0
    BY IsASeq DEF Chunks
  <2> QED
    BY <2>1, EmptySeq
<1>3. <<>> \o Chunks(n) = Chunks(n)
  BY <1>1, ConcatEmptySeq
<1>4. Append(Chunks(n), n + 1) = Chunks(n + 1)
  BY DEF Chunks
<1> QED
  BY <1>1, <1>2, <1>3, <1>4

(* A chunk that is read goes to the end of what is on its way. *)
LEMMA NextChunk ==
    ASSUME NEW g \in Seq(1..Size), NEW b \in Seq(1..Size), NEW n \in Nat, n < Size,
           g \o b = Chunks(n)
    PROVE  g \o Append(b, n + 1) = Chunks(n + 1) /\ Append(b, n + 1) \in Seq(1..Size)
<1>1. n + 1 \in 1..Size
  BY SizeAssumption
<1>2. Append(b, n + 1) = b \o <<n + 1>> /\ <<n + 1>> \in Seq(1..Size)
      /\ Append(b, n + 1) \in Seq(1..Size)
  BY <1>1, AppendIsConcat, AppendProperties
<1>3. g \o (b \o <<n + 1>>) = (g \o b) \o <<n + 1>>
  BY <1>2, ConcatAssociative
<1>4. Chunks(n) \in Seq(1..Size)
  BY ConcatProperties
<1>5. Chunks(n) \o <<n + 1>> = Append(Chunks(n), n + 1)
  BY <1>1, <1>4, AppendIsConcat
<1> QED
  BY <1>2, <1>3, <1>5, ChunksProperties
(* POST upload: the chunks that came with the headers go to the data       *)
(* server, in a buffer that is at hand.                                    *)
LEMMA PostKeeps ==
    ASSUME ProxyInv, NEW c \in Clients, NEW k \in 0..Size, NEW ok \in BOOLEAN, Post(c, k, ok)
    PROVE  ProxyInv'
<1> DEFINE t == [cl[c] EXCEPT !.asked = TRUE, !.ctimer = TRUE,
                              !.want = IF k < Size THEN Size - k ELSE Size,
                              !.sent = k, !.body = [i \in 1..k |-> i]]
           w == WriteBody(t, ok)
           s(b) == [w EXCEPT !.conn = "body", !.rbuf = b, !.body = <<>>]
<1>1. Kept(cl[c]) /\ free \cap Held(cl[c]) = {} /\ free \subseteq Bufs /\ made \in 0..MaxReq
  BY Found
<1>2. cl[c].conn = "head" /\ cl[c].up = "dsHead" /\ cl[c].op = "upload" /\ made < MaxReq
  BY DEF Post, MayPost
<1>3. cl[c].rbuf = NoBuf /\ cl[c].dbuf = NoBuf /\ cl[c].dsGot = <<>> /\ cl[c].recvd = 0
      /\ cl[c].told # "ok"
  BY <1>1, <1>2 DEF Kept, Placed, Uploading
<1>4. free # {}
  BY <1>2, <1>3, BufferLeft
<1>5. PICK b \in free : cl' = [cl EXCEPT ![c] = s(b)] /\ free' = free \ {b}
  BY <1>4 DEF Post
<1>6. IsClient(cl[c]) /\ Typed(cl[c])
  BY <1>1 DEF Kept
<1>7. Chunks(k) \in Seq(1..Size) /\ <<>> \o Chunks(k) = Chunks(k) /\ Chunks(0) = <<>>
  BY ChunksProperties, SeqMonotonic, SizeAssumption
<1>8. /\ IsClient(t) /\ t.up = "dsHead" /\ t.op = "upload" /\ t.dbuf = NoBuf /\ t.ctimer
      /\ t.dsGot = <<>> /\ t.body = Chunks(k) /\ t.sent = k /\ t.recvd = 0
      /\ t.told # "ok" /\ t.want = IF k < Size THEN Size - k ELSE Size
  BY <1>2, <1>3, <1>6 DEF IsClient, Fields, Chunks
<1>9. Typed(t)
  BY <1>6, <1>7, SizeAssumption DEF IsClient, Fields, Typed, Chunks
<1> HIDE DEF t
<1>10. /\ IsClient(w) /\ w.up = "dsHead" /\ w.op = "upload" /\ w.dbuf = NoBuf /\ w.ctimer
       /\ w.sent = k /\ w.recvd = 0 /\ w.told # "ok" /\ w.want = t.want
       /\ ~w.broken => w.dsGot = Chunks(k)
  BY <1>7, <1>8 DEF WriteBody, IsClient, Fields
<1>11. Typed(w)
  BY <1>7, <1>8, <1>9, EmptySeq DEF WriteBody, IsClient, Fields, Typed
<1> HIDE DEF w
<1>12. /\ IsClient(s(b)) /\ s(b).conn = "body" /\ s(b).up = "dsHead" /\ s(b).op = "upload"
       /\ s(b).dbuf = NoBuf /\ s(b).rbuf = b /\ s(b).body = <<>> /\ s(b).ctimer
       /\ s(b).sent = k /\ s(b).recvd = 0 /\ s(b).told # "ok" /\ s(b).want = t.want
       /\ s(b).broken = w.broken /\ s(b).dsGot = w.dsGot
  BY <1>10 DEF IsClient, Fields
<1>13. Typed(s(b))
  BY <1>1, <1>10, <1>11, EmptySeq DEF IsClient, Fields, Typed
<1> DEFINE v == s(b)
<1>14. v.dsGot \o v.body = v.dsGot
  BY <1>12, <1>13, ConcatEmptySeq DEF Typed
<1>15. Placed(v) /\ Relaying(v)
  BY <1>12 DEF Placed, Relaying
<1>16. Uploading(v)
  BY <1>8, <1>10, <1>12, <1>14, SizeAssumption DEF Uploading
<1>17. Kept(v) /\ Held(v) = {b} /\ Held(cl[c]) = {}
  BY <1>1, <1>3, <1>12, <1>13, <1>15, <1>16, PoolAssumption DEF Kept, Held
<1>18. made' = made + 1
  BY DEF Post
<1>19. made' \in 0..MaxReq
  BY <1>1, <1>2, <1>18, SizeAssumption
<1>20. cl' = [cl EXCEPT ![c] = v]
  BY <1>5
<1> HIDE DEF v
<1>21. free' \cap Held(v) = {} /\ free' \cup Held(v) = free \cup Held(cl[c])
  BY <1>5, <1>17
<1>22. cl[c].conn # "closed"
  BY <1>2
<1> HIDE DEF s
<1> QED
  BY <1>17, <1>19, <1>20, <1>21, <1>22, OneClientKeeps

(* A chunk of the body is read. *)
LEMMA ReadBodyKeeps ==
    ASSUME ProxyInv, NEW c \in Clients, NEW ok \in BOOLEAN, ReadBody(c, ok)
    PROVE  ProxyInv'
<1> DEFINE o == cl[c]
           t == [cl[c] EXCEPT !.sent = @ + 1, !.recvd = @ + 1, !.ctimer = TRUE,
                              !.body = Append(@, cl[c].sent + 1)]
           w == WriteBody(t, ok)
           s == IF t.recvd = t.want THEN [w EXCEPT !.utimer = t.up = "dsHead" \/ @]
                ELSE IF Len(t.body) >= BufLen THEN Emptied(w)
                ELSE t
<1>1. Kept(o) /\ free \cap Held(o) = {} /\ made \in 0..MaxReq
  BY Found
<1>2. o.conn = "body" /\ o.sent < Size /\ o.op = "upload" /\ o.dbuf = NoBuf
      /\ o.up \in {"none", "dsHead"} /\ o.told # "ok" /\ o.recvd =< o.sent
  BY <1>1, SizeAssumption DEF ReadBody, Kept, Placed, Uploading, Typed
<1>3. IsClient(o) /\ Typed(o)
  BY <1>1 DEF Kept
<1>4. o.sent \in Nat /\ o.recvd \in Nat /\ o.sent + 1 \in 1..Size /\ o.recvd + 1 \in 1..Size
  BY <1>2, <1>3, SizeAssumption DEF Typed
<1>5. Append(o.body, o.sent + 1) \in Seq(1..Size) /\ Append(o.body, o.sent + 1) # <<>>
  BY <1>3, <1>4, AppendProperties DEF Typed
<1>6. /\ IsClient(t) /\ t.conn = "body" /\ t.up = o.up /\ t.op = "upload"
      /\ t.rbuf = o.rbuf /\ t.dbuf = NoBuf /\ t.ctimer /\ t.dsGot = o.dsGot
      /\ t.body = Append(o.body, o.sent + 1) /\ t.sent = o.sent + 1
      /\ t.recvd = o.recvd + 1 /\ t.told = o.told /\ t.want = o.want /\ t.broken = o.broken
  BY <1>2, <1>3 DEF IsClient, Fields
<1>7. Typed(t)
  BY <1>3, <1>4, <1>5 DEF IsClient, Fields, Typed
<1>8. o.up = "dsHead" => o.sent + o.want = Size + o.recvd
  BY <1>1, <1>2 DEF Kept, Uploading, ReadBody
<1>9. o.up = "dsHead" /\ ~o.broken => o.dsGot \o t.body = Chunks(o.sent + 1)
  <2>1. o.up = "dsHead" /\ ~o.broken => o.dsGot \o o.body = Chunks(o.sent)
    BY <1>1, <1>2 DEF Kept, Uploading
  <2>2. o.dsGot \in Seq(1..Size) /\ o.body \in Seq(1..Size)
    BY <1>3 DEF Typed
  <2>3. t.body = Append(o.body, o.sent + 1)
    BY <1>6
  <2> HIDE DEF t, o
  <2>4. o.dsGot \o o.body = Chunks(o.sent)
          => o.dsGot \o Append(o.body, o.sent + 1) = Chunks(o.sent + 1)
    BY <1>2, <1>4, <2>2, NextChunk
  <2> QED
    BY <2>1, <2>3, <2>4
<1>10. cl' = [cl EXCEPT ![c] = s] /\ free' = free /\ made' = made
  BY DEF ReadBody
<1> HIDE DEF t
<1>11. /\ IsClient(w) /\ w.conn = "body" /\ w.up = o.up /\ w.op = "upload"
       /\ w.rbuf = o.rbuf /\ w.dbuf = NoBuf /\ w.ctimer
       /\ w.body = t.body /\ w.sent = o.sent + 1
       /\ w.recvd = o.recvd + 1 /\ w.told = o.told /\ w.want = o.want
  BY <1>6 DEF WriteBody, IsClient, Fields
<1>12. o.up = "dsHead" /\ ~w.broken => w.dsGot = Chunks(o.sent + 1)
  BY <1>5, <1>6, <1>9 DEF WriteBody, IsClient, Fields
<1>13. Typed(w)
  <2>1. t.dsGot \o t.body \in Seq(1..Size)
    BY <1>7, ConcatProperties DEF Typed
  <2> QED
    BY <1>6, <1>7, <2>1 DEF WriteBody, IsClient, Fields, Typed
<1> HIDE DEF w
<1>14. /\ IsClient(s) /\ s.conn = "body" /\ s.up = o.up /\ s.op = "upload"
       /\ s.rbuf = o.rbuf /\ s.dbuf = NoBuf /\ s.ctimer
       /\ s.sent = o.sent + 1 /\ s.recvd = o.recvd + 1 /\ s.told = o.told /\ s.want = o.want
  BY <1>6, <1>11 DEF IsClient, Fields, Emptied
<1>15. Typed(s)
  <2>1. CASE t.recvd = t.want
    <3>1. s = [w EXCEPT !.utimer = t.up = "dsHead" \/ @]
      BY <2>1
    <3> QED
      BY <1>11, <1>13, <3>1 DEF IsClient, Fields, Typed
  <2>2. CASE t.recvd # t.want /\ Len(t.body) >= BufLen
    <3>1. s = Emptied(w)
      BY <2>2
    <3> QED
      BY <1>11, <1>13, <3>1, EmptySeq DEF IsClient, Fields, Emptied, Typed
  <2>3. CASE t.recvd # t.want /\ ~(Len(t.body) >= BufLen)
    BY <1>7, <2>3
  <2> QED
    BY <2>1, <2>2, <2>3
<1>16. o.up = "dsHead" /\ ~s.broken =>
         IF o.sent + 1 < Size THEN s.dsGot \o s.body = Chunks(o.sent + 1)
                              ELSE s.dsGot = Chunks(Size)
  <2> SUFFICES ASSUME o.up = "dsHead", ~s.broken
               PROVE  IF o.sent + 1 < Size THEN s.dsGot \o s.body = Chunks(o.sent + 1)
                                           ELSE s.dsGot = Chunks(Size)
    OBVIOUS
  <2>1. o.sent + 1 < Size <=> t.recvd # t.want
    <3>1. o.want \in Nat /\ o.sent + o.want = Size + o.recvd
      BY <1>3, <1>8, SizeAssumption DEF Typed
    <3>2. \A x, y, z \in Nat : x + z = Size + y /\ x < Size => (x + 1 < Size <=> y + 1 # z)
      BY SizeAssumption
    <3> QED
      BY <1>2, <1>4, <1>6, <3>1, <3>2
  <2>2. o.sent + 1 < Size \/ o.sent + 1 = Size
    BY <1>4, SizeAssumption
  <2>3. CASE t.recvd = t.want
    <3>1. s.dsGot = w.dsGot /\ s.broken = w.broken
      BY <2>3, <1>11 DEF IsClient, Fields
    <3> QED
      BY <2>1, <2>2, <2>3, <3>1, <1>12
  <2>4. CASE t.recvd # t.want /\ Len(t.body) >= BufLen
    <3>1. s.dsGot = w.dsGot /\ s.broken = w.broken /\ s.body = <<>>
      BY <2>4, <1>11 DEF IsClient, Fields, Emptied
    <3>2. w.dsGot \o <<>> = w.dsGot
      BY <1>13, ConcatEmptySeq DEF Typed
    <3> QED
      BY <2>1, <2>4, <3>1, <3>2, <1>12
  <2>5. CASE t.recvd # t.want /\ ~(Len(t.body) >= BufLen)
    BY <2>1, <2>5, <1>6, <1>9
  <2> QED
    BY <2>3, <2>4, <2>5
<1> HIDE DEF s
<1>17. Placed(s) /\ Relaying(s)
  BY <1>1, <1>2, <1>14 DEF Placed, Relaying, Kept
<1>18. Uploading(s)
  <2>1. s.recvd =< s.sent
    BY <1>2, <1>4, <1>14
  <2>2. o.up = "dsHead" => s.sent + s.want = Size + s.recvd
    <3>1. o.want \in Nat
      BY <1>3, SizeAssumption DEF Typed
    <3>2. \A x, y, z \in Nat : x + z = Size + y => x + 1 + z = Size + (y + 1)
      BY SizeAssumption
    <3> QED
      BY <1>4, <1>8, <1>14, <3>1, <3>2
  <2> QED
    BY <1>2, <1>14, <1>16, <2>1, <2>2 DEF Uploading
<1>19. Kept(s) /\ Held(s) = Held(o)
  BY <1>2, <1>14, <1>15, <1>17, <1>18 DEF Kept, Held
<1> QED
  BY <1>1, <1>2, <1>10, <1>19, OneClientKeeps
-----------------------------------------------------------------------------
(* A download. *)

(* The data server answers: a buffer is at hand, so that the 503 is never  *)
(* sent, and the relay starts.                                             *)
LEMMA DsDownloadKeeps ==
    ASSUME ProxyInv, NEW c \in Clients, NEW ok \in BOOLEAN, DsDownload(c, ok)
    PROVE  ProxyInv'
<1> DEFINE t == [cl[c] EXCEPT !.utimer = FALSE, !.ctimer = @ /\ ~ok]
           f == Finalize(t, IF ok THEN "ok" ELSE "fail")
           s(b) == [f EXCEPT !.up = "relay", !.dbuf = b, !.dlen = 0,
                             !.want = Size, !.due = IF ok THEN Size ELSE 0]
<1>1. Kept(cl[c]) /\ free \cap Held(cl[c]) = {} /\ free \subseteq Bufs /\ made \in 0..MaxReq
  BY Found
<1>2. cl[c].conn = "head" /\ cl[c].rbuf = NoBuf /\ cl[c].dbuf = NoBuf
  <2>1. cl[c].up = "dsHead" /\ cl[c].op = "download"
    BY DEF DsDownload
  <2> QED
    BY <1>1, <2>1 DEF Kept, Placed, Closed, Typed
<1>3. free # {}
  BY <1>2, BufferLeft
<1>4. PICK b \in free : cl' = [cl EXCEPT ![c] = s(b)] /\ free' = free \ {b} /\ made' = made
  BY <1>3 DEF DsDownload
<1>5. IsClient(cl[c]) /\ Typed(cl[c])
  BY <1>1 DEF Kept
<1>6. IsClient(t) /\ Typed(t) /\ t.conn = "head" /\ t.rbuf = NoBuf
  BY <1>2, <1>5 DEF IsClient, Fields, Typed
<1> HIDE DEF t
<1>7. IsClient(f) /\ Typed(f) /\ f.conn = "head" /\ f.rbuf = NoBuf /\ f.recvd = 0
  <2>1. IsClient(f) /\ f.conn = "head" /\ f.rbuf = NoBuf /\ f.recvd = 0
    BY <1>6 DEF IsClient, Fields, Finalize
  <2>2. Typed(f)
    BY <1>6, SizeAssumption DEF IsClient, Fields, Typed, Finalize, Answers
  <2> QED
    BY <2>1, <2>2
<1> HIDE DEF f
<1> DEFINE v == s(b)
<1>8. /\ IsClient(v) /\ v.conn = "head" /\ v.up = "relay" /\ v.rbuf = NoBuf /\ v.dbuf = b
      /\ v.dlen = 0 /\ v.want = Size /\ v.recvd = 0 /\ v.due = IF ok THEN Size ELSE 0
  BY <1>7 DEF IsClient, Fields
<1>9. Typed(v)
  BY <1>1, <1>7, SizeAssumption DEF IsClient, Fields, Typed
<1>10. cl' = [cl EXCEPT ![c] = v]
  BY <1>4
<1> HIDE DEF v
<1>11. Relaying(v)
  BY <1>8, SizeAssumption DEF Relaying
<1>12. Kept(v) /\ Held(v) = {b} /\ Held(cl[c]) = {}
  BY <1>1, <1>2, <1>8, <1>9, <1>11, PoolAssumption DEF Kept, Placed, Uploading, Held
<1>13. free' \cap Held(v) = {} /\ free' \cup Held(v) = free \cup Held(cl[c])
  BY <1>4, <1>12
<1>14. cl[c].conn # "closed" /\ made' \in 0..MaxReq
  BY <1>1, <1>2, <1>4
<1> HIDE DEF s
<1> QED
  BY <1>10, <1>12, <1>13, <1>14, OneClientKeeps

(* A relay that is over: the client's timer runs again. *)
LEMMA RelayedKept ==
    ASSUME NEW s, IsClient(s), Typed(s), s.conn = "head", s.rbuf = NoBuf
    PROVE  Kept(Relayed(s)) /\ Held(Relayed(s)) = {} /\ Relayed(s).conn = "head"
<1> DEFINE r == Relayed(s)
<1>1. IsClient(r) /\ r.conn = "head" /\ r.up = "none" /\ r.rbuf = NoBuf /\ r.dbuf = NoBuf
      /\ r.ctimer
  BY DEF Relayed, CloseUpstream, IsClient, Fields
<1>2. Typed(r)
  BY SizeAssumption DEF Relayed, CloseUpstream, IsClient, Fields, Typed
<1> HIDE DEF r
<1>3. Kept(r) /\ Held(r) = {} /\ r.conn = "head"
  BY <1>1, <1>2 DEF Kept, Placed, Relaying, Uploading, Held
<1> QED
  BY <1>3 DEF r

(* The step that ends it. *)
LEMMA RelayOver ==
    ASSUME ProxyInv, NEW c \in Clients, cl[c].up = "relay", NEW s, IsClient(s), Typed(s),
           s.conn = "head", s.rbuf = NoBuf, cl' = [cl EXCEPT ![c] = Relayed(s)],
           free' = free \cup Returned(cl[c].dbuf), made' = made
    PROVE  ProxyInv'
<1>1. Kept(cl[c]) /\ made \in 0..MaxReq
  BY Found
<1>2. cl[c].conn = "head" /\ cl[c].rbuf = NoBuf
  BY <1>1 DEF Kept, Placed
<1>3. free' = free \cup Held(cl[c])
  BY <1>2 DEF Returned, Held
<1>4. Kept(Relayed(s)) /\ Held(Relayed(s)) = {}
  BY RelayedKept
<1>5. cl[c].conn # "closed" /\ made' \in 0..MaxReq
  BY <1>1, <1>2
<1> QED
  BY <1>3, <1>4, <1>5, OneClientKeeps

(* A chunk for the client, or the end of the data server's connection. *)
LEMMA RelayKeeps ==
    ASSUME ProxyInv, NEW c \in Clients, Relay(c) \/ RelayEnds(c)
    PROVE  ProxyInv'
<1> DEFINE o == cl[c]
           t == [cl[c] EXCEPT !.recvd = @ + 1, !.dlen = @ + 1]
           w == [t EXCEPT !.due = @ - t.dlen, !.dlen = 0]
<1>1. Kept(o) /\ free \cap Held(o) = {} /\ made \in 0..MaxReq
  BY Found
<1>2. o.up = "relay" /\ o.conn = "head" /\ o.rbuf = NoBuf
  BY <1>1 DEF Relay, RelayEnds, Kept, Placed
<1>3. IsClient(o) /\ Typed(o)
  BY <1>1 DEF Kept
<1>4. CASE RelayEnds(c)
  BY <1>2, <1>3, <1>4, RelayOver DEF RelayEnds
<1>5. CASE Relay(c)
  <2>1. /\ o.recvd \in Nat /\ o.recvd < Size
        /\ o.dlen \in Nat /\ o.dlen < BufLen /\ o.dlen < o.due
        /\ o.due \in Nat /\ o.due =< Size /\ o.due + o.recvd =< Size + o.dlen
    <3>1. /\ o.recvd \in Nat /\ o.dlen \in Nat /\ o.due \in Nat /\ o.due =< Size
          /\ o.dlen < o.due
      BY <1>3, <1>5, SizeAssumption DEF Relay, Typed
    <3>2. o.dlen < BufLen /\ (o.due = 0 \/ o.due + o.recvd =< Size + o.dlen)
      BY <1>1, <1>2 DEF Kept, Relaying
    <3> QED
      BY ONLY <3>1, <3>2, SizeAssumption
  <2>2. /\ IsClient(t) /\ t.conn = "head" /\ t.up = "relay" /\ t.rbuf = NoBuf
        /\ t.dbuf = o.dbuf /\ t.recvd = o.recvd + 1 /\ t.dlen = o.dlen + 1
        /\ t.due = o.due
    BY <1>2, <1>3, <2>1 DEF IsClient, Fields
  <2>3. Typed(t)
    BY <1>3, <2>1, SizeAssumption DEF IsClient, Fields, Typed
  <2>4. made' = made
    BY <1>5 DEF Relay
  <2>5. /\ t.recvd = t.want => /\ cl' = [cl EXCEPT ![c] = Relayed(w)]
                               /\ free' = free \cup Returned(o.dbuf)
        /\ t.recvd # t.want => /\ cl' = [cl EXCEPT ![c] = IF t.dlen >= BufLen THEN w ELSE t]
                               /\ free' = free
    BY <1>3, <1>5, <2>2 DEF Relay
  <2>6. t.due - t.dlen \in 0..Size /\ (t.due - t.dlen) + t.recvd =< Size
    BY <2>1, <2>2, SizeAssumption
  <2> HIDE DEF t
  <2>7. /\ IsClient(w) /\ w.conn = "head" /\ w.up = "relay" /\ w.rbuf = NoBuf
        /\ w.dbuf = o.dbuf /\ w.recvd = t.recvd /\ w.dlen = 0
        /\ w.due = t.due - t.dlen
    BY <2>2, <2>6 DEF IsClient, Fields
  <2>8. Typed(w)
    BY <2>1, <2>2, <2>3, <2>6, SizeAssumption DEF IsClient, Fields, Typed
  <2> HIDE DEF w
  <2>9. CASE t.recvd = t.want
    BY <1>2, <2>4, <2>5, <2>7, <2>8, <2>9, RelayOver
  <2>10. CASE t.recvd # t.want
    <3> DEFINE s == IF t.dlen >= BufLen THEN w ELSE t
    <3>1. /\ IsClient(s) /\ Typed(s) /\ s.conn = "head" /\ s.up = "relay" /\ s.rbuf = NoBuf
          /\ s.dbuf = o.dbuf
      BY <2>2, <2>3, <2>7, <2>8
    <3>2. s.dlen < BufLen /\ s.due + s.recvd =< Size + s.dlen
      BY <2>1, <2>2, <2>6, <2>7, SizeAssumption
    <3>3. cl' = [cl EXCEPT ![c] = s] /\ free' = free
      BY <2>5, <2>10
    <3> HIDE DEF s
    <3>4. Kept(s) /\ Held(s) = Held(o)
      BY <1>2, <3>1, <3>2 DEF Kept, Placed, Relaying, Uploading, Held
    <3>5. o.conn # "closed" /\ made' \in 0..MaxReq
      BY <1>1, <1>2, <2>4
    <3> QED
      BY <1>1, <3>3, <3>4, <3>5, OneClientKeeps
  <2> QED
    BY <2>9, <2>10
<1> QED
  BY <1>4, <1>5
-----------------------------------------------------------------------------
(* Every step of the worker keeps ProxyInv. *)
LEMMA StepKeeps == ProxyInv /\ [Next]_vars => ProxyInv'
<1> SUFFICES ASSUME ProxyInv, [Next]_vars
             PROVE  ProxyInv'
  OBVIOUS
<1>1. CASE UNCHANGED vars
  BY <1>1 DEF vars, ProxyInv, Pooled, Open
<1>2. ASSUME NEW c \in Clients, ClientStep(c)
      PROVE  ProxyInv'
  <2>1. CASE Accept(c)
    BY <2>1, AcceptKeeps
  <2>2. CASE ClientEnds(c)
    BY <2>2, CloseKeeps DEF ClientEnds
  <2>3. CASE AskUpload(c) \/ AskDownload(c) \/ AskDelete(c) \/ AskQuery(c)
    <3>1. PICK o \in Ops : Ask(c, o)
      BY <2>3 DEF AskUpload, AskDownload, AskDelete, AskQuery, Ops
    <3> QED
      BY <3>1, AskKeeps DEF Ask, MayAsk
  <2>4. ASSUME NEW o \in Ops, AskRefused(c, o) \/ AskSendFails(c, o)
        PROVE  ProxyInv'
    BY <2>4, AskKeeps DEF AskRefused, AskSendFails, MayAsk
  <2>5. ASSUME NEW k \in 0..Size, NEW ok \in BOOLEAN, Post(c, k, ok)
        PROVE  ProxyInv'
    BY <2>5, PostKeeps
  <2>6. CASE PostLate(c)
    BY <2>6, AskKeeps DEF PostLate, MayPost, Ops
  <2>7. ASSUME NEW ok \in BOOLEAN, ReadBody(c, ok)
        PROVE  ProxyInv'
    BY <2>7, ReadBodyKeeps
  <2>8. CASE ClientReadFails(c)
    BY <2>8, ReadFailsKeeps
  <2> QED
    BY <1>2, <2>1, <2>2, <2>3, <2>4, <2>5, <2>6, <2>7, <2>8 DEF ClientStep
<1>3. ASSUME NEW c \in Clients, NsStep(c)
      PROVE  ProxyInv'
  <2>1. CASE NsHead(c)
    BY <2>1, FieldKeeps
  <2>2. CASE NsFails(c) \/ NsNoDs(c)
    BY <2>2, DoneKeeps DEF NsFails, NsNoDs, Answers
  <2>3. ASSUME NEW a \in Answers, NsQueried(c, a) \/ NsDeleted(c, a) \/ NsNamesNone(c, a)
        PROVE  ProxyInv'
    BY <2>3, DoneKeeps DEF NsQueried, NsDeleted, NsNamesNone
  <2>4. CASE NsUpload(c) \/ NsDownload(c)
    BY <2>4, NamedKeeps
  <2>5. CASE NsDsSendFails(c)
    BY <2>5, DieKeeps DEF NsDsSendFails
  <2> QED
    BY <1>3, <2>1, <2>2, <2>3, <2>4, <2>5 DEF NsStep
<1>4. ASSUME NEW c \in Clients, DsStep(c)
      PROVE  ProxyInv'
  <2>1. ASSUME NEW a \in Answers, DsUploaded(c, a)
        PROVE  ProxyInv'
    BY <2>1, DoneKeeps DEF DsUploaded
  <2>2. CASE DsFails(c)
    BY <2>2, DoneKeeps DEF DsFails, Answers
  <2>3. CASE DsPart(c)
    BY <2>3, FieldKeeps
  <2>4. ASSUME NEW ok \in BOOLEAN, DsDownload(c, ok)
        PROVE  ProxyInv'
    BY <2>4, DsDownloadKeeps
  <2>5. CASE Relay(c) \/ RelayEnds(c)
    BY <2>5, RelayKeeps
  <2> QED
    BY <1>4, <2>1, <2>2, <2>3, <2>4, <2>5 DEF DsStep
<1>5. ASSUME NEW c \in Clients, TimerStep(c)
      PROVE  ProxyInv'
  <2>1. CASE ClientTimer(c)
    BY <2>1, CloseKeeps DEF ClientTimer
  <2>2. CASE NullUpstream(c)
    BY <2>2, DieKeeps DEF NullUpstream
  <2>3. CASE NsTimer(c) \/ DsTimer(c)
    BY <2>3, DoneKeeps DEF NsTimer, DsTimer, Answers
  <2>4. CASE NsTimerBody(c)
    BY <2>4, FieldKeeps
  <2> QED
    BY <1>5, <2>1, <2>2, <2>3, <2>4 DEF TimerStep
<1>6. ASSUME NEW c \in Clients, Stall(c)
      PROVE  ProxyInv'
  BY <1>6 DEF Stall, ProxyInv, Pooled, Open
<1>7. ASSUME NEW c \in Clients, Resume(c)
      PROVE  ProxyInv'
  <2>1. CASE Relay(c)
    BY <2>1, RelayKeeps
  <2>2. ASSUME NEW ok \in BOOLEAN, ReadBody(c, ok)
        PROVE  ProxyInv'
    BY <2>2, ReadBodyKeeps
  <2>3. ASSUME NEW ok \in BOOLEAN, NEW k \in 1..Size, Post(c, k, ok)
        PROVE  ProxyInv'
    <3>1. k \in 0..Size
      BY SizeAssumption
    <3> QED
      BY <2>3, <3>1, PostKeeps
  <2> QED
    BY <1>7, <2>1, <2>2, <2>3 DEF Resume
<1> QED
  BY <1>1, <1>2, <1>3, <1>4, <1>5, <1>6, <1>7, SilenceKeeps DEF Next, Loop

(* ProxyInv holds in every state of the worker. *)
THEOREM ProxyInvariant == Spec => []ProxyInv
<1>1. Init => ProxyInv
  BY FreshKept, SizeAssumption DEF Init
<1> QED
  BY <1>1, StepKeeps, PTL DEF Spec

(* Only a handler that does not wait makes the loop wait. *)
LEMMA StuckAlone == Spec => []OneStuck
<1>1. Init => OneStuck
  BY DEF Init, OneStuck
<1>2. OneStuck /\ [Next]_vars => OneStuck'
  BY DEF OneStuck, Next, Loop, Silence, Stall, Resume, vars
<1> QED
  BY <1>1, <1>2, PTL DEF Spec

(* No body buffer of the worker is ever shared: two requests never write   *)
(* into the same one and none is in the free list while a handler uses it. *)
THEOREM BuffersUnshared == Spec => []BufsUnshared
<1>1. ProxyInv /\ OneStuck => BufsUnshared
  <2> SUFFICES ASSUME ProxyInv, OneStuck
               PROVE  BufsUnshared
    OBVIOUS
  <2>1. ProxyTypeOK
    BY TypeByClient DEF ProxyInv, Kept
  <2>2. ASSUME NEW c \in Clients
        PROVE  /\ cl[c].rbuf = NoBuf \/ cl[c].dbuf = NoBuf
               /\ cl[c].rbuf \notin free /\ cl[c].dbuf \notin free
               /\ cl[c].rbuf # NoBuf => cl[c].conn = "body"
               /\ cl[c].dbuf # NoBuf => cl[c].up = "relay" /\ cl[c].conn = "head"
    BY Found, PoolAssumption DEF Kept, Placed, Held
  <2>3. ASSUME NEW c \in Clients, NEW d \in Clients, c # d
        PROVE  {cl[c].rbuf, cl[c].dbuf} \cap {cl[d].rbuf, cl[d].dbuf} = {NoBuf}
    <3>1. Held(cl[c]) \cap Held(cl[d]) = {}
      BY <2>3 DEF ProxyInv, Pooled
    <3> QED
      BY <2>2, <3>1 DEF Held
  <2> QED
    BY <2>1, <2>2, <2>3 DEF BufsUnshared
<1> QED
  BY <1>1, ProxyInvariant, StuckAlone, PTL

(* A request that needs a body buffer always finds one. *)
THEOREM BufferAlwaysAtHand == Spec => []BufAtHand
<1>1. ProxyInv => BufAtHand
  <2> SUFFICES ASSUME ProxyInv, NEW c \in Clients, cl[c].up = "dsHead", cl[c].rbuf = NoBuf
               PROVE  free # {}
    BY DEF BufAtHand
  <2>1. cl[c].conn # "closed" /\ cl[c].dbuf = NoBuf
    BY Found DEF Kept, Placed, Closed
  <2> QED
    BY <2>1, BufferLeft
<1> QED
  BY <1>1, ProxyInvariant, PTL

(* No open client connection is ever without a timer, but for the time a   *)
(* download is relayed to it.                                              *)
THEOREM ClientsWatched == Spec => []Watched
<1>1. ProxyInv => Watched
  BY DEF ProxyInv, Kept, Placed, Watched
<1> QED
  BY <1>1, ProxyInvariant, PTL

(* An upload is reported to the client as done only when the data server   *)
(* got the chunks of the block, each once and in order.                    *)
THEOREM UploadInOrder == Spec => []StoredInOrder
<1>1. ProxyInv => StoredInOrder
  BY DEF ProxyInv, Kept, Uploading, StoredInOrder
<1> QED
  BY <1>1, ProxyInvariant, PTL
=============================================================================
