-------------------------- MODULE DsTransferProofs --------------------------
(***************************************************************************)
(* Proofs about DsTransfer for any number of tasks, segments, objects and  *)
(* faults: what an upload reports is stored, and a download is honest.     *)
(***************************************************************************)
EXTENDS DsTransfer, TLAPS

(* The parts of a task: an upload up to its answer, and a download or the  *)
(* push that goes on in an upload's place.                                 *)
Uploads == {"recv", "find", "again", "del", "new", "fetch", "write"}
Downloads == {"look", "read", "busy", "loop", "end"}

(* Types of what TransferTypeOK leaves out. *)
AuxTypes ==
    /\ req \in [Task -> Requests \cup {All}]
    /\ pos \in [Task -> Nat \ {0}]
    /\ one \in [Task -> BOOLEAN]
    /\ hit \in [Task -> BOOLEAN] /\ err \in [Task -> BOOLEAN]
    /\ whole \in [Task -> BOOLEAN]
    /\ bad \subseteq Task

(* A task that works with an object has the one in the map, or one that    *)
(* was deleted since the task started.                                     *)
Holding(t) ==
    pc[t] \in {"write", "read"} =>
        ptr[t] \in Obj /\ (ptr[t] = lb \/ (ptr[t] \in freed /\ hit[t]))

(* An upload that met no fault has stored every segment before pos and     *)
(* counted them, the one under way too once it was received.  A buffer     *)
(* past the end of the block is counted as the rest of the request.        *)
Receiving(t) ==
    pc[t] \in Uploads =>
        /\ t \notin bad
        /\ req[t].from =< pos[t]
        /\ ~hit[t] /\ ~err[t] =>
             /\ req[t].from .. pos[t] - 1 \subseteq Stored
             /\ pc[t] = "recv" => got[t] = pos[t] - req[t].from
             /\ pc[t] # "recv" => pos[t] > Segs \/ got[t] = pos[t] - req[t].from + 1

(* What it is about to report is stored, and so was what it has reported.  *)
Answering(t) ==
    /\ pc[t] = "resp" =>
         /\ t \notin bad
         /\ rc[t] = "ok" => hit[t] \/ err[t] \/ ReqRange(t, req) \subseteq Stored
    /\ pc[t] = "send" /\ t \in bad => hit[t] \/ err[t]

(* A download sends the segments of its range in order, and a range that   *)
(* was stored when it started is still there.                              *)
Serving(t) ==
    /\ pc[t] = "idle" => t \notin bad
    /\ t \in Get =>
         /\ pc[t] \in {"idle"} \cup Downloads
         /\ t \in bad => hit[t] \/ ~whole[t]
         /\ pc[t] # "idle" /\ whole[t] /\ ~hit[t] => ReqRange(t, req) \subseteq Stored
         /\ pc[t] \in Downloads =>
              req[t].from =< pos[t] /\ got[t] = pos[t] - req[t].from
         /\ pc[t] \in {"look", "read"} => pos[t] =< req[t].to
         /\ pc[t] = "busy" => pos[t] =< req[t].to + 1
         /\ pc[t] = "end" => pos[t] = req[t].to + 1

Sound(t) == Holding(t) /\ Receiving(t) /\ Answering(t) /\ Serving(t)

Typed == TransferTypeOK /\ AuxTypes

(* The inductive invariant behind StoredWhenReported and GetHonest. *)
TransferInv ==
    /\ Typed
    /\ lb \notin freed
    /\ \A t \in Task : Sound(t)
-----------------------------------------------------------------------------
(* A request names a range of at least one segment. *)
LEMMA ReqFacts ==
    ASSUME Typed, NEW t \in Task
    PROVE  /\ req[t].from \in Nat \ {0} /\ req[t].to \in Nat
           /\ req[t].from =< req[t].to
           /\ ReqLen(t) = req[t].to - req[t].from + 1
           /\ ReqLen(t) \in Nat \ {0}
           /\ pos[t] \in Nat \ {0} /\ got[t] \in Nat
  <1>1. \A r \in Requests \cup {All} :
          r.from \in Nat \ {0} /\ r.to \in Nat /\ r.from =< r.to
    BY TransferAssumption DEF All
  <1>2. /\ req[t] \in Requests \cup {All}
        /\ pos[t] \in Nat \ {0} /\ got[t] \in Nat
    BY DEF Typed, TransferTypeOK, AuxTypes
  <1>3. QED
    BY <1>1, <1>2 DEF ReqLen

(* The initial state. *)
LEMMA InitTransfer == TransferInit => TransferInv
  <1> SUFFICES ASSUME TransferInit PROVE TransferInv
    OBVIOUS
  <1>1. Typed
    BY TransferAssumption
    DEF TransferInit, Typed, TransferTypeOK, AuxTypes, Obj, Budget
  <1>2. ASSUME NEW t \in Task PROVE Sound(t)
    BY DEF TransferInit, Sound, Holding, Receiving, Answering, Serving, Uploads,
           Downloads
  <1>3. QED
    BY <1>1, <1>2 DEF TransferInit, TransferInv

-----------------------------------------------------------------------------
(* A step of task t as the other tasks see it: none of their own state     *)
(* changes, and the block does not go away.                                *)
Others(t) ==
    \A u \in Task \ {t} :
        /\ pc'[u] = pc[u] /\ req'[u] = req[u] /\ pos'[u] = pos[u]
        /\ got'[u] = got[u] /\ ptr'[u] = ptr[u] /\ rc'[u] = rc[u]
        /\ hit'[u] = hit[u] /\ err'[u] = err[u] /\ whole'[u] = whole[u]
        /\ u \in bad' <=> u \in bad

Stays ==
    /\ lb' = lb \/ lb = Null
    /\ lb' \notin freed'
    /\ freed' = freed
    /\ Stored \subseteq Stored'

(* Such a step keeps the invariant if t sees to its own part. *)
LEMMA OneTask ==
    ASSUME TransferInv, NEW t \in Task, Typed', Others(t), Stays, Sound(t)'
    PROVE  TransferInv'
  <1>1. ASSUME NEW u \in Task \ {t} PROVE Sound(u)'
    <2>1. Sound(u) /\ Null \notin Obj
      BY TransferAssumption DEF TransferInv, Obj
    <2>2. ReqRange(u, req') = ReqRange(u, req)
      BY DEF Others, ReqRange
    <2>3. Holding(u)'
      BY <2>1 DEF Others, Stays, Sound, Holding
    <2>4. Receiving(u)'
      BY <2>1 DEF Others, Stays, Sound, Receiving
    <2>5. Answering(u)'
      BY <2>1, <2>2 DEF Others, Stays, Sound, Answering
    <2>6. Serving(u)'
      BY <2>1, <2>2 DEF Others, Stays, Sound, Serving
    <2>7. QED
      BY <2>3, <2>4, <2>5, <2>6 DEF Sound
  <1>2. QED
    BY <1>1 DEF TransferInv, Stays

(* A store that nobody touched stays. *)
LEMMA StoreStays ==
    ASSUME TransferInv, UNCHANGED store PROVE Stays
  BY DEF TransferInv, Stays, Stored, store

(* Faults are counted. *)
LEMMA SpendType ==
    ASSUME Typed, NEW k \in DOMAIN Budget, Spend(k)
    PROVE  used' \in [DOMAIN Budget -> Nat]
  BY DEF Typed, TransferTypeOK, Spend

(* A task that ends. *)
LEMMA EndKeeps ==
    ASSUME TransferInv, NEW t \in Task, End(t), UNCHANGED store,
           used' \in [DOMAIN Budget -> Nat]
    PROVE  TransferInv'
  <1>1. Typed
    BY DEF TransferInv
  <1>2. Typed'
    BY <1>1 DEF End, store, Typed, TransferTypeOK, AuxTypes
  <1>3. Others(t)
    BY <1>1 DEF End, Others, Typed, TransferTypeOK, AuxTypes
  <1>4. pc'[t] = "idle" /\ t \notin bad'
    BY <1>1 DEF End, Typed, TransferTypeOK
  <1>5. Sound(t)'
    BY <1>4 DEF Sound, Holding, Receiving, Answering, Serving, Uploads, Downloads
  <1>6. QED
    BY <1>2, <1>3, <1>5, StoreStays, OneTask

(* The process dies and comes back. *)
LEMMA DieKeeps ==
    ASSUME TransferInv, Die PROVE TransferInv'
  <1>1. Typed
    BY DEF TransferInv
  <1>2. used' \in [DOMAIN Budget -> Nat]
    BY <1>1, SpendType DEF Die, Budget
  <1>3. Typed'
    BY <1>1, <1>2, TransferAssumption
    DEF Die, store, Typed, TransferTypeOK, AuxTypes, Obj
  <1>4. ASSUME NEW t \in Task PROVE Sound(t)'
    BY DEF Die, Sound, Holding, Receiving, Answering, Serving, Uploads, Downloads
  <1>5. QED
    BY <1>3, <1>4 DEF TransferInv, Die, store

(* A step that changes nothing but where t is, its object and what it has  *)
(* counted.                                                                *)
LEMMA MoveTyped ==
    ASSUME Typed, NEW t \in Task, NEW p,
           p \in Uploads \cup Downloads \cup {"resp", "send"},
           NEW x \in Obj \cup {Null}, NEW n \in Nat,
           Goto(t, p), ptr' = [ptr EXCEPT ![t] = x],
           got' = [got EXCEPT ![t] = n],
           lb' \in Obj \cup {Null},
           UNCHANGED <<data, freed, req, pos, one, rc, aux, used>>
    PROVE  /\ Typed' /\ Others(t)
           /\ pc'[t] = p /\ ptr'[t] = x /\ got'[t] = n
  <1>1. Typed'
    BY DEF Goto, aux, Typed, TransferTypeOK, AuxTypes, Uploads, Downloads
  <1>2. Others(t)
    BY DEF Goto, aux, Typed, TransferTypeOK, AuxTypes, Others
  <1>3. QED
    BY <1>1, <1>2 DEF Goto, Typed, TransferTypeOK

(* Only the upload of a client or of another server is in the first part.  *)
LEMMA UploadsPut ==
    ASSUME TransferInv, NEW t \in Task, pc[t] \in Uploads \cup {"resp", "send"}
    PROVE  t \notin Get
  BY DEF TransferInv, Sound, Serving, Uploads, Downloads

(* What an upload makes of the result of a write.  If that was a success   *)
(* and nothing else went wrong, the segment at pos is stored.              *)
LEMMA ReturnedKeeps ==
    ASSUME TransferInv, NEW t \in Task, NEW ret \in {"ok", "pos", "neg"},
           pc[t] \in Uploads, pc[t] # "recv", Returned(t, ret), Stays,
           ret = "ok" => hit[t] \/ (pos[t] =< Segs /\ pos[t] \in Stored'),
           lb' \in Obj \cup {Null}, freed' \subseteq Obj,
           data' \in [Obj -> SUBSET (1 .. Segs)],
           used' \in [DOMAIN Budget -> Nat]
    PROVE  TransferInv'
  <1> DEFINE last == got[t] >= ReqLen(t)
  <1>0. Typed /\ Sound(t)
    BY DEF TransferInv
  <1>1. /\ pos' = [pos EXCEPT ![t] = pos[t] + 1]
        /\ err' = [err EXCEPT ![t] = err[t] \/ ret # "ok"]
        /\ rc' = [rc EXCEPT ![t] = IF last /\ ~one[t] THEN "ok"
                                    ELSE IF ret = "neg" THEN "internal"
                                    ELSE IF last THEN "ok" ELSE rc[t]]
        /\ pc' = [pc EXCEPT ![t] = IF last \/ ret = "neg" THEN "resp" ELSE "recv"]
        /\ ptr' = [ptr EXCEPT ![t] = Null]
        /\ UNCHANGED <<req, got, one, hit, whole, bad>>
    BY DEF Returned, Goto
  <1>2. Typed'
    BY <1>0, <1>1 DEF Typed, TransferTypeOK, AuxTypes
  <1>3. Others(t)
    BY <1>0, <1>1 DEF Typed, TransferTypeOK, AuxTypes, Others
  <1>4. /\ pos'[t] = pos[t] + 1
        /\ err'[t] <=> (err[t] \/ ret # "ok")
        /\ pc'[t] = IF last \/ ret = "neg" THEN "resp" ELSE "recv"
    BY <1>0, <1>1 DEF Typed, TransferTypeOK, AuxTypes
  <1>5. t \notin Get /\ t \notin bad'
    BY <1>0, <1>1, UploadsPut DEF Sound, Receiving
  <1>6. /\ req[t].from \in Nat \ {0} /\ req[t].to \in Nat
        /\ pos[t] \in Nat \ {0} /\ got[t] \in Nat /\ Segs \in Nat
        /\ ReqLen(t) = req[t].to - req[t].from + 1
        /\ req[t].from =< pos[t]
    BY <1>0, ReqFacts, TransferAssumption DEF Sound, Receiving
  <1>7. ASSUME ~hit[t], ~err'[t]
        PROVE  /\ req[t].from .. pos[t] \subseteq Stored'
               /\ got[t] = pos[t] - req[t].from + 1
               /\ ret = "ok"
    <2>1. ret = "ok" /\ ~err[t] /\ pos[t] =< Segs /\ pos[t] \in Stored'
      BY <1>4, <1>7
    <2>2. /\ req[t].from .. pos[t] - 1 \subseteq Stored
          /\ pos[t] > Segs \/ got[t] = pos[t] - req[t].from + 1
      BY <1>0, <1>7, <2>1 DEF Sound, Receiving
    <2>3. req[t].from .. pos[t] \subseteq (req[t].from .. pos[t] - 1) \cup {pos[t]}
      BY <1>6
    <2>4. QED
      BY <1>6, <2>1, <2>2, <2>3 DEF Stays
  <1>8. Receiving(t)'
    <2>1. SUFFICES ASSUME pc'[t] = "recv"
                   PROVE  /\ t \notin bad'
                          /\ req'[t].from =< pos'[t]
                          /\ ~hit'[t] /\ ~err'[t] =>
                               /\ req'[t].from .. pos'[t] - 1 \subseteq Stored'
                               /\ got'[t] = pos'[t] - req'[t].from
      BY <1>4 DEF Receiving, Uploads
    <2>2. req'[t].from =< pos'[t] /\ pos'[t] - 1 = pos[t]
      BY <1>1, <1>4, <1>6
    <2>3. ASSUME ~hit'[t], ~err'[t]
          PROVE  /\ req'[t].from .. pos'[t] - 1 \subseteq Stored'
                 /\ got'[t] = pos'[t] - req'[t].from
      BY <1>1, <1>4, <1>6, <1>7, <2>2, <2>3
    <2>4. QED
      BY <1>5, <2>2, <2>3
  <1>9. Answering(t)'
    <2>1. ASSUME pc'[t] = "resp", ~hit'[t], ~err'[t]
          PROVE  ReqRange(t, req') \subseteq Stored'
      <3>1. ret = "ok" /\ got[t] = pos[t] - req[t].from + 1
        BY <1>1, <1>7, <2>1
      <3>2. got[t] >= ReqLen(t)
        BY <1>4, <2>1, <3>1
      <3>3. req[t].from .. req[t].to \subseteq req[t].from .. pos[t]
        BY <1>6, <3>1, <3>2
      <3>4. QED
        BY <1>1, <1>7, <2>1, <3>3 DEF ReqRange
    <2>2. QED
      BY <1>4, <1>5, <2>1 DEF Answering
  <1>10. Sound(t)'
    BY <1>4, <1>5, <1>8, <1>9 DEF Sound, Holding, Serving
  <1>11. QED
    BY <1>2, <1>3, <1>10, OneTask

(* A step inside an upload that moves on without a result. *)
LEMMA UploadMoves ==
    ASSUME TransferInv, NEW t \in Task,
           NEW p \in Uploads, NEW x \in Obj \cup {Null},
           pc[t] \in Uploads, pc[t] # "recv", p # "recv",
           Goto(t, p), ptr' = [ptr EXCEPT ![t] = x],
           p = "write" => x \in Obj /\ x = lb', Stays,
           lb' \in Obj \cup {Null},
           UNCHANGED <<data, freed, req, pos, got, one, rc, aux, used>>
    PROVE  TransferInv'
  <1>0. Typed /\ Sound(t) /\ t \notin Get
    BY UploadsPut DEF TransferInv
  <1>1. got[t] \in Nat /\ got' = [got EXCEPT ![t] = got[t]]
    BY <1>0 DEF Typed, TransferTypeOK
  <1>2. Typed' /\ Others(t) /\ pc'[t] = p /\ ptr'[t] = x
    BY <1>0, <1>1, MoveTyped
  <1>3. Holding(t)'
    BY <1>2 DEF Holding, Uploads
  <1>4. Receiving(t)'
    BY <1>0, <1>2 DEF Sound, Receiving, Stays, aux
  <1>5. Answering(t)' /\ Serving(t)'
    BY <1>0, <1>2 DEF Answering, Serving, Uploads
  <1>6. QED
    BY <1>2, <1>3, <1>4, <1>5, OneTask DEF Sound

(* The block is deleted: every task that runs has been hit. *)
LEMMA FreeTyped ==
    ASSUME TransferInv, lb # Null, Free
    PROVE  /\ lb' \in Obj \cup {Null} /\ freed' \subseteq Obj /\ lb' \notin freed'
           /\ data' \in [Obj -> SUBSET (1 .. Segs)]
           /\ hit' \in [Task -> BOOLEAN]
           /\ \A u \in Task : hit'[u] = (hit[u] \/ pc[u] # "idle")
  <1>1. lb \in Obj /\ Null \notin Obj
    BY TransferAssumption DEF TransferInv, Typed, TransferTypeOK, Obj
  <1>2. QED
    BY <1>1 DEF TransferInv, Typed, TransferTypeOK, AuxTypes, Free, At

(* A task whose own state stays as it is goes on with its part. *)
LEMMA FreeKeeps ==
    ASSUME TransferInv, lb # Null, Free, NEW u \in Task,
           pc'[u] = pc[u], req'[u] = req[u], pos'[u] = pos[u],
           got'[u] = got[u], ptr'[u] = ptr[u], rc'[u] = rc[u],
           UNCHANGED <<err, whole, bad>>
    PROVE  Sound(u)'
  <1>0. Sound(u) /\ (hit'[u] <=> (hit[u] \/ pc[u] # "idle"))
    BY FreeTyped DEF TransferInv
  <1>1. CASE pc[u] = "idle"
    BY <1>0, <1>1
    DEF Sound, Holding, Receiving, Answering, Serving, Uploads, Downloads
  <1>2. CASE pc[u] # "idle"
    <2>1. hit'[u]
      BY <1>0, <1>2
    <2>2. Holding(u)'
      BY <1>0, <2>1 DEF Sound, Holding, Free
    <2>3. Receiving(u)'
      BY <1>0, <2>1 DEF Sound, Receiving
    <2>4. Answering(u)'
      BY <1>0, <2>1 DEF Sound, Answering
    <2>5. Serving(u)'
      BY <1>0, <1>2, <2>1 DEF Sound, Serving
    <2>6. QED
      BY <2>2, <2>3, <2>4, <2>5 DEF Sound
  <1>3. QED
    BY <1>1, <1>2

(* The delete command. *)
LEMMA DeleteKeeps ==
    ASSUME TransferInv, Delete PROVE TransferInv'
  <1>0. lb # Null /\ Free /\ UNCHANGED <<task, err, whole, bad>>
    BY DEF Delete
  <1>1. used' \in [DOMAIN Budget -> Nat]
    BY SpendType DEF Delete, Budget, TransferInv
  <1>2. Typed'
    BY <1>0, <1>1, FreeTyped
    DEF task, TransferInv, Typed, TransferTypeOK, AuxTypes
  <1>3. ASSUME NEW u \in Task PROVE Sound(u)'
    BY <1>0, FreeKeeps DEF task
  <1>4. QED
    BY <1>0, <1>2, <1>3, FreeTyped DEF TransferInv

-----------------------------------------------------------------------------
(* The actions of an upload.                                               *)

(* An upload starts with nothing stored and nothing counted. *)
LEMMA PutStartKeeps ==
    ASSUME TransferInv, NEW t \in Put, NEW r \in Requests, NEW all \in BOOLEAN,
           PutStart(t, r, all)
    PROVE  TransferInv'
  <1> DEFINE o == all /\ r.from = r.to
             p == IF r.from > Segs + 1 THEN "resp" ELSE IF o THEN "find" ELSE "recv"
             n == IF o THEN 1 ELSE 0
             c == IF r.from > Segs + 1 THEN "error" ELSE "none"
  <1>0. /\ Typed /\ Sound(t) /\ t \in Task /\ t \notin Get
        /\ r.from \in Nat \ {0} /\ r.to \in Nat /\ r.from =< r.to /\ Segs \in Nat
    BY TransferAssumption DEF TransferInv, Task
  <1>1. /\ pc[t] = "idle"
        /\ req' = [req EXCEPT ![t] = r] /\ one' = [one EXCEPT ![t] = o]
        /\ pos' = [pos EXCEPT ![t] = r.from]
        /\ got' = [got EXCEPT ![t] = IF one'[t] THEN 1 ELSE 0]
        /\ hit' = [hit EXCEPT ![t] = FALSE] /\ err' = [err EXCEPT ![t] = FALSE]
        /\ rc' = [rc EXCEPT ![t] = c]
        /\ pc' = [pc EXCEPT ![t] = IF r.from > Segs + 1 THEN "resp"
                                   ELSE IF one'[t] THEN "find" ELSE "recv"]
        /\ bad' = bad \ {t}
        /\ UNCHANGED <<store, ptr, whole>>
    BY DEF PutStart, At, Goto
  <1>2. one'[t] = o
    BY <1>0, <1>1 DEF Typed, AuxTypes
  <1>3. got' = [got EXCEPT ![t] = n] /\ pc' = [pc EXCEPT ![t] = p]
    BY <1>1, <1>2
  <1>4. used' \in [DOMAIN Budget -> Nat]
    BY <1>0, SpendType DEF PutStart, Budget
  <1>5. n \in Nat /\ o \in BOOLEAN /\ c \in {"error", "none"} /\ p \in {"resp", "find", "recv"}
    OBVIOUS
  <1>6. Typed'
    BY <1>0, <1>1, <1>3, <1>4, <1>5
    DEF store, Typed, TransferTypeOK, AuxTypes
  <1>7. Others(t)
    BY <1>0, <1>1, <1>3 DEF Others, Typed, TransferTypeOK, AuxTypes
  <1>8. /\ pc'[t] = p /\ req'[t] = r /\ pos'[t] = r.from /\ got'[t] = n
        /\ rc'[t] = c /\ t \notin bad'
    BY <1>0, <1>1, <1>3 DEF Typed, TransferTypeOK, AuxTypes
  <1>9. Receiving(t)'
    <2>1. ASSUME p # "resp"
          PROVE  /\ r.from .. r.from - 1 \subseteq Stored'
                 /\ p = "recv" => n = r.from - r.from
                 /\ p # "recv" => n = r.from - r.from + 1
      BY <1>0, <2>1
    <2>2. r.from =< r.from
      BY <1>0
    <2>3. QED
      BY <1>8, <2>1, <2>2 DEF Receiving, Uploads
  <1>10. Answering(t)' /\ Holding(t)' /\ Serving(t)'
    BY <1>0, <1>5, <1>8 DEF Answering, Holding, Serving
  <1>11. QED
    BY <1>0, <1>1, <1>6, <1>7, <1>9, <1>10, OneTask, StoreStays DEF Sound

(* A buffer arrives and is counted. *)
LEMMA RecvKeeps ==
    ASSUME TransferInv, NEW t \in Put, Recv(t) PROVE TransferInv'
  <1> DEFINE n == IF pos[t] > Segs THEN ReqLen(t) ELSE got[t] + 1
  <1>0. Typed /\ Sound(t) /\ t \in Task
    BY DEF TransferInv, Task
  <1>1. /\ pc[t] = "recv" /\ Goto(t, "find") /\ got' = [got EXCEPT ![t] = n]
        /\ UNCHANGED <<store, req, pos, ptr, one, rc, aux, used>>
    BY DEF Recv, At
  <1>2. /\ req[t].from \in Nat \ {0} /\ ReqLen(t) \in Nat
        /\ pos[t] \in Nat \ {0} /\ got[t] \in Nat /\ Segs \in Nat
    BY <1>0, ReqFacts, TransferAssumption
  <1>3. n \in Nat /\ ptr[t] \in Obj \cup {Null} /\ ptr' = [ptr EXCEPT ![t] = ptr[t]]
        /\ lb' \in Obj \cup {Null} /\ UNCHANGED <<data, freed>>
    BY <1>0, <1>1, <1>2 DEF Typed, TransferTypeOK, store
  <1>4. Typed' /\ Others(t) /\ pc'[t] = "find" /\ got'[t] = n
    <2>1. "find" \in Uploads \cup Downloads \cup {"resp", "send"}
      BY DEF Uploads
    <2>2. QED
      BY <1>0, <1>1, <1>3, <2>1, MoveTyped
  <1>5. Receiving(t)'
    <2>1. /\ t \notin bad /\ req[t].from =< pos[t]
          /\ ~hit[t] /\ ~err[t] =>
               /\ req[t].from .. pos[t] - 1 \subseteq Stored
               /\ got[t] = pos[t] - req[t].from
      BY <1>0, <1>1 DEF Sound, Receiving, Uploads
    <2>2. ASSUME got[t] = pos[t] - req[t].from
          PROVE  pos[t] > Segs \/ n = pos[t] - req[t].from + 1
      BY <1>2, <2>2
    <2>3. Stored' = Stored
      BY <1>1 DEF store, Stored
    <2>4. QED
      BY <1>1, <1>4, <2>1, <2>2, <2>3 DEF Receiving, aux
  <1>6. Answering(t)' /\ Holding(t)' /\ Serving(t)'
    <2>1. t \notin Get
      BY <1>0, <1>1, UploadsPut DEF Uploads
    <2>2. QED
      BY <1>4, <2>1 DEF Answering, Holding, Serving
  <1>7. QED
    BY <1>0, <1>1, <1>4, <1>5, <1>6, OneTask, StoreStays DEF Sound

(* The calls of the block store and what is made of their results. *)
LEMMA StoreKeeps ==
    ASSUME TransferInv, NEW t \in Put, Store(t) PROVE TransferInv'
  <1>0. /\ Typed /\ Sound(t) /\ t \in Task /\ lb \notin freed
        /\ lb \in Obj \cup {Null} /\ freed \subseteq Obj /\ Null \notin Obj
        /\ data \in [Obj -> SUBSET (1 .. Segs)]
        /\ used \in [DOMAIN Budget -> Nat]
        /\ ptr[t] \in Obj \cup {Null} /\ ptr \in [Task -> Obj \cup {Null}]
        /\ pos[t] \in Nat \ {0} /\ Segs \in Nat
    BY TransferAssumption
    DEF TransferInv, Task, Typed, TransferTypeOK, AuxTypes, Obj
  <1>1. ASSUME NEW ret \in {"pos", "neg"}, pc[t] \in Uploads, pc[t] # "recv",
               Returned(t, ret), UNCHANGED store,
               used' \in [DOMAIN Budget -> Nat]
        PROVE  TransferInv'
    BY <1>0, <1>1, ReturnedKeeps, StoreStays DEF store
  <1>2. CASE Find(t)
    <2>1. /\ pc[t] = "find" /\ ptr' = [ptr EXCEPT ![t] = lb]
          /\ Goto(t, IF lb = Null THEN "again" ELSE "write")
          /\ UNCHANGED <<store, data, freed, lb, req, pos, got, one, rc, aux, used>>
      BY <1>2 DEF Find, At, store
    <2>2. QED
      BY <1>0, <2>1, UploadMoves, StoreStays DEF Uploads
  <1>3. CASE Again(t)
    <2>1. /\ pc[t] = "again" /\ ptr' = [ptr EXCEPT ![t] = ptr[t]]
          /\ Goto(t, IF lb = Null THEN "new" ELSE "del")
          /\ UNCHANGED <<store, data, freed, lb, req, pos, got, one, rc, aux, used>>
      BY <1>0, <1>3 DEF Again, At, store
    <2>2. QED
      BY <1>0, <2>1, UploadMoves, StoreStays DEF Uploads
  <1>4. CASE FirstDel(t)
    <2>1. /\ pc[t] = "del" /\ lb # Null /\ Free
          /\ pc' = [pc EXCEPT ![t] = "new"]
          /\ UNCHANGED <<req, pos, got, ptr, one, rc, err, whole, bad, used>>
      BY <1>4 DEF FirstDel, At, Goto
    <2>2. Typed'
      BY <1>0, <2>1, FreeTyped DEF Typed, TransferTypeOK, AuxTypes
    <2>3. ASSUME NEW u \in Task \ {t} PROVE Sound(u)'
      <3>1. pc'[u] = pc[u]
        BY <1>0, <2>1 DEF Typed, TransferTypeOK
      <3>2. QED
        BY <2>1, <3>1, FreeKeeps
    <2>4. Sound(t)'
      <3>1. pc'[t] = "new" /\ hit'[t]
        BY <1>0, <2>1, FreeTyped DEF Typed, TransferTypeOK
      <3>2. t \notin Get
        BY <1>0, <2>1, UploadsPut DEF Uploads
      <3>3. QED
        BY <1>0, <2>1, <3>1, <3>2
        DEF Sound, Holding, Receiving, Answering, Serving, Uploads
    <2>5. QED
      BY <2>1, <2>2, <2>3, <2>4, FreeTyped DEF TransferInv
  <1>5. CASE FirstDelGone(t)
    BY <1>0, <1>1, <1>5 DEF FirstDelGone, At, Uploads
  <1>6. CASE New(t)
    <2>1. PICK o \in Obj : o \notin freed
      BY <1>0, <1>6 DEF New
    <2>2. /\ lb' \in Obj /\ lb' \notin freed
          /\ pc[t] = "new" /\ lb = Null /\ Goto(t, "fetch")
          /\ ptr' = [ptr EXCEPT ![t] = ptr[t]]
          /\ UNCHANGED <<data, freed, req, pos, got, one, rc, aux, used>>
      BY <1>0, <1>6, <2>1 DEF New, At
    <2>3. Stays
      BY <2>2 DEF Stays, Stored
    <2>4. QED
      BY <1>0, <2>2, <2>3, UploadMoves DEF Uploads
  <1>7. CASE NewExists(t)
    BY <1>0, <1>1, <1>7 DEF NewExists, At, Uploads
  <1>8. CASE NewFails(t)
    BY <1>0, <1>1, <1>8, SpendType DEF NewFails, At, Uploads, Budget
  <1>9. CASE Fetch(t)
    <2>1. CASE lb = Null
      BY <1>9, <2>1, DieKeeps DEF Fetch
    <2>2. CASE lb # Null
      <3>1. /\ pc[t] = "fetch" /\ ptr' = [ptr EXCEPT ![t] = lb]
            /\ Goto(t, "write")
            /\ UNCHANGED <<store, data, freed, lb, req, pos, got, one, rc, aux, used>>
        BY <1>9, <2>2 DEF Fetch, At, store
      <3>2. QED
        BY <1>0, <2>2, <3>1, UploadMoves, StoreStays DEF Uploads
    <2>3. QED
      BY <2>1, <2>2
  <1>10. ASSUME NEW o \in Obj, pc[t] = "write", o = lb, pos[t] =< Segs,
                Returned(t, "ok"), data' = [data EXCEPT ![o] = @ \cup {pos[t]}],
                UNCHANGED <<lb, freed, used>>
         PROVE  TransferInv'
    <2>1. /\ data' \in [Obj -> SUBSET (1 .. Segs)]
          /\ data'[lb] = data[lb] \cup {pos[t]}
      BY <1>0, <1>10
    <2>2. Stays /\ pos[t] \in Stored'
      BY <1>0, <1>10, <2>1 DEF Stays, Stored
    <2>3. QED
      BY <1>0, <1>10, <2>1, <2>2, ReturnedKeeps DEF Uploads
  <1>11. CASE Write(t)
    <2>1. pc[t] = "write" /\ ptr[t] \notin freed /\ UNCHANGED used
      BY <1>11 DEF Write, At
    <2>2. CASE pos[t] > Segs
      BY <1>0, <1>1, <1>11, <2>1, <2>2 DEF Write, Uploads
    <2>3. CASE ~(pos[t] > Segs)
      <3>1. ptr[t] \in Obj /\ ptr[t] = lb
        BY <1>0, <2>1 DEF Sound, Holding
      <3>2. pos[t] =< Segs
        BY <1>0, <2>3
      <3>3. QED
        BY <1>10, <1>11, <2>1, <2>3, <3>1, <3>2 DEF Write
    <2>4. QED
      BY <2>2, <2>3
  <1>12. CASE WriteFails(t)
    BY <1>0, <1>1, <1>12, SpendType DEF WriteFails, At, Uploads, Budget
  <1>13. CASE WriteFreed(t)
    <2>1. pc[t] = "write" /\ ptr[t] \in freed
      BY <1>13 DEF WriteFreed, At
    <2>2. hit[t]
      BY <1>0, <2>1 DEF Sound, Holding
    <2>3. ASSUME NEW ret \in {"ok", "pos", "neg"}, Returned(t, ret),
                 UNCHANGED <<store, used>>
          PROVE  TransferInv'
      BY <1>0, <2>1, <2>2, <2>3, ReturnedKeeps, StoreStays DEF store, Uploads
    <2>4. ASSUME lb # Null, pos[t] =< Segs,
                 data' = [data EXCEPT ![lb] = @ \cup {pos[t]}],
                 Returned(t, "ok"), UNCHANGED <<lb, freed, used>>
          PROVE  TransferInv'
      BY <1>0, <1>10, <2>1, <2>4
    <2>5. QED
      BY <1>13, <2>3, <2>4, DieKeeps DEF WriteFreed
  <1>14. QED
    BY <1>2, <1>3, <1>4, <1>5, <1>6, <1>7, <1>8, <1>9, <1>11, <1>12, <1>13
    DEF Store

(* The answer, which puts t among the bad ones when it promises what is    *)
(* not stored.                                                             *)
LEMMA RespondKeeps ==
    ASSUME TransferInv, NEW t \in Put, Respond(t) PROVE TransferInv'
  <1> DEFINE w == rc[t] = "ok" /\ ReqRange(t, req) \subseteq Stored
  <1>0. Typed /\ Sound(t) /\ t \in Task
    BY DEF TransferInv, Task
  <1>1. /\ pc[t] = "resp"
        /\ whole' = [whole EXCEPT ![t] = w]
        /\ bad' = IF rc[t] = "ok" /\ ~whole'[t] THEN bad \cup {t} ELSE bad
        /\ pc' = [pc EXCEPT ![t] = "send"]
        /\ UNCHANGED <<store, req, pos, got, ptr, one, rc, hit, err, used>>
    BY DEF Respond, At, Goto
  <1>2. whole'[t] = w /\ pc'[t] = "send"
    BY <1>0, <1>1 DEF Typed, TransferTypeOK, AuxTypes
  <1>3. w \in BOOLEAN
    OBVIOUS
  <1>4. Typed'
    BY <1>0, <1>1, <1>3 DEF store, Typed, TransferTypeOK, AuxTypes
  <1>5. Others(t)
    BY <1>0, <1>1 DEF Others, Typed, TransferTypeOK, AuxTypes
  <1>6. t \in bad' => hit[t] \/ err[t]
    BY <1>0, <1>1, <1>2 DEF Sound, Answering
  <1>7. t \notin Get
    BY <1>0, <1>1, UploadsPut
  <1>8. Sound(t)'
    BY <1>1, <1>2, <1>6, <1>7
    DEF Sound, Holding, Receiving, Answering, Serving, Uploads
  <1>9. QED
    BY <1>0, <1>1, <1>4, <1>5, <1>8, OneTask, StoreStays

(* The answer is sent, and a push may follow. *)
LEMMA SentKeeps ==
    ASSUME TransferInv, NEW t \in Put, NEW backup \in BOOLEAN, Sent(t, backup)
    PROVE  TransferInv'
  <1>0. Typed /\ Sound(t) /\ t \in Task /\ t \notin Get
    BY TransferAssumption DEF TransferInv, Task
  <1>1. CASE ~backup
    BY <1>0, <1>1, EndKeeps DEF Sent, Typed, TransferTypeOK
  <1>2. CASE backup
    <2>1. /\ pos' = [pos EXCEPT ![t] = req[t].from] /\ got' = [got EXCEPT ![t] = 0]
          /\ pc' = [pc EXCEPT ![t] = "look"]
          /\ UNCHANGED <<store, req, ptr, one, rc, aux, used>>
      BY <1>2 DEF Sent, Goto
    <2>2. req[t].from \in Nat \ {0}
      BY <1>0, ReqFacts
    <2>3. Typed'
      BY <1>0, <2>1, <2>2 DEF store, aux, Typed, TransferTypeOK, AuxTypes
    <2>4. Others(t)
      BY <1>0, <2>1 DEF Others, aux, Typed, TransferTypeOK, AuxTypes
    <2>5. pc'[t] = "look"
      BY <1>0, <2>1 DEF Typed, TransferTypeOK
    <2>6. Sound(t)'
      BY <1>0, <2>5
      DEF Sound, Holding, Receiving, Answering, Serving, Uploads
    <2>7. QED
      BY <1>0, <2>1, <2>3, <2>4, <2>6, OneTask, StoreStays
  <1>3. QED
    BY <1>1, <1>2

-----------------------------------------------------------------------------
(* The actions of a download, and of a push.                               *)

(* GETOK is sent: what the range holds now is noted. *)
LEMMA GetStartKeeps ==
    ASSUME TransferInv, NEW t \in Get, NEW r \in Requests, GetStart(t, r)
    PROVE  TransferInv'
  <1> DEFINE w == ReqRange(t, req') \subseteq Stored
  <1>0. /\ Typed /\ Sound(t) /\ t \in Task
        /\ r.from \in Nat \ {0} /\ r.to \in Nat /\ r.from =< r.to
    BY TransferAssumption DEF TransferInv, Task
  <1>1. /\ req' = [req EXCEPT ![t] = r] /\ pos' = [pos EXCEPT ![t] = r.from]
        /\ hit' = [hit EXCEPT ![t] = FALSE]
        /\ whole' = [whole EXCEPT ![t] = w]
        /\ got' = [got EXCEPT ![t] = 0]
        /\ pc' = [pc EXCEPT ![t] = "look"]
        /\ bad' = bad \ {t}
        /\ UNCHANGED <<store, ptr, one, rc, err>>
    BY DEF GetStart, Goto
  <1>2. used' \in [DOMAIN Budget -> Nat]
    BY <1>0, SpendType DEF GetStart, Budget
  <1>3. w \in BOOLEAN
    OBVIOUS
  <1>4. Typed'
    BY <1>0, <1>1, <1>2, <1>3 DEF store, Typed, TransferTypeOK, AuxTypes
  <1>5. Others(t)
    BY <1>0, <1>1 DEF Others, Typed, TransferTypeOK, AuxTypes
  <1>6. /\ pc'[t] = "look" /\ req'[t] = r /\ pos'[t] = r.from /\ got'[t] = 0
        /\ whole'[t] = w /\ t \notin bad'
    BY <1>0, <1>1 DEF Typed, TransferTypeOK, AuxTypes
  <1>7. Stored' = Stored
    BY <1>1 DEF store, Stored
  <1>8. r.from =< r.from /\ 0 = r.from - r.from
    BY <1>0
  <1>9. Serving(t)'
    BY <1>0, <1>6, <1>7, <1>8 DEF Serving, Downloads
  <1>10. Holding(t)' /\ Receiving(t)' /\ Answering(t)'
    BY <1>6 DEF Holding, Receiving, Answering, Uploads
  <1>11. QED
    BY <1>0, <1>1, <1>4, <1>5, <1>9, <1>10, OneTask, StoreStays DEF Sound

(* A buffer is passed on, or kept for a busy socket. *)
LEMMA PassedKeeps ==
    ASSUME TransferInv, NEW t \in Task, NEW good \in BOOLEAN,
           NEW p \in {"sent", "busy"}, pc[t] = "read", Passed(t, good, p),
           ~good => hit[t] \/ (t \in Get => ~whole[t]),
           used' \in [DOMAIN Budget -> Nat]
    PROVE  TransferInv'
  <1> DEFINE q == IF p = "busy" THEN "busy"
                  ELSE IF pos[t] < req[t].to THEN "look" ELSE "end"
  <1>0. Typed /\ Sound(t)
    BY DEF TransferInv
  <1>1. /\ bad' = IF good THEN bad ELSE bad \cup {t}
        /\ pos' = [pos EXCEPT ![t] = pos[t] + 1]
        /\ pc' = [pc EXCEPT ![t] = q]
        /\ got' = [got EXCEPT ![t] = got[t] + 1]
        /\ ptr' = [ptr EXCEPT ![t] = Null]
        /\ UNCHANGED <<store, req, one, rc, hit, err, whole>>
    BY DEF Passed, Goto
  <1>2. /\ req[t].from \in Nat \ {0} /\ req[t].to \in Nat
        /\ pos[t] \in Nat \ {0} /\ got[t] \in Nat
    BY <1>0, ReqFacts
  <1>3. q \in {"busy", "look", "end"}
    OBVIOUS
  <1>4. Typed'
    BY <1>0, <1>1, <1>3 DEF store, Typed, TransferTypeOK, AuxTypes
  <1>5. Others(t)
    BY <1>0, <1>1 DEF Others, Typed, TransferTypeOK, AuxTypes
  <1>6. /\ pc'[t] = q /\ pos'[t] = pos[t] + 1 /\ got'[t] = got[t] + 1
    BY <1>0, <1>1 DEF Typed, TransferTypeOK, AuxTypes
  <1>7. Stored' = Stored /\ ReqRange(t, req') = ReqRange(t, req)
    BY <1>1 DEF store, Stored, ReqRange
  <1>8. Serving(t)'
    <2>1. ASSUME t \in Get
          PROVE  /\ t \in bad' => hit'[t] \/ ~whole'[t]
                 /\ whole'[t] /\ ~hit'[t] => ReqRange(t, req') \subseteq Stored'
                 /\ req[t].from =< pos[t] /\ got[t] = pos[t] - req[t].from
                 /\ pos[t] =< req[t].to
      BY <1>0, <1>1, <1>7, <2>1 DEF Sound, Serving, Downloads
    <2>2. ASSUME t \in Get
          PROVE  /\ req'[t].from =< pos'[t]
                 /\ got'[t] = pos'[t] - req'[t].from
                 /\ q = "look" => pos'[t] =< req'[t].to
                 /\ q = "busy" => pos'[t] =< req'[t].to + 1
                 /\ q = "end" => pos'[t] = req'[t].to + 1
      BY <1>1, <1>2, <1>6, <2>1, <2>2
    <2>3. QED
      BY <1>3, <1>6, <2>1, <2>2 DEF Serving, Downloads
  <1>9. Holding(t)' /\ Receiving(t)' /\ Answering(t)'
    BY <1>3, <1>6 DEF Holding, Receiving, Answering, Uploads
  <1>10. QED
    BY <1>1, <1>4, <1>5, <1>8, <1>9, OneTask, StoreStays DEF Sound

(* A reader that moves on without passing anything. *)
LEMMA ReaderMoves ==
    ASSUME TransferInv, NEW t \in Task, NEW p \in {"look", "read", "loop", "end"},
           NEW x \in Obj \cup {Null}, pc[t] \in Downloads,
           Goto(t, p), ptr' = [ptr EXCEPT ![t] = x],
           p = "read" => x \in Obj /\ x = lb,
           t \in Get => /\ p \in {"look", "read"} => pos[t] =< req[t].to
                        /\ p = "end" => pos[t] = req[t].to + 1,
           UNCHANGED <<store, req, pos, got, one, rc, aux, used>>
    PROVE  TransferInv'
  <1>0. Typed /\ Sound(t)
    BY DEF TransferInv
  <1>1. /\ got[t] \in Nat /\ got' = [got EXCEPT ![t] = got[t]]
        /\ lb' = lb /\ lb \in Obj \cup {Null} /\ UNCHANGED <<data, freed>>
    BY <1>0 DEF Typed, TransferTypeOK, store
  <1>2. p \in Uploads \cup Downloads \cup {"resp", "send"}
    BY DEF Downloads
  <1>3. Typed' /\ Others(t) /\ pc'[t] = p /\ ptr'[t] = x
    BY <1>0, <1>1, <1>2, MoveTyped
  <1>4. Stored' = Stored /\ ReqRange(t, req') = ReqRange(t, req)
    BY DEF store, Stored, ReqRange
  <1>5. Serving(t)'
    BY <1>0, <1>3, <1>4 DEF Sound, Serving, Downloads, aux
  <1>6. Holding(t)' /\ Receiving(t)' /\ Answering(t)'
    BY <1>1, <1>3 DEF Holding, Receiving, Answering, Uploads
  <1>7. QED
    BY <1>3, <1>5, <1>6, OneTask, StoreStays DEF Sound

(* A segment of the block is read: one that was stored when the download   *)
(* started still is, unless the block was deleted in between.              *)
LEMMA ReadKeeps ==
    ASSUME TransferInv, NEW t \in Task, NEW p \in {"sent", "busy"}, Read(t, p)
    PROVE  TransferInv'
  <1> DEFINE good == pos[t] \in data[ptr[t]]
  <1>0. Typed /\ Sound(t)
    BY DEF TransferInv
  <1>1. /\ pc[t] = "read" /\ ptr[t] \notin freed
        /\ Passed(t, good, p) /\ UNCHANGED used
    BY DEF Read, At
  <1>2. good = (pos[t] \in Stored)
    <2>1. ptr[t] = lb /\ ptr[t] \in Obj /\ Null \notin Obj
      BY <1>0, <1>1, TransferAssumption DEF Sound, Holding, Obj
    <2>2. QED
      BY <2>1 DEF Stored
  <1>3. ASSUME t \in Get, ~good, ~hit[t] PROVE ~whole[t]
    <2>1. req[t].from =< pos[t] /\ pos[t] =< req[t].to
      BY <1>0, <1>1, <1>3 DEF Sound, Serving, Downloads
    <2>2. pos[t] \in ReqRange(t, req)
      BY <1>0, <2>1, ReqFacts DEF ReqRange
    <2>3. QED
      BY <1>0, <1>1, <1>2, <1>3, <2>2 DEF Sound, Serving
  <1>4. used' \in [DOMAIN Budget -> Nat] /\ good \in BOOLEAN
    BY <1>0, <1>1 DEF Typed, TransferTypeOK
  <1>5. ~good => hit[t] \/ (t \in Get => ~whole[t])
    BY <1>3
  <1> HIDE DEF good
  <1>6. QED
    BY <1>1, <1>4, <1>5, PassedKeeps

(* The other steps of a reader. *)
LEMMA ReadingKeeps ==
    ASSUME TransferInv, NEW t \in Task, Reading(t) \/ Busy(t) \/ Timeout(t)
    PROVE  TransferInv'
  <1>0. /\ Typed /\ Sound(t) /\ lb \in Obj \cup {Null}
        /\ ptr \in [Task -> Obj \cup {Null}] /\ ptr[t] \in Obj \cup {Null}
        /\ used \in [DOMAIN Budget -> Nat]
    BY DEF TransferInv, Typed, TransferTypeOK
  <1>1. CASE Look(t)
    <2>1. CASE lb = Null
      BY <1>0, <1>1, <2>1, EndKeeps DEF Look
    <2>2. CASE lb # Null
      <3>1. /\ pc[t] = "look" /\ ptr' = [ptr EXCEPT ![t] = lb] /\ Goto(t, "read")
            /\ UNCHANGED <<store, req, pos, got, one, rc, aux, used>>
        BY <1>1, <2>2 DEF Look, At
      <3>2. t \in Get => pos[t] =< req[t].to
        BY <1>0, <3>1 DEF Sound, Serving
      <3>3. QED
        BY <1>0, <2>2, <3>1, <3>2, ReaderMoves DEF Downloads
    <2>3. QED
      BY <2>1, <2>2
  <1>2. CASE Read(t, "sent")
    BY <1>2, ReadKeeps
  <1>3. CASE ReadEnd(t)
    <2>1. /\ pc[t] = "read" /\ ptr' = [ptr EXCEPT ![t] = ptr[t]] /\ Goto(t, "loop")
          /\ UNCHANGED <<store, req, pos, got, one, rc, aux, used>>
      BY <1>0, <1>3 DEF ReadEnd, At
    <2>2. QED
      BY <1>0, <2>1, ReaderMoves DEF Downloads
  <1>4. CASE ReadFails(t)
    BY <1>0, <1>4, SpendType, EndKeeps DEF ReadFails, Budget
  <1>5. CASE ReadFreed(t)
    <2>1. pc[t] = "read" /\ hit[t]
      BY <1>0, <1>5 DEF ReadFreed, At, Sound, Holding, TransferInv
    <2>2. ASSUME Passed(t, FALSE, "sent"), UNCHANGED used PROVE TransferInv'
      BY <1>0, <2>1, <2>2, PassedKeeps
    <2>3. QED
      BY <1>5, <2>2, DieKeeps DEF ReadFreed
  <1>6. CASE ReadDone(t)
    BY <1>0, <1>6, EndKeeps DEF ReadDone
  <1>7. CASE Busy(t)
    <2>1. /\ pc[t] = "busy" /\ ptr' = [ptr EXCEPT ![t] = ptr[t]]
          /\ Goto(t, IF pos[t] =< req[t].to THEN "look" ELSE "end")
          /\ UNCHANGED <<store, req, pos, got, one, rc, aux, used>>
      BY <1>0, <1>7 DEF Busy, At
    <2>2. t \in Get => pos[t] =< req[t].to + 1
      BY <1>0, <2>1 DEF Sound, Serving
    <2>3. pos[t] =< req[t].to + 1 /\ ~(pos[t] =< req[t].to) => pos[t] = req[t].to + 1
      BY <1>0, ReqFacts
    <2>4. CASE pos[t] =< req[t].to
      BY <1>0, <2>1, <2>4, ReaderMoves DEF Downloads
    <2>5. CASE ~(pos[t] =< req[t].to)
      BY <1>0, <2>1, <2>2, <2>3, <2>5, ReaderMoves DEF Downloads
    <2>6. QED
      BY <2>4, <2>5
  <1>8. CASE Timeout(t)
    BY <1>0, <1>8, EndKeeps DEF Timeout
  <1>9. QED
    BY <1>1, <1>2, <1>3, <1>4, <1>5, <1>6, <1>7, <1>8 DEF Reading

-----------------------------------------------------------------------------
(* TransferInv holds in every reachable state. *)
THEOREM TransferInvariance == Spec => []TransferInv
  <1>1. TransferInit => TransferInv
    BY InitTransfer
  <1>2. ASSUME TransferInv, Next PROVE TransferInv'
    <2>1. ASSUME NEW t \in Put, PutBreak(t) PROVE TransferInv'
      BY <1>2, <2>1, EndKeeps
      DEF PutBreak, Task, TransferInv, Typed, TransferTypeOK
    <2>2. QED
      BY <1>2, <2>1, PutStartKeeps, RecvKeeps, StoreKeeps, RespondKeeps,
         SentKeeps, GetStartKeeps, ReadKeeps, ReadingKeeps, DeleteKeeps
      DEF Next
  <1>3. ASSUME TransferInv, UNCHANGED vars PROVE TransferInv'
    BY <1>3
    DEF vars, store, task, aux, TransferInv, Typed, TransferTypeOK, AuxTypes,
        Sound, Holding, Receiving, Answering, Serving, Stored, ReqRange
  <1>4. QED
    BY <1>1, <1>2, <1>3, PTL DEF Spec

(* An upload that is reported to the name service is stored as a whole,    *)
(* unless a write of it failed or the block was deleted under it, for any  *)
(* number of uploads of the block that take turns at DataManagement::      *)
(* write_raw_data and new_single_block, and the map of blocks never leads  *)
(* to a LogicBlock that was freed.                                         *)
THEOREM ReportedIsStored == Spec => []StoredWhenReported
  <1>1. TransferInv => StoredWhenReported
    BY DEF TransferInv, Typed, Sound, Answering, StoredWhenReported, Task
  <1>2. QED
    BY <1>1, TransferInvariance, PTL

(* A download that found its range stored sends all of it, byte for byte,  *)
(* unless the block was deleted meanwhile, however many uploads write to   *)
(* the block and however often its socket is busy.                         *)
THEOREM DownloadsAreHonest == Spec => []GetHonest
  <1>1. ASSUME TransferInv PROVE GetHonest
    <2>1. ASSUME NEW t \in Get
          PROVE  /\ t \in bad => hit[t] \/ ~whole[t]
                 /\ pc[t] = "end" => got[t] = ReqLen(t)
      <3>1. t \in Task /\ Sound(t) /\ Typed
        BY <1>1 DEF TransferInv, Task
      <3>2. t \in bad => hit[t] \/ ~whole[t]
        BY <2>1, <3>1 DEF Sound, Serving
      <3>3. ASSUME pc[t] = "end" PROVE got[t] = ReqLen(t)
        <4>1. pos[t] = req[t].to + 1 /\ got[t] = pos[t] - req[t].from
          BY <2>1, <3>1, <3>3 DEF Sound, Serving, Downloads
        <4>2. QED
          BY <3>1, <4>1, ReqFacts
      <3>4. QED
        BY <3>2, <3>3
    <2>2. QED
      BY <2>1 DEF GetHonest
  <1>2. QED
    BY <1>1, TransferInvariance, PTL

=============================================================================
