--------------------------- MODULE DsSessionProofs ---------------------------
(***************************************************************************)
(* The session of a data server with the name service for any number of    *)
(* results, commands and connections that fail.                            *)
(*                                                                         *)
(* SentInOrder is about the results that have left; it holds because those *)
(* that have not, ResMessage and then fMessageQueue, continue the sequence *)
(* of those that have, and nothing is missing in all of them together but  *)
(* what was lost with a session or the process (Ordered).                  *)
(***************************************************************************)
EXTENDS DsSession, SequenceTheorems, TLAPS

(* What the state of the session says about the place Run is at. *)
Staged ==
    /\ stage = "open" => fState = "initial"
    /\ stage = "register" => fState = "sendRegister"
    /\ stage = "response" => fState = "recvResponse"
    /\ stage \in {"connected", "send"} => fState = "connected"
    /\ conn \in {"none", "syn", "up", "reset"}

Counted ==
    /\ spent \in [{"result", "turn"} -> Nat]
    /\ spent["result"] =< MaxResult
    /\ queue \in Seq(Result) /\ sent \in Seq(Result)
    /\ lost \subseteq Result
    /\ mixed \in BOOLEAN

Increasing(s) == \A i, j \in 1..Len(s) : i < j => s[i] < s[j]

(* Every result of X comes before every one of Y. *)
Before(X, Y) == \A x \in X, y \in Y : x < y

Waiting == {res} \ {Unset}

Ordered ==
    /\ Increasing(sent) /\ Increasing(queue)
    /\ Before(ToSet(sent), Waiting)
    /\ Before(ToSet(sent), ToSet(queue))
    /\ Before(Waiting, ToSet(queue))
    /\ ToSet(sent) \cup Waiting \cup ToSet(queue) \subseteq 1..spent["result"]
    /\ 1..spent["result"] \subseteq ToSet(sent) \cup lost \cup Waiting \cup ToSet(queue)

(* The inductive invariant. *)
SessionInv == SessionTypeOK /\ Staged /\ Counted /\ (~mixed => Ordered)

------------------------------------------------------------------------------
(* The invariant says what SentInOrder says. *)
LEMMA InvInOrder == SessionInv => SentInOrder
<1> SUFFICES ASSUME SessionInv PROVE SentInOrder
  OBVIOUS
<1>1. sent \in Seq(Result) /\ DOMAIN sent = 1..Len(sent)
  BY DEF SessionInv, Counted
<1>2. ASSUME ~mixed, NEW i \in DOMAIN sent, NEW j \in DOMAIN sent, i < j
      PROVE  sent[i] < sent[j]
  BY <1>1, <1>2 DEF SessionInv, Ordered, Increasing
<1>3. ASSUME ~mixed, NEW m \in Result, NEW i \in DOMAIN sent, m < sent[i]
      PROVE  m \in ToSet(sent) \cup lost
  <2>1. sent[i] \in ToSet(sent) /\ sent[i] \in Nat /\ m \in Nat
    BY <1>1, SessionAssumption DEF ToSet, Result
  <2>2. sent[i] \in 1..spent["result"] /\ spent["result"] \in Nat
    BY <1>3, <2>1 DEF SessionInv, Ordered, Counted
  <2>3. m \in 1..spent["result"]
    BY <1>3, <2>1, <2>2 DEF Result
  <2>4. \A x \in Waiting \cup ToSet(queue) : sent[i] < x
    BY <1>3, <2>1 DEF SessionInv, Ordered, Before
  <2>5. m \notin Waiting \cup ToSet(queue)
    BY <1>3, <2>1, <2>4
  <2> QED
    BY <1>3, <2>3, <2>5 DEF SessionInv, Ordered
<1> QED
  BY <1>2, <1>3 DEF SentInOrder, SessionInv

(* At the start nothing has been sent. *)
LEMMA InitSession == SessionInit => SessionInv
<1> SUFFICES ASSUME SessionInit PROVE SessionInv
  OBVIOUS
<1>0. spent = [b \in {"result", "turn"} |-> 0]
  <2>1. DOMAIN Allowed = {"result", "turn"}
    BY DEF Allowed
  <2> QED
    BY <2>1 DEF SessionInit, Nothing
<1>1. SessionTypeOK
  BY DEF SessionInit, Nothing, SessionTypeOK, Flag
<1>2. Staged
  BY DEF SessionInit, Staged
<1>3. Counted
  <2>1. /\ spent \in [{"result", "turn"} -> Nat] /\ spent["result"] =< MaxResult
    BY <1>0, SessionAssumption
  <2>2. queue \in Seq(Result) /\ sent \in Seq(Result) /\ lost \subseteq Result
    BY DEF SessionInit, Nothing
  <2>3. mixed \in BOOLEAN
    BY Zenon DEF SessionInit, Nothing
  <2> QED
    BY <2>1, <2>2, <2>3 DEF Counted
<1>4. Ordered
  <2>1. ToSet(queue) = {} /\ ToSet(sent) = {} /\ Waiting = {} /\ Len(queue) = 0 /\ Len(sent) = 0
    BY DEF SessionInit, Nothing, ToSet, Waiting
  <2>2. 1..spent["result"] = {}
    BY <1>0
  <2> QED
    BY <2>1, <2>2 DEF Ordered, Before, Increasing
<1> QED
  BY <1>1, <1>2, <1>3, <1>4 DEF SessionInv

------------------------------------------------------------------------------
(* What a step does to the results. *)

(* Nothing, except that it may mix packets. *)
Same ==
    /\ queue' = queue /\ res' = res /\ sent' = sent /\ lost' = lost
    /\ spent'["result"] = spent["result"]
    /\ mixed => mixed'

(* A result is queued. *)
More ==
    /\ queue' = Append(queue, spent["result"] + 1)
    /\ spent'["result"] = spent["result"] + 1 /\ spent["result"] < MaxResult
    /\ res' = res /\ sent' = sent /\ lost' = lost /\ mixed' = mixed

(* The first one is taken out of the queue. *)
Taken ==
    /\ res = Unset /\ queue # <<>> /\ res' = Head(queue) /\ queue' = Tail(queue)
    /\ sent' = sent /\ lost' = lost /\ mixed' = mixed
    /\ spent'["result"] = spent["result"]

(* It is sent to its end. *)
Leaves ==
    /\ res # Unset /\ res' = Unset /\ queue' = queue /\ lost' = lost
    /\ spent'["result"] = spent["result"]
    /\ \/ mixed' /\ sent' = sent
       \/ ~mixed /\ ~mixed' /\ sent' = Append(sent, res)

(* It is lost, with the others or without. *)
Gone(all) ==
    /\ res' = Unset /\ sent' = sent /\ mixed' = mixed
    /\ spent'["result"] = spent["result"]
    /\ queue' = IF all THEN <<>> ELSE queue
    /\ lost' = lost \cup Waiting \cup (IF all THEN ToSet(queue) ELSE {})

Outcome == Same \/ More \/ Taken \/ Leaves \/ Gone(TRUE) \/ Gone(FALSE)


(* Sets of a queue that changes. *)
LEMMA SetOfAppend ==
    ASSUME NEW S, NEW s \in Seq(S), NEW e \in S
    PROVE  /\ ToSet(Append(s, e)) = ToSet(s) \cup {e}
           /\ Append(s, e) \in Seq(S)
<1>1. /\ Len(s) \in Nat /\ Len(Append(s, e)) = Len(s) + 1
      /\ DOMAIN s = 1..Len(s) /\ DOMAIN Append(s, e) = 1..Len(s) + 1
      /\ Append(s, e)[Len(s) + 1] = e
      /\ \A i \in 1..Len(s) : Append(s, e)[i] = s[i]
  OBVIOUS
<1>2. ToSet(Append(s, e)) \subseteq ToSet(s) \cup {e}
  BY <1>1 DEF ToSet
<1>3. ToSet(s) \subseteq ToSet(Append(s, e))
  BY <1>1 DEF ToSet
<1>4. e \in ToSet(Append(s, e))
  BY <1>1 DEF ToSet
<1> QED
  BY <1>2, <1>3, <1>4

(* The set of a queue is that of its tail and its head. *)
LEMMA SetOfTail ==
    ASSUME NEW S, NEW s \in Seq(S), s # <<>>
    PROVE  ToSet(s) = ToSet(Tail(s)) \cup {Head(s)}
<1>1. /\ Len(s) \in Nat \ {0} /\ Len(Tail(s)) = Len(s) - 1 /\ Head(s) = s[1]
      /\ DOMAIN s = 1..Len(s) /\ DOMAIN Tail(s) = 1..Len(s) - 1
      /\ \A j \in 1..Len(s) - 1 : Tail(s)[j] = s[j + 1]
  OBVIOUS
<1>2. ToSet(Tail(s)) \cup {Head(s)} \subseteq ToSet(s)
  <2>1. \A j \in 1..Len(s) - 1 : j + 1 \in 1..Len(s)
    BY <1>1
  <2> QED
    BY <1>1, <2>1 DEF ToSet
<1>3. ASSUME NEW i \in 1..Len(s) PROVE s[i] \in ToSet(Tail(s)) \cup {Head(s)}
  <2>1. CASE i = 1
    BY <1>1, <2>1
  <2>2. CASE i # 1
    <3>1. i - 1 \in 1..Len(s) - 1 /\ i - 1 + 1 = i
      BY <1>1, <2>2
    <3>2. Tail(s)[i - 1] = s[i]
      BY <1>1, <3>1
    <3> QED
      BY <1>1, <3>1, <3>2 DEF ToSet
  <2> QED
    BY <2>1, <2>2
<1> QED
  BY <1>1, <1>2, <1>3 DEF ToSet

(* Order of a queue that changes. *)
LEMMA IncreasingAppend ==
    ASSUME NEW s \in Seq(Nat), NEW e \in Nat, Increasing(s), Before(ToSet(s), {e})
    PROVE  Increasing(Append(s, e))
<1>1. /\ Len(s) \in Nat /\ Len(Append(s, e)) = Len(s) + 1
      /\ Append(s, e)[Len(s) + 1] = e
      /\ \A i \in 1..Len(s) : Append(s, e)[i] = s[i]
      /\ DOMAIN s = 1..Len(s)
  OBVIOUS
<1>2. \A i \in 1..Len(s) : s[i] < e
  BY <1>1 DEF Before, ToSet
<1> QED
  BY <1>1, <1>2 DEF Increasing

(* Of an increasing queue the head comes before the tail. *)
LEMMA IncreasingTail ==
    ASSUME NEW s \in Seq(Nat), s # <<>>, Increasing(s)
    PROVE  Increasing(Tail(s)) /\ Before({Head(s)}, ToSet(Tail(s)))
<1>1. /\ Len(s) \in Nat \ {0} /\ Len(Tail(s)) = Len(s) - 1 /\ Head(s) = s[1]
      /\ DOMAIN Tail(s) = 1..Len(s) - 1
      /\ \A j \in 1..Len(s) - 1 : Tail(s)[j] = s[j + 1]
  OBVIOUS
<1>2. \A j \in 1..Len(s) - 1 : j + 1 \in 1..Len(s) /\ 1 < j + 1 /\ 1 \in 1..Len(s)
  BY <1>1
<1>3. Increasing(Tail(s))
  BY <1>1, <1>2 DEF Increasing
<1>4. \A j \in 1..Len(s) - 1 : s[1] < Tail(s)[j]
  BY <1>1, <1>2 DEF Increasing
<1> QED
  BY <1>1, <1>3, <1>4 DEF Before, ToSet

(* Each outcome keeps the order. *)
LEMMA OrderKept ==
    ASSUME SessionTypeOK, Counted, ~mixed => Ordered, Outcome, ~mixed' PROVE Ordered'
<1> DEFINE n == spent["result"]
<1>0. /\ queue \in Seq(Result) /\ sent \in Seq(Result) /\ n \in Nat
      /\ Result \subseteq Nat /\ MaxResult \in Nat /\ Unset \notin Result
      /\ res \in Result \cup {Unset}
  BY SessionAssumption DEF Counted, Result, SessionTypeOK
<1>s. queue \in Seq(Nat) /\ sent \in Seq(Nat)
  BY <1>0, SeqMonotonic
<1>1. ~mixed /\ Ordered
  BY DEF Outcome, Same, More, Taken, Leaves, Gone
<1>2. CASE Same
  BY <1>1, <1>2 DEF Same, Ordered, Waiting
<1>3. CASE More
  <2>1. n + 1 \in Result
    BY <1>0, <1>3 DEF More, Result
  <2>2. /\ ToSet(queue') = ToSet(queue) \cup {n + 1} /\ queue' = Append(queue, n + 1)
        /\ sent' = sent /\ Waiting' = Waiting /\ lost' = lost /\ spent'["result"] = n + 1
    BY <1>0, <1>3, <2>1, SetOfAppend DEF More, Waiting
  <2>3. \A x \in 1..n : x < n + 1
    BY <1>0
  <2>4. Before(ToSet(sent), {n + 1}) /\ Before(Waiting, {n + 1}) /\ Before(ToSet(queue), {n + 1})
    BY <1>1, <2>3 DEF Ordered, Before
  <2>5. Increasing(queue')
    <3>1. n + 1 \in Nat /\ Increasing(queue)
      BY <1>0, <1>1 DEF Ordered
    <3> HIDE DEF n
    <3>2. Increasing(Append(queue, n + 1))
      BY <1>s, <2>4, <3>1, IncreasingAppend
    <3> QED
      BY <2>2, <3>2
  <2>6. 1..(n + 1) = (1..n) \cup {n + 1}
    BY <1>0
  <2>7. /\ Before(ToSet(sent), ToSet(queue) \cup {n + 1})
        /\ Before(Waiting, ToSet(queue) \cup {n + 1})
    BY <1>1, <2>4 DEF Ordered, Before
  <2> HIDE DEF n
  <2> QED
    BY <1>1, <2>2, <2>5, <2>6, <2>7 DEF Ordered, n
<1>4. CASE Taken
  <2>1. /\ res = Unset /\ queue # <<>> /\ res' = Head(queue) /\ queue' = Tail(queue)
        /\ sent' = sent /\ lost' = lost /\ spent'["result"] = n
    BY <1>4 DEF Taken
  <2>2. /\ ToSet(queue) = ToSet(queue') \cup {res'} /\ Head(queue) \in Result
    BY <1>0, <2>1, SetOfTail, HeadTailProperties
  <2>3. Waiting = {} /\ Waiting' = {res'}
    BY <1>0, <2>1, <2>2 DEF Waiting
  <2>4. Increasing(queue') /\ Before({res'}, ToSet(queue'))
    BY <1>s, <1>1, <2>1, IncreasingTail DEF Ordered
  <2> QED
    BY <1>1, <2>1, <2>2, <2>3, <2>4 DEF Ordered, Before
<1>5. CASE Leaves
  <2>1. /\ res \in Result /\ res' = Unset /\ queue' = queue /\ lost' = lost
        /\ spent'["result"] = n /\ sent' = Append(sent, res)
    BY <1>0, <1>5 DEF Leaves
  <2>2. ToSet(sent') = ToSet(sent) \cup {res}
    BY <1>0, <2>1, SetOfAppend
  <2>3. Waiting = {res} /\ Waiting' = {}
    BY <1>0, <2>1 DEF Waiting
  <2>4. Increasing(sent')
    BY <1>0, <1>s, <1>1, <2>1, <2>3, IncreasingAppend DEF Ordered
  <2> QED
    BY <1>1, <2>1, <2>2, <2>3, <2>4 DEF Ordered, Before
<1>6. ASSUME NEW all \in BOOLEAN, Gone(all) PROVE Ordered'
  <2>1. /\ sent' = sent /\ Waiting' = {} /\ spent'["result"] = n
        /\ lost' = lost \cup Waiting \cup (IF all THEN ToSet(queue) ELSE {})
        /\ queue' = IF all THEN <<>> ELSE queue
    BY <1>6 DEF Gone, Waiting
  <2>2. ToSet(<<>>) = {} /\ Increasing(<<>>)
    BY DEF ToSet, Increasing
  <2>3. Increasing(queue') /\ ToSet(queue') = IF all THEN {} ELSE ToSet(queue)
    BY <1>1, <2>1, <2>2 DEF Ordered
  <2> QED
    BY <1>1, <2>1, <2>3 DEF Ordered, Before
<1> QED
  BY <1>2, <1>3, <1>4, <1>5, <1>6 DEF Outcome

------------------------------------------------------------------------------
(* Every step is one of these. *)

(* Budgets. *)
LEMMA UseBudget ==
    ASSUME Counted, NEW b \in {"result", "turn"}, Use(b)
    PROVE  /\ spent' \in [{"result", "turn"} -> Nat]
           /\ b = "turn" => spent'["result"] = spent["result"]
           /\ b = "result" => /\ spent["result"] < MaxResult
                              /\ spent'["result"] = spent["result"] + 1
<1>1. Allowed["result"] = MaxResult
  BY DEF Allowed
<1> QED
  BY <1>1 DEF Counted, Use

(* A packet that is not a result is sent, or waits. *)
LEMMA OtherSent ==
    ASSUME SessionTypeOK, Counted, NEW p \in {Reg, Beat}, SendAll(p) \/ NotSent(p)
    PROVE  /\ mixed' \in BOOLEAN /\ (mixed => mixed')
           /\ fSendBuffer' \in Packet \cup {Unset}
           /\ SendAll(p) => sent' = sent
<1>1. p \notin Result /\ p \in Packet
  BY SessionAssumption DEF Result, Packet
<1>2. mixed' = (mixed \/ Goes(p) # p)
  BY DEF SendAll, NotSent
<1>3. mixed' \in BOOLEAN /\ (mixed => mixed')
  BY <1>2
<1>4. fSendBuffer' \in Packet \cup {Unset}
  BY <1>1 DEF SendAll, NotSent, Goes, SessionTypeOK
<1>5. ASSUME SendAll(p) PROVE sent' = sent
  <2>1. CASE mixed'
    BY <1>5, <2>1 DEF SendAll
  <2>2. CASE ~mixed'
    <3>1. Goes(p) = p
      BY <1>2, <2>2
    <3> QED
      BY <1>1, <1>5, <3>1 DEF SendAll
  <2> QED
    BY <2>1, <2>2
<1> QED
  BY <1>3, <1>4, <1>5

(* A result is sent. *)
LEMMA ResultSent ==
    ASSUME SessionTypeOK, Counted, res # Unset, SendAll(res) \/ NotSent(res)
    PROVE  /\ mixed' \in BOOLEAN /\ (mixed => mixed')
           /\ fSendBuffer' \in Packet \cup {Unset}
           /\ SendAll(res) => \/ mixed' /\ sent' = sent
                              \/ ~mixed /\ ~mixed' /\ sent' = Append(sent, res)
<1>1. res \in Result /\ res \in Packet
  BY DEF SessionTypeOK, Packet
<1>2. mixed' = (mixed \/ Goes(res) # res)
  BY DEF SendAll, NotSent
<1>3. mixed' \in BOOLEAN /\ (mixed => mixed')
  BY <1>2
<1>4. fSendBuffer' \in Packet \cup {Unset}
  BY <1>1 DEF SendAll, NotSent, Goes, SessionTypeOK
<1>5. ASSUME SendAll(res)
      PROVE  \/ mixed' /\ sent' = sent
             \/ ~mixed /\ ~mixed' /\ sent' = Append(sent, res)
  <2>1. CASE mixed'
    BY <1>5, <2>1 DEF SendAll
  <2>2. CASE ~mixed'
    <3>1. Goes(res) = res /\ ~mixed
      BY <1>2, <2>2
    <3> QED
      BY <1>1, <1>5, <2>2, <3>1 DEF SendAll
  <2> QED
    BY <2>1, <2>2
<1> QED
  BY <1>3, <1>4, <1>5

(* What the types need besides the outcome. *)
Typed ==
    /\ spent' \in [{"result", "turn"} -> Nat]
    /\ mixed' \in BOOLEAN
    /\ fSendBuffer' \in Packet \cup {Unset}

(* A step that leaves results alone and the rest well typed. *)
LEMMA SameTyped ==
    ASSUME SessionTypeOK, Counted, queue' = queue, res' = res, sent' = sent, lost' = lost,
           UNCHANGED spent \/ Use("turn"),
           mixed' \in BOOLEAN, mixed => mixed', fSendBuffer' \in Packet \cup {Unset}
    PROVE  Same /\ Typed
<1>1. spent' \in [{"result", "turn"} -> Nat] /\ spent'["result"] = spent["result"]
  BY UseBudget DEF Counted
<1> QED
  BY <1>1 DEF Same, Typed

(* Steps of the task that send nothing, and those of the others. *)
LEMMA QuietOutcome ==
    ASSUME SessionTypeOK, Counted,
           \/ Run \/ Return \/ ReturnIdle \/ IdleFires \/ EventSignal
           \/ Open \/ Refused \/ Response \/ ResponseWaits \/ ReadPart \/ NoInput
           \/ Timer \/ NoResult \/ QueueEmpty \/ SignalWrite
           \/ Connects \/ Answer \/ Drain \/ SendCommand \/ Reset \/ Fill
    PROVE  Outcome /\ Typed
<1>1. /\ queue' = queue /\ res' = res /\ fSendBuffer' = fSendBuffer
      /\ sent' = sent /\ lost' = lost
      /\ (UNCHANGED spent \/ Use("turn"))
  BY DEF Run, Return, ReturnIdle, IdleFires, EventSignal, Open, Refused, Response,
     ResponseWaits, ReadPart, NoInput, Timer, NoResult, QueueEmpty, SignalWrite,
     Connects, Answer, Drain, SendCommand, Reset, Fill, outbox, ghost
<1>2. mixed' = mixed
  BY DEF Run, Return, ReturnIdle, IdleFires, EventSignal, Open, Refused, Response,
     ResponseWaits, ReadPart, NoInput, Timer, NoResult, QueueEmpty, SignalWrite,
     Connects, Answer, Drain, SendCommand, Reset, Fill, outbox, ghost
<1>3. mixed' \in BOOLEAN /\ (mixed => mixed') /\ fSendBuffer' \in Packet \cup {Unset}
  BY <1>1, <1>2 DEF Counted, SessionTypeOK
<1> QED
  BY <1>1, <1>3, SameTyped DEF Outcome

(* Registration and heartbeats. *)
LEMMA BeatOutcome ==
    ASSUME SessionTypeOK, Counted,
           Register \/ RegisterAgain \/ Heartbeat \/ HeartbeatWaits
    PROVE  Outcome /\ Typed
<1>1. queue' = queue /\ res' = res /\ lost' = lost /\ UNCHANGED spent
  BY DEF Register, RegisterAgain, Heartbeat, HeartbeatWaits
<1>2. \E p \in {Reg, Beat} : SendAll(p) \/ (NotSent(p) /\ sent' = sent)
  BY DEF Register, RegisterAgain, Heartbeat, HeartbeatWaits
<1>3. /\ mixed' \in BOOLEAN /\ (mixed => mixed')
      /\ fSendBuffer' \in Packet \cup {Unset} /\ sent' = sent
  BY <1>2, OtherSent
<1> QED
  BY <1>1, <1>3, SameTyped DEF Outcome

(* Results. *)
LEMMA ResultOutcome ==
    ASSUME SessionTypeOK, Counted, SendResult \/ SendWaits
    PROVE  Outcome /\ Typed
<1>1. res # Unset /\ queue' = queue /\ lost' = lost /\ UNCHANGED spent
  BY DEF SendResult, SendWaits
<1>2. CASE SendResult
  <2>1. res' = Unset /\ SendAll(res)
    BY <1>2 DEF SendResult
  <2>2. Leaves /\ mixed' \in BOOLEAN /\ fSendBuffer' \in Packet \cup {Unset}
    BY <1>1, <2>1, ResultSent DEF Leaves
  <2> QED
    BY <1>1, <2>2 DEF Outcome, Typed, Counted
<1>3. CASE SendWaits
  <2>1. res' = res /\ NotSent(res) /\ sent' = sent
    BY <1>3 DEF SendWaits
  <2>2. mixed' \in BOOLEAN /\ (mixed => mixed') /\ fSendBuffer' \in Packet \cup {Unset}
    BY <1>1, <2>1, ResultSent
  <2> QED
    BY <1>1, <2>1, <2>2, SameTyped DEF Outcome
<1> QED
  BY <1>2, <1>3

(* A result is queued by a command or a transfer, or taken by the task. *)
LEMMA QueueOutcome ==
    ASSUME SessionTypeOK, Counted, Command \/ AddMessage \/ GetMessage
    PROVE  Outcome /\ Typed
<1>1. CASE Command \/ AddMessage
  <2>1. /\ Use("result") /\ queue' = Append(queue, spent["result"] + 1)
        /\ res' = res /\ fSendBuffer' = fSendBuffer /\ sent' = sent /\ lost' = lost
    BY <1>1 DEF Command, AddMessage, ghost
  <2>2. mixed' = mixed
    BY <1>1 DEF Command, AddMessage, ghost
  <2> QED
    BY <2>1, <2>2, UseBudget DEF Outcome, More, Typed, Counted, SessionTypeOK
<1>2. CASE GetMessage
  <2>1. /\ res = Unset /\ queue # <<>> /\ res' = Head(queue) /\ queue' = Tail(queue)
        /\ fSendBuffer' = fSendBuffer /\ sent' = sent /\ lost' = lost /\ spent' = spent
    BY <1>2 DEF GetMessage, ghost
  <2>2. mixed' = mixed
    BY <1>2 DEF GetMessage, ghost
  <2> QED
    BY <2>1, <2>2 DEF Outcome, Taken, Typed, Counted, SessionTypeOK
<1> QED
  BY <1>1, <1>2

(* The session ends, or the process. *)
LEMMA EndOutcome ==
    ASSUME SessionTypeOK, Counted, SendFails \/ Dies PROVE Outcome /\ Typed
<1>1. CASE SendFails
  <2>1. /\ res' = Unset /\ sent' = sent /\ spent' = spent /\ queue' = queue
        /\ lost' = lost \cup Waiting /\ fSendBuffer' = Unset
    BY <1>1 DEF SendFails, again, NoSocket, Waiting
  <2>2. mixed' = mixed
    BY <1>1 DEF SendFails, again
  <2>3. Gone(FALSE)
    BY <2>1, <2>2 DEF Gone
  <2> QED
    BY <2>1, <2>2, <2>3 DEF Outcome, Typed, Counted
<1>2. CASE Dies
  <2>1. /\ res' = Unset /\ sent' = sent /\ spent' = spent /\ queue' = <<>>
        /\ lost' = lost \cup Waiting \cup ToSet(queue) /\ fSendBuffer' = Unset
    BY <1>2 DEF Dies, NoSocket, Waiting
  <2>2. mixed' = mixed
    BY <1>2 DEF Dies
  <2>3. Gone(TRUE)
    BY <2>1, <2>2 DEF Gone
  <2> QED
    BY <2>1, <2>2, <2>3 DEF Outcome, Typed, Counted
<1> QED
  BY <1>1, <1>2

(* Every step has one of the outcomes. *)
LEMMA StepOutcome ==
    ASSUME SessionTypeOK, Counted, [SessionNext]_sessionVars PROVE Outcome /\ Typed
<1>1. CASE RegisterFails \/ ResponseFails \/ RecvFails \/ HeartbeatFails
           \/ SendResultFails \/ Refuse
  BY <1>1, EndOutcome
     DEF RegisterFails, ResponseFails, RecvFails, HeartbeatFails, SendResultFails, Refuse
<1>2. ASSUME UNCHANGED outbox, UNCHANGED ghost, UNCHANGED spent PROVE Outcome /\ Typed
  <2>1. /\ queue' = queue /\ res' = res /\ fSendBuffer' = fSendBuffer
        /\ sent' = sent /\ lost' = lost
    BY <1>2 DEF outbox, ghost
  <2>2. mixed' = mixed
    BY <1>2 DEF ghost
  <2>3. mixed' \in BOOLEAN /\ (mixed => mixed') /\ fSendBuffer' \in Packet \cup {Unset}
    BY <2>1, <2>2 DEF Counted, SessionTypeOK
  <2> QED
    BY <1>2, <2>1, <2>3, SameTyped DEF Outcome
<1>3. CASE Garbled
  BY <1>2, <1>3, EndOutcome DEF Garbled
<1>4. CASE UNCHANGED sessionVars
  BY <1>2, <1>4 DEF sessionVars
<1> QED
  BY <1>1, <1>3, <1>4, QuietOutcome, BeatOutcome, ResultOutcome, QueueOutcome
     DEF SessionNext, TaskThread, InRun, Peer

(* The counts after an outcome. *)
LEMMA CountedKept ==
    ASSUME SessionTypeOK, Counted, Outcome, Typed
    PROVE  Counted' /\ res' \in Result \cup {Unset}
<1>0. queue \in Seq(Result) /\ sent \in Seq(Result) /\ res \in Result \cup {Unset}
      /\ lost \subseteq Result /\ spent["result"] \in Nat /\ MaxResult \in Nat
      /\ spent["result"] =< MaxResult
  BY SessionAssumption DEF Counted, SessionTypeOK
<1>1. ToSet(queue) \subseteq Result /\ Waiting \subseteq Result
  BY <1>0 DEF ToSet, Waiting
<1>2. /\ queue' \in Seq(Result) /\ res' \in Result \cup {Unset}
  <2>1. CASE More
    <3>1. spent["result"] + 1 \in Result
      BY <1>0, <2>1 DEF More, Result
    <3> QED
      BY <1>0, <2>1, <3>1 DEF More
  <2>2. CASE Taken
    BY <1>0, <2>2, HeadTailProperties DEF Taken
  <2>3. CASE Gone(TRUE)
    BY <1>0, <2>3 DEF Gone
  <2>4. CASE Gone(FALSE)
    BY <1>0, <2>4 DEF Gone
  <2> QED
    BY <1>0, <2>1, <2>2, <2>3, <2>4 DEF Outcome, Same, Leaves
<1>3. sent' \in Seq(Result)
  <2>1. CASE Leaves
    BY <1>0, <2>1 DEF Leaves
  <2> QED
    BY <1>0, <2>1 DEF Outcome, Same, More, Taken, Gone
<1>4. lost' \subseteq Result
  BY <1>0, <1>1 DEF Outcome, Same, More, Taken, Leaves, Gone
<1>5. spent'["result"] =< MaxResult
  BY <1>0 DEF Outcome, Same, More, Taken, Leaves, Gone
<1> QED
  BY <1>2, <1>3, <1>4, <1>5 DEF Counted, Typed

------------------------------------------------------------------------------
(* Where the task and the connection are. *)

(* The part of the types that says where the task is, and that of the      *)
(* session and its socket.                                                 *)
Tasked ==
    /\ fEvents \subseteq Flag /\ seen \subseteq Flag
    /\ ("alive" \in fEvents) = (stage # "off")
Linked ==
    /\ fState \in {"initial", "sendRegister", "recvResponse", "connected"}
    /\ (conn = "none") = (fState = "initial")
    /\ Staged

(* A Signal keeps the flag of the task that is queued or runs. *)
LEMMA SignalTasked ==
    ASSUME Tasked, Linked, NEW e \in Flag, Signal(e),
           seen' = seen, fState' = fState, conn' = conn
    PROVE  Tasked' /\ Linked'
<1>1. fEvents' \subseteq Flag /\ "alive" \in fEvents' /\ stage' # "off"
  BY DEF Signal, Flag, Tasked
<1>2. stage' = stage \/ stage' = "due"
  BY DEF Signal
<1> QED
  BY <1>1, <1>2 DEF Tasked, Linked, Staged

(* The scheduler. *)
LEMMA SchedulerLinked ==
    ASSUME Tasked, Linked,
           \/ Run \/ Return \/ ReturnIdle \/ IdleFires \/ EventSignal \/ SignalWrite \/ Command
    PROVE  Tasked' /\ Linked'
<1>1. CASE IdleFires \/ EventSignal \/ SignalWrite \/ Command
  <2>1. \E e \in Flag : Signal(e)
    BY <1>1 DEF IdleFires, EventSignal, SignalWrite, Command, Flag
  <2>2. seen' = seen /\ fState' = fState /\ conn' = conn
    BY <1>1 DEF IdleFires, EventSignal, SignalWrite, Command, net
  <2> QED
    BY <2>1, <2>2, SignalTasked
<1>2. CASE Run
  <2>1. /\ seen' \subseteq Flag /\ fEvents' = {"alive"} /\ stage' = Body(fState)
        /\ fState' = fState /\ conn' = conn
    BY <1>2 DEF Run, net, Tasked
  <2>2. Tasked'
    BY <2>1 DEF Tasked, Linked, Body, Flag
  <2>3. Linked'
    BY <2>1 DEF Linked, Staged, Body
  <2> QED
    BY <2>2, <2>3
<1>3. CASE Return
  <2>1. /\ seen' = {} /\ fState' = fState /\ conn' = conn /\ stage = "return"
        /\ \/ fEvents' = {} /\ stage' = "off"
           \/ fEvents' = fEvents /\ stage' = "due"
    BY <1>3 DEF Return, net
  <2> QED
    BY <2>1 DEF Tasked, Linked, Staged
<1>4. CASE ReturnIdle
  <2>1. /\ seen' = {} /\ fState' = fState /\ conn' = conn /\ stage = "returnIdle"
        /\ fEvents' = fEvents \cup {"idle"} /\ stage' = "due"
    BY <1>4 DEF ReturnIdle, net
  <2> QED
    BY <2>1 DEF Tasked, Linked, Staged, Flag
<1> QED
  BY <1>1, <1>2, <1>3, <1>4

(* Steps of Run that set the session up. *)
LEMMA SetUpLinked ==
    ASSUME Tasked, Linked,
           Open \/ Refused \/ Register \/ RegisterAgain \/ Response \/ ResponseWaits
    PROVE  Tasked' /\ Linked'
<1>1. fEvents' = fEvents /\ seen' = seen /\ stage # "off" /\ stage' # "off"
  BY DEF Open, Refused, Register, RegisterAgain, Response, ResponseWaits
<1>2. \/ conn' \in {"syn", "up"} /\ fState' = "sendRegister" /\ stage' \in {"return", "register"}
      \/ /\ conn' = conn /\ fState' = fState
         /\ stage' \in {"return", "returnIdle"}
      \/ /\ conn' = conn /\ conn = "up" /\ fState' = "recvResponse" /\ stage' = "response"
      \/ /\ conn' = conn /\ fState = "recvResponse" /\ fState' = "connected"
         /\ stage' = "connected"
  BY DEF Open, Refused, Register, RegisterAgain, Response, ResponseWaits, Linked, Staged, net
<1> QED
  BY <1>1, <1>2 DEF Tasked, Linked, Staged

(* Steps of Run in a session that is connected. *)
LEMMA ConnectedLinked ==
    ASSUME Tasked, Linked,
           \/ NoInput \/ Timer \/ Heartbeat \/ HeartbeatWaits \/ NoResult \/ GetMessage
           \/ QueueEmpty \/ SendResult \/ SendWaits
    PROVE  Tasked' /\ Linked'
<1>1. /\ fEvents' = fEvents /\ seen' \subseteq seen /\ fState' = fState /\ conn' = conn
      /\ stage \in {"connected", "send"}
  BY DEF NoInput, Timer, Heartbeat, HeartbeatWaits, NoResult, GetMessage, QueueEmpty,
     SendResult, SendWaits, Receiving, Beating, InSend, Sending, net
<1>2. stage' \in {stage, "send", "return"}
  BY DEF NoInput, Timer, Heartbeat, HeartbeatWaits, NoResult, GetMessage, QueueEmpty,
     SendResult, SendWaits
<1> QED
  BY <1>1, <1>2 DEF Tasked, Linked, Staged

(* Steps of Run after which there is no session. *)
LEMMA EndLinked ==
    ASSUME Tasked, Linked, Dies \/ (SendFails /\ stage # "off")
    PROVE  Tasked' /\ Linked'
<1>1. CASE Dies
  <2>1. /\ fEvents' = {"start", "alive"} /\ seen' = {} /\ stage' = "due"
        /\ fState' = "initial" /\ conn' = "none"
    BY <1>1 DEF Dies, NoSocket
  <2> QED
    BY <2>1 DEF Tasked, Linked, Staged, Flag
<1>2. CASE SendFails /\ stage # "off"
  <2>1. /\ fEvents' = fEvents /\ seen' = seen /\ stage' = "returnIdle"
        /\ fState' = "initial" /\ conn' = "none"
    BY <1>2 DEF SendFails, again, NoSocket
  <2> QED
    BY <1>2, <2>1 DEF Tasked, Linked, Staged
<1> QED
  BY <1>1, <1>2

(* Steps that leave the task alone, those of the network among them. *)
LEMMA OthersLinked ==
    ASSUME Tasked, Linked,
           \/ AddMessage \/ ReadPart \/ Connects \/ Answer \/ Drain \/ SendCommand
           \/ Reset \/ Fill \/ UNCHANGED <<taskVars, conn>>
    PROVE  Tasked' /\ Linked'
<1>1. fEvents' = fEvents /\ seen' = seen /\ stage' = stage /\ fState' = fState
  BY DEF AddMessage, ReadPart, Connects, Answer, Drain, SendCommand, Reset, Fill, taskVars
<1>2. \/ conn' = conn
      \/ conn # "none" /\ conn' \in {"up", "reset"}
  BY DEF AddMessage, ReadPart, Connects, Answer, Drain, SendCommand, Reset, Fill, net
<1> QED
  BY <1>1, <1>2 DEF Tasked, Linked, Staged

(* Every step. *)
LEMMA StepLinked ==
    ASSUME Tasked, Linked, [SessionNext]_sessionVars PROVE Tasked' /\ Linked'
<1>1. CASE RegisterFails \/ ResponseFails \/ RecvFails \/ HeartbeatFails
           \/ SendResultFails \/ Refuse
  <2>1. Dies \/ (SendFails /\ stage # "off")
    BY <1>1 DEF RegisterFails, ResponseFails, RecvFails, HeartbeatFails, SendResultFails,
       Refuse, Receiving, Beating, InSend, Sending
  <2> QED
    BY <2>1, EndLinked
<1>2. CASE Garbled
  <2>1. Dies \/ UNCHANGED <<taskVars, conn>>
    BY <1>2 DEF Garbled
  <2> QED
    BY <2>1, EndLinked, OthersLinked
<1>3. CASE UNCHANGED sessionVars
  <2>1. UNCHANGED <<taskVars, conn>>
    BY <1>3 DEF sessionVars, net
  <2> QED
    BY <2>1, OthersLinked
<1> QED
  BY <1>1, <1>2, <1>3, SchedulerLinked, SetUpLinked, ConnectedLinked, OthersLinked
     DEF SessionNext, TaskThread, InRun, Peer

------------------------------------------------------------------------------
(* The theorems. *)

(* Every step keeps the invariant. *)
LEMMA SessionStep == SessionInv /\ [SessionNext]_sessionVars => SessionInv'
<1> SUFFICES ASSUME SessionInv, [SessionNext]_sessionVars PROVE SessionInv'
  OBVIOUS
<1>1. /\ SessionTypeOK /\ Counted /\ (~mixed => Ordered) /\ Tasked /\ Linked
  BY DEF SessionInv, SessionTypeOK, Tasked, Linked
<1>2. Outcome /\ Typed
  BY <1>1, StepOutcome
<1>3. Tasked' /\ Linked'
  BY <1>1, StepLinked
<1>4. Counted' /\ res' \in Result \cup {Unset}
  BY <1>1, <1>2, CountedKept
<1>5. SessionTypeOK' /\ Staged'
  BY <1>2, <1>3, <1>4 DEF SessionTypeOK, Tasked, Linked, Typed, Result, Packet, Flag
<1>6. ~mixed' => Ordered'
  BY <1>1, <1>2, OrderKept
<1> QED
  BY <1>4, <1>5, <1>6 DEF SessionInv

(* The results that have left, the one in ResMessage and those in          *)
(* fMessageQueue are one sequence in the order of their numbers, with      *)
(* nothing missing but what went with a session or a process, unless a     *)
(* packet was sent where fSendBuffer held another one; and a task that is  *)
(* in a queue, a heap or Run is marked alive, a session that is not        *)
(* initial has a socket.                                                   *)
THEOREM SessionInvariance == SessionSpec => []SessionInv
<1>1. SessionInit => SessionInv
  BY InitSession
<1>2. SessionInv /\ [SessionNext]_sessionVars => SessionInv'
  BY SessionStep
<1> QED
  BY <1>1, <1>2, PTL DEF SessionSpec

(* The name service gets every result that leaves the queue once and in    *)
(* order (Sendall, AddMessage and GetMessage of NameServersession.cpp).    *)
THEOREM ResultsInOrder == SessionSpec => []SentInOrder
<1>1. SessionInv => SentInOrder
  BY InvInOrder
<1> QED
  BY <1>1, SessionInvariance, PTL
=============================================================================
