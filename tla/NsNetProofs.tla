----------------------------- MODULE NsNetProofs -----------------------------
(***************************************************************************)
(* Proofs about NsNet for any number of nodes, data servers, messages and  *)
(* faults: the pool of connections, the map of data servers, the framing   *)
(* of messages and the delay queue.                                        *)
(***************************************************************************)
EXTENDS NsNet, FiniteSetTheorems, SequenceTheorems, TLAPS

(* Every node is open or in free_list, in one place of it. *)
Pooled ==
    /\ ClientsCounted
    /\ \A c \in Net : c \in open <=> ~Contains(free, c)
    /\ IsInjective(free)
    /\ Len(free) + Cardinality(open) = Cardinality(Net)

(* gfs_queue_remove and the cursor never follow a null pointer, except at  *)
(* a node that was set up again: whoever has input noted was linked after  *)
(* that, and the head of the queue always is.                              *)
Chained ==
    /\ next[Ring] # Null /\ prev[Ring] # Null
    /\ \A c \in Net : "read" \in ready[c] => Linked(c)
    /\ phase = "spin" => q \in Net

(* A connection only ever logs in as the data server at its other end. *)
Named ==
    /\ MapLive
    /\ \A c \in open : user[c] \in {NoDS, peer[c]}

Buffered == \A c \in Net : Len(rbuf[c]) =< RbufLen

(* The inductive invariant behind PoolSound and MapLive. *)
NetInv == NetTypeOK /\ Pooled /\ Chained /\ Named /\ Buffered

(* As long as nothing arrives torn and nobody blocks, epoll is only asked  *)
(* for input, and what a connection has in rbuf and in the kernel is a     *)
(* sequence of whole messages, wherever the end of rbuf cut it.            *)
Calm == used.torn = 0 /\ used.block = 0

Quiet ==
    \A c \in Net : /\ ~blocked[c] /\ torn[c] = "none"
                   /\ flag[c] = "in" /\ "out" \notin edge[c] /\ "write" \notin ready[c]

Framed(s) ==
    \E m \in Nat :
        /\ Len(s) = 2 * m
        /\ \A i \in 1 .. m : s[2 * i - 1][2] = 1 /\ s[2 * i] = <<s[2 * i - 1][1], 2>>

Streams == \A c \in Net : Framed(rbuf[c] \o inq[c])

(* The inductive invariant behind WholeKept. *)
KeptInv == Calm => ~dropped /\ Quiet /\ Streams
-----------------------------------------------------------------------------
(* Numbers and sequences.                                                  *)

(* A set of naturals has a least element ... *)
LEMMA MinOf ==
    ASSUME NEW S, S \subseteq Nat, S # {}
    PROVE  Min(S) \in S /\ \A y \in S : Min(S) =< y
  <1> DEFINE R == OpToRel(<, Nat)
  <1>1. IsWellFoundedOn(R, Nat)
    BY NatLessThanWellFounded
  <1>2. \A a, b \in Nat : a < b => <<a, b>> \in R
    BY DEF OpToRel
  <1> HIDE DEF R
  <1>3. PICK x \in S : \A y \in S : ~(<<y, x>> \in R)
    BY <1>1, WFMin
  <1>4. ASSUME NEW y \in S PROVE x =< y
    <2>1. ~(y < x)
      BY <1>2, <1>3
    <2>2. QED
      BY <2>1
  <1>5. \E z \in S : \A y \in S : z =< y
    BY <1>4
  <1>6. QED
    BY <1>5 DEF Min

(* ... and a bounded one has a largest. *)
LEMMA MaxOf ==
    ASSUME NEW K \in Nat, NEW S, S \subseteq 0 .. K, S # {}
    PROVE  Max(S) \in S /\ \A y \in S : y =< Max(S)
  <1> DEFINE T == {k \in Nat : K - k \in S}
  <1>1. T \subseteq Nat /\ T # {}
    <2>1. PICK y \in S : TRUE
      OBVIOUS
    <2>2. K - y \in Nat /\ K - (K - y) = y
      BY <2>1
    <2>3. K - y \in T
      BY <2>1, <2>2
    <2>4. QED
      BY <2>3
  <1>2. Min(T) \in T /\ \A k \in T : Min(T) =< k
    BY <1>1, MinOf
  <1>3. K - Min(T) \in S /\ Min(T) \in Nat
    BY <1>2
  <1>4. ASSUME NEW y \in S PROVE K - Min(T) >= y
    <2>1. y \in Nat /\ K - y \in Nat /\ K - (K - y) = y
      OBVIOUS
    <2>2. K - y \in T
      BY <2>1
    <2>3. Min(T) =< K - y
      BY <1>2, <2>2
    <2>4. QED
      BY <1>3, <2>1, <2>3
  <1>5. \E x \in S : \A y \in S : x >= y
    BY <1>3, <1>4
  <1>6. Max(S) \in S /\ \A y \in S : Max(S) >= y
    BY <1>5 DEF Max
  <1>7. QED
    BY <1>6

(* RemoveAt, place by place. *)
LEMMA RemoveAtPlaces ==
    ASSUME NEW X, NEW s \in Seq(X), NEW i \in 1 .. Len(s)
    PROVE  /\ RemoveAt(s, i) \in Seq(X)
           /\ Len(RemoveAt(s, i)) = Len(s) - 1
           /\ \A j \in 1 .. Len(s) - 1 :
                RemoveAt(s, i)[j] = IF j < i THEN s[j] ELSE s[j + 1]
  <1> DEFINE a == SubSeq(s, 1, i - 1)
             b == SubSeq(s, i + 1, Len(s))
  <1>0. Len(s) \in Nat /\ i \in Nat
    OBVIOUS
  <1>1. /\ a \in Seq(X) /\ Len(a) = i - 1
        /\ \A j \in 1 .. i - 1 : a[j] = s[j]
    BY <1>0
  <1>2. /\ b \in Seq(X) /\ Len(b) = Len(s) - i
        /\ \A j \in 1 .. Len(s) - i : b[j] = s[i + j]
    BY <1>0
  <1> HIDE DEF a, b
  <1>3. RemoveAt(s, i) = a \o b
    BY DEF RemoveAt, a, b
  <1>4. /\ a \o b \in Seq(X) /\ Len(a \o b) = Len(s) - 1
    <2>1. /\ a \o b \in Seq(X) /\ Len(a \o b) = Len(a) + Len(b)
      BY <1>1, <1>2, ConcatProperties
    <2>2. QED
      BY <1>0, <1>1, <1>2, <2>1
  <1>5. ASSUME NEW j \in 1 .. Len(s) - 1
        PROVE  (a \o b)[j] = IF j < i THEN s[j] ELSE s[j + 1]
    <2>1. CASE j < i
      BY <1>0, <1>1, <1>2, <2>1
    <2>2. CASE ~(j < i)
      <3>1. (a \o b)[j] = b[j - (i - 1)]
        BY <1>0, <1>1, <1>2, <2>2
      <3>2. j - (i - 1) \in 1 .. Len(s) - i /\ i + (j - (i - 1)) = j + 1
        BY <1>0, <2>2
      <3>3. QED
        BY <1>2, <2>2, <3>1, <3>2
    <2>3. QED
      BY <2>1, <2>2
  <1>6. QED
    BY <1>3, <1>4, <1>5

(* gfs_queue_insert_head. *)
Push(c, t) == <<c>> \o t

(* What is put in front of a list without repetition. *)
LEMMA InFront ==
    ASSUME NEW X, NEW c \in X, NEW t \in Seq(X), IsInjective(t), ~Contains(t, c)
    PROVE  /\ Push(c, t) \in Seq(X) /\ Len(Push(c, t)) = Len(t) + 1
           /\ IsInjective(Push(c, t))
           /\ \A x : Contains(Push(c, t), x) <=> x = c \/ Contains(t, x)
  <1>0. PICK u : u = Push(c, t)
    OBVIOUS
  <1>1. /\ u \in Seq(X) /\ Len(u) = Len(t) + 1 /\ Len(t) \in Nat
        /\ \A i \in 1 .. Len(t) + 1 : u[i] = IF i = 1 THEN c ELSE t[i - 1]
    <2>1. <<c>> \in Seq(X) /\ Len(<<c>>) = 1 /\ <<c>>[1] = c
      OBVIOUS
    <2>2. /\ u \in Seq(X) /\ Len(u) = 1 + Len(t)
          /\ \A i \in 1 .. 1 + Len(t) : u[i] = IF i =< 1 THEN <<c>>[i] ELSE t[i - 1]
      <3>1. u = <<c>> \o t
        BY <1>0 DEF Push
      <3>2. QED
        BY <2>1, <3>1, ConcatProperties
    <2>3. Len(t) \in Nat
      OBVIOUS
    <2>4. QED
      BY <2>1, <2>2, <2>3
  <1>2. ASSUME NEW i \in 1 .. Len(u), NEW j \in 1 .. Len(u), u[i] = u[j] PROVE i = j
    <2>1. /\ i = 1 \/ i - 1 \in 1 .. Len(t)
          /\ j = 1 \/ j - 1 \in 1 .. Len(t)
      BY <1>1
    <2>2. CASE i = 1 \/ j = 1
      BY <1>1, <1>2, <2>1, <2>2 DEF Contains
    <2>3. CASE i # 1 /\ j # 1
      <3>1. i - 1 = j - 1
        BY <1>1, <1>2, <2>1, <2>3 DEF IsInjective
      <3>2. QED
        BY <1>1, <3>1
    <2>4. QED
      BY <2>2, <2>3
  <1>3. ASSUME NEW x PROVE Contains(u, x) <=> x = c \/ Contains(t, x)
    <2>1. ASSUME NEW i \in 1 .. Len(u), u[i] = x
          PROVE  x = c \/ \E k \in 1 .. Len(t) : t[k] = x
      <3>1. i = 1 \/ i - 1 \in 1 .. Len(t)
        BY <1>1
      <3>2. QED
        BY <1>1, <2>1, <3>1
    <2>2. u[1] = c /\ 1 \in 1 .. Len(u)
      BY <1>1
    <2>3. ASSUME NEW i \in 1 .. Len(t) PROVE i + 1 \in 1 .. Len(u) /\ u[i + 1] = t[i]
      BY <1>1
    <2>4. QED
      BY <2>1, <2>2, <2>3 DEF Contains
  <1>4. DOMAIN u = 1 .. Len(u)
    BY <1>1
  <1>5. QED
    BY <1>0, <1>1, <1>2, <1>3, <1>4 DEF IsInjective

(* gfs_queue_remove takes c out of a list without repetition. *)
LEMMA Unlist ==
    ASSUME NEW X, NEW s \in Seq(X), NEW c \in X, IsInjective(s),
           NEW t, t = RemoveFirst(s, c)
    PROVE  /\ t \in Seq(X)
           /\ IsInjective(t) /\ ~Contains(t, c)
           /\ \A x : x # c => (Contains(t, x) <=> Contains(s, x))
           /\ Contains(s, c) => Len(t) = Len(s) - 1
           /\ ~Contains(s, c) => Len(t) = Len(s)
  <1>0. Len(s) \in Nat
    OBVIOUS
  <1>1. CASE ~Contains(s, c)
    BY <1>1 DEF RemoveFirst, Contains
  <1>2. CASE Contains(s, c)
    <2> DEFINE I == {i \in 1 .. Len(s) : s[i] = c}
               m == Min(I)
    <2>1. t = RemoveAt(s, m) /\ I # {} /\ I \subseteq Nat
      BY <1>2 DEF RemoveFirst, SelectInSeq, Contains
    <2>2. m \in 1 .. Len(s) /\ s[m] = c
      <3>1. m \in I
        BY <2>1, MinOf
      <3>2. QED
        BY <3>1
    <2> HIDE DEF m
    <2>3. /\ t \in Seq(X) /\ Len(t) = Len(s) - 1
          /\ \A j \in 1 .. Len(s) - 1 : t[j] = IF j < m THEN s[j] ELSE s[j + 1]
      <3>1. /\ RemoveAt(s, m) \in Seq(X) /\ Len(RemoveAt(s, m)) = Len(s) - 1
            /\ \A j \in 1 .. Len(s) - 1 :
                 RemoveAt(s, m)[j] = IF j < m THEN s[j] ELSE s[j + 1]
        BY <2>2, RemoveAtPlaces
      <3>2. t = RemoveAt(s, m)
        BY <2>1
      <3>3. QED
        BY <3>1, <3>2
    <2> DEFINE at(j) == IF j < m THEN j ELSE j + 1
    <2>4. \A j \in 1 .. Len(t) : at(j) \in 1 .. Len(s) /\ at(j) # m /\ t[j] = s[at(j)]
      BY <1>0, <2>2, <2>3
    <2>5. \A i, j \in 1 .. Len(t) : at(i) = at(j) => i = j
      BY <1>0, <2>2, <2>3
    <2>6. ASSUME NEW i \in 1 .. Len(s), i # m
          PROVE  \E j \in 1 .. Len(t) : at(j) = i
      <3>1. CASE i < m
        <4>1. i \in 1 .. Len(t) /\ at(i) = i
          BY <1>0, <2>2, <2>3, <3>1
        <4>2. QED
          BY <4>1
      <3>2. CASE ~(i < m)
        <4>1. i - 1 \in 1 .. Len(t) /\ at(i - 1) = i
          BY <1>0, <2>2, <2>3, <2>6, <3>2
        <4>2. QED
          BY <4>1
      <3>3. QED
        BY <3>1, <3>2
    <2> HIDE DEF at
    <2>7. IsInjective(t)
      <3>1. DOMAIN t = 1 .. Len(t) /\ DOMAIN s = 1 .. Len(s)
        BY <2>3
      <3>2. QED
        BY <2>4, <2>5, <3>1 DEF IsInjective
    <2>8. ~Contains(t, c)
      BY <2>2, <2>4 DEF Contains, IsInjective
    <2>9. ASSUME NEW x, x # c PROVE Contains(t, x) <=> Contains(s, x)
      <3>1. ASSUME NEW i \in 1 .. Len(s), s[i] = x
            PROVE  \E j \in 1 .. Len(t) : t[j] = x
        BY <2>2, <2>4, <2>6, <2>9, <3>1
      <3>2. QED
        BY <2>4, <3>1 DEF Contains
    <2>10. QED
      BY <1>2, <2>3, <2>7, <2>8, <2>9
  <1>3. QED
    BY <1>1, <1>2

(* gfs_queue_remove and gfs_queue_insert_head: a list without repetition   *)
(* stays one, and c is in it.                                              *)
LEMMA Relist ==
    ASSUME NEW X, NEW s \in Seq(X), NEW c \in X, IsInjective(s)
    PROVE  LET r == Push(c, RemoveFirst(s, c)) IN
           /\ r \in Seq(X)
           /\ IsInjective(r)
           /\ \A x : Contains(r, x) <=> x = c \/ Contains(s, x)
           /\ Contains(s, c) => Len(r) = Len(s)
           /\ ~Contains(s, c) => Len(r) = Len(s) + 1
  <1>1. PICK t : t = RemoveFirst(s, c)
    OBVIOUS
  <1>2. /\ t \in Seq(X)
        /\ IsInjective(t) /\ ~Contains(t, c)
        /\ \A x : x # c => (Contains(t, x) <=> Contains(s, x))
        /\ Contains(s, c) => Len(t) = Len(s) - 1
        /\ ~Contains(s, c) => Len(t) = Len(s)
    BY <1>1, Unlist
  <1>3. /\ Push(c, t) \in Seq(X) /\ Len(Push(c, t)) = Len(t) + 1
        /\ IsInjective(Push(c, t))
        /\ \A x : Contains(Push(c, t), x) <=> x = c \/ Contains(t, x)
    BY <1>2, InFront
  <1>4. Len(s) \in Nat
    OBVIOUS
  <1>5. /\ Contains(s, c) => Len(Push(c, t)) = Len(s)
        /\ ~Contains(s, c) => Len(Push(c, t)) = Len(s) + 1
    BY <1>2, <1>3, <1>4
  <1>6. \A x : Contains(Push(c, t), x) <=> x = c \/ Contains(s, x)
    BY <1>2, <1>3
  <1>7. QED
    BY <1>1, <1>3, <1>5, <1>6

-----------------------------------------------------------------------------
(* What the parser finds in a buffer b.                                    *)
LEMMA PacketsFound ==
    ASSUME NEW b \in Seq(Half)
    PROVE  /\ Max(Whole(b)) \in Whole(b) /\ \A n \in Whole(b) : n =< Max(Whole(b))
           /\ Max(Whole(b)) \in Nat /\ 2 * Max(Whole(b)) =< Len(b)
           /\ Packets(b) \in Seq(Kind)
           /\ Len(Packets(b)) = Max(Whole(b))
           /\ Answers(Packets(b)) \in Nat
  <1> DEFINE K == Len(b) \div 2
             n == Max(Whole(b))
  <1>0. Len(b) \in Nat
    OBVIOUS
  <1>1. K \in Nat /\ 2 * K =< Len(b)
    BY <1>0
  <1> HIDE DEF K
  <1>2. Whole(b) \subseteq 0 .. K /\ Whole(b) # {}
    <2>1. 0 \in 0 .. K /\ 1 .. 0 = {}
      BY <1>1
    <2>2. 0 \in Whole(b)
      BY <2>1 DEF Whole, K
    <2>3. QED
      BY <2>2 DEF Whole, K
  <1>3. n \in Whole(b) /\ \A k \in Whole(b) : k =< n
    BY <1>1, <1>2, MaxOf
  <1>4. n \in Nat /\ 2 * n =< Len(b)
    BY <1>0, <1>1, <1>2, <1>3
  <1> HIDE DEF n
  <1>5. ASSUME NEW i \in 1 .. n PROVE b[2 * i - 1][1] \in Kind
    <2>1. 2 * i - 1 \in 1 .. Len(b)
      BY <1>0, <1>4
    <2>2. b[2 * i - 1] \in Half
      BY <2>1
    <2>3. QED
      BY <2>2 DEF Half
  <1>6. Packets(b) = [i \in 1 .. n |-> b[2 * i - 1][1]]
    BY DEF Packets, n
  <1>7. Packets(b) \in Seq(Kind) /\ Len(Packets(b)) = n /\ DOMAIN Packets(b) = 1 .. n
    BY <1>4, <1>5, <1>6
  <1>8. Answers(Packets(b)) \in Nat
    <2>1. IsFiniteSet(1 .. n)
      BY <1>4, FS_Interval
    <2>2. {i \in DOMAIN Packets(b) : Packets(b)[i] # "nte"} \in SUBSET (1 .. n)
      BY <1>7
    <2>3. QED
      BY <2>1, <2>2, FS_Subset, FS_CardinalityType DEF Answers
  <1>9. QED
    BY <1>3, <1>4, <1>7, <1>8 DEF n

(* What it leaves fits into rbuf. *)
LEMMA RestFits ==
    ASSUME NEW b \in Seq(Half)
    PROVE  Rest(b) \in Seq(Half) /\ Len(Rest(b)) =< RbufLen
  <1> DEFINE m == 2 * Len(Packets(b)) + 1
             t == SubSeq(b, m, Len(b))
  <1>1. m \in Nat /\ 1 =< m /\ m =< Len(b) + 1 /\ Len(b) \in Nat
    BY PacketsFound
  <1> HIDE DEF m
  <1>2. \A i \in m .. Len(b) : b[i] \in Half
    BY <1>1
  <1>3. t \in Seq(Half) /\ Len(t) = IF m =< Len(b) THEN Len(b) - m + 1 ELSE 0
    BY <1>1, <1>2, SubSeqProperties
  <1>4. Len(t) =< Len(b)
    BY <1>1, <1>3
  <1>5. Rest(b) = IF Len(b) = RbufLen /\ t # <<>> /\ t[1][2] = 1 THEN t ELSE <<>>
    BY DEF Rest, m
  <1> HIDE DEF t
  <1>6. <<>> \in Seq(Half) /\ Len(<<>>) = 0 /\ 0 =< RbufLen
    BY NetAssumption
  <1>7. QED
    BY <1>3, <1>4, <1>5, <1>6

-----------------------------------------------------------------------------
(* gfs_net_pool_create lists every node once. *)
LEMMA FreshPool ==
    ASSUME NEW f, f = SetToSeq(Net)
    PROVE  /\ f \in Seq(Net) /\ Len(f) = Cardinality(Net)
           /\ IsInjective(f)
           /\ \A c \in Net : Contains(f, c)
  <1> DEFINE n == Cardinality(Net)
  <1>1. IsFiniteSet(Net) /\ n \in Nat /\ ExistsBijection(1 .. n, Net)
    BY NetAssumption, FS_CardinalityType
  <1> HIDE DEF n
  <1>2. PICK g \in Bijection(1 .. n, Net) : TRUE
    BY <1>1 DEF ExistsBijection
  <1>3. g \in [1 .. n -> Net] /\ IsInjective(g)
    BY <1>2 DEF Bijection, Injection
  <1>4. f \in [1 .. n -> Net] /\ IsInjective(f)
    BY <1>3 DEF SetToSeq, n
  <1>5. f \in Seq(Net) /\ Len(f) = n /\ DOMAIN f = 1 .. n
    BY <1>1, <1>4
  <1>6. f \in Surjection(1 .. n, Net)
    <2>1. f \in Injection(1 .. n, Net)
      BY <1>4 DEF Injection
    <2>2. Cardinality(1 .. n) = Cardinality(Net)
      BY <1>1, FS_Interval DEF n
    <2>3. QED
      BY <1>1, <2>1, <2>2, FS_Injection
  <1>7. ASSUME NEW c \in Net PROVE Contains(f, c)
    BY <1>5, <1>6 DEF Surjection, Contains
  <1>8. QED
    BY <1>4, <1>5, <1>7 DEF n

(* The initial state, to which a worker that died returns. *)
LEMMA InitNet == NetInit => NetInv
  <1> SUFFICES ASSUME NetInit PROVE NetInv
    OBVIOUS
  <1>1. NetTypeOK
    BY FreshPool, NetAssumption DEF NetInit, NetTypeOK, Links, Half, Budget
  <1>2. Pooled
    <2>1. Cardinality(open) = 0 /\ open = {}
      BY FS_EmptySet DEF NetInit
    <2>2. Len(free) = Cardinality(Net) /\ Cardinality(Net) \in Nat
      BY FreshPool, NetAssumption, FS_CardinalityType DEF NetInit
    <2>3. IsInjective(free) /\ \A c \in Net : Contains(free, c)
      BY FreshPool DEF NetInit
    <2>4. client_num = 0
      BY DEF NetInit
    <2>5. QED
      BY <2>1, <2>2, <2>3, <2>4 DEF Pooled, ClientsCounted
  <1>3. Chained /\ Named /\ Buffered
    BY NetAssumption DEF NetInit, Chained, Named, MapLive, Buffered
  <1>4. QED
    BY <1>1, <1>2, <1>3 DEF NetInv

(* A worker that died leaves nothing behind. *)
LEMMA DieKeeps ==
    ASSUME Die, used' \in [DOMAIN Budget -> Nat] PROVE NetInv'
  <1>1. NetTypeOK'
    BY FreshPool, NetAssumption DEF Die, NetTypeOK, Links, Half, Budget
  <1>2. Pooled'
    <2>1. Cardinality(open') = 0 /\ open' = {}
      BY FS_EmptySet DEF Die
    <2>2. Len(free') = Cardinality(Net) /\ Cardinality(Net) \in Nat
      BY FreshPool, NetAssumption, FS_CardinalityType DEF Die
    <2>3. IsInjective(free') /\ \A c \in Net : Contains(free', c)
      BY FreshPool DEF Die
    <2>4. client_num' = 0
      BY DEF Die
    <2>5. QED
      BY <2>1, <2>2, <2>3, <2>4 DEF Pooled, ClientsCounted
  <1>3. Chained' /\ Named' /\ Buffered'
    BY NetAssumption DEF Die, Chained, Named, MapLive, Buffered
  <1>4. QED
    BY <1>1, <1>2, <1>3 DEF NetInv

-----------------------------------------------------------------------------
(* Parts of the invariant that a step leaves alone. *)
LEMMA Frames ==
    ASSUME NetInv
    PROVE  /\ UNCHANGED pool => Pooled'
           /\ UNCHANGED <<names, open, peer>> => Named'
           /\ UNCHANGED rbuf => Buffered'
           /\ /\ UNCHANGED <<next, prev>>
              /\ \A c \in Net : "read" \in ready'[c] => "read" \in ready[c]
              /\ phase' = "spin" => q' \in Net
              => Chained'
  <1>1. UNCHANGED pool => Pooled'
    BY DEF NetInv, Pooled, ClientsCounted, pool
  <1>2. UNCHANGED <<names, open, peer>> => Named'
    BY DEF NetInv, Named, MapLive, names
  <1>3. UNCHANGED rbuf => Buffered'
    BY DEF NetInv, Buffered
  <1>4. /\ UNCHANGED <<next, prev>>
        /\ \A c \in Net : "read" \in ready'[c] => "read" \in ready[c]
        /\ phase' = "spin" => q' \in Net
        => Chained'
    BY DEF NetInv, Chained, Linked
  <1>5. QED
    BY <1>1, <1>2, <1>3, <1>4

(* Inputs are counted. *)
LEMMA SpendType ==
    ASSUME NetTypeOK, NEW k \in DOMAIN Budget, Spend(k)
    PROVE  used' \in [DOMAIN Budget -> Nat]
  BY DEF NetTypeOK, Spend

(* An answer that is sent, or kept in sbuf. *)
LEMMA SendTypes ==
    ASSUME NetTypeOK, NEW c \in Net, NEW n \in Nat,
           NEW r \in SUBSET {"read", "write", "net"}, tcp_send(c, n, r)
    PROVE  /\ ready' \in [Net -> SUBSET {"read", "write", "net"}]
           /\ flag' \in [Net -> {"in", "out"}]
           /\ sbuf' \in [Net -> Nat]
           /\ edge' \in [Net -> SUBSET {"in", "out", "hup"}]
           /\ \A x \in Net : x # c => ready'[x] = ready[x]
           /\ "read" \in ready'[c] => "read" \in r
  <1>0. /\ ready \in [Net -> SUBSET {"read", "write", "net"}]
        /\ flag \in [Net -> {"in", "out"}] /\ sbuf \in [Net -> Nat]
        /\ edge \in [Net -> SUBSET {"in", "out", "hup"}]
    BY DEF NetTypeOK
  <1>1. CASE n = 0
    <2>1. /\ ready' = [ready EXCEPT ![c] = r] /\ UNCHANGED <<flag, sbuf, edge>>
      BY <1>1 DEF tcp_send
    <2>2. QED
      BY <1>0, <2>1
  <1>2. CASE n # 0 /\ blocked[c]
    <2>1. /\ sbuf' = [sbuf EXCEPT ![c] = sbuf[c] + n]
          /\ ready' = [ready EXCEPT ![c] = r \ {"net"}]
          /\ flag' = [flag EXCEPT ![c] = "out"]
          /\ edge' = [edge EXCEPT ![c] = edge[c] \ {"in", "out"}]
      BY <1>2 DEF tcp_send
    <2>2. sbuf' \in [Net -> Nat]
      BY <1>0, <2>1
    <2>3. edge' \in [Net -> SUBSET {"in", "out", "hup"}]
      BY <1>0, <2>1
    <2>4. QED
      BY <1>0, <2>1, <2>2, <2>3
  <1>3. CASE n # 0 /\ ~blocked[c]
    <2> DEFINE E == IF flag[c] = "in" THEN edge[c]
                    ELSE { e \in edge[c] \cup {"in"} :
                             e = "hup" \/ (e = "in" /\ (inq[c] # <<>> \/ end[c] # "up")) }
    <2>1. /\ sbuf' = [sbuf EXCEPT ![c] = 0]
          /\ ready' = [ready EXCEPT ![c] = r \cup {"net"}]
          /\ flag' = [flag EXCEPT ![c] = "in"]
          /\ edge' = [edge EXCEPT ![c] = E]
      BY <1>3 DEF tcp_send
    <2>2. E \in SUBSET {"in", "out", "hup"}
      BY <1>0
    <2> HIDE DEF E
    <2>3. edge' \in [Net -> SUBSET {"in", "out", "hup"}]
      BY <1>0, <2>1, <2>2
    <2>4. QED
      BY <1>0, <2>1, <2>3
  <1>4. QED
    BY <1>1, <1>2, <1>3

(* gfs_net_close puts the node back, whether it was open or not. *)
LEMMA ClosePool ==
    ASSUME NetInv, NEW c \in Net, NEW n \in {1, 2}, CloseNode(c, n)
    PROVE  /\ open' \subseteq Net /\ free' \in Seq(Net) /\ client_num' \in Int
           /\ rbuf' \in [Net -> Seq(Half)] /\ sbuf' \in [Net -> Nat]
           /\ peer' \in [Net -> DS \cup {Client}] /\ inq' \in [Net -> Seq(Half)]
           /\ torn' \in [Net -> Kind \cup {"none"}]
           /\ edge' \in [Net -> SUBSET {"in", "out", "hup"}]
           /\ blocked' \in [Net -> BOOLEAN] /\ end' \in [Net -> {"up", "fin", "rst"}]
           /\ Pooled' /\ Buffered'
           /\ open' = open \ {c} /\ \A x \in Net : x # c => peer'[x] = peer[x]
  <1>0. NetTypeOK
    BY DEF NetInv
  <1>1. /\ open' = open \ {c} /\ free' = <<c>> \o RemoveFirst(free, c)
        /\ client_num' = client_num - n
        /\ rbuf' = [rbuf EXCEPT ![c] = <<>>] /\ sbuf' = [sbuf EXCEPT ![c] = 0]
        /\ inq' = [inq EXCEPT ![c] = <<>>] /\ torn' = [torn EXCEPT ![c] = "none"]
        /\ edge' = [edge EXCEPT ![c] = {}] /\ end' = [end EXCEPT ![c] = "up"]
        /\ peer' = [peer EXCEPT ![c] = Client]
        /\ blocked' = [blocked EXCEPT ![c] = FALSE]
    BY DEF CloseNode
  <1>2. /\ free \in Seq(Net) /\ client_num \in Int /\ open \subseteq Net
        /\ IsInjective(free)
        /\ client_num =< Cardinality(open)
        /\ \A x \in Net : x \in open <=> ~Contains(free, x)
        /\ Len(free) + Cardinality(open) = Cardinality(Net)
    BY DEF NetInv, NetTypeOK, Pooled, ClientsCounted
  <1>3. /\ free' \in Seq(Net) /\ IsInjective(free')
        /\ \A x : Contains(free', x) <=> x = c \/ Contains(free, x)
        /\ Contains(free, c) => Len(free') = Len(free)
        /\ ~Contains(free, c) => Len(free') = Len(free) + 1
    <2>1. free \in Seq(Net) /\ IsInjective(free)
      BY <1>2
    <2>2. free' = Push(c, RemoveFirst(free, c))
      BY <1>1 DEF Push
    <2>3. QED
      BY <2>1, <2>2, Relist
  <1>4. IsFiniteSet(open) /\ Cardinality(open) \in Nat
    BY <1>2, NetAssumption, FS_Subset, FS_CardinalityType
  <1>5. /\ c \in open => Cardinality(open') = Cardinality(open) - 1
        /\ c \notin open => Cardinality(open') = Cardinality(open)
    <2>1. /\ c \in open => Cardinality(open \ {c}) = Cardinality(open) - 1
          /\ c \notin open => Cardinality(open \ {c}) = Cardinality(open)
      BY <1>4, FS_RemoveElement
    <2>2. QED
      BY <1>1, <2>1
  <1>6. client_num' =< Cardinality(open')
    BY <1>1, <1>2, <1>4, <1>5
  <1>7. Len(free') + Cardinality(open') = Cardinality(Net)
    <2>1. Len(free) \in Nat
      BY <1>2
    <2>2. CASE c \in open
      <3>1. /\ Len(free') = Len(free) + 1
            /\ Cardinality(open') = Cardinality(open) - 1
        BY <1>2, <1>3, <1>5, <2>2
      <3>2. QED
        BY <1>2, <1>4, <2>1, <3>1
    <2>3. CASE c \notin open
      BY <1>2, <1>3, <1>5, <2>3
    <2>4. QED
      BY <2>2, <2>3
  <1>8. Pooled'
    BY <1>1, <1>2, <1>3, <1>6, <1>7 DEF Pooled, ClientsCounted
  <1>9. Buffered'
    <2>1. Len(<<>>) = 0 /\ 0 =< RbufLen
      BY NetAssumption
    <2>2. QED
      BY <1>0, <1>1, <2>1 DEF NetInv, Buffered, NetTypeOK
  <1>10. <<>> \in Seq(Half)
    OBVIOUS
  <1>11. /\ rbuf' \in [Net -> Seq(Half)] /\ inq' \in [Net -> Seq(Half)]
         /\ sbuf' \in [Net -> Nat] /\ peer' \in [Net -> DS \cup {Client}]
         /\ torn' \in [Net -> Kind \cup {"none"}]
         /\ edge' \in [Net -> SUBSET {"in", "out", "hup"}]
         /\ blocked' \in [Net -> BOOLEAN] /\ end' \in [Net -> {"up", "fin", "rst"}]
         /\ \A x \in Net : x # c => peer'[x] = peer[x]
    BY <1>0, <1>1, <1>10 DEF NetTypeOK
  <1>12. QED
    BY <1>1, <1>2, <1>3, <1>8, <1>9, <1>11

(* The map loses the entry of the connection that is closed. *)
LEMMA CloseNames ==
    ASSUME NetInv, NEW c \in Net, NEW n \in {1, 2}, net_close(c, n)
    PROVE  /\ user' = user /\ mapFree' = mapFree
           /\ map' \in [DS -> Net \cup {NoNet}]
           /\ Named'
  <1>1. /\ CloseNode(c, n) /\ UNCHANGED <<user, mapFree>>
        /\ map' = IF mapFree > 0 /\ user[c] # NoDS
                  THEN [map EXCEPT ![user[c]] = NoNet] ELSE map
    BY DEF net_close, map_remove
  <1>2. /\ open' = open \ {c} /\ \A x \in Net : x # c => peer'[x] = peer[x]
    BY <1>1, ClosePool
  <1>3. /\ map \in [DS -> Net \cup {NoNet}] /\ user \in [Net -> DS \cup {NoDS}]
        /\ open \subseteq Net /\ NoDS \notin DS
    BY NetAssumption DEF NetInv, NetTypeOK
  <1>4. map' \in [DS -> Net \cup {NoNet}]
    BY <1>1, <1>3
  <1>5. MapLive'
    <2> SUFFICES ASSUME mapFree > 0, NEW d \in DS, map'[d] # NoNet
                 PROVE  map'[d] \in open' /\ user[map'[d]] = d
      BY <1>1 DEF MapLive
    <2>1. map'[d] = map[d] /\ user[c] # d
      BY <1>1, <1>3
    <2>2. map[d] \in open /\ user[map[d]] = d
      BY <2>1 DEF NetInv, Named, MapLive
    <2>3. QED
      BY <1>2, <2>1, <2>2
  <1>6. QED
    BY <1>1, <1>2, <1>3, <1>4, <1>5 DEF NetInv, Named

(* A step that closes a connection. *)
LEMMA CloseKeeps ==
    ASSUME NetInv, NEW c \in Net, NEW n \in {1, 2}, net_close(c, n),
           phase' \in {"timer", "spin", "delay", "epoll"},
           q' \in Net \cup {Ring}, batch' \subseteq Net \cup {Listen},
           UNCHANGED <<ready, flag>>,
           next' \in [Net \cup {Ring} -> Links],
           prev' \in [Net \cup {Ring} -> Links],
           used' \in [DOMAIN Budget -> Nat], Chained'
    PROVE  NetInv'
  <1>1. CloseNode(c, n)
    BY DEF net_close
  <1>2. /\ open' \subseteq Net /\ free' \in Seq(Net) /\ client_num' \in Int
        /\ rbuf' \in [Net -> Seq(Half)] /\ sbuf' \in [Net -> Nat]
        /\ peer' \in [Net -> DS \cup {Client}] /\ inq' \in [Net -> Seq(Half)]
        /\ torn' \in [Net -> Kind \cup {"none"}]
        /\ edge' \in [Net -> SUBSET {"in", "out", "hup"}]
        /\ blocked' \in [Net -> BOOLEAN] /\ end' \in [Net -> {"up", "fin", "rst"}]
        /\ Pooled' /\ Buffered'
    BY <1>1, ClosePool
  <1>3. /\ user' = user /\ mapFree' = mapFree /\ map' \in [DS -> Net \cup {NoNet}]
        /\ Named'
    BY CloseNames
  <1>4. /\ user \in [Net -> DS \cup {NoDS}] /\ mapFree \in 0 .. MapSize
        /\ ready \in [Net -> SUBSET {"read", "write", "net"}]
        /\ flag \in [Net -> {"in", "out"}]
    BY DEF NetInv, NetTypeOK
  <1>5. NetTypeOK'
    BY <1>2, <1>3, <1>4 DEF NetTypeOK
  <1>6. QED
    BY <1>2, <1>3, <1>5 DEF NetInv

-----------------------------------------------------------------------------
(* gfs_queue_remove of a node with links: nobody else loses a link. *)
LEMMA RemoveLinks ==
    ASSUME NetInv, NEW c \in Net, Linked(c), queue_remove(c)
    PROVE  /\ next' \in [Net \cup {Ring} -> Links]
           /\ prev' \in [Net \cup {Ring} -> Links]
           /\ next'[c] \in Net \cup {Ring}
           /\ \A x \in Net \cup {Ring} : Linked(x) => Linked(x)'
  <1>1. /\ next \in [Net \cup {Ring} -> Links] /\ prev \in [Net \cup {Ring} -> Links]
        /\ next[c] # Null /\ prev[c] # Null
    BY DEF NetInv, NetTypeOK, Linked
  <1>2. next[c] \in Net \cup {Ring} /\ prev[c] \in Net \cup {Ring}
    BY <1>1 DEF Links
  <1>3. /\ prev' = [prev EXCEPT ![next[c]] = prev[c]]
        /\ next' = [next EXCEPT ![prev'[c]] = next[c]]
    BY DEF queue_remove
  <1>4. prev'[c] = prev[c]
    BY <1>1, <1>2, <1>3
  <1>5. next' = [next EXCEPT ![prev[c]] = next[c]]
    BY <1>3, <1>4
  <1>6. next' \in [Net \cup {Ring} -> Links] /\ prev' \in [Net \cup {Ring} -> Links]
    BY <1>1, <1>2, <1>3, <1>5 DEF Links
  <1>7. next'[c] = next[c]
    BY <1>1, <1>2, <1>5
  <1>8. ASSUME NEW x \in Net \cup {Ring}, next[x] # Null, prev[x] # Null
        PROVE  next'[x] # Null /\ prev'[x] # Null
    BY <1>1, <1>2, <1>3, <1>5, <1>8
  <1>9. QED
    BY <1>2, <1>6, <1>7, <1>8 DEF Linked

(* A step that takes the node of the cursor out of the queue. *)
LEMMA RemoveChained ==
    ASSUME NetInv, q \in Net, Linked(q), queue_remove(q), q' = next'[q],
           \A x \in Net : "read" \in ready'[x] => "read" \in ready[x],
           phase' # "spin"
    PROVE  /\ Chained' /\ q' \in Net \cup {Ring}
           /\ next' \in [Net \cup {Ring} -> Links]
           /\ prev' \in [Net \cup {Ring} -> Links]
  <1>1. /\ next' \in [Net \cup {Ring} -> Links]
        /\ prev' \in [Net \cup {Ring} -> Links]
        /\ next'[q] \in Net \cup {Ring}
        /\ \A x \in Net \cup {Ring} : Linked(x) => Linked(x)'
    BY RemoveLinks
  <1>2. /\ Linked(Ring) /\ \A c \in Net : "read" \in ready[c] => Linked(c)
    BY DEF NetInv, Chained, Linked
  <1>3. /\ Linked(Ring)' /\ \A c \in Net : "read" \in ready'[c] => Linked(c)'
    BY <1>1, <1>2
  <1>4. Chained'
    BY <1>3 DEF Chained, Linked
  <1>5. QED
    BY <1>1, <1>4

(* gfs_queue_insert_tail: the node is linked and nobody loses a link. *)
LEMMA InsertLinks ==
    ASSUME NetInv, NEW c \in Net, insert_tail(c)
    PROVE  /\ next' \in [Net \cup {Ring} -> Links]
           /\ prev' \in [Net \cup {Ring} -> Links]
           /\ Linked(c)'
           /\ \A x \in Net \cup {Ring} : Linked(x) => Linked(x)'
  <1> DEFINE p == prev[Ring]
             nx == [next EXCEPT ![p] = c]
             pv == [prev EXCEPT ![c] = p]
  <1>1. /\ next \in [Net \cup {Ring} -> Links] /\ prev \in [Net \cup {Ring} -> Links]
        /\ p # Null
    BY DEF NetInv, NetTypeOK, Chained
  <1>2. p \in Net \cup {Ring}
    BY <1>1 DEF Links
  <1>3. next' = [nx EXCEPT ![c] = Ring] /\ prev' = [pv EXCEPT ![Ring] = c]
    BY DEF insert_tail
  <1> HIDE DEF p
  <1>4. nx \in [Net \cup {Ring} -> Links] /\ pv \in [Net \cup {Ring} -> Links]
    BY <1>1, <1>2 DEF Links
  <1>5. \A x \in Net \cup {Ring} : /\ next[x] # Null => nx[x] # Null
                                   /\ prev[x] # Null => pv[x] # Null
    BY <1>1, <1>2, NetAssumption
  <1>6. pv[c] # Null
    BY <1>1
  <1> HIDE DEF nx, pv
  <1>7. next' \in [Net \cup {Ring} -> Links] /\ prev' \in [Net \cup {Ring} -> Links]
    BY <1>3, <1>4 DEF Links
  <1>8. \A x \in Net \cup {Ring} : /\ nx[x] # Null => next'[x] # Null
                                   /\ pv[x] # Null => prev'[x] # Null
    BY <1>3, <1>4, NetAssumption
  <1>9. next'[c] # Null
    BY <1>3, <1>4, NetAssumption
  <1>10. prev'[c] # Null
    BY <1>6, <1>8
  <1>11. QED
    BY <1>5, <1>7, <1>8, <1>9, <1>10 DEF Linked

(* Commands of the timer pass. *)
LEMMA CommandKeeps ==
    ASSUME NetInv, NEW c \in Net, Command(c), phase' = "timer",
           UNCHANGED <<q, batch, pool, next, prev, names, peer, inq, torn, blocked, end>>,
           used' \in [DOMAIN Budget -> Nat]
    PROVE  NetInv'
  <1>0. NetTypeOK
    BY DEF NetInv
  <1> DEFINE r == ready[c] \ {"write"}
  <1>1. r \in SUBSET {"read", "write", "net"} /\ 1 \in Nat
    BY <1>0 DEF NetTypeOK
  <1>2. tcp_send(c, 1, r)
    BY DEF Command
  <1> HIDE DEF r
  <1>3. /\ ready' \in [Net -> SUBSET {"read", "write", "net"}]
        /\ flag' \in [Net -> {"in", "out"}]
        /\ sbuf' \in [Net -> Nat]
        /\ edge' \in [Net -> SUBSET {"in", "out", "hup"}]
        /\ \A x \in Net : x # c => ready'[x] = ready[x]
        /\ "read" \in ready'[c] => "read" \in r
    BY <1>0, <1>1, <1>2, SendTypes
  <1>4. rbuf' \in [Net -> Seq(Half)] /\ Buffered'
    <2>1. rbuf \in [Net -> Seq(Half)] /\ Buffered
      BY DEF NetInv, NetTypeOK
    <2>2. CASE UNCHANGED rbuf
      BY <2>1, <2>2 DEF Buffered
    <2>3. CASE rbuf' = [rbuf EXCEPT ![c] = Rest(rbuf[c])]
      <3>1. Rest(rbuf[c]) \in Seq(Half) /\ Len(Rest(rbuf[c])) =< RbufLen
        BY <2>1, RestFits
      <3>2. QED
        BY <2>1, <2>3, <3>1 DEF Buffered
    <2>4. QED
      BY <2>2, <2>3 DEF Command
  <1>5. Pooled' /\ Named'
    BY Frames DEF pool, names
  <1>6. \A x \in Net : "read" \in ready'[x] => "read" \in ready[x]
    BY <1>3 DEF r
  <1>7. Chained'
    BY <1>6, Frames
  <1>8. NetTypeOK'
    BY <1>0, <1>3, <1>4 DEF NetTypeOK, pool, names
  <1>9. QED
    BY <1>4, <1>5, <1>7, <1>8 DEF NetInv

(* A login is entered for the connection's own peer: no other entry of the *)
(* map points to it.                                                       *)
LEMMA LoginNamed ==
    ASSUME NetInv, NEW c \in open, peer[c] \in DS,
           user' = [user EXCEPT ![c] = peer[c]], map_add(peer[c], c),
           UNCHANGED <<open, peer>>
    PROVE  /\ user' \in [Net -> DS \cup {NoDS}] /\ map' \in [DS -> Net \cup {NoNet}]
           /\ mapFree' \in 0 .. MapSize
           /\ Named'
  <1>1. /\ user \in [Net -> DS \cup {NoDS}] /\ map \in [DS -> Net \cup {NoNet}]
        /\ mapFree \in 0 .. MapSize /\ MapSize \in Nat /\ open \subseteq Net
        /\ NoDS \notin DS /\ NoNet \notin Net
    BY NetAssumption DEF NetInv, NetTypeOK
  <1>2. /\ \A x \in open : user[x] \in {NoDS, peer[x]}
        /\ mapFree > 0 => \A d \in DS : map[d] # NoNet => map[d] \in open /\ user[map[d]] = d
    BY DEF NetInv, Named, MapLive
  <1>3. user' \in [Net -> DS \cup {NoDS}]
    BY <1>1
  <1>4. \A x \in open' : user'[x] \in {NoDS, peer'[x]}
    BY <1>1, <1>2
  <1>5. CASE mapFree = 0
    <2>1. map' = map /\ mapFree' = mapFree
      BY <1>5 DEF map_add
    <2>2. QED
      BY <1>1, <1>3, <1>4, <1>5, <2>1 DEF Named, MapLive
  <1>6. CASE mapFree # 0
    <2>1. /\ map' = [map EXCEPT ![peer[c]] = c]
          /\ mapFree' = IF map[peer[c]] = NoNet THEN mapFree - 1 ELSE mapFree
      BY <1>6 DEF map_add
    <2>2. mapFree' \in 0 .. MapSize /\ mapFree > 0
      BY <1>1, <1>6, <2>1
    <2>3. map' \in [DS -> Net \cup {NoNet}]
      BY <1>1, <2>1
    <2>4. ASSUME NEW d \in DS, map'[d] # NoNet
          PROVE  map'[d] \in open' /\ user'[map'[d]] = d
      <3>1. CASE d = peer[c]
        BY <1>1, <2>1, <3>1
      <3>2. CASE d # peer[c]
        <4>1. map'[d] = map[d] /\ map[d] # NoNet
          BY <1>1, <2>1, <2>4, <3>2
        <4>2. map[d] \in open /\ user[map[d]] = d
          BY <1>2, <2>2, <4>1
        <4>3. map[d] # c
          BY <1>1, <1>2, <3>2, <4>2
        <4>4. QED
          BY <1>1, <4>1, <4>2, <4>3
      <3>3. QED
        BY <3>1, <3>2
    <2>5. QED
      BY <1>3, <1>4, <2>2, <2>3, <2>4 DEF Named, MapLive
  <1>7. QED
    BY <1>5, <1>6

(* What gfs_net_tcp_parse does with the buffer b of a connection. *)
LEMMA HandledKeeps ==
    ASSUME NetInv, NEW c \in open, NEW b \in Seq(Half), NEW r \in SUBSET ready[c],
           Handled(c, b, r), UNCHANGED <<pool, peer>>
    PROVE  /\ ready' \in [Net -> SUBSET {"read", "write", "net"}]
           /\ flag' \in [Net -> {"in", "out"}]
           /\ sbuf' \in [Net -> Nat] /\ rbuf' \in [Net -> Seq(Half)]
           /\ edge' \in [Net -> SUBSET {"in", "out", "hup"}]
           /\ user' \in [Net -> DS \cup {NoDS}] /\ map' \in [DS -> Net \cup {NoNet}]
           /\ mapFree' \in 0 .. MapSize
           /\ \A x \in Net : "read" \in ready'[x] => "read" \in ready[x]
           /\ Pooled' /\ Named' /\ Buffered'
  <1>0. NetTypeOK /\ c \in Net
    BY DEF NetInv, NetTypeOK
  <1> DEFINE p == Packets(b)
             n == Answers(p)
  <1>1. n \in Nat /\ r \in SUBSET {"read", "write", "net"}
    BY <1>0, PacketsFound DEF NetTypeOK
  <1>2. /\ tcp_send(c, n, r) /\ rbuf' = [rbuf EXCEPT ![c] = Rest(b)]
        /\ \/ /\ peer[c] \in DS
              /\ user' = [user EXCEPT ![c] = peer[c]] /\ map_add(peer[c], c)
           \/ UNCHANGED names
    BY DEF Handled
  <1> HIDE DEF n
  <1>3. /\ ready' \in [Net -> SUBSET {"read", "write", "net"}]
        /\ flag' \in [Net -> {"in", "out"}]
        /\ sbuf' \in [Net -> Nat]
        /\ edge' \in [Net -> SUBSET {"in", "out", "hup"}]
        /\ \A x \in Net : x # c => ready'[x] = ready[x]
        /\ "read" \in ready'[c] => "read" \in r
    BY <1>0, <1>1, <1>2, SendTypes
  <1>4. rbuf' \in [Net -> Seq(Half)] /\ Buffered'
    <2>1. Rest(b) \in Seq(Half) /\ Len(Rest(b)) =< RbufLen
      BY RestFits
    <2>2. QED
      BY <1>0, <1>2, <2>1 DEF NetInv, NetTypeOK, Buffered
  <1>5. Pooled'
    BY Frames
  <1>6. /\ user' \in [Net -> DS \cup {NoDS}] /\ map' \in [DS -> Net \cup {NoNet}]
        /\ mapFree' \in 0 .. MapSize
        /\ Named'
    <2>1. UNCHANGED <<open, peer>>
      BY DEF pool
    <2>2. CASE /\ peer[c] \in DS
               /\ user' = [user EXCEPT ![c] = peer[c]] /\ map_add(peer[c], c)
      BY <2>1, <2>2, LoginNamed
    <2>3. CASE UNCHANGED names
      BY <1>0, <2>1, <2>3, Frames DEF NetTypeOK, names
    <2>4. QED
      BY <1>2, <2>2, <2>3
  <1>7. QED
    BY <1>3, <1>4, <1>5, <1>6

-----------------------------------------------------------------------------
(* The steps of the thread: timers, *)
LEMMA TimerSteps ==
    ASSUME NetInv
    PROVE  /\ TimerEnd => NetInv'
           /\ SpinEnd => NetInv'
           /\ SpinReset => NetInv'
           /\ \A c \in Net : IdleTimeout(c) => NetInv'
  <1>0. NetTypeOK /\ Chained
    BY DEF NetInv
  <1>1. ASSUME TimerEnd PROVE NetInv'
    <2>1. next[Ring] \in Net \cup {Ring}
      BY <1>0 DEF NetTypeOK, Chained, Links
    <2>2. /\ phase' = "delay" /\ q' \in Net \cup {Ring}
          /\ UNCHANGED <<batch, pool, event, names, buffers, kernel, used>>
      BY <1>1, <2>1 DEF TimerEnd
    <2>3. NetTypeOK'
      BY <1>0, <2>2 DEF NetTypeOK, pool, event, names, buffers, kernel
    <2>4. Pooled' /\ Named' /\ Buffered' /\ Chained'
      BY <2>2, Frames DEF pool, event, names, buffers, kernel
    <2>5. QED
      BY <2>3, <2>4 DEF NetInv
  <1>2. ASSUME SpinEnd PROVE NetInv'
    <2>1. q \in Net
      BY <1>0, <1>2 DEF SpinEnd, Chained
    <2>2. /\ Command(q) /\ phase' = "timer"
          /\ UNCHANGED <<q, batch, pool, next, prev, names, peer, inq, torn, blocked, end>>
          /\ used' \in [DOMAIN Budget -> Nat]
      BY <1>0, <1>2 DEF SpinEnd, NetTypeOK
    <2>3. QED
      BY <2>1, <2>2, CommandKeeps
  <1>3. ASSUME SpinReset PROVE NetInv'
    <2>1. q \in Net /\ 2 \in {1, 2}
      BY <1>0, <1>3 DEF SpinReset, Chained
    <2>2. /\ net_close(q, 2) /\ phase' = "timer"
          /\ UNCHANGED <<q, batch, ready, flag, next, prev, used>>
      BY <1>3 DEF SpinReset, event
    <2>3. Chained'
      BY <2>2, Frames
    <2>4. /\ phase' \in {"timer", "spin", "delay", "epoll"}
          /\ q' \in Net \cup {Ring} /\ batch' \subseteq Net \cup {Listen}
          /\ next' \in [Net \cup {Ring} -> Links] /\ prev' \in [Net \cup {Ring} -> Links]
          /\ used' \in [DOMAIN Budget -> Nat]
      BY <1>0, <2>2 DEF NetTypeOK
    <2>5. QED
      BY <2>1, <2>2, <2>3, <2>4, CloseKeeps
  <1>4. ASSUME NEW c \in Net, IdleTimeout(c) PROVE NetInv'
    <2>1. Die /\ Spend("fault") /\ "fault" \in DOMAIN Budget
      BY <1>4 DEF IdleTimeout, Budget
    <2>2. QED
      BY <1>0, <2>1, SpendType, DieKeeps
  <1>5. QED
    BY <1>1, <1>2, <1>3, <1>4

(* commands, *)
LEMMA NoticeSteps ==
    ASSUME NetInv, NEW d \in DS
    PROVE  /\ Notice(d) => NetInv'
           /\ NoticeSpin(d) => NetInv'
           /\ NoticeFails(d) => NetInv'
  <1>0. NetTypeOK /\ "cmd" \in DOMAIN Budget
    BY DEF NetInv, Budget
  <1>1. map[d] \in Net \cup {NoNet} /\ open \subseteq Net
    BY <1>0 DEF NetTypeOK
  <1> DEFINE c == map[d]
  <1> HIDE DEF c
  <1>2. ASSUME Notice(d) PROVE NetInv'
    <2>1. /\ c \in open /\ phase = "timer" /\ Spend("cmd") /\ Command(c)
          /\ UNCHANGED <<thread, pool, next, prev, names, peer, inq, torn, blocked, end>>
      BY <1>2 DEF Notice, c
    <2>2. c \in Net
      BY <1>1, <2>1
    <2>3. used' \in [DOMAIN Budget -> Nat]
      BY <1>0, <2>1, SpendType
    <2>4. /\ phase' = "timer"
          /\ UNCHANGED <<q, batch, pool, next, prev, names, peer, inq, torn, blocked, end>>
      BY <2>1 DEF thread
    <2>5. QED
      BY <2>1, <2>2, <2>3, <2>4, CommandKeeps
  <1>3. ASSUME NoticeSpin(d) PROVE NetInv'
    <2>1. /\ c \in open /\ Spend("cmd") /\ phase' = "spin" /\ q' = c
          /\ UNCHANGED <<batch, pool, event, names, buffers, kernel>>
      BY <1>3 DEF NoticeSpin, c
    <2>2. q' \in Net
      BY <1>1, <2>1
    <2>3. used' \in [DOMAIN Budget -> Nat]
      BY <1>0, <2>1, SpendType
    <2>4. NetTypeOK'
      BY <1>0, <2>1, <2>2, <2>3 DEF NetTypeOK, pool, event, names, buffers, kernel
    <2>5. Pooled' /\ Named' /\ Buffered' /\ Chained'
      BY <2>1, <2>2, Frames DEF pool, event, names, buffers, kernel
    <2>6. QED
      BY <2>4, <2>5 DEF NetInv
  <1>4. ASSUME NoticeFails(d) PROVE NetInv'
    <2>1. /\ c # NoNet /\ phase = "timer" /\ Spend("cmd") /\ net_close(c, 1)
          /\ UNCHANGED <<thread, event>>
      BY <1>4 DEF NoticeFails, c
    <2>2. c \in Net /\ 1 \in {1, 2}
      BY <1>1, <2>1 DEF c
    <2>3. used' \in [DOMAIN Budget -> Nat]
      BY <1>0, <2>1, SpendType
    <2>4. /\ UNCHANGED <<phase, q, batch, ready, flag, next, prev>>
          /\ phase' \in {"timer", "spin", "delay", "epoll"}
          /\ q' \in Net \cup {Ring} /\ batch' \subseteq Net \cup {Listen}
          /\ next' \in [Net \cup {Ring} -> Links] /\ prev' \in [Net \cup {Ring} -> Links]
      BY <1>0, <2>1 DEF NetTypeOK, thread, event
    <2>5. Chained'
      BY <2>1, <2>4, Frames
    <2>6. QED
      BY <2>1, <2>2, <2>3, <2>4, <2>5, CloseKeeps
  <1>5. QED
    BY <1>2, <1>3, <1>4

(* the delay queue. *)
LEMMA DelaySteps ==
    ASSUME NetInv
    PROVE  /\ DelaySkip => NetInv'
           /\ DelayIdle => NetInv'
           /\ DelayClose => NetInv'
  <1>0. NetTypeOK /\ Chained
    BY DEF NetInv
  <1>1. ASSUME DelaySkip PROVE NetInv'
    <2>0. used' \in [DOMAIN Budget -> Nat]
      BY <1>0, <1>1 DEF DelaySkip, NetTypeOK
    <2>1. CASE Linked(q)
      <3>1. /\ q \in Net /\ phase = "delay" /\ q' = next[q]
            /\ UNCHANGED <<phase, batch, pool, event, names, buffers, kernel>>
        BY <1>1, <2>1 DEF DelaySkip
      <3>2. q' \in Net \cup {Ring}
        BY <1>0, <2>1, <3>1 DEF NetTypeOK, Linked, Links
      <3>3. NetTypeOK'
        BY <1>0, <2>0, <3>1, <3>2 DEF NetTypeOK, pool, event, names, buffers, kernel
      <3>4. Pooled' /\ Named' /\ Buffered' /\ Chained'
        BY <3>1, Frames DEF pool, event, names, buffers, kernel
      <3>5. QED
        BY <3>3, <3>4 DEF NetInv
    <2>2. CASE ~Linked(q)
      <3>1. Die
        BY <1>1, <2>2 DEF DelaySkip
      <3>2. QED
        BY <2>0, <3>1, DieKeeps
    <2>3. QED
      BY <2>1, <2>2
  <1>2. ASSUME DelayIdle PROVE NetInv'
    <2>0. used' \in [DOMAIN Budget -> Nat]
      BY <1>0, <1>2 DEF DelayIdle, NetTypeOK
    <2>1. CASE Linked(q)
      <3>1. /\ q \in Net /\ phase = "delay" /\ queue_remove(q) /\ q' = next'[q]
            /\ UNCHANGED <<phase, batch, pool, ready, flag, names, buffers, kernel>>
        BY <1>2, <2>1 DEF DelayIdle
      <3>2. /\ Chained' /\ q' \in Net \cup {Ring}
            /\ next' \in [Net \cup {Ring} -> Links] /\ prev' \in [Net \cup {Ring} -> Links]
        BY <2>1, <3>1, RemoveChained
      <3>3. NetTypeOK'
        BY <1>0, <2>0, <3>1, <3>2 DEF NetTypeOK, pool, names, buffers, kernel
      <3>4. Pooled' /\ Named' /\ Buffered'
        BY <3>1, Frames DEF pool, names, buffers, kernel
      <3>5. QED
        BY <3>2, <3>3, <3>4 DEF NetInv
    <2>2. CASE ~Linked(q)
      <3>1. Die
        BY <1>2, <2>2 DEF DelayIdle
      <3>2. QED
        BY <2>0, <3>1, DieKeeps
    <2>3. QED
      BY <2>1, <2>2
  <1>3. ASSUME DelayClose PROVE NetInv'
    <2>1. /\ q \in Net /\ 1 \in {1, 2} /\ phase = "delay" /\ "read" \in ready[q]
          /\ net_close(q, 1) /\ queue_remove(q) /\ q' = next'[q]
          /\ UNCHANGED <<phase, batch, ready, flag, used>>
      BY <1>3 DEF DelayClose
    <2>2. Linked(q)
      BY <1>0, <2>1 DEF Chained
    <2>3. /\ Chained' /\ q' \in Net \cup {Ring}
          /\ next' \in [Net \cup {Ring} -> Links] /\ prev' \in [Net \cup {Ring} -> Links]
      BY <2>1, <2>2, RemoveChained
    <2>4. /\ phase' \in {"timer", "spin", "delay", "epoll"}
          /\ batch' \subseteq Net \cup {Listen} /\ used' \in [DOMAIN Budget -> Nat]
      BY <1>0, <2>1 DEF NetTypeOK
    <2>5. QED
      BY <2>1, <2>3, <2>4, CloseKeeps
  <1>4. QED
    BY <1>1, <1>2, <1>3

(* The part of the stream that is received, and the rest. *)
LEMMA Received ==
    ASSUME NetInv, NEW c \in Net
    PROVE  /\ rbuf[c] \o inq[c] \in Seq(Half)
           /\ ~Fits(c) =>
                LET n == RbufLen - Len(rbuf[c]) IN
                /\ rbuf[c] \o SubSeq(inq[c], 1, n) \in Seq(Half)
                /\ SubSeq(inq[c], n + 1, Len(inq[c])) \in Seq(Half)
  <1> DEFINE n == RbufLen - Len(rbuf[c])
  <1>1. /\ rbuf[c] \in Seq(Half) /\ inq[c] \in Seq(Half)
        /\ RbufLen \in Nat /\ Len(rbuf[c]) =< RbufLen
    BY NetAssumption DEF NetInv, NetTypeOK, Buffered
  <1>2. Len(rbuf[c]) \in Nat /\ Len(inq[c]) \in Nat /\ n \in Nat
    BY <1>1
  <1>3. rbuf[c] \o inq[c] \in Seq(Half)
    BY <1>1
  <1>4. ASSUME ~Fits(c)
        PROVE  /\ rbuf[c] \o SubSeq(inq[c], 1, n) \in Seq(Half)
               /\ SubSeq(inq[c], n + 1, Len(inq[c])) \in Seq(Half)
    <2>1. n =< Len(inq[c])
      <3>1. \A x, y, z \in Nat : ~(x + y < z) => z - x =< y
        OBVIOUS
      <3>2. ~(Len(rbuf[c]) + Len(inq[c]) < RbufLen)
        BY <1>4 DEF Fits
      <3>3. QED
        BY <1>1, <1>2, <3>1, <3>2
    <2> HIDE DEF n
    <2>2. \A i \in 1 .. Len(inq[c]) : inq[c][i] \in Half
      BY <1>1
    <2>3. SubSeq(inq[c], 1, n) \in Seq(Half)
      <3>1. \A i \in 1 .. n : inq[c][i] \in Half
        BY <1>2, <2>1, <2>2
      <3>2. QED
        BY <1>1, <1>2, <3>1, SubSeqProperties
    <2>4. SubSeq(inq[c], n + 1, Len(inq[c])) \in Seq(Half)
      <3>1. /\ \A i \in n + 1 .. Len(inq[c]) : inq[c][i] \in Half
            /\ n + 1 \in Nat /\ 1 =< n + 1
        BY <1>2, <2>1, <2>2
      <3>2. QED
        BY <1>1, <1>2, <2>1, <3>1, SubSeqProperties
    <2>5. QED
      BY <1>1, <2>3, <2>4, ConcatProperties
  <1>5. QED
    BY <1>3, <1>4

(* A connection closed while its login is handled is not in the map. *)
LEMMA LoginClosedNamed ==
    ASSUME NetInv, NEW c \in open, peer[c] \in DS, LoginClosed(peer[c], c),
           open' = open \ {c}, \A x \in Net : x # c => peer'[x] = peer[x]
    PROVE  /\ user' \in [Net -> DS \cup {NoDS}] /\ map' \in [DS -> Net \cup {NoNet}]
           /\ mapFree' \in 0 .. MapSize
           /\ Named'
  <1> DEFINE d == peer[c]
  <1>1. /\ user \in [Net -> DS \cup {NoDS}] /\ map \in [DS -> Net \cup {NoNet}]
        /\ mapFree \in 0 .. MapSize /\ MapSize \in Nat /\ open \subseteq Net
        /\ NoDS \notin DS /\ NoNet \notin Net
    BY NetAssumption DEF NetInv, NetTypeOK
  <1>2. /\ \A x \in open : user[x] \in {NoDS, peer[x]}
        /\ mapFree > 0 => \A e \in DS : map[e] # NoNet => map[e] \in open /\ user[map[e]] = e
    BY DEF NetInv, Named, MapLive
  <1>3. /\ user' = [user EXCEPT ![c] = d]
        /\ mapFree' = IF mapFree > 0 /\ map[d] = NoNet THEN mapFree - 1 ELSE mapFree
        /\ map' = IF mapFree = 0 THEN map
                  ELSE [map EXCEPT ![d] = IF mapFree' > 0 THEN NoNet ELSE c]
    BY DEF LoginClosed
  <1>4. /\ user' \in [Net -> DS \cup {NoDS}] /\ mapFree' \in 0 .. MapSize
        /\ map' \in [DS -> Net \cup {NoNet}]
    BY <1>1, <1>3
  <1>5. \A x \in open' : user'[x] \in {NoDS, peer'[x]}
    BY <1>1, <1>2, <1>3
  <1>6. ASSUME mapFree' > 0, NEW e \in DS, map'[e] # NoNet
        PROVE  map'[e] \in open' /\ user'[map'[e]] = e
    <2>1. mapFree > 0
      BY <1>1, <1>3, <1>6
    <2>2. map' = [map EXCEPT ![d] = NoNet]
      <3>1. mapFree # 0 /\ (IF mapFree' > 0 THEN NoNet ELSE c) = NoNet
        BY <1>6, <2>1
      <3>2. QED
        BY <1>3, <3>1
    <2>3. e # d /\ map'[e] = map[e]
      BY <1>1, <1>6, <2>2
    <2>4. map[e] \in open /\ user[map[e]] = e
      BY <1>2, <1>6, <2>1, <2>3
    <2>5. map[e] # c
      BY <1>1, <1>2, <2>3, <2>4
    <2>6. QED
      BY <1>1, <1>3, <2>3, <2>4, <2>5
  <1>7. QED
    BY <1>4, <1>5, <1>6 DEF Named, MapLive

(* Input is read and handled. *)
LEMMA RecvSteps ==
    ASSUME NetInv
    PROVE  /\ DelayRecv => NetInv'
           /\ DelayRecvFull => NetInv'
           /\ AnswerFails => NetInv'
  <1>0. NetTypeOK /\ Chained
    BY DEF NetInv
  <1>1. ASSUME DelayRecv PROVE NetInv'
    <2> DEFINE b == rbuf[q] \o inq[q]
    <2>1. /\ q \in open /\ phase = "delay" /\ "read" \in ready[q]
          /\ Handled(q, b, ready[q] \ {"read"})
          /\ inq' = [inq EXCEPT ![q] = <<>>]
          /\ queue_remove(q) /\ q' = next'[q]
          /\ UNCHANGED <<phase, batch, pool, peer, torn, blocked, end, used>>
      BY <1>1 DEF DelayRecv
    <2>2. q \in Net /\ b \in Seq(Half) /\ ready[q] \ {"read"} \in SUBSET ready[q]
      BY <1>0, <2>1, Received DEF NetTypeOK
    <2> HIDE DEF b
    <2>3. /\ ready' \in [Net -> SUBSET {"read", "write", "net"}]
          /\ flag' \in [Net -> {"in", "out"}]
          /\ sbuf' \in [Net -> Nat] /\ rbuf' \in [Net -> Seq(Half)]
          /\ edge' \in [Net -> SUBSET {"in", "out", "hup"}]
          /\ user' \in [Net -> DS \cup {NoDS}] /\ map' \in [DS -> Net \cup {NoNet}]
          /\ mapFree' \in 0 .. MapSize
          /\ \A x \in Net : "read" \in ready'[x] => "read" \in ready[x]
          /\ Pooled' /\ Named' /\ Buffered'
      BY <2>1, <2>2, HandledKeeps
    <2>4. Linked(q)
      BY <1>0, <2>1, <2>2 DEF Chained
    <2>5. /\ Chained' /\ q' \in Net \cup {Ring}
          /\ next' \in [Net \cup {Ring} -> Links] /\ prev' \in [Net \cup {Ring} -> Links]
      BY <2>1, <2>2, <2>3, <2>4, RemoveChained
    <2>6. inq' \in [Net -> Seq(Half)]
      BY <1>0, <2>1 DEF NetTypeOK
    <2>7. NetTypeOK'
      BY <1>0, <2>1, <2>3, <2>5, <2>6 DEF NetTypeOK, pool
    <2>8. QED
      BY <2>3, <2>5, <2>7 DEF NetInv
  <1>2. ASSUME DelayRecvFull PROVE NetInv'
    <2> DEFINE n == RbufLen - Len(rbuf[q])
               b == rbuf[q] \o SubSeq(inq[q], 1, n)
               w == SubSeq(inq[q], n + 1, Len(inq[q]))
    <2>1. /\ q \in open /\ phase = "delay" /\ "read" \in ready[q] /\ ~Fits(q)
          /\ Handled(q, b, ready[q])
          /\ inq' = [inq EXCEPT ![q] = w]
          /\ q' = next[q]
          /\ UNCHANGED <<phase, batch, pool, next, prev, peer, torn, blocked, end, used>>
      BY <1>2 DEF DelayRecvFull
    <2>2. q \in Net /\ ready[q] \in SUBSET ready[q]
      BY <1>0, <2>1 DEF NetTypeOK
    <2>3. b \in Seq(Half) /\ w \in Seq(Half)
      BY <2>1, <2>2, Received
    <2> HIDE DEF b, w
    <2>4. /\ ready' \in [Net -> SUBSET {"read", "write", "net"}]
          /\ flag' \in [Net -> {"in", "out"}]
          /\ sbuf' \in [Net -> Nat] /\ rbuf' \in [Net -> Seq(Half)]
          /\ edge' \in [Net -> SUBSET {"in", "out", "hup"}]
          /\ user' \in [Net -> DS \cup {NoDS}] /\ map' \in [DS -> Net \cup {NoNet}]
          /\ mapFree' \in 0 .. MapSize
          /\ \A x \in Net : "read" \in ready'[x] => "read" \in ready[x]
          /\ Pooled' /\ Named' /\ Buffered'
      BY <2>1, <2>2, <2>3, HandledKeeps
    <2>5. Linked(q)
      BY <1>0, <2>1, <2>2 DEF Chained
    <2>6. q' \in Net \cup {Ring}
      BY <1>0, <2>1, <2>2, <2>5 DEF NetTypeOK, Linked, Links
    <2>7. Chained'
      BY <2>1, <2>4, Frames
    <2>8. inq' \in [Net -> Seq(Half)]
      BY <1>0, <2>1, <2>3 DEF NetTypeOK
    <2>9. NetTypeOK'
      BY <1>0, <2>1, <2>4, <2>6, <2>8 DEF NetTypeOK, pool
    <2>10. QED
      BY <2>4, <2>7, <2>9 DEF NetInv
  <1>3. ASSUME AnswerFails PROVE NetInv'
    <2>1. q \in open /\ phase = "delay" /\ "read" \in ready[q] /\ Spend("fault")
      BY <1>3 DEF AnswerFails
    <2>2. q \in Net /\ "fault" \in DOMAIN Budget /\ 1 \in {1, 2}
      BY <1>0, <2>1 DEF NetTypeOK, Budget
    <2>3. used' \in [DOMAIN Budget -> Nat]
      BY <1>0, <2>1, <2>2, SpendType
    <2>4. CASE Die
      BY <2>3, <2>4, DieKeeps
    <2>5. CASE /\ CloseNode(q, 1)
               /\ \/ peer[q] \in DS /\ LoginClosed(peer[q], q)
                  \/ map_remove(user[q]) /\ UNCHANGED <<user, mapFree>>
               /\ ready' = [ready EXCEPT ![q] = ready[q] \ {"read"}]
               /\ queue_remove(q) /\ q' = next'[q]
               /\ UNCHANGED <<phase, batch, flag>>
      <3>1. /\ open' \subseteq Net /\ free' \in Seq(Net) /\ client_num' \in Int
            /\ rbuf' \in [Net -> Seq(Half)] /\ sbuf' \in [Net -> Nat]
            /\ peer' \in [Net -> DS \cup {Client}] /\ inq' \in [Net -> Seq(Half)]
            /\ torn' \in [Net -> Kind \cup {"none"}]
            /\ edge' \in [Net -> SUBSET {"in", "out", "hup"}]
            /\ blocked' \in [Net -> BOOLEAN] /\ end' \in [Net -> {"up", "fin", "rst"}]
            /\ Pooled' /\ Buffered'
            /\ open' = open \ {q} /\ \A x \in Net : x # q => peer'[x] = peer[x]
        BY <2>2, <2>5, ClosePool
      <3>2. /\ user' \in [Net -> DS \cup {NoDS}] /\ map' \in [DS -> Net \cup {NoNet}]
            /\ mapFree' \in 0 .. MapSize
            /\ Named'
        <4>1. CASE peer[q] \in DS /\ LoginClosed(peer[q], q)
          BY <2>1, <3>1, <4>1, LoginClosedNamed
        <4>2. CASE map_remove(user[q]) /\ UNCHANGED <<user, mapFree>>
          <5>1. net_close(q, 1)
            BY <2>5, <4>2 DEF net_close
          <5>2. /\ user' = user /\ mapFree' = mapFree
                /\ map' \in [DS -> Net \cup {NoNet}]
                /\ Named'
            BY <2>2, <5>1, CloseNames
          <5>3. QED
            BY <1>0, <5>2 DEF NetTypeOK
        <4>3. QED
          BY <2>5, <4>1, <4>2
      <3>3. ready' \in [Net -> SUBSET {"read", "write", "net"}]
        BY <1>0, <2>5 DEF NetTypeOK
      <3>4. \A x \in Net : "read" \in ready'[x] => "read" \in ready[x]
        BY <1>0, <2>5 DEF NetTypeOK
      <3>5. Linked(q)
        BY <1>0, <2>1, <2>2 DEF Chained
      <3>6. phase' # "spin"
        BY <2>1, <2>5
      <3>7. /\ Chained' /\ q' \in Net \cup {Ring}
            /\ next' \in [Net \cup {Ring} -> Links] /\ prev' \in [Net \cup {Ring} -> Links]
        BY <2>2, <2>5, <3>4, <3>5, <3>6, RemoveChained
      <3>8. NetTypeOK'
        BY <1>0, <2>3, <2>5, <3>1, <3>2, <3>3, <3>7 DEF NetTypeOK
      <3>9. QED
        BY <3>1, <3>2, <3>7, <3>8 DEF NetInv
    <2>6. QED
      BY <1>3, <2>4, <2>5 DEF AnswerFails
  <1>4. QED
    BY <1>1, <1>2, <1>3

-----------------------------------------------------------------------------
(* gfs_net_node_get takes the first node of free_list. *)
LEMMA Popped ==
    ASSUME NEW X, NEW s \in Seq(X), IsInjective(s), s # <<>>
    PROVE  /\ Tail(s) \in Seq(X) /\ IsInjective(Tail(s)) /\ s[1] \in X
           /\ Len(Tail(s)) = Len(s) - 1
           /\ Contains(s, s[1]) /\ ~Contains(Tail(s), s[1])
           /\ \A x : x # s[1] => (Contains(Tail(s), x) <=> Contains(s, x))
  <1>1. PICK t : t = Tail(s)
    OBVIOUS
  <1>2. /\ t \in Seq(X) /\ Len(t) = Len(s) - 1 /\ Len(s) \in Nat /\ Len(s) >= 1
        /\ \A i \in 1 .. Len(t) : t[i] = s[i + 1]
    BY <1>1
  <1>3. DOMAIN t = 1 .. Len(t) /\ DOMAIN s = 1 .. Len(s) /\ s[1] \in X
    BY <1>2
  <1>4. \A i \in 1 .. Len(t) : i + 1 \in 1 .. Len(s)
    BY <1>2
  <1>5. IsInjective(t)
    <2>1. ASSUME NEW i \in 1 .. Len(t), NEW j \in 1 .. Len(t), t[i] = t[j] PROVE i = j
      <3>1. i + 1 = j + 1
        BY <1>2, <1>3, <1>4, <2>1 DEF IsInjective
      <3>2. QED
        BY <1>2, <3>1
    <2>2. QED
      BY <1>3, <2>1 DEF IsInjective
  <1>6. Contains(s, s[1])
    BY <1>2 DEF Contains
  <1>7. ASSUME NEW i \in 1 .. Len(t) PROVE t[i] # s[1]
    <2>1. i + 1 # 1 /\ 1 \in 1 .. Len(s)
      BY <1>2
    <2>2. QED
      BY <1>2, <1>3, <1>4, <2>1 DEF IsInjective
  <1>8. ASSUME NEW x, x # s[1] PROVE Contains(t, x) <=> Contains(s, x)
    <2>1. ASSUME NEW i \in 1 .. Len(s), s[i] = x PROVE \E j \in 1 .. Len(t) : t[j] = x
      <3>1. i # 1
        BY <1>8, <2>1
      <3>2. i - 1 \in 1 .. Len(t) /\ (i - 1) + 1 = i
        BY <1>2, <3>1
      <3>3. t[i - 1] = x
        BY <1>2, <2>1, <3>2
      <3>4. QED
        BY <3>2, <3>3
    <2>2. QED
      BY <1>2, <1>4, <2>1 DEF Contains
  <1>9. ~Contains(t, s[1])
    BY <1>7 DEF Contains
  <1>10. QED
    BY <1>1, <1>2, <1>3, <1>5, <1>6, <1>8, <1>9

(* A node that is accepted was free, so nothing in the map is about it. *)
LEMMA AcceptKeeps ==
    ASSUME NetInv, NEW p \in DS \cup {Client}, NEW more \in BOOLEAN, Accept(p, more)
    PROVE  NetInv'
  <1> DEFINE c == free[1]
  <1>0. NetTypeOK /\ "accept" \in DOMAIN Budget
    BY DEF NetInv, Budget
  <1>1. /\ phase = "epoll" /\ free # <<>> /\ Spend("accept")
        /\ batch' \in {batch, batch \ {Listen}}
        /\ free' = Tail(free) /\ open' = open \cup {c} /\ client_num' = client_num + 1
        /\ ready' = [ready EXCEPT ![c] = {"net"}] /\ flag' = [flag EXCEPT ![c] = "in"]
        /\ next' = [next EXCEPT ![c] = Null] /\ prev' = [prev EXCEPT ![c] = Null]
        /\ user' = [user EXCEPT ![c] = NoDS] /\ peer' = [peer EXCEPT ![c] = p]
        /\ UNCHANGED <<phase, q, buffers, map, mapFree, inq, torn, edge, blocked, end>>
    BY DEF Accept
  <1>2. used' \in [DOMAIN Budget -> Nat]
    BY <1>0, <1>1, SpendType
  <1>3. /\ free \in Seq(Net) /\ IsInjective(free) /\ open \subseteq Net
        /\ client_num \in Int /\ client_num =< Cardinality(open)
        /\ \A x \in Net : x \in open <=> ~Contains(free, x)
        /\ Len(free) + Cardinality(open) = Cardinality(Net)
    BY DEF NetInv, NetTypeOK, Pooled, ClientsCounted
  <1>4. /\ Tail(free) \in Seq(Net) /\ IsInjective(Tail(free)) /\ c \in Net
        /\ Len(Tail(free)) = Len(free) - 1
        /\ Contains(free, c) /\ ~Contains(Tail(free), c)
        /\ \A x : x # c => (Contains(Tail(free), x) <=> Contains(free, x))
    BY <1>1, <1>3, Popped
  <1> HIDE DEF c
  <1>5. c \notin open
    BY <1>3, <1>4
  <1>6. /\ Cardinality(open \cup {c}) = Cardinality(open) + 1
        /\ Cardinality(open) \in Nat
    BY <1>3, <1>5, NetAssumption, FS_Subset, FS_AddElement, FS_CardinalityType
  <1>7. Pooled'
    <2>1. /\ Len(free) \in Nat /\ Len(free') = Len(free) - 1
          /\ Cardinality(open') = Cardinality(open) + 1
      BY <1>1, <1>3, <1>4, <1>6
    <2>2. /\ Len(free') + Cardinality(open') = Cardinality(Net)
          /\ client_num' =< Cardinality(open')
      <3>1. \A x, y \in Nat : (x - 1) + (y + 1) = x + y
        OBVIOUS
      <3>2. client_num' = client_num + 1
        BY <1>1
      <3>3. /\ Len(free) + Cardinality(open) = Cardinality(Net)
            /\ client_num \in Int /\ client_num =< Cardinality(open)
        BY <1>3
      <3>4. QED
        BY <1>6, <2>1, <3>1, <3>2, <3>3
    <2>3. \A x \in Net : x \in open' <=> ~Contains(free', x)
      BY <1>1, <1>3, <1>4
    <2>4. QED
      BY <1>1, <1>4, <2>2, <2>3 DEF Pooled, ClientsCounted
  <1>8. NetTypeOK'
    <2>1. /\ free' \in Seq(Net) /\ open' \subseteq Net /\ client_num' \in Int
          /\ batch' \subseteq Net \cup {Listen}
      BY <1>0, <1>1, <1>3, <1>4 DEF NetTypeOK
    <2>2. /\ ready' \in [Net -> SUBSET {"read", "write", "net"}]
          /\ flag' \in [Net -> {"in", "out"}]
          /\ next' \in [Net \cup {Ring} -> Links] /\ prev' \in [Net \cup {Ring} -> Links]
          /\ user' \in [Net -> DS \cup {NoDS}] /\ peer' \in [Net -> DS \cup {Client}]
      BY <1>0, <1>1 DEF NetTypeOK, Links
    <2>3. QED
      BY <1>0, <1>1, <1>2, <2>1, <2>2 DEF NetTypeOK, buffers
  <1>9. Chained'
    <2>1. next'[Ring] = next[Ring] /\ prev'[Ring] = prev[Ring]
      BY <1>0, <1>1, <1>4, NetAssumption DEF NetTypeOK
    <2>2. ASSUME NEW x \in Net, "read" \in ready'[x]
          PROVE  x # c /\ ready'[x] = ready[x] /\ next'[x] = next[x] /\ prev'[x] = prev[x]
      BY <1>0, <1>1, <2>2 DEF NetTypeOK
    <2>3. phase' # "spin"
      BY <1>1
    <2>4. QED
      BY <2>1, <2>2, <2>3 DEF NetInv, Chained, Linked
  <1>10. Named'
    <2>1. MapLive /\ \A x \in open : user[x] \in {NoDS, peer[x]}
      BY DEF NetInv, Named
    <2>2. \A x \in open : x \in Net /\ x # c /\ user'[x] = user[x] /\ peer'[x] = peer[x]
      BY <1>0, <1>1, <1>3, <1>5 DEF NetTypeOK
    <2>3. user'[c] = NoDS
      BY <1>0, <1>1, <1>4 DEF NetTypeOK
    <2>4. MapLive'
      BY <1>1, <2>1, <2>2 DEF MapLive
    <2>5. QED
      BY <1>1, <2>1, <2>2, <2>3, <2>4 DEF Named
  <1>11. Buffered'
    BY <1>1, Frames DEF buffers
  <1>12. QED
    BY <1>7, <1>8, <1>9, <1>10, <1>11 DEF NetInv

(* The events of an epoll_wait. *)
LEMMA EpollSteps ==
    ASSUME NetInv
    PROVE  /\ \A l \in SUBSET {Listen} : EpollWait(l) => NetInv'
           /\ AcceptNot => NetInv'
           /\ EpollEnd => NetInv'
           /\ \A c \in Net : EpollError(c) => NetInv'
           /\ \A c \in Net : EpollEvent(c) => NetInv'
  <1>0. NetTypeOK /\ Chained
    BY DEF NetInv
  <1>1. ASSUME phase' \in {"timer", "epoll"}, batch' \subseteq Net \cup {Listen},
               UNCHANGED <<q, pool, event, names, buffers, kernel, used>>
        PROVE  NetInv'
    <2>1. NetTypeOK'
      BY <1>0, <1>1 DEF NetTypeOK, pool, event, names, buffers, kernel
    <2>2. Pooled' /\ Named' /\ Buffered' /\ Chained'
      BY <1>1, Frames DEF pool, event, names, buffers, kernel
    <2>3. QED
      BY <2>1, <2>2 DEF NetInv
  <1>2. ASSUME NEW l \in SUBSET {Listen}, EpollWait(l) PROVE NetInv'
    BY <1>0, <1>1, <1>2 DEF EpollWait, NetTypeOK
  <1>3. ASSUME AcceptNot PROVE NetInv'
    BY <1>0, <1>1, <1>3 DEF AcceptNot, NetTypeOK
  <1>4. ASSUME EpollEnd PROVE NetInv'
    BY <1>1, <1>4 DEF EpollEnd
  <1>5. ASSUME NEW c \in Net, EpollError(c) PROVE NetInv'
    <2>1. /\ phase = "epoll" /\ batch' = batch \ {c} /\ net_close(c, 1) /\ 1 \in {1, 2}
          /\ UNCHANGED <<phase, q, ready, flag, next, prev, used>>
      BY <1>5 DEF EpollError, event
    <2>2. /\ phase' \in {"timer", "spin", "delay", "epoll"}
          /\ q' \in Net \cup {Ring} /\ batch' \subseteq Net \cup {Listen}
          /\ next' \in [Net \cup {Ring} -> Links] /\ prev' \in [Net \cup {Ring} -> Links]
          /\ used' \in [DOMAIN Budget -> Nat]
      BY <1>0, <2>1 DEF NetTypeOK
    <2>3. Chained'
      BY <2>1, Frames
    <2>4. QED
      BY <2>1, <2>2, <2>3, CloseKeeps
  <1>6. ASSUME NEW c \in Net, EpollEvent(c) PROVE NetInv'
    <2> DEFINE R == ready[c] \cup (IF "in" \in edge[c] THEN {"read"} ELSE {})
                             \cup (IF "out" \in edge[c] THEN {"write"} ELSE {})
    <2>1. /\ phase = "epoll" /\ batch' = batch \ {c}
          /\ "read" \notin ready[c] => insert_tail(c)
          /\ "read" \in ready[c] => UNCHANGED <<next, prev>>
          /\ ready' = [ready EXCEPT ![c] = R]
          /\ edge' = [edge EXCEPT ![c] = {}]
          /\ UNCHANGED <<phase, q, pool, flag, names, buffers, peer, inq, torn, blocked,
                         end, used>>
      BY <1>6 DEF EpollEvent
    <2>2. R \in SUBSET {"read", "write", "net"}
      BY <1>0 DEF NetTypeOK
    <2> HIDE DEF R
    <2>3. ready' \in [Net -> SUBSET {"read", "write", "net"}]
      BY <1>0, <2>1, <2>2 DEF NetTypeOK
    <2>4. \A x \in Net : x # c => ready'[x] = ready[x]
      BY <1>0, <2>1 DEF NetTypeOK
    <2>5. /\ next' \in [Net \cup {Ring} -> Links] /\ prev' \in [Net \cup {Ring} -> Links]
          /\ Linked(c)' /\ \A x \in Net \cup {Ring} : Linked(x) => Linked(x)'
      <3>1. CASE "read" \in ready[c]
        <4>1. next' = next /\ prev' = prev
          BY <2>1, <3>1
        <4>2. Linked(c)
          BY <1>0, <3>1 DEF Chained
        <4>3. QED
          BY <1>0, <4>1, <4>2 DEF NetTypeOK, Linked
      <3>2. CASE "read" \notin ready[c]
        BY <2>1, <3>2, InsertLinks
      <3>3. QED
        BY <3>1, <3>2
    <2>6. Linked(Ring) /\ \A x \in Net : "read" \in ready[x] => Linked(x)
      BY <1>0 DEF Chained, Linked
    <2>7. Linked(Ring)' /\ \A x \in Net : "read" \in ready'[x] => Linked(x)'
      BY <2>4, <2>5, <2>6
    <2>8. Chained'
      BY <2>1, <2>7 DEF Chained, Linked
    <2>9. edge' \in [Net -> SUBSET {"in", "out", "hup"}]
      BY <1>0, <2>1 DEF NetTypeOK
    <2>10. NetTypeOK'
      BY <1>0, <2>1, <2>3, <2>5, <2>9 DEF NetTypeOK, pool, names, buffers
    <2>11. Pooled' /\ Named' /\ Buffered'
      BY <2>1, Frames DEF pool, names, buffers
    <2>12. QED
      BY <2>8, <2>10, <2>11 DEF NetInv
  <1>7. QED
    BY <1>2, <1>3, <1>4, <1>5, <1>6

(* Peers touch only what the kernel holds. *)
LEMMA PeerSteps ==
    ASSUME NetInv, NEW c \in Net
    PROVE  /\ \A k \in Kind : Send(c, k) => NetInv'
           /\ \A k \in Kind : SendHalf(c, k) => NetInv'
           /\ SendRest(c) => NetInv'
           /\ \A how \in {"fin", "rst"} : End(c, how) => NetInv'
           /\ Block(c) => NetInv'
           /\ Unblock(c) => NetInv'
  <1>0. /\ NetTypeOK
        /\ "msg" \in DOMAIN Budget /\ "torn" \in DOMAIN Budget
        /\ "fault" \in DOMAIN Budget /\ "block" \in DOMAIN Budget
    BY DEF NetInv, Budget
  <1>1. ASSUME UNCHANGED <<thread, pool, event, names, buffers, peer>>,
               inq' \in [Net -> Seq(Half)], torn' \in [Net -> Kind \cup {"none"}],
               edge' \in [Net -> SUBSET {"in", "out", "hup"}],
               blocked' \in [Net -> BOOLEAN], end' \in [Net -> {"up", "fin", "rst"}],
               used' \in [DOMAIN Budget -> Nat]
        PROVE  NetInv'
    <2>1. NetTypeOK'
      BY <1>0, <1>1 DEF NetTypeOK, thread, pool, event, names, buffers
    <2>2. Pooled' /\ Named' /\ Buffered'
      BY <1>1, Frames DEF pool, names, buffers
    <2>3. Chained'
      BY <1>1 DEF NetInv, Chained, Linked, thread, event
    <2>4. QED
      BY <2>1, <2>2, <2>3 DEF NetInv
  <1>2. /\ inq \in [Net -> Seq(Half)] /\ torn \in [Net -> Kind \cup {"none"}]
        /\ edge \in [Net -> SUBSET {"in", "out", "hup"}]
        /\ blocked \in [Net -> BOOLEAN] /\ end \in [Net -> {"up", "fin", "rst"}]
        /\ used \in [DOMAIN Budget -> Nat]
    BY <1>0 DEF NetTypeOK
  <1>3. ASSUME NEW e \in {"in", "out"}
        PROVE  Raise(c, e) \in [Net -> SUBSET {"in", "out", "hup"}]
    BY <1>2 DEF Raise
  <1>4. ASSUME NEW k \in Kind, Send(c, k) PROVE NetInv'
    <2>1. << <<k, 1>>, <<k, 2>> >> \in Seq(Half)
      BY DEF Half
    <2>2. inq[c] \o << <<k, 1>>, <<k, 2>> >> \in Seq(Half)
      BY <1>2, <2>1, ConcatProperties
    <2>3. /\ inq' = [inq EXCEPT ![c] = inq[c] \o << <<k, 1>>, <<k, 2>> >>]
          /\ Spend("msg") /\ edge' = Raise(c, "in")
          /\ UNCHANGED <<thread, pool, event, names, buffers, peer, torn, blocked, end>>
      BY <1>4 DEF Send, Message
    <2>4. inq' \in [Net -> Seq(Half)]
      BY <1>2, <2>2, <2>3
    <2>5. used' \in [DOMAIN Budget -> Nat]
      BY <1>0, <2>3, SpendType
    <2>6. QED
      BY <1>1, <1>2, <1>3, <2>3, <2>4, <2>5
  <1>5. ASSUME NEW k \in Kind, SendHalf(c, k) PROVE NetInv'
    <2>1. <<k, 1>> \in Half
      BY DEF Half
    <2>2. /\ inq' = [inq EXCEPT ![c] = Append(inq[c], <<k, 1>>)]
          /\ torn' = [torn EXCEPT ![c] = k]
          /\ Spend("torn") /\ edge' = Raise(c, "in")
          /\ UNCHANGED <<thread, pool, event, names, buffers, peer, blocked, end>>
      BY <1>5 DEF SendHalf, Message
    <2>3. Append(inq[c], <<k, 1>>) \in Seq(Half)
      BY <1>2, <2>1
    <2>4. inq' \in [Net -> Seq(Half)] /\ torn' \in [Net -> Kind \cup {"none"}]
      BY <1>2, <2>2, <2>3
    <2>5. used' \in [DOMAIN Budget -> Nat]
      BY <1>0, <2>2, SpendType
    <2>6. QED
      BY <1>1, <1>2, <1>3, <2>2, <2>4, <2>5
  <1>6. ASSUME SendRest(c) PROVE NetInv'
    <2>1. /\ inq' = [inq EXCEPT ![c] = Append(inq[c], <<torn[c], 2>>)]
          /\ torn' = [torn EXCEPT ![c] = "none"] /\ torn[c] # "none"
          /\ edge' = Raise(c, "in")
          /\ UNCHANGED <<thread, pool, event, names, buffers, peer, blocked, end, used>>
      BY <1>6 DEF SendRest
    <2>2. <<torn[c], 2>> \in Half
      BY <1>2, <2>1 DEF Half
    <2>3. Append(inq[c], <<torn[c], 2>>) \in Seq(Half)
      BY <1>2, <2>2
    <2>4. inq' \in [Net -> Seq(Half)] /\ torn' \in [Net -> Kind \cup {"none"}]
      BY <1>2, <2>1, <2>3
    <2>5. QED
      BY <1>1, <1>2, <1>3, <2>1, <2>4
  <1>7. ASSUME NEW how \in {"fin", "rst"}, End(c, how) PROVE NetInv'
    <2>1. /\ end' = [end EXCEPT ![c] = how] /\ Spend("fault")
          /\ edge' \in {[edge EXCEPT ![c] = edge[c] \cup {"hup"}], Raise(c, "in")}
          /\ UNCHANGED <<thread, pool, event, names, buffers, peer, inq, torn, blocked>>
      BY <1>7 DEF End
    <2>2. end' \in [Net -> {"up", "fin", "rst"}]
      BY <1>2, <2>1
    <2>3. [edge EXCEPT ![c] = edge[c] \cup {"hup"}] \in [Net -> SUBSET {"in", "out", "hup"}]
      BY <1>2
    <2>4. used' \in [DOMAIN Budget -> Nat]
      BY <1>0, <2>1, SpendType
    <2>5. QED
      BY <1>1, <1>2, <1>3, <2>1, <2>2, <2>3, <2>4
  <1>8. ASSUME Block(c) PROVE NetInv'
    <2>1. /\ blocked' = [blocked EXCEPT ![c] = TRUE] /\ Spend("block")
          /\ UNCHANGED <<thread, pool, event, names, buffers, peer, inq, torn, edge, end>>
      BY <1>8 DEF Block
    <2>2. blocked' \in [Net -> BOOLEAN]
      BY <1>2, <2>1
    <2>3. used' \in [DOMAIN Budget -> Nat]
      BY <1>0, <2>1, SpendType
    <2>4. QED
      BY <1>1, <1>2, <2>1, <2>2, <2>3
  <1>9. ASSUME Unblock(c) PROVE NetInv'
    <2>1. /\ blocked' = [blocked EXCEPT ![c] = FALSE] /\ edge' = Raise(c, "out")
          /\ UNCHANGED <<thread, pool, event, names, buffers, peer, inq, torn, end, used>>
      BY <1>9 DEF Unblock
    <2>2. blocked' \in [Net -> BOOLEAN]
      BY <1>2, <2>1
    <2>3. QED
      BY <1>1, <1>2, <1>3, <2>1, <2>2
  <1>10. QED
    BY <1>4, <1>5, <1>6, <1>7, <1>8, <1>9

-----------------------------------------------------------------------------
(* No step of the thread or of a peer leaves the inductive invariant. *)
LEMMA NetStep == NetInv /\ [Next]_vars => NetInv'
  <1> SUFFICES ASSUME NetInv, [Next]_vars PROVE NetInv'
    OBVIOUS
  <1>1. CASE UNCHANGED vars
    <2>1. NetTypeOK'
      BY <1>1 DEF NetInv, NetTypeOK, vars, thread, pool, event, names, buffers, kernel
    <2>2. Pooled' /\ Named' /\ Buffered' /\ Chained'
      <3>1. /\ UNCHANGED pool /\ UNCHANGED <<names, open, peer>> /\ UNCHANGED rbuf
            /\ UNCHANGED <<next, prev, ready, phase, q>>
        BY <1>1 DEF vars, thread, pool, event, names, buffers, kernel
      <3>2. Chained'
        BY <3>1 DEF NetInv, Chained, Linked
      <3>3. QED
        BY <3>1, <3>2, Frames
    <2>3. QED
      BY <2>1, <2>2 DEF NetInv
  <1>2. CASE Next
    <2>1. CASE \E d \in DS : Notice(d) \/ NoticeSpin(d) \/ NoticeFails(d)
      BY <2>1, NoticeSteps
    <2>2. CASE \/ SpinEnd \/ SpinReset \/ TimerEnd
               \/ \E c \in Net : IdleTimeout(c)
      BY <2>2, TimerSteps
    <2>3. CASE Delay \/ AnswerFails
      BY <2>3, DelaySteps, RecvSteps DEF Delay
    <2>4. CASE Epoll \/ \E l \in SUBSET {Listen} : EpollWait(l)
      BY <2>4, EpollSteps DEF Epoll
    <2>5. CASE \E p \in DS \cup {Client}, more \in BOOLEAN : Accept(p, more)
      BY <2>5, AcceptKeeps
    <2>6. CASE \E c \in Net : \/ \E k \in Kind : Send(c, k) \/ SendHalf(c, k)
                              \/ SendRest(c)
                              \/ \E how \in {"fin", "rst"} : End(c, how)
                              \/ Block(c)
                              \/ Unblock(c)
      BY <2>6, PeerSteps
    <2>7. QED
      BY <1>2, <2>1, <2>2, <2>3, <2>4, <2>5, <2>6 DEF Next
  <1>3. QED
    BY <1>1, <1>2

(* The invariant holds of the worker, whoever connects, sends and fails. *)
THEOREM NetInvariance == Spec => []NetInv
  BY InitNet, NetStep, PTL DEF Spec

(* gfs_net_close unlinks and relinks nodes it does not own, and may do so  *)
(* twice; still every node is either open or in free_list, exactly once,   *)
(* and client_num never exceeds the connections that are open.             *)
THEOREM PoolAlwaysSound == Spec => []PoolSound
  <1>1. NetInv => PoolSound
    <2> SUFFICES ASSUME NetInv PROVE PoolSound
      OBVIOUS
    <2>1. ASSUME NEW c \in Net
          PROVE  Contains(free, c) <=> \E i \in DOMAIN free : free[i] = c
      <3>1. DOMAIN free = 1 .. Len(free)
        BY DEF NetInv, NetTypeOK
      <3>2. QED
        BY <3>1 DEF Contains
    <2>2. QED
      BY <2>1 DEF NetInv, Pooled, PoolSound
  <1>2. QED
    BY <1>1, NetInvariance, PTL

(* As long as the map is not exhausted, the connection it has for a data   *)
(* server is open and is the one that data server logged in on.            *)
THEOREM MapAlwaysLive == Spec => []MapLive
  <1>1. NetInv => MapLive
    BY DEF NetInv, Named
  <1>2. QED
    BY <1>1, NetInvariance, PTL

-----------------------------------------------------------------------------
(* Whole messages.                                                         *)

(* The parser finds every message that the front b of a sequence of whole  *)
(* messages holds; what it leaves and the rest w of the sequence are whole *)
(* messages again, if b is everything or fills rbuf.                       *)
LEMMA FrontParsed ==
    ASSUME NEW s \in Seq(Half), Framed(s), NEW b \in Seq(Half), NEW w \in Seq(Half),
           Len(s) = Len(b) + Len(w),
           \A i \in 1 .. Len(b) : b[i] = s[i],
           \A i \in 1 .. Len(w) : w[i] = s[Len(b) + i],
           w = <<>> \/ Len(b) = RbufLen
    PROVE  ~Drops(b) /\ Framed(Rest(b) \o w)
  <1> DEFINE k == Len(b)
             h == k \div 2
             P == Len(Packets(b))
  <1>0. Len(b) \in Nat /\ Len(w) \in Nat /\ Len(s) \in Nat
    OBVIOUS
  <1>1. h \in Nat /\ (k = 2 * h \/ k = 2 * h + 1)
    BY <1>0
  <1>2. PICK m \in Nat : /\ Len(s) = 2 * m
                         /\ \A i \in 1 .. m : /\ s[2 * i - 1][2] = 1
                                              /\ s[2 * i] = <<s[2 * i - 1][1], 2>>
    BY DEF Framed
  <1>3. P = h
    <2>1. P = Max(Whole(b)) /\ P \in Nat /\ 2 * P =< k /\ \A n \in Whole(b) : n =< P
      BY PacketsFound
    <2> HIDE DEF P
    <2>2. h \in Whole(b)
      <3>1. ASSUME NEW i \in 1 .. h
            PROVE  b[2 * i - 1][2] = 1 /\ b[2 * i] = <<b[2 * i - 1][1], 2>>
        <4>1. 2 * i - 1 \in 1 .. Len(b) /\ 2 * i \in 1 .. Len(b) /\ i \in 1 .. m
          BY <1>0, <1>1, <1>2
        <4>2. b[2 * i - 1] = s[2 * i - 1] /\ b[2 * i] = s[2 * i]
          BY <4>1
        <4>3. QED
          BY <1>2, <4>1, <4>2
      <3>2. h \in 0 .. Len(b) \div 2
        BY <1>1
      <3>3. QED
        BY <3>1, <3>2 DEF Whole
    <2>3. h =< P
      BY <2>1, <2>2
    <2>4. QED
      BY <1>0, <1>1, <2>1, <2>3
  <1> HIDE DEF P, h
  <1>4. /\ Rest(b) \in Seq(Half) /\ Len(Rest(b)) = k - 2 * h
        /\ \A i \in 1 .. k - 2 * h : Rest(b)[i] = s[2 * h + i]
    <2> DEFINE t == SubSeq(b, 2 * h + 1, k)
    <2>1. Rest(b) = IF k = RbufLen /\ t # <<>> /\ t[1][2] = 1 THEN t ELSE <<>>
      BY <1>3 DEF Rest, P
    <2>2. /\ t \in Seq(Half)
          /\ Len(t) = IF 2 * h + 1 =< k THEN k - (2 * h + 1) + 1 ELSE 0
          /\ \A i \in 1 .. k - (2 * h + 1) + 1 : t[i] = b[2 * h + 1 + i - 1]
      <3>1. \A i \in 2 * h + 1 .. k : b[i] \in Half
        BY <1>0, <1>1
      <3>2. 2 * h + 1 \in Nat /\ 2 * h + 1 \in 1 .. k + 1
        BY <1>0, <1>1
      <3>3. QED
        BY <1>0, <3>1, <3>2, SubSeqProperties
    <2> HIDE DEF t
    <2>3. CASE k = 2 * h
      <3>1. Len(t) = 0
        BY <1>0, <1>1, <2>2, <2>3
      <3>2. t = <<>>
        BY <2>2, <3>1
      <3>3. Rest(b) = <<>>
        BY <2>1, <3>2
      <3>4. QED
        BY <1>0, <1>1, <2>3, <3>3
    <2>4. CASE k = 2 * h + 1
      <3>1. Len(t) = 1 /\ t[1] = b[k]
        BY <1>0, <1>1, <2>2, <2>4
      <3>2. t # <<>>
        BY <3>1
      <3>3. k \in 1 .. Len(b) /\ b[k] = s[k]
        BY <1>0, <1>1, <2>4
      <3>4. h + 1 \in 1 .. m /\ 2 * (h + 1) - 1 = k /\ k # Len(s)
        BY <1>0, <1>1, <1>2, <2>4
      <3>5. t[1][2] = 1
        BY <1>2, <3>1, <3>3, <3>4
      <3>6. k = RbufLen
        BY <1>0, <3>4
      <3>7. Rest(b) = t
        BY <2>1, <3>2, <3>5, <3>6
      <3>8. k - 2 * h = 1 /\ 2 * h + 1 = k
        BY <1>0, <1>1, <2>4
      <3>9. QED
        BY <2>2, <3>1, <3>3, <3>7, <3>8
    <2>5. QED
      BY <1>1, <2>3, <2>4
  <1>5. ~Drops(b)
    <2>1. Len(Rest(b)) + 2 * P = Len(b)
      BY <1>0, <1>1, <1>3, <1>4
    <2>2. QED
      BY <2>1 DEF Drops, P
  <1>6. PICK a : a = Rest(b)
    OBVIOUS
  <1>7. /\ a \in Seq(Half) /\ Len(a) = k - 2 * h
        /\ \A i \in 1 .. k - 2 * h : a[i] = s[2 * h + i]
    BY <1>4, <1>6
  <1>8. /\ Len(a \o w) = Len(s) - 2 * h
        /\ \A i \in 1 .. Len(s) - 2 * h : (a \o w)[i] = s[2 * h + i]
    <2>1. /\ Len(a \o w) = Len(a) + Len(w)
          /\ \A i \in 1 .. Len(a) + Len(w) :
               (a \o w)[i] = IF i =< Len(a) THEN a[i] ELSE w[i - Len(a)]
      BY <1>7, ConcatProperties
    <2>2. Len(a) + Len(w) = Len(s) - 2 * h
      BY <1>0, <1>1, <1>7
    <2>3. ASSUME NEW i \in 1 .. Len(s) - 2 * h PROVE (a \o w)[i] = s[2 * h + i]
      <3>1. CASE i =< k - 2 * h
        <4>1. i \in 1 .. k - 2 * h
          BY <1>0, <1>1, <3>1
        <4>2. QED
          BY <1>7, <2>1, <2>2, <2>3, <3>1, <4>1
      <3>2. CASE ~(i =< k - 2 * h)
        <4>1. /\ i - (k - 2 * h) \in 1 .. Len(w)
              /\ k + (i - (k - 2 * h)) = 2 * h + i
          BY <1>0, <1>1, <3>2
        <4>2. (a \o w)[i] = w[i - (k - 2 * h)]
          BY <1>7, <2>1, <2>2, <2>3, <3>2
        <4>3. QED
          BY <4>1, <4>2
      <3>3. QED
        BY <3>1, <3>2
    <2>4. QED
      BY <2>1, <2>2, <2>3
  <1>9. Framed(a \o w)
    <2>1. m - h \in Nat /\ Len(a \o w) = 2 * (m - h)
      BY <1>0, <1>1, <1>2, <1>8
    <2>2. ASSUME NEW i \in 1 .. m - h
          PROVE  /\ (a \o w)[2 * i - 1][2] = 1
                 /\ (a \o w)[2 * i] = <<(a \o w)[2 * i - 1][1], 2>>
      <3>1. /\ 2 * i - 1 \in 1 .. Len(s) - 2 * h /\ 2 * i \in 1 .. Len(s) - 2 * h
            /\ 2 * h + (2 * i - 1) = 2 * (h + i) - 1 /\ 2 * h + 2 * i = 2 * (h + i)
            /\ h + i \in 1 .. m
        BY <1>1, <1>2, <2>1
      <3>2. /\ (a \o w)[2 * i - 1] = s[2 * (h + i) - 1]
            /\ (a \o w)[2 * i] = s[2 * (h + i)]
        BY <1>8, <3>1
      <3>3. QED
        BY <1>2, <3>1, <3>2
    <2>3. QED
      BY <2>1, <2>2 DEF Framed
  <1>10. QED
    BY <1>5, <1>6, <1>9

(* A message that arrives whole. *)
LEMMA FramedMore ==
    ASSUME NEW s \in Seq(Half), Framed(s), NEW u, NEW k,
           Len(u) = Len(s) + 2, \A i \in 1 .. Len(s) : u[i] = s[i],
           u[Len(s) + 1] = <<k, 1>>, u[Len(s) + 2] = <<k, 2>>
    PROVE  Framed(u)
  <1>1. PICK m \in Nat : /\ Len(s) = 2 * m
                         /\ \A i \in 1 .. m : /\ s[2 * i - 1][2] = 1
                                              /\ s[2 * i] = <<s[2 * i - 1][1], 2>>
    BY DEF Framed
  <1>2. m + 1 \in Nat /\ Len(u) = 2 * (m + 1)
    BY <1>1
  <1>3. ASSUME NEW i \in 1 .. m + 1
        PROVE  u[2 * i - 1][2] = 1 /\ u[2 * i] = <<u[2 * i - 1][1], 2>>
    <2>1. CASE i = m + 1
      <3>1. 2 * i - 1 = Len(s) + 1 /\ 2 * i = Len(s) + 2
        BY <1>1, <2>1
      <3>2. u[2 * i - 1] = <<k, 1>> /\ u[2 * i] = <<k, 2>>
        BY <3>1
      <3>3. QED
        BY <3>2
    <2>2. CASE i # m + 1
      <3>1. i \in 1 .. m /\ 2 * i - 1 \in 1 .. Len(s) /\ 2 * i \in 1 .. Len(s)
        BY <1>1, <2>2
      <3>2. QED
        BY <1>1, <3>1
    <2>3. QED
      BY <2>1, <2>2
  <1>4. QED
    BY <1>2, <1>3 DEF Framed

(* An empty stream. *)
LEMMA FramedEmpty == Framed(<<>> \o <<>>)
  <1>1. Len(<<>> \o <<>>) = 2 * 0 /\ 0 \in Nat /\ 1 .. 0 = {}
    OBVIOUS
  <1>2. QED
    BY <1>1 DEF Framed

(* Sending to a peer that reads asks epoll for nothing new. *)
LEMMA QuietSend ==
    ASSUME NetTypeOK, Quiet, NEW c \in Net, NEW n, NEW r, "write" \notin r,
           tcp_send(c, n, r), UNCHANGED <<blocked, torn>>
    PROVE  Quiet'
  <1>0. /\ ready \in [Net -> SUBSET {"read", "write", "net"}]
        /\ flag \in [Net -> {"in", "out"}]
        /\ edge \in [Net -> SUBSET {"in", "out", "hup"}]
    BY DEF NetTypeOK
  <1>1. ~blocked[c] /\ flag[c] = "in" /\ "out" \notin edge[c]
    BY DEF Quiet
  <1>2. /\ ready' \in {[ready EXCEPT ![c] = r], [ready EXCEPT ![c] = r \cup {"net"}]}
        /\ flag' \in {flag, [flag EXCEPT ![c] = "in"]}
        /\ edge' \in {edge, [edge EXCEPT ![c] = edge[c]]}
    BY <1>1 DEF tcp_send
  <1>3. edge' = edge
    BY <1>0, <1>2
  <1>4. \A x \in Net : "write" \in ready'[x] => "write" \in ready[x]
    BY <1>0, <1>2
  <1>5. \A x \in Net : flag[x] = "in" => flag'[x] = "in"
    BY <1>0, <1>2
  <1>6. QED
    BY <1>3, <1>4, <1>5 DEF Quiet

(* A connection that is closed leaves no part of a message behind. *)
LEMMA CloseKept ==
    ASSUME NetTypeOK, ~dropped, Quiet, Streams, NEW c \in Net, NEW n, CloseNode(c, n),
           flag' = flag, \A x \in Net : ready'[x] \subseteq ready[x]
    PROVE  ~dropped' /\ Quiet' /\ Streams'
  <1>1. /\ rbuf' = [rbuf EXCEPT ![c] = <<>>] /\ inq' = [inq EXCEPT ![c] = <<>>]
        /\ torn' = [torn EXCEPT ![c] = "none"] /\ edge' = [edge EXCEPT ![c] = {}]
        /\ blocked' = [blocked EXCEPT ![c] = FALSE] /\ dropped' = dropped
    BY DEF CloseNode
  <1>2. Quiet'
    BY <1>1 DEF Quiet, NetTypeOK
  <1>3. ASSUME NEW x \in Net PROVE Framed(rbuf'[x] \o inq'[x])
    <2>1. CASE x = c
      <3>1. rbuf'[x] = <<>> /\ inq'[x] = <<>>
        BY <1>1, <2>1 DEF NetTypeOK
      <3>2. QED
        BY <3>1, FramedEmpty
    <2>2. CASE x # c
      <3>1. rbuf'[x] = rbuf[x] /\ inq'[x] = inq[x]
        BY <1>1, <2>2 DEF NetTypeOK
      <3>2. QED
        BY <3>1 DEF Streams
    <2>3. QED
      BY <2>1, <2>2
  <1>4. QED
    BY <1>1, <1>2, <1>3 DEF Streams

(* A worker that starts again has no buffers. *)
LEMMA FreshKept ==
    ASSUME NEW Q, NEW R, Q = [c \in Net |-> <<>>], R = [c \in Net |-> <<>>],
           NEW c \in Net
    PROVE  Framed(Q[c] \o R[c])
  <1>1. Q[c] = <<>> /\ R[c] = <<>>
    OBVIOUS
  <1>2. QED
    BY <1>1, FramedEmpty

(* What is handled is a front of the stream and the rest stays in the      *)
(* kernel: nothing is thrown away.                                         *)
LEMMA HandledKept ==
    ASSUME NetInv, ~dropped, Quiet, Streams,
           NEW c \in Net, NEW b \in Seq(Half), NEW w \in Seq(Half), NEW r,
           "write" \notin r, Handled(c, b, r), inq' = [inq EXCEPT ![c] = w],
           UNCHANGED <<blocked, torn>>,
           Len(rbuf[c] \o inq[c]) = Len(b) + Len(w),
           \A i \in 1 .. Len(b) : b[i] = (rbuf[c] \o inq[c])[i],
           \A i \in 1 .. Len(w) : w[i] = (rbuf[c] \o inq[c])[Len(b) + i],
           w = <<>> \/ Len(b) = RbufLen
    PROVE  ~dropped' /\ Quiet' /\ Streams'
  <1>0. NetTypeOK
    BY DEF NetInv
  <1>1. /\ tcp_send(c, Answers(Packets(b)), r)
        /\ rbuf' = [rbuf EXCEPT ![c] = Rest(b)] /\ dropped' = (dropped \/ Drops(b))
    BY DEF Handled
  <1>2. Quiet'
    BY <1>0, <1>1, QuietSend
  <1>3. ~Drops(b) /\ Framed(Rest(b) \o w)
    <2>1. PICK s : s = rbuf[c] \o inq[c]
      OBVIOUS
    <2>2. s \in Seq(Half)
      BY <2>1, Received
    <2>3. Framed(s)
      BY <2>1 DEF Streams
    <2>4. /\ Len(s) = Len(b) + Len(w)
          /\ \A i \in 1 .. Len(b) : b[i] = s[i]
          /\ \A i \in 1 .. Len(w) : w[i] = s[Len(b) + i]
      BY <2>1
    <2>5. QED
      BY <2>2, <2>3, <2>4, FrontParsed
  <1>4. ASSUME NEW x \in Net PROVE Framed(rbuf'[x] \o inq'[x])
    <2>1. CASE x = c
      <3>1. rbuf'[x] = Rest(b) /\ inq'[x] = w
        BY <1>0, <1>1, <2>1 DEF NetTypeOK
      <3>2. QED
        BY <1>3, <3>1
    <2>2. CASE x # c
      <3>1. rbuf'[x] = rbuf[x] /\ inq'[x] = inq[x]
        BY <1>0, <1>1, <2>2 DEF NetTypeOK
      <3>2. QED
        BY <3>1 DEF Streams
    <2>3. QED
      BY <2>1, <2>2
  <1>5. QED
    BY <1>1, <1>2, <1>3, <1>4 DEF Streams

(* Inputs are only ever counted up. *)
LEMMA CalmBefore ==
    ASSUME NetTypeOK, [Next]_vars, Calm'
    PROVE  Calm
  <1>1. used' = used \/ \E k \in DOMAIN Budget : Spend(k)
    <2>1. CASE \E d \in DS : Notice(d) \/ NoticeSpin(d) \/ NoticeFails(d)
      BY <2>1 DEF Notice, NoticeSpin, NoticeFails, Budget
    <2>2. CASE \/ SpinEnd \/ SpinReset \/ AnswerFails \/ TimerEnd
               \/ \E c \in Net : IdleTimeout(c)
      BY <2>2 DEF SpinEnd, SpinReset, AnswerFails, TimerEnd, IdleTimeout, Budget
    <2>3. CASE Delay
      BY <2>3 DEF Delay, DelaySkip, DelayIdle, DelayClose, DelayRecv, DelayRecvFull
    <2>4. CASE Epoll \/ \E l \in SUBSET {Listen} : EpollWait(l)
      BY <2>4 DEF Epoll, EpollWait, AcceptNot, EpollEnd, EpollError, EpollEvent
    <2>5. CASE \E p \in DS \cup {Client}, more \in BOOLEAN : Accept(p, more)
      BY <2>5 DEF Accept, Budget
    <2>6. CASE \E c \in Net : \/ \E k \in Kind : Send(c, k) \/ SendHalf(c, k)
                              \/ SendRest(c)
                              \/ \E how \in {"fin", "rst"} : End(c, how)
                              \/ Block(c)
                              \/ Unblock(c)
      BY <2>6 DEF Send, SendHalf, SendRest, End, Block, Unblock, Budget
    <2>7. CASE UNCHANGED vars
      BY <2>7 DEF vars
    <2>8. QED
      BY <2>1, <2>2, <2>3, <2>4, <2>5, <2>6, <2>7 DEF Next
  <1>2. used \in [DOMAIN Budget -> Nat] /\ {"torn", "block"} \subseteq DOMAIN Budget
    BY DEF NetTypeOK, Budget
  <1>3. CASE used' = used
    BY <1>3 DEF Calm
  <1>4. ASSUME NEW k \in DOMAIN Budget, Spend(k) PROVE Calm
    <2>1. used' = [used EXCEPT ![k] = used[k] + 1] /\ used'["torn"] = 0 /\ used'["block"] = 0
      BY <1>4 DEF Spend, Calm
    <2>2. k # "torn" /\ k # "block"
      BY <1>2, <2>1
    <2>3. used["torn"] = 0 /\ used["block"] = 0
      BY <1>2, <2>1, <2>2
    <2>4. QED
      BY <2>3 DEF Calm
  <1>5. QED
    BY <1>1, <1>3, <1>4

(* What a step leaves alone. *)
LEMMA KeptFrames ==
    ASSUME ~dropped, Quiet, Streams
    PROVE  /\ UNCHANGED <<rbuf, inq>> => Streams'
           /\ UNCHANGED dropped => ~dropped'
           /\ UNCHANGED <<blocked, torn, flag, edge, ready>> => Quiet'
  BY DEF Quiet, Streams

(* The steps of the thread. *)
LEMMA ThreadKept ==
    ASSUME NetInv, ~dropped, Quiet, Streams
    PROVE  /\ \A c \in Net : /\ Command(c)
                             /\ UNCHANGED <<inq, blocked, torn>>
                             => ~dropped' /\ Quiet' /\ Streams'
           /\ Die => ~dropped' /\ Quiet' /\ Streams'
           /\ DelayRecv => ~dropped' /\ Quiet' /\ Streams'
           /\ DelayRecvFull => ~dropped' /\ Quiet' /\ Streams'
           /\ AnswerFails => ~dropped' /\ Quiet' /\ Streams'
  <1>0. NetTypeOK
    BY DEF NetInv
  <1>1. ASSUME NEW c \in Net, Command(c), UNCHANGED <<inq, blocked, torn>>
        PROVE  ~dropped' /\ Quiet' /\ Streams'
    <2>1. "write" \notin ready[c] \ {"write"} /\ "write" \notin ready[c]
      BY DEF Quiet
    <2>2. tcp_send(c, 1, ready[c] \ {"write"}) /\ UNCHANGED <<rbuf, dropped>>
      BY <1>1, <2>1 DEF Command
    <2>3. Quiet'
      BY <1>0, <1>1, <2>1, <2>2, QuietSend
    <2>4. QED
      BY <1>1, <2>2, <2>3, KeptFrames
  <1>2. ASSUME Die PROVE ~dropped' /\ Quiet' /\ Streams'
    <2>1. /\ rbuf' = [c \in Net |-> <<>>] /\ inq' = [c \in Net |-> <<>>]
          /\ dropped' = dropped
      BY <1>2 DEF Die
    <2>2. Quiet'
      BY <1>2 DEF Die, Quiet
    <2>3. Streams'
      BY <2>1, FreshKept DEF Streams
    <2>4. QED
      BY <2>1, <2>2, <2>3
  <1>3. ASSUME DelayRecv PROVE ~dropped' /\ Quiet' /\ Streams'
    <2>1. /\ q \in Net /\ Handled(q, rbuf[q] \o inq[q], ready[q] \ {"read"})
          /\ inq' = [inq EXCEPT ![q] = <<>>] /\ UNCHANGED <<blocked, torn>>
      BY <1>0, <1>3 DEF DelayRecv, NetTypeOK
    <2>2. PICK b : b = rbuf[q] \o inq[q]
      OBVIOUS
    <2>3. PICK w : w = <<>>
      OBVIOUS
    <2>4. /\ b \in Seq(Half) /\ w \in Seq(Half) /\ Len(w) = 0 /\ Len(b) \in Nat
          /\ Len(rbuf[q] \o inq[q]) = Len(b) + Len(w)
      <3>1. b \in Seq(Half)
        BY <2>1, <2>2, Received
      <3>2. w \in Seq(Half) /\ Len(w) = 0 /\ Len(b) \in Nat
        BY <2>3, <3>1
      <3>3. Len(b) + Len(w) = Len(b)
        BY <3>2
      <3>4. Len(rbuf[q] \o inq[q]) = Len(b)
        BY <2>2
      <3>5. QED
        BY <3>1, <3>2, <3>3, <3>4
    <2>5. "write" \notin ready[q] \ {"read"}
      BY <2>1 DEF Quiet
    <2>6. /\ \A i \in 1 .. Len(b) : b[i] = (rbuf[q] \o inq[q])[i]
          /\ \A i \in 1 .. Len(w) : w[i] = (rbuf[q] \o inq[q])[Len(b) + i]
      BY <2>2, <2>4
    <2>7. /\ Handled(q, b, ready[q] \ {"read"}) /\ inq' = [inq EXCEPT ![q] = w]
      BY <2>1, <2>2, <2>3
    <2>8. QED
      BY <2>1, <2>3, <2>4, <2>5, <2>6, <2>7, HandledKept
  <1>4. ASSUME DelayRecvFull PROVE ~dropped' /\ Quiet' /\ Streams'
    <2> DEFINE n == RbufLen - Len(rbuf[q])
    <2>1. /\ q \in Net /\ Handled(q, rbuf[q] \o SubSeq(inq[q], 1, n), ready[q])
          /\ inq' = [inq EXCEPT ![q] = SubSeq(inq[q], n + 1, Len(inq[q]))]
          /\ ~Fits(q) /\ UNCHANGED <<blocked, torn>>
      BY <1>0, <1>4 DEF DelayRecvFull, NetTypeOK
    <2>2. PICK x : x = rbuf[q]
      OBVIOUS
    <2>3. PICK y : y = inq[q]
      OBVIOUS
    <2>4. PICK k : k = n
      OBVIOUS
    <2>5. /\ x \in Seq(Half) /\ y \in Seq(Half) /\ Len(x) \in Nat /\ Len(y) \in Nat
          /\ RbufLen \in Nat /\ k \in Nat /\ k = RbufLen - Len(x) /\ k =< Len(y)
      <3>1. /\ x \in Seq(Half) /\ y \in Seq(Half) /\ Len(x) =< RbufLen
            /\ RbufLen \in Nat /\ k = RbufLen - Len(x)
        BY <1>0, <2>1, <2>2, <2>3, <2>4, NetAssumption DEF NetInv, NetTypeOK, Buffered
      <3>2. Len(x) \in Nat /\ Len(y) \in Nat
        BY <3>1
      <3>3. ~(Len(x) + Len(y) < RbufLen)
        BY <2>1, <2>2, <2>3 DEF Fits
      <3>4. QED
        BY <3>1, <3>2, <3>3
    <2>6. PICK f : f = SubSeq(y, 1, k)
      OBVIOUS
    <2>7. PICK w : w = SubSeq(y, k + 1, Len(y))
      OBVIOUS
    <2>8. PICK b : b = x \o f
      OBVIOUS
    <2>9. /\ f \in Seq(Half) /\ Len(f) = k
          /\ \A i \in 1 .. k : f[i] = y[i]
      <3>1. \A i \in 1 .. k : y[i] \in Half
        BY <2>5
      <3>2. /\ f \in Seq(Half) /\ Len(f) = IF 1 =< k THEN k - 1 + 1 ELSE 0
            /\ \A i \in 1 .. k - 1 + 1 : f[i] = y[1 + i - 1]
        BY <2>5, <2>6, <3>1, SubSeqProperties
      <3>3. QED
        BY <2>5, <3>2
    <2>10. /\ w \in Seq(Half) /\ Len(w) = Len(y) - k
           /\ \A i \in 1 .. Len(y) - k : w[i] = y[k + i]
      <3>1. \A i \in k + 1 .. Len(y) : y[i] \in Half
        BY <2>5
      <3>2. k + 1 \in Nat /\ k + 1 \in 1 .. Len(y) + 1
        BY <2>5
      <3>3. /\ w \in Seq(Half)
            /\ Len(w) = IF k + 1 =< Len(y) THEN Len(y) - (k + 1) + 1 ELSE 0
            /\ \A i \in 1 .. Len(y) - (k + 1) + 1 : w[i] = y[k + 1 + i - 1]
        BY <2>5, <2>7, <3>1, <3>2, SubSeqProperties
      <3>4. QED
        BY <2>5, <3>3
    <2>11. /\ b \in Seq(Half) /\ Len(b) = RbufLen
           /\ \A i \in 1 .. RbufLen : b[i] = IF i =< Len(x) THEN x[i] ELSE f[i - Len(x)]
      <3>1. /\ b \in Seq(Half) /\ Len(b) = Len(x) + Len(f)
            /\ \A i \in 1 .. Len(x) + Len(f) :
                 b[i] = IF i =< Len(x) THEN x[i] ELSE f[i - Len(x)]
        BY <2>5, <2>8, <2>9, ConcatProperties
      <3>2. Len(x) + Len(f) = RbufLen
        BY <2>5, <2>9
      <3>3. QED
        BY <3>1, <3>2
    <2>12. /\ Len(x \o y) = Len(x) + Len(y)
           /\ \A i \in 1 .. Len(x) + Len(y) :
                (x \o y)[i] = IF i =< Len(x) THEN x[i] ELSE y[i - Len(x)]
      BY <2>5, ConcatProperties
    <2>13. Len(x \o y) = Len(b) + Len(w)
      BY <2>5, <2>10, <2>11, <2>12
    <2>14. ASSUME NEW i \in 1 .. Len(b) PROVE b[i] = (x \o y)[i]
      <3>1. i \in 1 .. RbufLen /\ i \in 1 .. Len(x) + Len(y)
        BY <2>5, <2>11
      <3>2. CASE i =< Len(x)
        BY <2>11, <2>12, <3>1, <3>2
      <3>3. CASE ~(i =< Len(x))
        <4>1. i - Len(x) \in 1 .. k
          BY <2>5, <3>1, <3>3
        <4>2. f[i - Len(x)] = y[i - Len(x)]
          BY <2>9, <4>1
        <4>3. QED
          BY <2>11, <2>12, <3>1, <3>3, <4>2
      <3>4. QED
        BY <3>2, <3>3
    <2>15. ASSUME NEW i \in 1 .. Len(w) PROVE w[i] = (x \o y)[Len(b) + i]
      <3>1. /\ Len(b) + i \in 1 .. Len(x) + Len(y) /\ ~(Len(b) + i =< Len(x))
            /\ Len(b) + i - Len(x) = k + i /\ i \in 1 .. Len(y) - k
        BY <2>5, <2>10, <2>11
      <3>2. (x \o y)[Len(b) + i] = y[k + i]
        BY <2>12, <3>1
      <3>3. QED
        BY <2>10, <3>1, <3>2
    <2>16. /\ Handled(q, b, ready[q]) /\ inq' = [inq EXCEPT ![q] = w]
      BY <2>1, <2>2, <2>3, <2>4, <2>6, <2>7, <2>8
    <2>17. /\ Len(rbuf[q] \o inq[q]) = Len(b) + Len(w)
           /\ \A i \in 1 .. Len(b) : b[i] = (rbuf[q] \o inq[q])[i]
           /\ \A i \in 1 .. Len(w) : w[i] = (rbuf[q] \o inq[q])[Len(b) + i]
      BY <2>2, <2>3, <2>13, <2>14, <2>15
    <2>18. "write" \notin ready[q]
      BY <2>1 DEF Quiet
    <2>19. QED
      BY <2>1, <2>10, <2>11, <2>16, <2>17, <2>18, HandledKept
  <1>5. ASSUME AnswerFails PROVE ~dropped' /\ Quiet' /\ Streams'
    <2>1. CASE Die
      BY <1>2, <2>1
    <2>2. CASE /\ CloseNode(q, 1) /\ q \in Net /\ flag' = flag
               /\ ready' = [ready EXCEPT ![q] = ready[q] \ {"read"}]
      <3>1. \A x \in Net : ready'[x] \subseteq ready[x]
        BY <1>0, <2>2 DEF NetTypeOK
      <3>2. QED
        BY <1>0, <2>2, <3>1, CloseKept
    <2>3. QED
      BY <1>0, <1>5, <2>1, <2>2 DEF AnswerFails, NetTypeOK
  <1>6. QED
    BY <1>1, <1>2, <1>3, <1>4, <1>5

(* The steps of the peers, as long as none of them is torn or blocks. *)
LEMMA PeerKept ==
    ASSUME NetInv, ~dropped, Quiet, Streams, Calm', NEW c \in Net
    PROVE  /\ \A k \in Kind : Send(c, k) => ~dropped' /\ Quiet' /\ Streams'
           /\ \A k \in Kind : ~SendHalf(c, k)
           /\ ~SendRest(c) /\ ~Block(c) /\ ~Unblock(c)
           /\ \A how \in {"fin", "rst"} : End(c, how) => ~dropped' /\ Quiet' /\ Streams'
  <1>0. NetTypeOK /\ {"torn", "block"} \subseteq DOMAIN Budget
    BY DEF NetInv, Budget
  <1>1. ~Spend("torn") /\ ~Spend("block")
    BY <1>0 DEF Spend, Calm, NetTypeOK
  <1>2. /\ \A k \in Kind : ~SendHalf(c, k)
        /\ ~SendRest(c) /\ ~Block(c) /\ ~Unblock(c)
    BY <1>1 DEF SendHalf, SendRest, Block, Unblock, Quiet
  <1>3. edge' = Raise(c, "in") /\ UNCHANGED <<blocked, torn, flag, ready>> => Quiet'
    <2> SUFFICES ASSUME edge' = Raise(c, "in"), UNCHANGED <<blocked, torn, flag, ready>>
                 PROVE  Quiet'
      OBVIOUS
    <2>1. \A x \in Net : "out" \in edge'[x] => "out" \in edge[x]
      BY <1>0 DEF Raise, NetTypeOK
    <2>2. QED
      BY <2>1 DEF Quiet
  <1>4. ASSUME NEW k \in Kind, Send(c, k) PROVE ~dropped' /\ Quiet' /\ Streams'
    <2> DEFINE m == << <<k, 1>>, <<k, 2>> >>
    <2>1. /\ inq' = [inq EXCEPT ![c] = inq[c] \o m]
          /\ edge' = Raise(c, "in")
          /\ UNCHANGED <<blocked, torn, flag, ready, rbuf, dropped>>
      BY <1>4 DEF Send, Message, event, buffers
    <2>2. PICK x : x = rbuf[c]
      OBVIOUS
    <2>3. PICK y : y = inq[c]
      OBVIOUS
    <2>4. x \in Seq(Half) /\ y \in Seq(Half)
      BY <1>0, <2>2, <2>3 DEF NetTypeOK
    <2>5. m \in Seq(Half) /\ Len(m) = 2 /\ m[1] = <<k, 1>> /\ m[2] = <<k, 2>>
      BY DEF Half
    <2> HIDE DEF m
    <2>6. /\ x \o y \in Seq(Half) /\ Len(x \o y) = Len(x) + Len(y)
          /\ \A i \in 1 .. Len(x) + Len(y) :
               (x \o y)[i] = IF i =< Len(x) THEN x[i] ELSE y[i - Len(x)]
      BY <2>4, ConcatProperties
    <2>7. x \o (y \o m) = (x \o y) \o m
      <3>1. m \in Seq(Half)
        BY <2>5
      <3>2. QED
        BY <2>4, <3>1, ConcatAssociative
    <2>8. PICK s : s = x \o y
      OBVIOUS
    <2>9. PICK u : u = s \o m
      OBVIOUS
    <2>10. /\ Len(u) = Len(s) + 2 /\ Len(s) \in Nat
           /\ \A i \in 1 .. Len(s) + 2 : u[i] = IF i =< Len(s) THEN s[i] ELSE m[i - Len(s)]
      <3>1. s \in Seq(Half) /\ Len(s) \in Nat
        BY <2>6, <2>8
      <3>2. QED
        BY <2>5, <2>9, <3>1, ConcatProperties
    <2>11. /\ \A i \in 1 .. Len(s) : u[i] = s[i]
           /\ u[Len(s) + 1] = <<k, 1>> /\ u[Len(s) + 2] = <<k, 2>>
      <3>1. /\ Len(s) + 1 \in 1 .. Len(s) + 2 /\ Len(s) + 2 \in 1 .. Len(s) + 2
            /\ ~(Len(s) + 1 =< Len(s)) /\ ~(Len(s) + 2 =< Len(s))
            /\ Len(s) + 1 - Len(s) = 1 /\ Len(s) + 2 - Len(s) = 2
            /\ \A i \in 1 .. Len(s) : i \in 1 .. Len(s) + 2 /\ i =< Len(s)
        BY <2>10
      <3>2. QED
        BY <2>5, <2>10, <3>1
    <2>12. Framed(s)
      BY <2>2, <2>3, <2>8 DEF Streams
    <2>13. Framed(u)
      <3>1. s \in Seq(Half) /\ Len(u) = Len(s) + 2
        BY <2>6, <2>8, <2>10
      <3>2. QED
        BY <2>11, <2>12, <3>1, FramedMore
    <2>14. ASSUME NEW z \in Net PROVE Framed(rbuf'[z] \o inq'[z])
      <3>1. CASE z = c
        <4>1. rbuf'[z] = x /\ inq'[z] = y \o m
          BY <1>0, <2>1, <2>2, <2>3, <3>1 DEF NetTypeOK
        <4>2. x \o (y \o m) = u
          BY <2>7, <2>8, <2>9
        <4>3. QED
          BY <2>13, <4>1, <4>2
      <3>2. CASE z # c
        <4>1. rbuf'[z] = rbuf[z] /\ inq'[z] = inq[z]
          BY <1>0, <2>1, <3>2 DEF NetTypeOK
        <4>2. QED
          BY <4>1 DEF Streams
      <3>3. QED
        BY <3>1, <3>2
    <2>15. QED
      BY <1>3, <2>1, <2>14 DEF Streams
  <1>5. ASSUME NEW how \in {"fin", "rst"}, End(c, how)
        PROVE  ~dropped' /\ Quiet' /\ Streams'
    <2>1. /\ edge' \in {[edge EXCEPT ![c] = edge[c] \cup {"hup"}], Raise(c, "in")}
          /\ UNCHANGED <<blocked, torn, flag, ready, rbuf, inq, dropped>>
      BY <1>5 DEF End, event, buffers
    <2>2. \A x \in Net : "out" \in [edge EXCEPT ![c] = edge[c] \cup {"hup"}][x]
                           => "out" \in edge[x]
      BY <1>0 DEF NetTypeOK
    <2>3. Quiet'
      BY <1>3, <2>1, <2>2 DEF Quiet
    <2>4. QED
      BY <2>1, <2>3, KeptFrames
  <1>6. QED
    BY <1>2, <1>4, <1>5

(* Messages stay whole, one step after the other. *)
LEMMA KeptStep == NetInv /\ KeptInv /\ [Next]_vars => KeptInv'
  <1> SUFFICES ASSUME NetInv, KeptInv, [Next]_vars, Calm'
               PROVE  ~dropped' /\ Quiet' /\ Streams'
    BY DEF KeptInv
  <1>0. NetTypeOK
    BY DEF NetInv
  <1>1. ~dropped /\ Quiet /\ Streams
    BY <1>0, CalmBefore DEF KeptInv
  <1> DEFINE Kept == ~dropped' /\ Quiet' /\ Streams'
  <1>2. CASE UNCHANGED <<dropped, rbuf, inq, blocked, torn, flag, edge, ready>>
    BY <1>1, <1>2, KeptFrames
  <1>3. ASSUME NEW c \in Net, NEW n, net_close(c, n), UNCHANGED <<flag, ready>> PROVE Kept
    BY <1>0, <1>1, <1>3, CloseKept DEF net_close
  <1>4. ASSUME NEW d \in DS, Notice(d) \/ NoticeSpin(d) \/ NoticeFails(d) PROVE Kept
    <2>0. map[d] \in Net \cup {NoNet} /\ open \subseteq Net
      BY <1>0 DEF NetTypeOK
    <2>1. CASE Notice(d)
      <3>1. map[d] \in Net /\ Command(map[d]) /\ UNCHANGED <<inq, blocked, torn>>
        BY <2>0, <2>1 DEF Notice
      <3>2. QED
        BY <1>1, <3>1, ThreadKept
    <2>2. CASE NoticeSpin(d)
      BY <1>2, <2>2 DEF NoticeSpin, event, buffers, kernel
    <2>3. CASE NoticeFails(d)
      <3>1. map[d] \in Net /\ net_close(map[d], 1) /\ UNCHANGED <<flag, ready>>
        BY <2>0, <2>3 DEF NoticeFails, event
      <3>2. QED
        BY <1>3, <3>1
    <2>4. QED
      BY <1>4, <2>1, <2>2, <2>3
  <1>5. CASE SpinEnd
    <2>1. q \in Net /\ Command(q) /\ UNCHANGED <<inq, blocked, torn>>
      BY <1>5 DEF SpinEnd, NetInv, Chained
    <2>2. QED
      BY <1>1, <2>1, ThreadKept
  <1>6. CASE SpinReset
    <2>1. q \in Net /\ net_close(q, 2) /\ UNCHANGED <<flag, ready>>
      BY <1>6 DEF SpinReset, NetInv, Chained, event
    <2>2. QED
      BY <1>3, <2>1
  <1>7. CASE AnswerFails
    BY <1>1, <1>7, ThreadKept
  <1>8. ASSUME NEW c \in Net, IdleTimeout(c) PROVE Kept
    BY <1>1, <1>8, ThreadKept DEF IdleTimeout
  <1>9. CASE TimerEnd
    BY <1>2, <1>9 DEF TimerEnd, event, buffers, kernel
  <1>10. CASE Delay
    <2>1. CASE DelaySkip
      <3>1. Die \/ UNCHANGED <<dropped, rbuf, inq, blocked, torn, flag, edge, ready>>
        BY <2>1 DEF DelaySkip, event, buffers, kernel
      <3>2. QED
        BY <1>1, <1>2, <3>1, ThreadKept
    <2>2. CASE DelayIdle
      <3>1. Die \/ UNCHANGED <<dropped, rbuf, inq, blocked, torn, flag, edge, ready>>
        BY <2>2 DEF DelayIdle, buffers, kernel
      <3>2. QED
        BY <1>1, <1>2, <3>1, ThreadKept
    <2>3. CASE DelayClose
      BY <1>3, <2>3 DEF DelayClose
    <2>4. CASE DelayRecv \/ DelayRecvFull
      BY <1>1, <2>4, ThreadKept
    <2>5. QED
      BY <1>10, <2>1, <2>2, <2>3, <2>4 DEF Delay
  <1>11. CASE Epoll \/ \E l \in SUBSET {Listen} : EpollWait(l)
    <2>1. CASE AcceptNot \/ EpollEnd \/ \E l \in SUBSET {Listen} : EpollWait(l)
      BY <1>2, <2>1 DEF AcceptNot, EpollEnd, EpollWait, event, buffers, kernel
    <2>2. ASSUME NEW c \in Net, EpollError(c) PROVE Kept
      BY <1>3, <2>2 DEF EpollError, event
    <2>3. ASSUME NEW c \in Net, EpollEvent(c) PROVE Kept
      <3>1. "out" \notin edge[c]
        BY <1>1 DEF Quiet
      <3>2. PICK r : r = ready[c] \cup (IF "in" \in edge[c] THEN {"read"} ELSE {})
                                 \cup (IF "out" \in edge[c] THEN {"write"} ELSE {})
        OBVIOUS
      <3>3. "write" \in r => "write" \in ready[c]
        BY <3>1, <3>2
      <3>4. /\ ready' = [ready EXCEPT ![c] = r]
            /\ edge' = [edge EXCEPT ![c] = {}]
            /\ UNCHANGED <<flag, dropped, rbuf, inq, torn, blocked>>
        BY <2>3, <3>2 DEF EpollEvent, buffers
      <3>5. \A x \in Net : "write" \in ready'[x] => "write" \in ready[x]
        BY <1>0, <3>3, <3>4 DEF NetTypeOK
      <3>6. \A x \in Net : "out" \in edge'[x] => "out" \in edge[x]
        BY <1>0, <3>4 DEF NetTypeOK
      <3>7. Quiet'
        BY <1>1, <3>4, <3>5, <3>6 DEF Quiet
      <3>8. QED
        BY <1>1, <3>4, <3>7, KeptFrames
    <2>4. QED
      BY <1>11, <2>1, <2>2, <2>3 DEF Epoll
  <1>12. ASSUME NEW p \in DS \cup {Client}, NEW more \in BOOLEAN, Accept(p, more)
         PROVE  Kept
    <2>1. PICK c : c = free[1]
      OBVIOUS
    <2>2. /\ ready' = [ready EXCEPT ![c] = {"net"}] /\ flag' = [flag EXCEPT ![c] = "in"]
          /\ UNCHANGED <<dropped, rbuf, inq, torn, blocked, edge>>
      BY <1>12, <2>1 DEF Accept, buffers
    <2>3. Quiet'
      BY <1>0, <1>1, <2>2 DEF Quiet, NetTypeOK
    <2>4. QED
      BY <1>1, <2>2, <2>3, KeptFrames
  <1>13. ASSUME NEW c \in Net, \/ \E k \in Kind : Send(c, k) \/ SendHalf(c, k)
                               \/ SendRest(c)
                               \/ \E how \in {"fin", "rst"} : End(c, how)
                               \/ Block(c)
                               \/ Unblock(c)
         PROVE  Kept
    BY <1>1, <1>13, PeerKept
  <1>14. CASE UNCHANGED vars
    BY <1>2, <1>14 DEF vars, event, buffers, kernel
  <1>15. QED
    BY <1>4, <1>5, <1>6, <1>7, <1>8, <1>9, <1>10, <1>11, <1>12, <1>13, <1>14 DEF Next

(* A message that arrives whole is never thrown away by the parser, at     *)
(* whatever place the end of rbuf cuts it, as long as no send blocks.      *)
THEOREM WholeAlwaysKept == Spec => []WholeKept
  <1>1. NetInit => KeptInv
    <2> SUFFICES ASSUME NetInit PROVE ~dropped /\ Quiet /\ Streams
      BY DEF KeptInv
    <2>1. ~dropped /\ rbuf = [c \in Net |-> <<>>] /\ inq = [c \in Net |-> <<>>]
      BY DEF NetInit
    <2>2. Quiet
      BY DEF NetInit, Quiet
    <2>3. Streams
      BY <2>1, FreshKept DEF Streams
    <2>4. QED
      BY <2>1, <2>2, <2>3
  <1>2. NetInv /\ KeptInv => WholeKept
    <2> SUFFICES ASSUME NetInv, KeptInv, dropped PROVE used.torn > 0 \/ used.block > 0
      BY DEF WholeKept
    <2>1. ~Calm
      BY DEF KeptInv
    <2>2. used["torn"] \in Nat /\ used["block"] \in Nat
      BY DEF NetInv, NetTypeOK, Budget
    <2>3. QED
      BY <2>1, <2>2 DEF Calm
  <1>3. QED
    BY <1>1, <1>2, NetInvariance, KeptStep, PTL DEF Spec

-----------------------------------------------------------------------------
(* The delay queue.  The nodes in it are in line: W is the set of them and *)
(* r their places.  A node of the line may have lost its links when it was *)
(* set up again, but a link it has is right.                               *)

(* y comes right behind x, which may be the head; right before x; last. *)
Behind(W, r, x, y) ==
    \/ y = Ring /\ \A z \in W : r[z] =< r[x]
    \/ y \in W /\ r[x] < r[y] /\ \A z \in W : r[z] =< r[x] \/ r[y] =< r[z]
Before(W, r, x, y) ==
    \/ y = Ring /\ \A z \in W : r[x] =< r[z]
    \/ y \in W /\ r[y] < r[x] /\ \A z \in W : r[z] =< r[y] \/ r[x] =< r[z]
LastOf(W, r, y) ==
    \/ W = {} /\ y = Ring
    \/ y \in W /\ \A z \in W : r[z] =< r[y]

Places(W, r) ==
    /\ W \subseteq Net
    /\ r \in [Net \cup {Ring} -> Nat] /\ r[Ring] = 0
    /\ \A x \in W : r[x] > 0
    /\ \A x, y \in W : r[x] = r[y] => x = y

Strung(W, r) ==
    /\ Behind(W, r, Ring, next[Ring]) /\ LastOf(W, r, prev[Ring])
    /\ \A x \in W : /\ next[x] = Null \/ Behind(W, r, x, next[x])
                    /\ prev[x] = Null \/ Before(W, r, x, prev[x])

(* The cursor does not get to c: the worker dies before. *)
Doomed(W, r, c) == \E x \in W : r[x] < r[c] /\ next[x] = Null

(* Nothing but a reset makes epoll report c. *)
Still(c) == ~blocked[c] /\ edge[c] \subseteq {"hup"}

(* Why a node may be in line. *)
Waits(W, r, c) ==
    "read" \in ready[c] \/ "net" \in ready[c] \/ Still(c) \/ Doomed(W, r, c)

(* A node that the cursor has passed or epoll reports has input, or waits  *)
(* for a command.                                                          *)
Passed(W, r) ==
    /\ q \in W \cup {Ring}
    /\ \A x \in W : q = Ring \/ r[x] < r[q] =>
           Linked(x) /\ (x \in open => "read" \in ready[x] \/ "net" \notin ready[x])
Fine(c) == "read" \in ready[c] \/ ("net" \notin ready[c] /\ Still(c))

Line(W, r) ==
    /\ Places(W, r) /\ Strung(W, r)
    /\ \A c \in open : "read" \in ready[c] => c \in W
    /\ \A c \in W \cap open : Waits(W, r, c)
    /\ phase = "delay" => Passed(W, r)
    /\ phase = "epoll" => \A c \in W \cap batch : Fine(c)

(* What epoll is asked for and reports of a node, and where the thread is. *)
Asked(c) ==
    IF c \in open
    THEN /\ "net" \in ready[c] <=> flag[c] = "in"
         /\ flag[c] = "out" => sbuf[c] > 0
         /\ edge[c] \subseteq {flag[c], "hup"}
         /\ "out" \in edge[c] => ~blocked[c]
    ELSE edge[c] = {}
Asks ==
    /\ \A c \in Net : Asked(c)
    /\ phase = "epoll" => \A c \in batch \cap Net : c \in open /\ edge[c] # {}
    /\ phase = "spin" => q \in open

(* The inductive invariant behind DelayComplete. *)
InLine == jammed \/ \E W, r : Line(W, r)
DelayInv == Asks /\ InLine
-----------------------------------------------------------------------------
(* The cursor gets to every node of the line that no lost link is before.  *)
LEMMA InQueue ==
    ASSUME NEW W, NEW r, Places(W, r), Strung(W, r), NEW c \in W, ~Doomed(W, r, c)
    PROVE  c \in Queue
  <1>1. /\ W \subseteq Net /\ r[Ring] = 0
        /\ \A x \in W : r[x] \in Nat /\ r[x] > 0
        /\ \A x, y \in W : r[x] = r[y] => x = y
    BY DEF Places
  <1>2. ASSUME NEW S, Closed(S), c \notin S PROVE FALSE
    <2> DEFINE B == {r[z] : z \in {y \in W : r[y] =< r[c] /\ y \notin S}}
    <2>1. B \subseteq Nat /\ r[c] \in B
      BY <1>1, <1>2
    <2>2. Min(B) \in B /\ \A k \in B : Min(B) =< k
      BY <2>1, MinOf
    <2>3. PICK z \in W : r[z] =< r[c] /\ z \notin S /\ r[z] = Min(B)
      BY <2>2
    <2>4. ASSUME NEW y \in W, r[y] < r[z] PROVE y \in S
      <3>1. SUFFICES ASSUME y \notin S PROVE FALSE
        OBVIOUS
      <3>2. r[y] =< r[c]
        BY <1>1, <2>3, <2>4
      <3>3. r[y] \in B
        BY <3>1, <3>2
      <3>4. r[z] =< r[y]
        BY <2>2, <2>3, <3>3
      <3>5. QED
        BY <1>1, <2>4, <3>4
    <2> HIDE DEF B
    <2> DEFINE A == {r[y] : y \in {x \in W : r[x] < r[z]}}
    <2>5. CASE A = {}
      <3>1. \A y \in W : ~(r[y] < r[z])
        BY <2>5
      <3>2. Behind(W, r, Ring, next[Ring])
        BY DEF Strung
      <3>3. next[Ring] = z
        BY <1>1, <3>1, <3>2 DEF Behind
      <3>4. QED
        BY <1>2, <2>3, <3>3 DEF Closed
    <2>6. CASE A # {}
      <3>1. A \subseteq 0 .. r[z] /\ r[z] \in Nat
        BY <1>1
      <3>2. Max(A) \in A /\ \A k \in A : k =< Max(A)
        BY <2>6, <3>1, MaxOf
      <3>3. PICK y \in W : r[y] < r[z] /\ r[y] = Max(A)
        BY <3>2
      <3>4. \A x \in W : r[x] < r[z] => r[x] =< r[y]
        BY <3>2, <3>3
      <3> HIDE DEF A
      <3>5. r[y] < r[c]
        BY <1>1, <2>3, <3>3
      <3>6. next[y] # Null
        BY <3>5 DEF Doomed
      <3>7. Behind(W, r, y, next[y])
        BY <3>6 DEF Strung
      <3>8. next[y] = z
        BY <1>1, <3>3, <3>4, <3>7 DEF Behind
      <3>9. y \in S /\ y \in Net
        BY <1>1, <2>4, <3>3
      <3>10. QED
        BY <1>2, <2>3, <3>8, <3>9 DEF Closed
    <2>7. QED
      BY <2>5, <2>6
  <1>3. c \in Links
    BY <1>1 DEF Links
  <1>4. QED
    BY <1>2, <1>3 DEF Queue

(* A line is what DelayComplete asks for: before a node that the cursor    *)
(* does not get to there is a first one without links.                     *)
LEMMA LineComplete ==
    ASSUME NEW W, NEW r, Line(W, r)
    PROVE  DelayComplete
  <1>1. Places(W, r) /\ Strung(W, r) /\ \A c \in open : "read" \in ready[c] => c \in W
    BY DEF Line
  <1>2. ASSUME NEW c \in W, Doomed(W, r, c) PROVE Unlinked
    <2>1. W \subseteq Net /\ \A x \in W : r[x] \in Nat
      BY <1>1 DEF Places
    <2> DEFINE B == {r[x] : x \in {y \in W : next[y] = Null}}
    <2>2. B \subseteq Nat /\ B # {}
      BY <1>2, <2>1 DEF Doomed
    <2>3. Min(B) \in B /\ \A k \in B : Min(B) =< k
      BY <2>2, MinOf
    <2>4. PICK x \in W : next[x] = Null /\ r[x] = Min(B)
      BY <2>3
    <2>5. ~Doomed(W, r, x)
      <3>1. SUFFICES ASSUME NEW y \in W, r[y] < r[x], next[y] = Null PROVE FALSE
        BY DEF Doomed
      <3>2. r[y] \in B
        BY <3>1
      <3>3. r[x] =< r[y]
        BY <2>3, <2>4, <3>2
      <3>4. QED
        BY <2>1, <3>1, <3>3
    <2>6. x \in Queue /\ x \in Net
      BY <1>1, <2>1, <2>5, InQueue
    <2>7. QED
      BY <2>4, <2>6 DEF Unlinked, Linked
  <1>3. QED
    BY <1>1, <1>2, InQueue DEF DelayComplete

(* gfs_queue_remove of the cursor's node: the line closes up.              *)
LEMMA RemoveLine ==
    ASSUME NetInv, NEW W, NEW r, Places(W, r), Strung(W, r), NEW c \in W, Linked(c),
           queue_remove(c)
    PROVE  /\ Places(W \ {c}, r) /\ Strung(W \ {c}, r)'
           /\ next'[c] = next[c] /\ Behind(W, r, c, next[c])
           /\ \A x \in W : next[x] = Null /\ ~(r[x] < r[c]) => next'[x] = Null
  <1> DEFINE V == W \ {c}
             n == next[c]
             p == prev[c]
  <1>1. /\ W \subseteq Net /\ r[Ring] = 0
        /\ \A x \in W : r[x] \in Nat /\ r[x] > 0
        /\ \A x, y \in W : r[x] = r[y] => x = y
        /\ Ring \notin W /\ Null \notin W /\ Ring # Null
    BY NetAssumption DEF Places
  <1>2. /\ next \in [Net \cup {Ring} -> Links] /\ prev \in [Net \cup {Ring} -> Links]
    BY DEF NetInv, NetTypeOK
  <1>3. Behind(W, r, c, n) /\ Before(W, r, c, p)
    BY DEF Strung, Linked
  <1>4. n \in W \cup {Ring} /\ p \in W \cup {Ring} /\ n # c /\ p # c
    BY <1>1, <1>3 DEF Behind, Before
  <1>5. prev' = [prev EXCEPT ![n] = p] /\ next' = [next EXCEPT ![p] = n]
    <2>1. /\ prev' = [prev EXCEPT ![n] = p]
          /\ next' = [next EXCEPT ![prev'[c]] = n]
      BY DEF queue_remove
    <2>2. prev'[c] = p
      BY <1>1, <1>2, <1>4, <2>1
    <2>3. QED
      BY <2>1, <2>2
  <1>6. /\ next'[p] = n /\ prev'[n] = p
        /\ \A x \in W \cup {Ring} : /\ x # p => next'[x] = next[x]
                                    /\ x # n => prev'[x] = prev[x]
    BY <1>1, <1>2, <1>4, <1>5
  <1> HIDE DEF n, p
  <1>7. /\ Behind(W, r, Ring, next[Ring]) /\ LastOf(W, r, prev[Ring])
        /\ \A x \in W : /\ next[x] = Null \/ Behind(W, r, x, next[x])
                        /\ prev[x] = Null \/ Before(W, r, x, prev[x])
    BY DEF Strung
  <1>8. Behind(V, r, p, n)
    BY <1>1, <1>3, <1>4 DEF Behind, Before
  <1>9. n # Ring => Before(V, r, n, p)
    BY <1>1, <1>3, <1>4 DEF Behind, Before
  <1>10. n = Ring => LastOf(V, r, p)
    <2> SUFFICES ASSUME n = Ring PROVE LastOf(V, r, p)
      OBVIOUS
    <2>1. \A z \in W : r[z] =< r[c]
      BY <1>1, <1>3 DEF Behind
    <2>2. CASE p = Ring
      <3>1. \A z \in W : r[c] =< r[z]
        BY <1>1, <1>3, <2>2 DEF Before
      <3>2. \A z \in W : z = c
        BY <1>1, <2>1, <3>1
      <3>3. QED
        BY <2>2, <3>2 DEF LastOf
    <2>3. CASE p \in W
      <3>1. \A z \in W : r[z] =< r[p] \/ r[c] =< r[z]
        BY <1>1, <1>3, <2>3 DEF Before
      <3>2. \A z \in V : r[z] =< r[p]
        BY <1>1, <2>1, <3>1
      <3>3. QED
        BY <1>4, <2>3, <3>2 DEF LastOf
    <2>4. QED
      BY <1>4, <2>2, <2>3
  <1>11. ASSUME NEW x \in V \cup {Ring}, x # p, next[x] # Null
         PROVE  Behind(V, r, x, next[x])
    <2>1. Behind(W, r, x, next[x])
      BY <1>7, <1>11
    <2>2. next[x] # c
      <3>1. SUFFICES ASSUME next[x] = c PROVE FALSE
        OBVIOUS
      <3>2. r[x] < r[c] /\ \A z \in W : r[z] =< r[x] \/ r[c] =< r[z]
        BY <1>1, <2>1, <3>1 DEF Behind
      <3>3. QED
        BY <1>1, <1>3, <1>4, <1>11, <3>2 DEF Before
    <2>3. QED
      BY <2>1, <2>2 DEF Behind
  <1>12. ASSUME NEW x \in V, x # n, prev[x] # Null
         PROVE  Before(V, r, x, prev[x])
    <2>1. Before(W, r, x, prev[x])
      BY <1>7, <1>12
    <2>2. prev[x] # c
      <3>1. SUFFICES ASSUME prev[x] = c PROVE FALSE
        OBVIOUS
      <3>2. r[c] < r[x] /\ \A z \in W : r[z] =< r[c] \/ r[x] =< r[z]
        BY <1>1, <2>1, <3>1 DEF Before
      <3>3. QED
        BY <1>1, <1>3, <1>4, <1>12, <3>2 DEF Behind
    <2>3. QED
      BY <2>1, <2>2 DEF Before
  <1>13. n # Ring => LastOf(V, r, prev[Ring])
    <2> SUFFICES ASSUME n # Ring PROVE LastOf(V, r, prev[Ring])
      OBVIOUS
    <2>1. n \in W /\ r[c] < r[n]
      BY <1>3, <1>4 DEF Behind
    <2>2. prev[Ring] \in W /\ \A z \in W : r[z] =< r[prev[Ring]]
      BY <1>7, <2>1 DEF LastOf
    <2>3. prev[Ring] # c
      BY <1>1, <2>1, <2>2
    <2>4. QED
      BY <2>2, <2>3 DEF LastOf
  <1>14. Strung(V, r)'
    <2>1. Behind(V, r, Ring, next'[Ring])
      <3>1. next[Ring] # Null
        BY DEF NetInv, Chained
      <3>2. QED
        BY <1>6, <1>8, <1>11, <3>1
    <2>2. LastOf(V, r, prev'[Ring])
      BY <1>6, <1>10, <1>13
    <2>3. ASSUME NEW x \in V PROVE next'[x] = Null \/ Behind(V, r, x, next'[x])
      BY <1>6, <1>8, <1>11
    <2>4. ASSUME NEW x \in V PROVE prev'[x] = Null \/ Before(V, r, x, prev'[x])
      BY <1>1, <1>6, <1>9, <1>12
    <2> HIDE DEF V
    <2>5. QED
      BY <2>1, <2>2, <2>3, <2>4 DEF Strung, Behind, Before, LastOf
  <1>15. Places(V, r)
    BY DEF Places
  <1>16. next'[c] = next[c]
    BY <1>4, <1>6
  <1>17. ASSUME NEW x \in W, next[x] = Null, ~(r[x] < r[c]) PROVE next'[x] = Null
    <2>1. x # p
      BY <1>1, <1>3, <1>17 DEF Before
    <2>2. QED
      BY <1>6, <1>17, <2>1
  <1>18. QED
    BY <1>3, <1>14, <1>15, <1>16, <1>17 DEF n

(* gfs_queue_insert_tail of a node that is not in the line.                *)
LEMMA InsertLine ==
    ASSUME NetInv, NEW W, NEW r, Places(W, r), Strung(W, r), NEW c \in Net, c \notin W,
           insert_tail(c)
    PROVE  \E s : /\ Places(W \cup {c}, s) /\ Strung(W \cup {c}, s)'
                  /\ \A x \in W : s[x] = r[x]
                  /\ \A x \in W : Doomed(W, r, x) => Doomed(W \cup {c}, s, x)'
  <1> DEFINE V == W \cup {c}
             p == prev[Ring]
  <1>1. /\ W \subseteq Net /\ r[Ring] = 0 /\ r \in [Net \cup {Ring} -> Nat]
        /\ \A x \in W : r[x] \in Nat /\ r[x] > 0
        /\ \A x, y \in W : r[x] = r[y] => x = y
        /\ Ring \notin W /\ Null \notin W /\ Ring # Null /\ c # Ring
    BY NetAssumption DEF Places
  <1>2. /\ next \in [Net \cup {Ring} -> Links] /\ prev \in [Net \cup {Ring} -> Links]
    BY DEF NetInv, NetTypeOK
  <1>3. /\ Behind(W, r, Ring, next[Ring]) /\ LastOf(W, r, p)
        /\ \A x \in W : /\ next[x] = Null \/ Behind(W, r, x, next[x])
                        /\ prev[x] = Null \/ Before(W, r, x, prev[x])
    BY DEF Strung
  <1>4. p \in W \cup {Ring} /\ p # c
    BY <1>1, <1>3 DEF LastOf
  <1>5. r[p] \in Nat /\ \A z \in W : r[z] =< r[p]
    BY <1>1, <1>3 DEF LastOf
  <1>6. /\ next'[p] = c /\ next'[c] = Ring /\ prev'[c] = p /\ prev'[Ring] = c
        /\ \A x \in W \cup {Ring} : /\ x # p => next'[x] = next[x]
                                    /\ x # Ring => prev'[x] = prev[x]
    <2> DEFINE nx == [next EXCEPT ![p] = c]
               pv == [prev EXCEPT ![c] = p]
    <2>1. next' = [nx EXCEPT ![c] = Ring] /\ prev' = [pv EXCEPT ![Ring] = c]
      BY DEF insert_tail
    <2>2. /\ nx[p] = c /\ DOMAIN nx = Net \cup {Ring}
          /\ \A x \in W \cup {Ring} : x # p => nx[x] = next[x]
      BY <1>1, <1>2, <1>4
    <2>3. /\ pv[c] = p /\ DOMAIN pv = Net \cup {Ring}
          /\ \A x \in W \cup {Ring} : pv[x] = prev[x]
      BY <1>1, <1>2
    <2> HIDE DEF nx, pv, p
    <2>4. QED
      BY <1>1, <1>4, <2>1, <2>2, <2>3
  <1> HIDE DEF p
  <1>0. PICK s : s = [r EXCEPT ![c] = r[p] + 1]
    OBVIOUS
  <1>7. /\ s[c] = r[p] + 1 /\ s[Ring] = 0 /\ s \in [Net \cup {Ring} -> Nat]
        /\ \A x \in W \cup {Ring} : s[x] = r[x]
    BY <1>0, <1>1, <1>5
  <1>8. Places(V, s)
    <2>1. \A x \in W : s[x] < s[c]
      BY <1>1, <1>5, <1>7
    <2>2. \A x \in V : s[x] > 0
      BY <1>1, <1>5, <1>7
    <2>3. \A x, y \in V : s[x] = s[y] => x = y
      BY <1>1, <1>5, <1>7, <2>1
    <2>4. QED
      BY <1>1, <1>7, <2>2, <2>3 DEF Places
  <1>9. Behind(V, s, p, c) /\ Before(V, s, c, p) /\ Behind(V, s, c, Ring) /\ LastOf(V, s, c)
    <2>1. Behind(V, s, p, c)
      BY <1>1, <1>4, <1>5, <1>7 DEF Behind
    <2>2. Before(V, s, c, p)
      <3>1. CASE p = Ring
        <4>1. W = {}
          BY <1>1, <1>3, <3>1 DEF LastOf
        <4>2. QED
          BY <1>5, <1>7, <3>1, <4>1 DEF Before
      <3>2. CASE p \in W
        BY <1>1, <1>4, <1>5, <1>7, <3>2 DEF Before
      <3>3. QED
        BY <1>4, <3>1, <3>2
    <2>3. \A z \in V : s[z] =< s[c]
      BY <1>1, <1>5, <1>7
    <2>4. QED
      BY <2>1, <2>2, <2>3 DEF Behind, LastOf
  <1>10. ASSUME NEW x \in W \cup {Ring}, x # p, Behind(W, r, x, next[x])
         PROVE  Behind(V, s, x, next[x])
    <2>1. r[x] < r[p]
      <3>1. p \in W
        BY <1>1, <1>3, <1>4, <1>10 DEF LastOf
      <3>2. QED
        BY <1>1, <1>5, <1>10, <3>1
    <2>2. next[x] \in W /\ r[x] < r[next[x]]
      BY <1>1, <1>4, <1>10, <2>1 DEF Behind
    <2>3. \A z \in W : r[z] =< r[x] \/ r[next[x]] =< r[z]
      BY <1>1, <1>10, <2>2 DEF Behind
    <2>4. r[next[x]] =< r[p]
      BY <1>5, <2>2
    <2>5. s[next[x]] =< s[c]
      BY <1>1, <1>5, <1>7, <2>2, <2>4
    <2>6. \A z \in V : s[z] =< s[x] \/ s[next[x]] =< s[z]
      BY <1>7, <2>2, <2>3, <2>5
    <2>7. QED
      BY <1>7, <2>2, <2>6 DEF Behind
  <1>11. ASSUME NEW x \in W, Before(W, r, x, prev[x])
         PROVE  Before(V, s, x, prev[x])
    <2>1. s[x] =< s[c] /\ r[x] = s[x]
      BY <1>1, <1>5, <1>7
    <2>2. \A z \in W : s[z] = r[z]
      BY <1>7
    <2>3. QED
      BY <1>11, <2>1, <2>2 DEF Before
  <1>12. Strung(V, s)'
    <2>1. Behind(V, s, Ring, next'[Ring])
      BY <1>3, <1>6, <1>9, <1>10
    <2>2. ASSUME NEW x \in V PROVE next'[x] = Null \/ Behind(V, s, x, next'[x])
      BY <1>3, <1>6, <1>9, <1>10
    <2>3. ASSUME NEW x \in V PROVE prev'[x] = Null \/ Before(V, s, x, prev'[x])
      BY <1>1, <1>3, <1>6, <1>9, <1>11
    <2>4. LastOf(V, s, prev'[Ring])
      BY <1>6, <1>9
    <2> HIDE DEF V
    <2>5. QED
      BY <2>1, <2>2, <2>3, <2>4 DEF Strung, Behind, Before, LastOf
  <1>13. ASSUME NEW x \in W, Doomed(W, r, x) PROVE Doomed(V, s, x)'
    <2>1. PICK y \in W : r[y] < r[x] /\ next[y] = Null
      BY <1>13 DEF Doomed
    <2>2. y # p
      BY <1>1, <1>5, <2>1
    <2>3. next'[y] = Null /\ s[y] < s[x]
      BY <1>6, <1>7, <2>1, <2>2
    <2>4. QED
      BY <2>3 DEF Doomed
  <1>14. QED
    BY <1>7, <1>8, <1>12, <1>13

(* gfs_handle_tcp_send: what epoll is asked for of c is asked for again.   *)
LEMMA SendAsked ==
    ASSUME NetTypeOK, NEW c \in open, Asked(c), NEW n \in Nat,
           NEW r \in SUBSET {"read", "write", "net"},
           "net" \in r <=> "net" \in ready[c], tcp_send(c, n, r),
           UNCHANGED <<open, blocked>>
    PROVE  /\ Asked(c)'
           /\ "read" \in ready'[c] <=> "read" \in r
           /\ n > 0 /\ ~blocked[c] => "net" \in ready'[c]
           /\ \A x \in Net : x # c => /\ ready'[x] = ready[x] /\ flag'[x] = flag[x]
                                      /\ sbuf'[x] = sbuf[x] /\ edge'[x] = edge[x]
  <1>1. /\ c \in Net /\ ready \in [Net -> SUBSET {"read", "write", "net"}]
        /\ flag \in [Net -> {"in", "out"}] /\ sbuf \in [Net -> Nat]
        /\ edge \in [Net -> SUBSET {"in", "out", "hup"}]
    BY DEF NetTypeOK
  <1>2. /\ "net" \in ready[c] <=> flag[c] = "in"
        /\ flag[c] = "out" => sbuf[c] > 0
        /\ edge[c] \subseteq {flag[c], "hup"}
        /\ "out" \in edge[c] => ~blocked[c]
    BY DEF Asked
  <1>3. CASE n = 0
    <2>1. ready' = [ready EXCEPT ![c] = r] /\ UNCHANGED <<flag, sbuf, edge>>
      BY <1>3 DEF tcp_send
    <2>2. ready'[c] = r /\ \A x \in Net : x # c => ready'[x] = ready[x]
      BY <1>1, <2>1
    <2>3. Asked(c)'
      BY <1>2, <2>1, <2>2 DEF Asked
    <2>4. QED
      BY <1>3, <2>1, <2>2, <2>3
  <1>4. CASE n # 0 /\ blocked[c]
    <2>1. /\ sbuf' = [sbuf EXCEPT ![c] = @ + n]
          /\ ready' = [ready EXCEPT ![c] = r \ {"net"}]
          /\ flag' = [flag EXCEPT ![c] = "out"]
          /\ edge' = [edge EXCEPT ![c] = @ \ {"in", "out"}]
      BY <1>4 DEF tcp_send
    <2>2. /\ ready'[c] = r \ {"net"} /\ flag'[c] = "out"
          /\ sbuf'[c] = sbuf[c] + n /\ edge'[c] = edge[c] \ {"in", "out"}
          /\ \A x \in Net : x # c => /\ ready'[x] = ready[x] /\ flag'[x] = flag[x]
                                     /\ sbuf'[x] = sbuf[x] /\ edge'[x] = edge[x]
      BY <1>1, <2>1
    <2>3. sbuf'[c] > 0
      BY <1>1, <1>4, <2>2
    <2>4. edge'[c] \subseteq {"hup"} /\ "net" \notin ready'[c]
      BY <1>1, <2>2
    <2>5. Asked(c)'
      BY <2>2, <2>3, <2>4 DEF Asked
    <2>6. QED
      BY <1>4, <2>2, <2>5
  <1>5. CASE n # 0 /\ ~blocked[c]
    <2>1. PICK d : d = IF flag[c] = "in" THEN edge[c]
                       ELSE { e \in edge[c] \cup {"in"} :
                                e = "hup" \/ (e = "in" /\ (inq[c] # <<>> \/ end[c] # "up")) }
      OBVIOUS
    <2>2. /\ sbuf' = [sbuf EXCEPT ![c] = 0]
          /\ ready' = [ready EXCEPT ![c] = r \cup {"net"}]
          /\ flag' = [flag EXCEPT ![c] = "in"]
          /\ edge' = [edge EXCEPT ![c] = d]
      BY <1>1, <1>5, <2>1 DEF tcp_send
    <2>3. d \subseteq {"in", "hup"}
      BY <1>1, <1>2, <2>1
    <2>4. /\ ready'[c] = r \cup {"net"} /\ flag'[c] = "in" /\ edge'[c] = d
          /\ \A x \in Net : x # c => /\ ready'[x] = ready[x] /\ flag'[x] = flag[x]
                                     /\ sbuf'[x] = sbuf[x] /\ edge'[x] = edge[x]
      BY <1>1, <2>2
    <2>5. Asked(c)'
      BY <2>3, <2>4 DEF Asked
    <2>6. QED
      BY <2>4, <2>5
  <1>6. QED
    BY <1>3, <1>4, <1>5

(* A step that leaves alone all that Asked and Still speak of.             *)
LEMMA AskedSame ==
    ASSUME NEW c, Asked(c), c \in open' <=> c \in open, ready'[c] = ready[c],
           flag'[c] = flag[c], sbuf'[c] = sbuf[c], edge'[c] = edge[c],
           blocked'[c] = blocked[c]
    PROVE  Asked(c)'
  BY DEF Asked

(* gfs_net_close: nothing is asked for any more of c.                      *)
LEMMA CloseAsked ==
    ASSUME NetTypeOK, NEW c \in Net, NEW n, CloseNode(c, n), \A x \in Net : Asked(x),
           \A x \in Net : x # c => ready'[x] = ready[x] /\ flag'[x] = flag[x]
    PROVE  /\ \A x \in Net : Asked(x)'
           /\ \A x \in Net : x # c => (Still(x) => Still(x)')
           /\ open' = open \ {c} /\ c \notin open'
           /\ \A x \in Net : x # c => edge'[x] = edge[x]
           /\ jammed' = jammed
  <1>1. /\ open' = open \ {c} /\ jammed' = jammed
        /\ sbuf' = [sbuf EXCEPT ![c] = 0] /\ edge' = [edge EXCEPT ![c] = {}]
        /\ blocked' = [blocked EXCEPT ![c] = FALSE]
    BY DEF CloseNode
  <1>2. /\ edge'[c] = {} /\ c \notin open'
        /\ \A x \in Net : x # c => /\ x \in open' <=> x \in open
                                   /\ edge'[x] = edge[x] /\ sbuf'[x] = sbuf[x]
                                   /\ blocked'[x] = blocked[x]
    BY <1>1 DEF NetTypeOK
  <1>3. Asked(c)'
    BY <1>2 DEF Asked
  <1>4. ASSUME NEW x \in Net, x # c PROVE Asked(x)' /\ (Still(x) => Still(x)')
    <2>1. Asked(x)'
      BY <1>2, <1>4, AskedSame
    <2>2. Still(x) => Still(x)'
      BY <1>2, <1>4 DEF Still
    <2>3. QED
      BY <2>1, <2>2
  <1>6. QED
    BY <1>1, <1>2, <1>3, <1>4

(* A step that leaves the links alone keeps the line if no node gets input *)
(* noted, and those that epoll could report before it goes on.             *)
LEMMA LineSame ==
    ASSUME NEW W, NEW r, Line(W, r), UNCHANGED <<next, prev>>,
           \A c \in open' : c \in open /\ ("read" \in ready'[c] => "read" \in ready[c]),
           \A c \in W \cap open' :
              "read" \in ready'[c] \/ "net" \in ready'[c] \/ Still(c)' \/ Doomed(W, r, c),
           phase' = "delay" => Passed(W, r)',
           phase' = "epoll" => \A c \in W \cap batch' : Fine(c)'
    PROVE  Line(W, r)'
  <1>1. Places(W, r) /\ Strung(W, r) /\ \A c \in open : "read" \in ready[c] => c \in W
    BY DEF Line
  <1>2. Strung(W, r)'
    BY <1>1 DEF Strung, Behind, Before, LastOf
  <1>3. \A c \in open' : "read" \in ready'[c] => c \in W
    BY <1>1
  <1>4. Places(W, r)'
    BY <1>1 DEF Places
  <1>5. \A c \in W : Doomed(W, r, c) => Doomed(W, r, c)'
    BY DEF Doomed
  <1>6. \A c \in W \cap open' : Waits(W, r, c)'
    BY <1>5 DEF Waits
  <1>7. QED
    BY <1>2, <1>3, <1>4, <1>6 DEF Line

(* The cursor goes on from its node, which has links, to the next one.     *)
LEMMA CursorNext ==
    ASSUME NEW W, NEW r, Places(W, r), Passed(W, r), q \in Net, Behind(W, r, q, q')
    PROVE  /\ q \in W /\ q' \in (W \ {q}) \cup {Ring}
           /\ \A x \in W : q' = Ring \/ r[x] < r[q'] => x = q \/ r[x] < r[q]
  <1>1. /\ W \subseteq Net /\ \A x \in W : r[x] \in Nat
        /\ \A x, y \in W : r[x] = r[y] => x = y
        /\ Ring \notin Net
    BY NetAssumption DEF Places
  <1>2. q \in W
    BY <1>1 DEF Passed
  <1>3. q' \in (W \ {q}) \cup {Ring}
    BY <1>1, <1>2 DEF Behind
  <1>4. ASSUME NEW x \in W, q' = Ring \/ r[x] < r[q'] PROVE r[x] =< r[q]
    <2>1. CASE q' = Ring
      BY <1>1, <2>1 DEF Behind
    <2>2. CASE q' # Ring
      BY <1>1, <1>2, <1>3, <1>4, <2>2 DEF Behind
    <2>3. QED
      BY <2>1, <2>2
  <1>5. QED
    BY <1>1, <1>2, <1>3, <1>4

(* Steps that only move the thread.                                        *)
LEMMA MoveLine ==
    ASSUME NetInv, Asks, NEW W, NEW r, Line(W, r),
           UNCHANGED <<open, ready, next, prev, edge, blocked>>,
           \/ TimerEnd
           \/ DelaySkip /\ ~Die
           \/ \E l \in SUBSET {Listen} : EpollWait(l)
           \/ phase' \in {"timer", "spin"}
           \/ phase' = phase /\ q' = q /\ batch' \subseteq batch
    PROVE  Line(W, r)'
  <1>1. /\ Places(W, r) /\ Strung(W, r)
        /\ \A c \in W \cap open : Waits(W, r, c)
        /\ phase = "delay" => Passed(W, r)
        /\ phase = "epoll" => \A c \in W \cap batch : Fine(c)
    BY DEF Line
  <1>2. /\ \A c : Still(c) => Still(c)'
        /\ \A c : Fine(c) => Fine(c)'
        /\ \A c : Linked(c) <=> Linked(c)'
    BY DEF Still, Fine, Linked
  <1>3. /\ W \subseteq Net /\ r[Ring] = 0
        /\ \A x \in W : r[x] \in Nat /\ r[x] > 0
        /\ \A x, y \in W : r[x] = r[y] => x = y
        /\ Ring \notin W
    BY <1>1, NetAssumption DEF Places
  <1>4. \A c \in W \cap open' :
           "read" \in ready'[c] \/ "net" \in ready'[c] \/ Still(c)' \/ Doomed(W, r, c)
    BY <1>1, <1>2 DEF Waits
  <1>5. (phase' = "delay" => Passed(W, r)') /\ (phase' = "epoll" => \A c \in W \cap batch' : Fine(c)')
    <2>1. CASE TimerEnd
      <3>1. phase' = "delay" /\ q' = next[Ring]
        BY <2>1 DEF TimerEnd
      <3>2. Behind(W, r, Ring, q')
        BY <1>1, <3>1 DEF Strung
      <3>3. q' \in W \cup {Ring} /\ \A x \in W : ~(q' = Ring \/ r[x] < r[q'])
        BY <1>3, <3>2 DEF Behind
      <3>4. Passed(W, r)'
        BY <3>3 DEF Passed
      <3>5. QED
        BY <3>1, <3>4
    <2>2. CASE DelaySkip /\ ~Die
      <3>1. /\ phase = "delay" /\ phase' = "delay" /\ q \in Net /\ "net" \notin ready[q]
            /\ Linked(q) /\ q' = next[q]
        BY <2>2 DEF DelaySkip
      <3>2. q \in W
        BY <1>1, <3>1, NetAssumption DEF Passed
      <3>3. Behind(W, r, q, q')
        BY <1>1, <3>1, <3>2 DEF Strung, Linked
      <3>4. /\ q' \in W \cup {Ring}
            /\ \A x \in W : q' = Ring \/ r[x] < r[q'] => x = q \/ r[x] < r[q]
        BY <1>1, <3>1, <3>3, CursorNext
      <3>5. \A x \in W : r[x] < r[q] =>
               Linked(x) /\ (x \in open => "read" \in ready[x] \/ "net" \notin ready[x])
        BY <1>1, <3>1 DEF Passed
      <3>6. ASSUME NEW x \in W, q' = Ring \/ r[x] < r[q']
            PROVE  Linked(x)' /\ (x \in open' => "read" \in ready'[x] \/ "net" \notin ready'[x])
        BY <1>2, <3>1, <3>4, <3>5, <3>6
      <3>7. Passed(W, r)'
        BY <3>4, <3>6 DEF Passed
      <3>8. QED
        BY <3>1, <3>7
    <2>3. ASSUME NEW l \in SUBSET {Listen}, EpollWait(l)
          PROVE  phase' = "epoll" /\ \A c \in W \cap batch' : Fine(c)'
      <3>1. /\ phase = "delay" /\ q = Ring /\ phase' = "epoll"
            /\ batch' = { c \in open : edge[c] # {} } \cup l
        BY <2>3 DEF EpollWait
      <3>2. \A x \in W : Linked(x) /\ (x \in open => "read" \in ready[x] \/ "net" \notin ready[x])
        BY <1>1, <3>1 DEF Passed
      <3>3. \A x : ~Doomed(W, r, x)
        BY <3>2 DEF Doomed, Linked
      <3>4. ASSUME NEW c \in W \cap batch' PROVE Fine(c)
        <4>1. c \in open
          BY <1>3, <3>1, NetAssumption
        <4>2. QED
          BY <1>1, <3>2, <3>3, <4>1 DEF Waits, Fine
      <3>5. QED
        BY <1>2, <3>1, <3>4
    <2>4. CASE phase' \in {"timer", "spin"}
      BY <2>4
    <2>5. CASE phase' = phase /\ q' = q /\ batch' \subseteq batch
      <3>1. Passed(W, r) => Passed(W, r)'
        BY <1>2, <2>5 DEF Passed
      <3>2. QED
        BY <1>1, <1>2, <2>5, <3>1
    <2>6. QED
      BY <2>1, <2>2, <2>3, <2>4, <2>5
  <1>6. QED
    BY <1>4, <1>5, LineSame

(* A worker that was started again has an empty queue.                     *)
LEMMA FreshLine ==
    /\ NetInit => DelayInv
    /\ Die => DelayInv'
  <1> DEFINE z == [x \in Net \cup {Ring} |-> 0]
  <1>1. Places({}, z)
    BY DEF Places
  <1>2. Behind({}, z, Ring, Ring) /\ LastOf({}, z, Ring)
    BY DEF Behind, LastOf
  <1> HIDE DEF z
  <1>3. ASSUME NetInit PROVE DelayInv
    <2>1. next[Ring] = Ring /\ prev[Ring] = Ring
      BY <1>3 DEF NetInit
    <2>2. Strung({}, z)
      BY <1>2, <2>1 DEF Strung
    <2>3. open = {} /\ phase = "timer" /\ \A c \in Net : edge[c] = {}
      BY <1>3 DEF NetInit
    <2>4. Line({}, z)
      BY <1>1, <2>2, <2>3 DEF Line
    <2>5. Asks
      BY <2>3 DEF Asks, Asked
    <2>6. QED
      BY <2>4, <2>5 DEF DelayInv, InLine
  <1>4. ASSUME Die PROVE DelayInv'
    <2>1. next'[Ring] = Ring /\ prev'[Ring] = Ring
      BY <1>4 DEF Die
    <2>2. Strung({}, z)'
      BY <1>2, <2>1 DEF Strung, Behind, LastOf
    <2>3. open' = {} /\ phase' = "timer" /\ \A c \in Net : edge'[c] = {}
      BY <1>4 DEF Die
    <2>4. Line({}, z)'
      BY <1>1, <2>2, <2>3 DEF Line, Places
    <2>5. Asks'
      BY <2>3 DEF Asks, Asked
    <2>6. QED
      BY <2>4, <2>5 DEF DelayInv, InLine
  <1>5. QED
    BY <1>3, <1>4

(* Steps that only move the thread, and the rest of the invariant.         *)
LEMMA MoveKeeps ==
    ASSUME NetInv, DelayInv,
           UNCHANGED <<open, ready, flag, next, prev, edge, blocked, sbuf, jammed>>,
           \/ TimerEnd
           \/ DelaySkip /\ ~Die
           \/ \E l \in SUBSET {Listen} : EpollWait(l)
           \/ phase' \in {"timer", "spin"}
           \/ phase' = phase /\ q' = q /\ batch' \subseteq batch,
           phase' = "spin" => q' \in open
    PROVE  DelayInv'
  <1>1. \A c \in Net : Asked(c)'
    BY DEF DelayInv, Asks, Asked
  <1>2. phase' = "epoll" => \A c \in batch' \cap Net : c \in open' /\ edge'[c] # {}
    <2>1. ASSUME NEW l \in SUBSET {Listen}, EpollWait(l)
          PROVE  \A c \in batch' \cap Net : c \in open /\ edge[c] # {}
      BY <2>1, NetAssumption DEF EpollWait
    <2>2. CASE TimerEnd \/ (DelaySkip /\ ~Die) \/ phase' \in {"timer", "spin"}
      BY <2>2 DEF TimerEnd, DelaySkip
    <2>3. CASE phase' = phase /\ q' = q /\ batch' \subseteq batch
      BY <2>3 DEF DelayInv, Asks
    <2>4. QED
      BY <2>1, <2>2, <2>3
  <1>3. Asks'
    BY <1>1, <1>2 DEF Asks
  <1>4. InLine'
    BY MoveLine DEF DelayInv, InLine
  <1>5. QED
    BY <1>3, <1>4 DEF DelayInv

(* A command is sent, or put off: on a node with input noted, on one that  *)
(* is not in line or not within reach, or the queue is jammed.             *)
LEMMA CommandDelay ==
    ASSUME NetInv, DelayInv, NEW c \in open, Command(c), phase' = "timer",
           UNCHANGED <<open, next, prev, blocked>>
    PROVE  DelayInv'
  <1>0. NetTypeOK /\ c \in Net /\ open \subseteq Net
    BY DEF NetInv, NetTypeOK
  <1> DEFINE r0 == ready[c] \ {"write"}
  <1>1. /\ r0 \in SUBSET {"read", "write", "net"} /\ 1 \in Nat
        /\ "net" \in r0 <=> "net" \in ready[c]
        /\ "read" \in r0 <=> "read" \in ready[c]
    BY <1>0 DEF NetTypeOK
  <1>2. tcp_send(c, 1, r0) /\ Asked(c)
    BY <1>0 DEF Command, DelayInv, Asks
  <1> HIDE DEF r0
  <1>3. /\ Asked(c)'
        /\ "read" \in ready'[c] <=> "read" \in r0
        /\ ~blocked[c] => "net" \in ready'[c]
        /\ \A x \in Net : x # c => /\ ready'[x] = ready[x] /\ flag'[x] = flag[x]
                                   /\ sbuf'[x] = sbuf[x] /\ edge'[x] = edge[x]
    BY <1>0, <1>1, <1>2, SendAsked
  <1>4. ASSUME NEW x \in Net, x # c PROVE Asked(x)' /\ (Still(x) => Still(x)')
    <2>1. Asked(x)
      BY DEF DelayInv, Asks
    <2>2. Asked(x)'
      BY <1>3, <1>4, <2>1, AskedSame
    <2>3. Still(x) => Still(x)'
      BY <1>3, <1>4 DEF Still
    <2>4. QED
      BY <2>2, <2>3
  <1>5. Asks'
    BY <1>3, <1>4 DEF Asks
  <1>6. InLine'
    <2>0. jammed' = (jammed \/ (blocked[c] /\ "read" \notin ready[c] /\ c \in Queue))
      BY DEF Command
    <2>1. CASE jammed
      BY <2>0, <2>1 DEF InLine
    <2>2. CASE ~jammed /\ ~(blocked[c] /\ "read" \notin ready[c] /\ c \in Queue)
      <3>1. PICK W, r : Line(W, r)
        BY <2>2 DEF DelayInv, InLine
      <3>2. /\ Places(W, r) /\ Strung(W, r)
            /\ \A x \in W \cap open : Waits(W, r, x)
        BY <3>1 DEF Line
      <3>3. ASSUME c \in W, blocked[c], "read" \notin ready[c] PROVE Doomed(W, r, c)
        BY <2>2, <3>2, <3>3, InQueue
      <3>4. ASSUME NEW x \in W \cap open
            PROVE "read" \in ready'[x] \/ "net" \in ready'[x] \/ Still(x)' \/ Doomed(W, r, x)
        <4>1. CASE x = c
          BY <1>1, <1>3, <3>3, <4>1
        <4>2. CASE x # c
          <5>1. x \in Net
            BY <1>0
          <5>2. QED
            BY <1>3, <1>4, <3>2, <4>2, <5>1 DEF Waits
        <4>3. QED
          BY <4>1, <4>2
      <3>5. \A x \in open' : x \in open /\ ("read" \in ready'[x] => "read" \in ready[x])
        BY <1>0, <1>1, <1>3
      <3>6. Line(W, r)'
        BY <3>1, <3>4, <3>5, LineSame
      <3>7. QED
        BY <3>6 DEF InLine
    <2>3. CASE blocked[c] /\ "read" \notin ready[c] /\ c \in Queue
      BY <2>0, <2>3 DEF InLine
    <2>4. QED
      BY <2>1, <2>2, <2>3
  <1>7. QED
    BY <1>5, <1>6 DEF DelayInv

(* A connection is closed and its event stays where it is.                 *)
LEMMA CloseDelay ==
    ASSUME NetInv, DelayInv, NEW c \in Net, NEW n, CloseNode(c, n), UNCHANGED event,
           \/ phase' = "timer"
           \/ phase = "epoll" /\ phase' = phase /\ batch' = batch \ {c}
    PROVE  DelayInv'
  <1>0. NetTypeOK /\ open \subseteq Net /\ \A x \in Net : Asked(x)
    BY DEF NetInv, NetTypeOK, DelayInv, Asks
  <1>1. UNCHANGED <<ready, flag, next, prev>>
    BY DEF event
  <1>2. /\ \A x \in Net : Asked(x)'
        /\ \A x \in Net : x # c => (Still(x) => Still(x)')
        /\ open' = open \ {c} /\ c \notin open'
        /\ \A x \in Net : x # c => edge'[x] = edge[x]
        /\ jammed' = jammed
    BY <1>0, <1>1, CloseAsked
  <1>3. phase' = "epoll" => \A x \in batch' \cap Net : x \in open' /\ edge'[x] # {}
    BY <1>2 DEF DelayInv, Asks
  <1>4. Asks'
    BY <1>2, <1>3 DEF Asks
  <1>5. ASSUME NEW W, NEW r, Line(W, r) PROVE Line(W, r)'
    <2>1. /\ W \subseteq Net /\ \A x \in W \cap open : Waits(W, r, x)
          /\ phase = "epoll" => \A x \in W \cap batch : Fine(x)
      BY <1>5 DEF Line, Places
    <2>2. \A x \in open' : x \in open /\ ("read" \in ready'[x] => "read" \in ready[x])
      BY <1>1, <1>2
    <2>3. \A x \in W \cap open' :
             "read" \in ready'[x] \/ "net" \in ready'[x] \/ Still(x)' \/ Doomed(W, r, x)
      BY <1>1, <1>2, <2>1 DEF Waits
    <2>4. phase' = "epoll" => \A x \in W \cap batch' : Fine(x)'
      BY <1>1, <1>2, <2>1 DEF Fine
    <2>5. QED
      BY <1>1, <1>5, <2>2, <2>3, <2>4, LineSame
  <1>6. InLine'
    BY <1>2, <1>5 DEF DelayInv, InLine
  <1>7. QED
    BY <1>4, <1>6 DEF DelayInv

(* The node of the cursor leaves the queue, closed or without input.       *)
LEMMA RemoveCursor ==
    ASSUME NetInv, NEW W, NEW r, Line(W, r), NEW V, V = W \ {q},
           phase = "delay", phase' = "delay", q \in Net, Linked(q), queue_remove(q), q' = next'[q], open' \subseteq open,
           q \in open' => "read" \notin ready'[q],
           \A x \in Net : x # q => ready'[x] = ready[x] /\ (Still(x) => Still(x)')
    PROVE  Line(V, r)'
  <1>1. /\ Places(W, r) /\ Strung(W, r) /\ Passed(W, r)
        /\ \A c \in open : "read" \in ready[c] => c \in W
        /\ \A c \in W \cap open : Waits(W, r, c)
        /\ W \subseteq Net /\ open \subseteq Net
    BY DEF Line, Places, NetInv, NetTypeOK
  <1>2. q \in W
    BY <1>1, NetAssumption DEF Passed
  <1>3. /\ Places(V, r) /\ Strung(V, r)'
        /\ q' = next[q] /\ Behind(W, r, q, next[q])
        /\ \A x \in W : next[x] = Null /\ ~(r[x] < r[q]) => next'[x] = Null
    <2>1. PICK c \in W : c = q
      BY <1>2
    <2>2. /\ Places(W \ {c}, r) /\ Strung(W \ {c}, r)'
          /\ next'[c] = next[c] /\ Behind(W, r, c, next[c])
          /\ \A x \in W : next[x] = Null /\ ~(r[x] < r[c]) => next'[x] = Null
      BY <1>1, <2>1, RemoveLine
    <2>3. W \ {c} = V
      BY <2>1
    <2>4. Strung(V, r)'
      BY <2>2, <2>3
    <2>5. QED
      BY <2>1, <2>2, <2>3, <2>4
  <1>4. /\ q' \in (W \ {q}) \cup {Ring}
        /\ \A x \in W : q' = Ring \/ r[x] < r[q'] => x = q \/ r[x] < r[q]
    BY <1>1, <1>3, CursorNext
  <1>5. \A x \in W : r[x] < r[q] =>
           Linked(x) /\ (x \in open => "read" \in ready[x] \/ "net" \notin ready[x])
    BY <1>1 DEF Passed
  <1>6. \A x \in Net \cup {Ring} : Linked(x) => Linked(x)'
    BY RemoveLinks
  <1>7. Passed(V, r)'
    <2>1. ASSUME NEW x \in V, q' = Ring \/ r[x] < r[q']
          PROVE  Linked(x)' /\ (x \in open' => "read" \in ready'[x] \/ "net" \notin ready'[x])
      <3>1. r[x] < r[q] /\ x # q /\ x \in Net
        BY <1>1, <1>4, <2>1
      <3>2. QED
        BY <1>5, <1>6, <3>1
    <2>2. QED
      BY <1>4, <2>1 DEF Passed
  <1>8. ASSUME NEW x \in V, Doomed(W, r, x) PROVE \E y \in V : r[y] < r[x] /\ next'[y] = Null
    <2>1. PICK y \in W : r[y] < r[x] /\ next[y] = Null
      BY <1>8 DEF Doomed
    <2>2. y # q /\ ~(r[y] < r[q])
      BY <1>5, <2>1 DEF Linked
    <2>3. QED
      BY <1>3, <2>1, <2>2
  <1>9. ASSUME NEW x \in V \cap open' PROVE Waits(V, r, x)'
    <2>1. Waits(W, r, x) /\ x \in Net /\ x # q
      BY <1>1
    <2>2. QED
      BY <1>8, <2>1 DEF Waits, Doomed
  <1>10. ASSUME NEW x \in open', "read" \in ready'[x] PROVE x \in V
    BY <1>1, <1>10
  <1>11. Places(V, r)'
    BY <1>3 DEF Places
  <1>12. QED
    BY <1>3, <1>7, <1>9, <1>10, <1>11 DEF Line

(* The same for the rest of the invariant.                                 *)
LEMMA RemoveDelay ==
    ASSUME NetInv, DelayInv, phase = "delay", phase' = "delay",
           q \in Net, Linked(q), queue_remove(q), q' = next'[q], open' \subseteq open,
           q \in open' => "read" \notin ready'[q],
           \A x \in Net : x # q => ready'[x] = ready[x] /\ (Still(x) => Still(x)'),
           \A x \in Net : Asked(x)', jammed' = jammed
    PROVE  DelayInv'
  <1>1. Asks'
    BY DEF Asks
  <1>2. ASSUME NEW W, NEW r, Line(W, r) PROVE \E V : Line(V, r)'
    <2>1. PICK V : V = W \ {q}
      OBVIOUS
    <2>2. Line(V, r)'
      BY <1>2, <2>1, RemoveCursor
    <2>3. QED
      BY <2>2
  <1>3. InLine'
    <2>1. CASE jammed
      BY <2>1 DEF InLine
    <2>2. CASE ~jammed
      <3>1. PICK W, r : Line(W, r)
        BY <2>2 DEF DelayInv, InLine
      <3>2. QED
        BY <1>2, <3>1 DEF InLine
    <2>3. QED
      BY <2>1, <2>2
  <1>4. QED
    BY <1>1, <1>3 DEF DelayInv

(* Handled answers through tcp_send.                                       *)
LEMMA HandledDelay ==
    ASSUME NetInv, DelayInv, NEW c \in open, NEW b \in Seq(Half), NEW r \in SUBSET ready[c],
           "net" \in r <=> "net" \in ready[c], Handled(c, b, r), UNCHANGED <<open, blocked>>
    PROVE  /\ \A x \in Net : Asked(x)'
           /\ \A x \in Net : x # c => ready'[x] = ready[x] /\ (Still(x) => Still(x)')
           /\ "read" \in ready'[c] <=> "read" \in r
           /\ jammed' = jammed
  <1>0. NetTypeOK /\ c \in Net /\ Asked(c)
    BY DEF NetInv, NetTypeOK, DelayInv, Asks
  <1>1. PICK n \in Nat : n = Answers(Packets(b))
    BY PacketsFound
  <1>2. tcp_send(c, n, r) /\ jammed' = jammed
    BY <1>1 DEF Handled
  <1>3. r \in SUBSET {"read", "write", "net"}
    BY <1>0 DEF NetTypeOK
  <1>4. /\ Asked(c)'
        /\ "read" \in ready'[c] <=> "read" \in r
        /\ \A x \in Net : x # c => /\ ready'[x] = ready[x] /\ flag'[x] = flag[x]
                                   /\ sbuf'[x] = sbuf[x] /\ edge'[x] = edge[x]
    BY <1>0, <1>2, <1>3, SendAsked
  <1>5. ASSUME NEW x \in Net, x # c PROVE Asked(x)' /\ (Still(x) => Still(x)')
    <2>1. Asked(x)
      BY DEF DelayInv, Asks
    <2>2. Asked(x)'
      BY <1>4, <1>5, <2>1, AskedSame
    <2>3. Still(x) => Still(x)'
      BY <1>4, <1>5 DEF Still
    <2>4. QED
      BY <2>2, <2>3
  <1>6. QED
    BY <1>2, <1>4, <1>5

(* rbuf is full: the node stays in its place with its input noted.         *)
LEMMA FullLine ==
    ASSUME NetInv, NEW W, NEW r, Line(W, r), phase = "delay", phase' = "delay",
           q \in open, Linked(q), "read" \in ready[q], "read" \in ready'[q],
           q' = next[q], UNCHANGED <<open, next, prev>>,
           \A x \in Net : x # q => ready'[x] = ready[x] /\ (Still(x) => Still(x)')
    PROVE  Line(W, r)'
  <1>1. /\ Places(W, r) /\ Strung(W, r) /\ Passed(W, r)
        /\ \A c \in W \cap open : Waits(W, r, c)
        /\ W \subseteq Net /\ open \subseteq Net
    BY DEF Line, Places, NetInv, NetTypeOK
  <1>2. q \in W /\ q \in Net
    BY <1>1, NetAssumption DEF Passed
  <1>3. Behind(W, r, q, q')
    BY <1>1, <1>2 DEF Strung, Linked
  <1>4. /\ q' \in W \cup {Ring}
        /\ \A x \in W : q' = Ring \/ r[x] < r[q'] => x = q \/ r[x] < r[q]
    BY <1>1, <1>2, <1>3, CursorNext
  <1>5. \A x \in W : r[x] < r[q] =>
           Linked(x) /\ (x \in open => "read" \in ready[x] \/ "net" \notin ready[x])
    BY <1>1 DEF Passed
  <1>6. ASSUME NEW x \in W, q' = Ring \/ r[x] < r[q']
        PROVE  Linked(x)' /\ (x \in open' => "read" \in ready'[x] \/ "net" \notin ready'[x])
    <2>1. CASE x = q
      BY <2>1 DEF Linked
    <2>2. CASE x # q
      <3>1. Linked(x) /\ x \in Net
        BY <1>1, <1>4, <1>5, <1>6, <2>2
      <3>2. QED
        BY <1>4, <1>5, <1>6, <2>2, <3>1 DEF Linked
    <2>3. QED
      BY <2>1, <2>2
  <1>7. Passed(W, r)'
    BY <1>4, <1>6 DEF Passed
  <1>8. ASSUME NEW x \in W \cap open'
        PROVE  "read" \in ready'[x] \/ "net" \in ready'[x] \/ Still(x)' \/ Doomed(W, r, x)
    BY <1>1 DEF Waits
  <1>9. \A x \in open' : x \in open /\ ("read" \in ready'[x] => "read" \in ready[x])
    BY <1>1
  <1>10. QED
    BY <1>7, <1>8, <1>9, LineSame

(* The steps of gfs_event_delay_run.                                       *)
LEMMA DelayDelay ==
    ASSUME NetInv, DelayInv, Delay \/ AnswerFails PROVE DelayInv'
  <1>0. /\ NetTypeOK /\ open \subseteq Net /\ Chained
        /\ \A x \in Net : Asked(x)
    BY DEF NetInv, NetTypeOK, DelayInv, Asks
  <1>1. CASE Die
    BY <1>1, FreshLine
  <1>2. CASE DelaySkip /\ ~Die
    <2>1. /\ UNCHANGED <<open, ready, flag, next, prev, edge, blocked, sbuf, jammed>>
          /\ phase = "delay" /\ phase' = phase
      BY <1>2 DEF DelaySkip, pool, event, buffers, kernel
    <2>2. phase' # "spin"
      BY <2>1
    <2>3. QED
      BY <1>2, <2>1, <2>2, MoveKeeps
  <1>3. CASE DelayIdle /\ ~Die
    <2>1. /\ phase = "delay" /\ phase' = "delay" /\ q \in Net /\ "read" \notin ready[q]
          /\ Linked(q) /\ queue_remove(q) /\ q' = next'[q]
          /\ UNCHANGED <<open, ready, flag, edge, blocked, sbuf, jammed>>
      BY <1>3 DEF DelayIdle, pool, buffers, kernel
    <2>2. \A x \in Net : Asked(x)' /\ (Still(x) => Still(x)')
      BY <1>0, <2>1 DEF Asked, Still
    <2>3. QED
      BY <2>1, <2>2, RemoveDelay
  <1>4. ASSUME CloseNode(q, 1), phase = "delay", phase' = "delay", q \in Net,
               "read" \in ready[q], queue_remove(q), q' = next'[q],
               \A x \in Net : x # q => ready'[x] = ready[x] /\ flag'[x] = flag[x]
        PROVE  DelayInv'
    <2>1. PICK c \in Net : c = q
      BY <1>4
    <2>2. CloseNode(c, 1)
      BY <1>4, <2>1
    <2>3. /\ \A x \in Net : Asked(x)'
          /\ \A x \in Net : x # c => (Still(x) => Still(x)')
          /\ open' = open \ {c} /\ c \notin open'
          /\ jammed' = jammed
      BY <1>0, <1>4, <2>1, <2>2, CloseAsked
    <2>4. Linked(q)
      BY <1>0, <1>4 DEF Chained
    <2>5. QED
      BY <1>4, <2>1, <2>3, <2>4, RemoveDelay
  <1>5. CASE DelayClose
    BY <1>4, <1>5 DEF DelayClose, net_close
  <1>6. CASE AnswerFails /\ ~Die
    <2>1. /\ phase = "delay" /\ phase' = "delay" /\ q \in open /\ "read" \in ready[q]
          /\ CloseNode(q, 1) /\ ready' = [ready EXCEPT ![q] = ready[q] \ {"read"}]
          /\ queue_remove(q) /\ q' = next'[q] /\ flag' = flag
      BY <1>6 DEF AnswerFails
    <2>2. \A x \in Net : x # q => ready'[x] = ready[x] /\ flag'[x] = flag[x]
      BY <1>0, <2>1 DEF NetTypeOK
    <2>3. QED
      BY <1>0, <1>4, <2>1, <2>2
  <1>7. CASE DelayRecv
    <2> DEFINE b == rbuf[q] \o inq[q]
               r == ready[q] \ {"read"}
    <2>1. /\ q \in open /\ phase = "delay" /\ phase' = "delay" /\ "read" \in ready[q]
          /\ Handled(q, b, r)
          /\ queue_remove(q) /\ q' = next'[q] /\ UNCHANGED <<open, blocked>>
      BY <1>7 DEF DelayRecv, pool
    <2>2. q \in Net /\ b \in Seq(Half)
      BY <1>0, <2>1, Received
    <2>3. /\ r \in SUBSET ready[q] /\ "read" \notin r
          /\ "net" \in r <=> "net" \in ready[q]
      OBVIOUS
    <2> HIDE DEF b, r
    <2>4. PICK c \in open : c = q
      BY <2>1
    <2>5. /\ \A x \in Net : Asked(x)'
          /\ \A x \in Net : x # c => ready'[x] = ready[x] /\ (Still(x) => Still(x)')
          /\ "read" \in ready'[c] <=> "read" \in r
          /\ jammed' = jammed
      BY <2>1, <2>2, <2>3, <2>4, HandledDelay
    <2>6. Linked(q)
      BY <1>0, <2>1, <2>2 DEF Chained
    <2>7. QED
      BY <2>1, <2>2, <2>3, <2>4, <2>5, <2>6, RemoveDelay
  <1>8. CASE DelayRecvFull
    <2> DEFINE n == RbufLen - Len(rbuf[q])
               b == rbuf[q] \o SubSeq(inq[q], 1, n)
    <2>1. /\ q \in open /\ phase = "delay" /\ phase' = "delay" /\ "read" \in ready[q]
          /\ ~Fits(q) /\ Handled(q, b, ready[q])
          /\ q' = next[q] /\ UNCHANGED <<open, next, prev, blocked>>
      BY <1>8 DEF DelayRecvFull, pool
    <2>2. q \in Net
      BY <1>0, <2>1
    <2>3. b \in Seq(Half) /\ ready[q] \in SUBSET ready[q]
      BY <2>1, <2>2, Received
    <2> HIDE DEF b
    <2>4. PICK c \in open : c = q
      BY <2>1
    <2>5. /\ \A x \in Net : Asked(x)'
          /\ \A x \in Net : x # c => ready'[x] = ready[x] /\ (Still(x) => Still(x)')
          /\ "read" \in ready'[c] <=> "read" \in ready[q]
          /\ jammed' = jammed
      BY <2>1, <2>3, <2>4, HandledDelay
    <2>6. Linked(q)
      BY <1>0, <2>1, <2>2 DEF Chained
    <2>7. \A W, r : Line(W, r) => Line(W, r)'
      BY <2>1, <2>4, <2>5, <2>6, FullLine
    <2>8. Asks'
      BY <2>1, <2>5 DEF Asks
    <2>9. InLine'
      BY <2>5, <2>7 DEF DelayInv, InLine
    <2>10. QED
      BY <2>8, <2>9 DEF DelayInv
  <1>9. QED
    BY <1>1, <1>2, <1>3, <1>5, <1>6, <1>7, <1>8 DEF Delay

(* An event of epoll is noted.  A node that it is reported for and that    *)
(* has no input noted is not in line, and goes to its end.                 *)
LEMMA EventDelay ==
    ASSUME NetInv, DelayInv, NEW c \in Net, EpollEvent(c) PROVE DelayInv'
  <1>0. /\ NetTypeOK /\ open \subseteq Net
        /\ ready \in [Net -> SUBSET {"read", "write", "net"}]
        /\ edge \in [Net -> SUBSET {"in", "out", "hup"}]
        /\ \A x \in Net : Asked(x)
        /\ phase = "epoll" => \A x \in batch \cap Net : x \in open /\ edge[x] # {}
    BY DEF NetInv, NetTypeOK, DelayInv, Asks
  <1>1. PICK n : n = ready[c] \cup (IF "in" \in edge[c] THEN {"read"} ELSE {})
                             \cup (IF "out" \in edge[c] THEN {"write"} ELSE {})
    OBVIOUS
  <1>2. /\ phase = "epoll" /\ phase' = "epoll" /\ c \in batch /\ "hup" \notin edge[c]
        /\ batch' = batch \ {c}
        /\ ready' = [ready EXCEPT ![c] = n] /\ edge' = [edge EXCEPT ![c] = {}]
        /\ UNCHANGED <<open, flag, sbuf, blocked, jammed>>
    BY <1>1 DEF EpollEvent, pool, buffers
  <1>3. /\ ready'[c] = n /\ edge'[c] = {}
        /\ \A x \in Net : x # c => ready'[x] = ready[x] /\ edge'[x] = edge[x]
    BY <1>0, <1>2
  <1>4. /\ c \in open /\ edge[c] # {} /\ Asked(c)
        /\ "net" \in n <=> "net" \in ready[c]
        /\ "read" \in n <=> "read" \in ready[c] \/ "in" \in edge[c]
    BY <1>0, <1>1, <1>2
  <1>5. Asked(c)'
    BY <1>2, <1>3, <1>4 DEF Asked
  <1>6. ASSUME NEW x \in Net, x # c
        PROVE  Asked(x)' /\ (Still(x) => Still(x)') /\ (Fine(x) => Fine(x)')
    <2>1. Asked(x)'
      BY <1>0, <1>2, <1>3, <1>6, AskedSame
    <2>2. Still(x) => Still(x)'
      BY <1>2, <1>3, <1>6 DEF Still
    <2>3. Fine(x) => Fine(x)'
      BY <1>3, <1>6, <2>2 DEF Fine
    <2>4. QED
      BY <2>1, <2>2, <2>3
  <1>7. Asks'
    BY <1>0, <1>2, <1>3, <1>5, <1>6 DEF Asks
  <1>8. ASSUME NEW W, NEW r, Line(W, r) PROVE \E V, s : Line(V, s)'
    <2>1. /\ Places(W, r) /\ Strung(W, r) /\ W \subseteq Net
          /\ \A x \in open : "read" \in ready[x] => x \in W
          /\ \A x \in W \cap open : Waits(W, r, x)
          /\ \A x \in W \cap batch : Fine(x)
      BY <1>2, <1>8 DEF Line, Places
    <2>2. CASE "read" \in ready[c]
      <3>1. UNCHANGED <<next, prev>>
        BY <2>2 DEF EpollEvent
      <3>2. \A x \in open' : x \in open /\ ("read" \in ready'[x] => "read" \in ready[x])
        BY <1>0, <1>2, <1>3, <2>2
      <3>3. ASSUME NEW x \in W \cap open'
            PROVE  "read" \in ready'[x] \/ "net" \in ready'[x] \/ Still(x)' \/ Doomed(W, r, x)
        BY <1>2, <1>3, <1>4, <1>6, <2>1, <2>2 DEF Waits
      <3>4. \A x \in W \cap batch' : Fine(x)'
        BY <1>2, <1>6, <2>1
      <3>5. Line(W, r)'
        BY <1>2, <1>8, <3>1, <3>2, <3>3, <3>4, LineSame
      <3>6. QED
        BY <3>5
    <2>3. CASE "read" \notin ready[c]
      <3>1. insert_tail(c)
        BY <2>3 DEF EpollEvent
      <3>2. c \notin W
        BY <1>0, <1>2, <1>4, <2>1, <2>3 DEF Fine, Still
      <3>3. PICK s : /\ Places(W \cup {c}, s) /\ Strung(W \cup {c}, s)'
                     /\ \A x \in W : s[x] = r[x]
                     /\ \A x \in W : Doomed(W, r, x) => Doomed(W \cup {c}, s, x)'
        BY <2>1, <3>1, <3>2, InsertLine
      <3> DEFINE V == W \cup {c}
      <3>4. Places(V, s)'
        BY <3>3 DEF Places
      <3>5. \A x \in open' : "read" \in ready'[x] => x \in V
        BY <1>0, <1>2, <1>3, <2>1
      <3>6. ASSUME NEW x \in V \cap open' PROVE Waits(V, s, x)'
        <4>1. CASE x = c
          <5>1. CASE "in" \in edge[c]
            BY <1>3, <1>4, <4>1, <5>1 DEF Waits
          <5>2. CASE "in" \notin edge[c]
            <6>1. "out" \in edge[c]
              BY <1>0, <1>2, <1>4, <5>2
            <6>2. ~blocked[c]
              BY <1>4, <6>1 DEF Asked
            <6>3. Still(c)'
              BY <1>2, <1>3, <6>2 DEF Still
            <6>4. QED
              BY <4>1, <6>3 DEF Waits
          <5>3. QED
            BY <5>1, <5>2
        <4>2. CASE x # c
          <5>1. Waits(W, r, x) /\ x \in Net /\ x \in W
            BY <1>2, <2>1, <4>2
          <5>2. Doomed(W, r, x) => Doomed(V, s, x)'
            BY <3>3, <5>1
          <5>3. QED
            BY <1>3, <1>6, <4>2, <5>1, <5>2 DEF Waits
        <4>3. QED
          BY <4>1, <4>2
      <3>7. \A x \in V \cap batch' : Fine(x)'
        BY <1>2, <1>6, <2>1
      <3>8. Line(V, s)'
        <4> HIDE DEF V
        <4>1. Strung(V, s)'
          BY <3>3 DEF V
        <4>2. QED
          BY <1>2, <3>4, <3>5, <3>6, <3>7, <4>1 DEF Line
      <3>9. QED
        BY <3>8
    <2>4. QED
      BY <2>2, <2>3
  <1>9. InLine'
    <2>1. CASE jammed
      BY <1>2, <2>1 DEF InLine
    <2>2. CASE ~jammed
      <3>1. PICK W, r : Line(W, r)
        BY <2>2 DEF DelayInv, InLine
      <3>2. QED
        BY <1>8, <3>1 DEF InLine
    <2>3. QED
      BY <2>1, <2>2
  <1>10. QED
    BY <1>7, <1>9 DEF DelayInv

(* A node that is set up again may be in line: it loses its links, and     *)
(* whoever is behind it is out of reach.                                   *)
LEMMA AcceptDelay ==
    ASSUME NetInv, DelayInv, NEW p \in DS \cup {Client}, NEW more \in BOOLEAN,
           Accept(p, more)
    PROVE  DelayInv'
  <1>0. /\ NetTypeOK /\ open \subseteq Net
        /\ ready \in [Net -> SUBSET {"read", "write", "net"}]
        /\ flag \in [Net -> {"in", "out"}]
        /\ next \in [Net \cup {Ring} -> Links] /\ prev \in [Net \cup {Ring} -> Links]
        /\ \A x \in Net : Asked(x)
        /\ phase = "epoll" => \A x \in batch \cap Net : x \in open /\ edge[x] # {}
        /\ Ring \notin Net
    BY NetAssumption DEF NetInv, NetTypeOK, DelayInv, Asks
  <1>1. PICK c : c = free[1]
    OBVIOUS
  <1>2. /\ phase = "epoll" /\ phase' = "epoll" /\ free # <<>>
        /\ batch' \subseteq batch /\ open' = open \cup {c}
        /\ ready' = [ready EXCEPT ![c] = {"net"}] /\ flag' = [flag EXCEPT ![c] = "in"]
        /\ next' = [next EXCEPT ![c] = Null] /\ prev' = [prev EXCEPT ![c] = Null]
        /\ UNCHANGED <<edge, sbuf, blocked, jammed>>
    BY <1>1 DEF Accept, buffers
  <1>3. c \in Net /\ c \notin open
    <2>1. free \in Seq(Net) /\ IsInjective(free) /\ \A x \in Net : x \in open <=> ~Contains(free, x)
      BY DEF NetInv, NetTypeOK, Pooled
    <2>2. QED
      BY <1>1, <1>2, <2>1, Popped
  <1>4. /\ ready'[c] = {"net"} /\ flag'[c] = "in" /\ next'[c] = Null /\ prev'[c] = Null
        /\ edge[c] = {}
        /\ \A x \in Net \cup {Ring} : x # c => next'[x] = next[x] /\ prev'[x] = prev[x]
        /\ \A x \in Net : x # c => ready'[x] = ready[x] /\ flag'[x] = flag[x]
    <2>1. edge[c] = {}
      BY <1>0, <1>3 DEF Asked
    <2>2. QED
      BY <1>0, <1>2, <1>3, <2>1
  <1>5. Asked(c)'
    BY <1>2, <1>4 DEF Asked
  <1>6. ASSUME NEW x \in Net, x # c
        PROVE  Asked(x)' /\ (Still(x) => Still(x)') /\ (Fine(x) => Fine(x)')
    <2>1. Asked(x)'
      BY <1>0, <1>2, <1>4, <1>6, AskedSame
    <2>2. Still(x) => Still(x)'
      BY <1>2 DEF Still
    <2>3. Fine(x) => Fine(x)'
      BY <1>4, <1>6, <2>2 DEF Fine
    <2>4. QED
      BY <2>1, <2>2, <2>3
  <1>7. Asks'
    BY <1>0, <1>2, <1>3, <1>5, <1>6 DEF Asks
  <1>8. ASSUME NEW W, NEW r, Line(W, r) PROVE Line(W, r)'
    <2>1. /\ Places(W, r) /\ Strung(W, r) /\ W \subseteq Net
          /\ \A x \in open : "read" \in ready[x] => x \in W
          /\ \A x \in W \cap open : Waits(W, r, x)
          /\ \A x \in W \cap batch : Fine(x)
      BY <1>2, <1>8 DEF Line, Places
    <2>2. Strung(W, r)'
      <3>1. next'[Ring] = next[Ring] /\ prev'[Ring] = prev[Ring]
        BY <1>0, <1>3, <1>4
      <3>2. \A x \in W : /\ next'[x] = Null \/ next'[x] = next[x]
                         /\ prev'[x] = Null \/ prev'[x] = prev[x]
        BY <1>4, <2>1
      <3>3. QED
        BY <2>1, <3>1, <3>2 DEF Strung, Behind, Before, LastOf
    <2>3. Places(W, r)'
      BY <2>1 DEF Places
    <2>4. ASSUME NEW x, Doomed(W, r, x) PROVE Doomed(W, r, x)'
      BY <1>4, <2>1, <2>4 DEF Doomed
    <2>5. ASSUME NEW x \in W \cap open' PROVE Waits(W, r, x)'
      <3>1. CASE x = c
        BY <1>4, <3>1 DEF Waits
      <3>2. CASE x # c
        <4>1. Waits(W, r, x) /\ x \in Net
          BY <1>2, <2>1, <3>2
        <4>2. QED
          BY <1>4, <1>6, <2>4, <3>2, <4>1 DEF Waits
      <3>3. QED
        BY <3>1, <3>2
    <2>6. \A x \in open' : "read" \in ready'[x] => x \in W
      BY <1>0, <1>2, <1>4, <2>1
    <2>7. \A x \in W \cap batch' : Fine(x)'
      BY <1>0, <1>2, <1>3, <1>6, <2>1
    <2>8. QED
      BY <1>2, <2>2, <2>3, <2>5, <2>6, <2>7 DEF Line
  <1>9. InLine'
    BY <1>2, <1>8 DEF DelayInv, InLine
  <1>10. QED
    BY <1>7, <1>9 DEF DelayInv

(* Peers and the network: what they do to a node that waits for a command  *)
(* makes epoll report nothing, or the peer reads again.                    *)
LEMMA PeerDelay ==
    ASSUME NetInv, DelayInv, NEW c \in open, phase # "epoll",
           UNCHANGED <<phase, q, open, ready, flag, next, prev, sbuf, jammed>>,
           \/ edge' = Raise(c, "in") /\ UNCHANGED blocked
           \/ edge' = [edge EXCEPT ![c] = @ \cup {"hup"}] /\ UNCHANGED blocked
           \/ blocked' = [blocked EXCEPT ![c] = TRUE] /\ sbuf[c] = 0 /\ UNCHANGED edge
           \/ blocked' = [blocked EXCEPT ![c] = FALSE] /\ blocked[c] /\ edge' = Raise(c, "out")
    PROVE  DelayInv'
  <1>0. /\ c \in Net /\ open \subseteq Net /\ flag[c] \in {"in", "out"}
        /\ edge \in [Net -> SUBSET {"in", "out", "hup"}] /\ blocked \in [Net -> BOOLEAN]
        /\ \A x \in Net : Asked(x)
    BY DEF NetInv, NetTypeOK, DelayInv, Asks
  <1>1. \A x \in Net : x # c => edge'[x] = edge[x] /\ blocked'[x] = blocked[x]
    BY <1>0 DEF Raise
  <1>2. /\ "net" \in ready[c] <=> flag[c] = "in"
        /\ flag[c] = "out" => sbuf[c] > 0
        /\ edge[c] \subseteq {flag[c], "hup"}
        /\ "out" \in edge[c] => ~blocked[c]
    BY <1>0 DEF Asked
  <1>3. Asked(c)' /\ (Still(c) => "net" \in ready[c] \/ Still(c)')
    <2>1. CASE edge' = Raise(c, "in") /\ UNCHANGED blocked
      <3>1. edge'[c] = IF flag[c] = "in" THEN edge[c] \cup {"in"} ELSE edge[c]
        BY <1>0, <2>1 DEF Raise
      <3>2. QED
        BY <1>0, <1>2, <2>1, <3>1 DEF Asked, Still
    <2>2. CASE edge' = [edge EXCEPT ![c] = @ \cup {"hup"}] /\ UNCHANGED blocked
      <3>1. edge'[c] = edge[c] \cup {"hup"}
        BY <1>0, <2>2
      <3>2. QED
        BY <1>0, <1>2, <2>2, <3>1 DEF Asked, Still
    <2>3. CASE blocked' = [blocked EXCEPT ![c] = TRUE] /\ sbuf[c] = 0 /\ UNCHANGED edge
      <3>1. flag[c] = "in"
        BY <1>0, <1>2, <2>3
      <3>2. QED
        BY <1>0, <1>2, <2>3, <3>1 DEF Asked, Still
    <2>4. CASE blocked' = [blocked EXCEPT ![c] = FALSE] /\ blocked[c] /\ edge' = Raise(c, "out")
      <3>1. /\ edge'[c] = IF flag[c] = "out" THEN edge[c] \cup {"out"} ELSE edge[c]
            /\ ~blocked'[c]
        BY <1>0, <2>4 DEF Raise
      <3>2. QED
        BY <1>0, <1>2, <2>4, <3>1 DEF Asked, Still
    <2>5. QED
      BY <2>1, <2>2, <2>3, <2>4
  <1>4. ASSUME NEW x \in Net, x # c PROVE Asked(x)' /\ (Still(x) => Still(x)')
    <2>1. Asked(x)'
      BY <1>0, <1>1, <1>4, AskedSame
    <2>2. Still(x) => Still(x)'
      BY <1>1, <1>4 DEF Still
    <2>3. QED
      BY <2>1, <2>2
  <1>5. Asks'
    BY <1>3, <1>4 DEF Asks, DelayInv
  <1>6. ASSUME NEW W, NEW r, Line(W, r) PROVE Line(W, r)'
    <2>1. /\ W \subseteq Net /\ \A x \in W \cap open : Waits(W, r, x)
          /\ phase = "delay" => Passed(W, r)
      BY <1>6 DEF Line, Places
    <2>2. \A x \in W \cap open' :
             "read" \in ready'[x] \/ "net" \in ready'[x] \/ Still(x)' \/ Doomed(W, r, x)
      BY <1>3, <1>4, <2>1 DEF Waits
    <2>3. Passed(W, r) => Passed(W, r)'
      BY DEF Passed, Linked
    <2>4. QED
      BY <1>6, <2>1, <2>2, <2>3, LineSame
  <1>7. InLine'
    BY <1>6 DEF DelayInv, InLine
  <1>8. QED
    BY <1>5, <1>7 DEF DelayInv

(* Every step. *)
LEMMA DelayStep == NetInv /\ DelayInv /\ [Next]_vars => DelayInv'
  <1> SUFFICES ASSUME NetInv, DelayInv, [Next]_vars PROVE DelayInv'
    OBVIOUS
  <1>0. /\ NetTypeOK /\ open \subseteq Net /\ map \in [DS -> Net \cup {NoNet}]
        /\ phase = "spin" => q \in open
    BY DEF NetInv, NetTypeOK, DelayInv, Asks
  <1>1. ASSUME NEW d \in DS, Notice(d) \/ NoticeSpin(d) \/ NoticeFails(d) PROVE DelayInv'
    <2>1. CASE Notice(d)
      <3>1. /\ map[d] \in open /\ Command(map[d]) /\ phase' = "timer"
            /\ UNCHANGED <<open, next, prev, blocked>>
        BY <2>1 DEF Notice, thread, pool
      <3>2. QED
        BY <3>1, CommandDelay
    <2>2. CASE NoticeSpin(d)
      <3>1. /\ phase' = "spin" /\ q' = map[d] /\ map[d] \in open
            /\ UNCHANGED <<open, ready, flag, next, prev, edge, blocked, sbuf, jammed>>
        BY <2>2 DEF NoticeSpin, pool, event, buffers, kernel
      <3>2. QED
        BY <3>1, MoveKeeps
    <2>3. CASE NoticeFails(d)
      <3>1. map[d] \in Net /\ CloseNode(map[d], 1) /\ UNCHANGED event /\ phase' = "timer"
        BY <1>0, <2>3 DEF NoticeFails, net_close, thread
      <3>2. QED
        BY <3>1, CloseDelay
    <2>4. QED
      BY <1>1, <2>1, <2>2, <2>3
  <1>2. CASE SpinEnd
    <2>1. /\ q \in open /\ Command(q) /\ phase' = "timer"
          /\ UNCHANGED <<open, next, prev, blocked>>
      BY <1>0, <1>2 DEF SpinEnd, pool
    <2>2. QED
      BY <2>1, CommandDelay
  <1>3. CASE SpinReset
    <2>1. q \in Net /\ CloseNode(q, 2) /\ UNCHANGED event /\ phase' = "timer"
      BY <1>0, <1>3 DEF SpinReset, net_close
    <2>2. QED
      BY <2>1, CloseDelay
  <1>4. CASE Delay \/ AnswerFails
    BY <1>4, DelayDelay
  <1>5. ASSUME NEW c \in Net, IdleTimeout(c) PROVE DelayInv'
    BY <1>5, FreshLine DEF IdleTimeout
  <1>6. CASE TimerEnd
    <2>1. /\ phase' = "delay"
          /\ UNCHANGED <<open, ready, flag, next, prev, edge, blocked, sbuf, jammed>>
      BY <1>6 DEF TimerEnd, pool, event, buffers, kernel
    <2>2. QED
      BY <1>6, <2>1, MoveKeeps
  <1>7. ASSUME NEW l \in SUBSET {Listen}, EpollWait(l) PROVE DelayInv'
    <2>1. /\ phase' = "epoll"
          /\ UNCHANGED <<open, ready, flag, next, prev, edge, blocked, sbuf, jammed>>
      BY <1>7 DEF EpollWait, pool, event, buffers, kernel
    <2>2. \E m \in SUBSET {Listen} : EpollWait(m)
      BY <1>7
    <2>3. QED
      BY <2>1, <2>2, MoveKeeps
  <1>8. CASE AcceptNot \/ EpollEnd
    <2>1. /\ UNCHANGED <<open, ready, flag, next, prev, edge, blocked, sbuf, jammed>>
          /\ phase' = "timer" \/ (phase' = phase /\ q' = q /\ batch' \subseteq batch)
          /\ phase' # "spin"
      BY <1>8 DEF AcceptNot, EpollEnd, pool, event, buffers, kernel
    <2>2. QED
      BY <2>1, MoveKeeps
  <1>9. ASSUME NEW c \in Net, EpollError(c) PROVE DelayInv'
    <2>1. /\ CloseNode(c, 1) /\ UNCHANGED event
          /\ phase = "epoll" /\ phase' = phase /\ batch' = batch \ {c}
      BY <1>9 DEF EpollError, net_close
    <2>2. QED
      BY <2>1, CloseDelay
  <1>10. ASSUME NEW c \in Net, EpollEvent(c) PROVE DelayInv'
    BY <1>10, EventDelay
  <1>11. ASSUME NEW p \in DS \cup {Client}, NEW more \in BOOLEAN, Accept(p, more)
         PROVE  DelayInv'
    BY <1>11, AcceptDelay
  <1>12. ASSUME NEW c \in Net, \/ \E k \in Kind : Send(c, k) \/ SendHalf(c, k)
                               \/ SendRest(c)
                               \/ \E how \in {"fin", "rst"} : End(c, how)
                               \/ Block(c)
                               \/ Unblock(c)
         PROVE  DelayInv'
    <2>1. /\ c \in open /\ phase # "epoll"
          /\ UNCHANGED <<phase, q, open, ready, flag, next, prev, sbuf, jammed>>
      BY <1>12 DEF Send, SendHalf, SendRest, End, Block, Unblock, Message, Live,
                   thread, pool, event, buffers
    <2>2. \/ edge' = Raise(c, "in") /\ UNCHANGED blocked
          \/ edge' = [edge EXCEPT ![c] = @ \cup {"hup"}] /\ UNCHANGED blocked
          \/ blocked' = [blocked EXCEPT ![c] = TRUE] /\ sbuf[c] = 0 /\ UNCHANGED edge
          \/ blocked' = [blocked EXCEPT ![c] = FALSE] /\ blocked[c] /\ edge' = Raise(c, "out")
      BY <1>12 DEF Send, SendHalf, SendRest, End, Block, Unblock, Message
    <2>3. QED
      BY <2>1, <2>2, PeerDelay
  <1>13. CASE UNCHANGED vars
    <2>1. /\ UNCHANGED <<open, ready, flag, next, prev, edge, blocked, sbuf, jammed>>
          /\ phase' = phase /\ q' = q /\ batch' = batch
      BY <1>13 DEF vars, thread, pool, event, buffers, kernel
    <2>2. QED
      BY <1>0, <2>1, MoveKeeps
  <1>14. QED
    BY <1>1, <1>2, <1>3, <1>4, <1>5, <1>6, <1>7, <1>8, <1>9, <1>10, <1>11, <1>12, <1>13
    DEF Next, Epoll

(* Input that was noted is within reach of gfs_event_delay_run: its node   *)
(* is in the delay queue, or the worker is about to die at a node that was *)
(* set up again, or a command was put off on a node of the queue, however  *)
(* events, commands, closes and new connections interleave.                *)
THEOREM DelayAlwaysComplete == Spec => []DelayComplete
  <1>1. NetInit => DelayInv
    BY FreshLine
  <1>2. DelayInv => DelayComplete
    <2>1. ASSUME DelayInv PROVE DelayComplete
      <3>1. CASE jammed
        BY <3>1 DEF DelayComplete
      <3>2. CASE \E W, r : Line(W, r)
        BY <3>2, LineComplete
      <3>3. QED
        BY <2>1, <3>1, <3>2 DEF DelayInv, InLine
    <2>2. QED
      BY <2>1
  <1>3. QED
    BY <1>1, <1>2, NetInvariance, DelayStep, PTL DEF Spec

=============================================================================
