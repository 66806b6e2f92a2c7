----------------------------- MODULE NsMemProofs -----------------------------
(***************************************************************************)
(* The memory pool of the name service for any number of pages and blocks  *)
(* and any sizes asked for.                                                *)
(*                                                                         *)
(* MemInv has two halves.  While nobody has pointers from before a reset   *)
(* (SoundInv), pages are cut into blocks at edges, the lists hold the free *)
(* ones and the counters are sums over both.  A request whose pool was     *)
(* reset goes on to free its blocks (StaleInv): sizes no longer fit, but   *)
(* what it does stays on the old edges and never reaches the words around  *)
(* a page and its head, so that the next reset makes a sound pool of it.   *)
(***************************************************************************)
EXTENDS NsMem, FiniteSetTheorems, SequenceTheorems, WellFoundedInduction,
        NaturalsInduction, TLAPS

(* Where blocks of a page start or end: at an edge there are the header of *)
(* the block behind it and the footer of the one in front of it.  A page   *)
(* that is cut by a set of edges has these words and no others.            *)
Edges(M) == Starts(M) \cup {PAGESIZE}
Hd(M, e) == M[e - WSIZE]
Ft(M, e) == M[e - DSIZE]
Spaced(E) ==
    /\ \A e \in E : e \in Nat /\ DSIZE <= e /\ e <= PAGESIZE
    /\ DSIZE \in E /\ PAGESIZE \in E
    /\ \A a, b \in E : a < b => a + BLOCK_MIN <= b
Words(E) == { x \in Nat : x + WSIZE \in E \/ x + DSIZE \in E }
CutBy(M, E) == Spaced(E) /\ M \in [Words(E) -> Tag]
Adj(E, b, e) == b \in E /\ e \in E /\ b < e /\ \A c \in E : c <= b \/ e <= c

(* The words around a page and those of its head. *)
Body(p) == DSIZE + HeadOf(p)
Outer == T(0, TRUE)
HeadTag(p) == T(HeadOf(p), TRUE)
Sealed(p, M, E) ==
    /\ Adj(E, DSIZE, Body(p))
    /\ Ft(M, DSIZE) = Outer /\ Hd(M, PAGESIZE) = Outer
    /\ Hd(M, DSIZE) = HeadTag(p) /\ Ft(M, Body(p)) = HeadTag(p)

(* A block ends where the next one starts, and no two free ones meet. *)
Block(M, b, e) ==
    /\ Hd(M, b) = Ft(M, e) /\ Hd(M, b).size = e - b
    /\ Hd(M, b).used \/ Hd(M, e).used
Good(p, M, E) ==
    /\ CutBy(M, E) /\ Sealed(p, M, E)
    /\ \A b, e \in E : Adj(E, b, e) => Block(M, b, e)

(* Lists of blocks: where a block is and that it is there once.  In a sound *)
(* pool they hold the free blocks, each in the list of its class.           *)
Offset == 0..PAGESIZE
Addr == Page \X Offset
Class == 0..7
In(B, i, x) == Contains(B[i], x)
Single(s, x) == \A k, l \in 1..Len(s) : s[k] = x /\ s[l] = x => k = l
Once(B, x) ==
    /\ \A i \in Class : Single(B[i], x)
    /\ \A i, j \in Class : In(B, i, x) /\ In(B, j, x) => i = j
ListsOK(B) == B \in [Class -> Seq(Addr)]
Free(P, m) ==
    { x \in Addr : x[1] \in P /\ x[2] \in Starts(m[x[1]]) /\ ~Hd(m[x[1]], x[2]).used }
Listing(B, S, m) ==
    /\ ListsOK(B) /\ \A x \in Addr : Once(B, x)
    /\ \A x \in Addr : \A i \in Class : In(B, i, x) <=> x \in S /\ getindex(SizeAt(m, x)) = i

(* What is handed out. *)
Handed == [at : (0..MaxPages) \X Nat, n : Size]
LiveOK(lv) ==
    /\ lv \subseteq Handed /\ IsFiniteSet(lv)
    /\ \A x, y \in lv : x.at = y.at => x = y
Holds(P, m, x) ==
    LET p == x.at[1] IN
    p # 0 => /\ p \in P /\ x.at[2] \in Starts(m[p]) \ {DSIZE}
             /\ Hd(m[p], x.at[2]).used
             /\ x.n <= Hd(m[p], x.at[2]).size - WSIZE - DSIZE
LargeOK(L, lv) ==
    /\ L \in [DOMAIN L -> Nat] /\ DOMAIN L \subseteq 1..MaxLive
    /\ \A x \in lv : x.at[1] = 0 => x.at[2] \in DOMAIN L
    /\ \A id \in DOMAIN L : \E x \in lv : x.at = <<0, id>>
TakenIn(m, L, x) == IF x.at[1] = 0 THEN L[x.at[2]] ELSE SizeAt(m, x.at)

(* A pool nobody has stale pointers into. *)
FreeBytes(P, m) == Bytes([x \in Free(P, m) |-> SizeAt(m, x)])
LiveBytes(m, L, lv) == Bytes([x \in lv |-> TakenIn(m, L, x)])
GoodPages(P, m) == \A p \in P : Good(p, m[p], Edges(m[p]))
Apart(P, m, L, lv) == LiveOK(lv) /\ LargeOK(L, lv) /\ \A x \in lv : Holds(P, m, x)
SoundPool(P, m, B, L, lv) ==
    GoodPages(P, m) /\ Listing(B, Free(P, m), m) /\ Apart(P, m, L, lv)

(* The list of pages. *)
PagesOK ==
    /\ pages \in Seq(Page) /\ IsInjective(pages)
    /\ pages = <<>> => init = {}
    /\ pages # <<>> =>
         /\ init = 1..InitPages /\ Len(pages) >= InitPages
         /\ \A k \in 1..InitPages : pages[Len(pages) - InitPages + k] = PageList[k]
    /\ DOMAIN mem = Page
    /\ \A p \in Page : p \notin ToSet(pages) => mem[p] = <<>>

SoundInv ==
    /\ SoundPool(ToSet(pages), mem, block, large, live)
    /\ psize = PAGESIZE * Len(pages) /\ allsize = psize + Bytes(large)
    /\ pused = psize + Bytes(large) - FreeBytes(ToSet(pages), mem)
    /\ msize = LiveBytes(mem, large, live)

(* A page that was reset under a request.  W are its listed blocks and A   *)
(* those the request still has.  The old words are all there; the first    *)
(* block claims the whole page or more.  Sizes are what matters: h are     *)
(* those of the headers and g those of the footers, by their edges, D the  *)
(* edges where blocks start behind the head, and f the first of these.     *)
End(M, b) == b + Hd(M, b).size
Back(M, e) == e - Ft(M, e).size
Inner(E) == E \ {DSIZE, PAGESIZE}
Ground(E, D, f) ==
    /\ \A e \in E : e \in Nat /\ e <= 4096
    /\ D \subseteq E /\ f \in D /\ \A d \in D : f <= d
Sound48(D, h) == \A b \in D : 48 <= h[b]
Lands(E, D, h) == \A b \in D : b + h[b] \in E \/ 4144 <= b + h[b]
Backs(D, f, h, g, A) == \A e \in A : \A c \in D : e # f /\ c # f /\ c = e - g[e] => c + h[c] = e
Foots(E, f, h, g, W) == \A b \in W : \A e \in E : b # f /\ e = b + h[b] => g[e] = h[b]
Ends(f, h, W, A) ==
    \A b, c \in W \cup A : b # f /\ c # f /\ b # c /\ b + h[b] = c + h[c] => 4096 < b + h[b]
Core(E, D, f, h, g, W, A) ==
    /\ h \in [E -> Nat] /\ g \in [E -> Nat]
    /\ W \subseteq D /\ A \subseteq D /\ W \cap A \subseteq {f}
    /\ Sound48(D, h) /\ Lands(E, D, h) /\ 4096 <= f + h[f]
    /\ Backs(D, f, h, g, A) /\ Foots(E, f, h, g, W) /\ Ends(f, h, W, A)
HeadSizes(M, E) == [e \in E |-> Hd(M, e).size]
FootSizes(M, E) == [e \in E |-> Ft(M, e).size]
Astray(p, M, E, W, A) ==
    /\ CutBy(M, E) /\ Sealed(p, M, E)
    /\ Core(E, Inner(E), Body(p), HeadSizes(M, E), FootSizes(M, E), W, A)
On(p, B) == { b \in Offset : \E i \in Class : In(B, i, <<p, b>>) }
Of(p, lv) == { b \in Offset : \E x \in lv : x.at = <<p, b>> }
StaleInv ==
    /\ pages = PageList /\ large = <<>>
    /\ psize = PAGESIZE * InitPages /\ allsize = psize /\ pused \in Int /\ msize \in Int
    /\ LiveOK(live) /\ ListsOK(block)
    /\ \A p \in 1..InitPages :
         Astray(p, mem[p], Edges(mem[p]), On(p, block), Of(p, live))
    /\ \A x \in Addr : \A i \in Class : In(block, i, x) =>
         x[1] \in 1..InitPages /\ (x # FreeOf(x[1]) => Once(block, x))

MemInv ==
    /\ PagesOK /\ (pages = <<>> => live = {}) /\ fate \in {"ok", "exit", "undefined"}
    /\ stale = {} => SoundInv /\ fate = "ok"
    /\ stale # {} => StaleInv
    /\ \A x \in stale : x.n \in Size
------------------------------------------------------------------------------
(* Least elements, and sums. *)

(* A set of naturals has a least element ... *)
LEMMA MinOf ==
    ASSUME NEW S, S \subseteq Nat, S # {}
    PROVE  Min(S) \in S /\ \A y \in S : Min(S) =< y
  <1> DEFINE R == OpToRel(<, Nat)
  <1>1. IsWellFoundedOn(R, Nat)
    BY NatLessThanWellFounded
  <1>2. \A a, b \in Nat : a < b => <<a, b>> \in R
    BY DEF OpToRel
  <1> HIDE DEF R
  <1>3. PICK x \in S : \A y \in S : ~(<<y, x>> \in R)
    BY <1>1, WFMin
  <1>4. ASSUME NEW y \in S PROVE x =< y
    <2>1. ~(y < x)
      BY <1>2, <1>3
    <2>2. QED
      BY <2>1
  <1>5. \E z \in S : \A y \in S : z =< y
    BY <1>4
  <1>6. QED
    BY <1>5 DEF Min

(* ... and a bounded one has a largest. *)
LEMMA MaxOf ==
    ASSUME NEW K \in Nat, NEW S, S \subseteq 0 .. K, S # {}
    PROVE  Max(S) \in S /\ \A y \in S : y =< Max(S)
  <1> DEFINE U == {k \in Nat : K - k \in S}
  <1>1. U \subseteq Nat /\ U # {}
    <2>1. PICK y \in S : TRUE
      OBVIOUS
    <2>2. K - y \in Nat /\ K - (K - y) = y
      BY <2>1
    <2>3. K - y \in U
      BY <2>1, <2>2
    <2>4. QED
      BY <2>3
  <1>2. Min(U) \in U /\ \A k \in U : Min(U) =< k
    BY <1>1, MinOf
  <1>3. K - Min(U) \in S /\ Min(U) \in Nat
    BY <1>2
  <1>4. ASSUME NEW y \in S PROVE K - Min(U) >= y
    <2>1. y \in Nat /\ K - y \in Nat /\ K - (K - y) = y
      OBVIOUS
    <2>2. K - y \in U
      BY <2>1
    <2>3. Min(U) =< K - y
      BY <1>2, <2>2
    <2>4. QED
      BY <1>3, <2>1, <2>3
  <1>5. \E x \in S : \A y \in S : x >= y
    BY <1>3, <1>4
  <1>6. Max(S) \in S /\ \A y \in S : Max(S) >= y
    BY <1>5 DEF Max
  <1>7. QED
    BY <1>6

(* What Bytes computes: a function from the subsets of the domain, each of *)
(* which adds one of its elements to the sum of the rest.                  *)
Pick(s) == CHOOSE x \in s : TRUE
Sums(f, D, g) ==
    g = [s \in D |-> IF s = {} THEN 0 ELSE f[Pick(s)] + g[s \ {Pick(s)}]]
Agree(f, h, D) == \A x \in D : f[x] = h[x]
Upto(D, n) == { s \in SUBSET D : Cardinality(s) <= n }

(* An element less is one less. *)
LEMMA OneLess ==
    ASSUME NEW s, IsFiniteSet(s), NEW x \in s
    PROVE  /\ IsFiniteSet(s \ {x}) /\ Cardinality(s \ {x}) = Cardinality(s) - 1
           /\ Cardinality(s) \in Nat /\ Cardinality(s) - 1 \in Nat
  <1>1. IsFiniteSet(s \ {x}) /\ Cardinality(s \ {x}) = Cardinality(s) - 1
    BY FS_RemoveElement
  <1>2. Cardinality(s) \in Nat /\ Cardinality(s \ {x}) \in Nat
    BY <1>1, FS_CardinalityType
  <1>3. QED
    BY <1>1, <1>2

(* The element Bytes picks. *)
LEMMA Picked ==
    ASSUME NEW s, s # {} PROVE Pick(s) \in s
  BY DEF Pick

(* The function exists: step by step for larger subsets. *)
LEMMA SumsExist ==
    ASSUME NEW D, IsFiniteSet(D), NEW f \in [D -> Int]
    PROVE  \E g \in [SUBSET D -> Int] : Sums(f, SUBSET D, g)
  <1> DEFINE Q(n) == \E g \in [Upto(D, n) -> Int] : Sums(f, Upto(D, n), g)
             K == { n \in Nat : ~Q(n) }
  <1>0. \A s \in SUBSET D : IsFiniteSet(s) /\ Cardinality(s) \in Nat /\ Cardinality(s) <= Cardinality(D)
    BY FS_Subset, FS_CardinalityType
  <1>1. Q(0)
    <2> DEFINE g == [s \in Upto(D, 0) |-> 0]
    <2>1. \A s \in Upto(D, 0) : s = {}
      <3>1. SUFFICES ASSUME NEW s \in SUBSET D, Cardinality(s) <= 0 PROVE s = {}
        BY DEF Upto
      <3>2. Cardinality(s) = 0
        BY <1>0, <3>1
      <3>3. QED
        BY <1>0, <3>2, FS_EmptySet
    <2>2. g \in [Upto(D, 0) -> Int]
      OBVIOUS
    <2>3. Sums(f, Upto(D, 0), g)
      BY <2>1 DEF Sums
    <2>4. QED
      BY <2>2, <2>3
  <1>2. ASSUME NEW n \in Nat, Q(n) PROVE Q(n + 1)
    <2>1. PICK h \in [Upto(D, n) -> Int] : Sums(f, Upto(D, n), h)
      BY <1>2
    <2>2. ASSUME NEW s \in Upto(D, n + 1), s # {}
          PROVE  Pick(s) \in D /\ s \ {Pick(s)} \in Upto(D, n)
      <3>1. s \in SUBSET D /\ IsFiniteSet(s) /\ Cardinality(s) <= n + 1 /\ Pick(s) \in s
        BY <1>0, <2>2, Picked DEF Upto
      <3>2. Cardinality(s \ {Pick(s)}) = Cardinality(s) - 1 /\ Cardinality(s) \in Nat
        BY <3>1, OneLess
      <3>3. QED
        BY <3>1, <3>2 DEF Upto
    <2>3. \A s \in Upto(D, n) : s \in Upto(D, n + 1)
      BY <1>0 DEF Upto
    <2> DEFINE g == [s \in Upto(D, n + 1) |->
                       IF s = {} THEN 0 ELSE f[Pick(s)] + h[s \ {Pick(s)}]]
    <2>4. g \in [Upto(D, n + 1) -> Int]
      BY <2>1, <2>2
    <2>5. ASSUME NEW s \in Upto(D, n) PROVE g[s] = h[s]
      <3>1. h[s] = IF s = {} THEN 0 ELSE f[Pick(s)] + h[s \ {Pick(s)}]
        BY <2>1 DEF Sums
      <3>2. QED
        BY <2>3, <3>1
    <2>6. Sums(f, Upto(D, n + 1), g)
      <3>1. \A s \in Upto(D, n + 1) : s # {} => g[s \ {Pick(s)}] = h[s \ {Pick(s)}]
        BY <2>2, <2>5
      <3>2. g = [s \in Upto(D, n + 1) |->
                       IF s = {} THEN 0 ELSE f[Pick(s)] + g[s \ {Pick(s)}]]
        BY <3>1
      <3> HIDE DEF g
      <3>3. QED
        BY <3>2 DEF Sums
    <2> HIDE DEF g
    <2>7. QED
      BY <2>4, <2>6
  <1> HIDE DEF Q
  <1>3. K = {}
    <2>1. SUFFICES ASSUME K # {} PROVE FALSE
      OBVIOUS
    <2>2. Min(K) \in K /\ \A y \in K : Min(K) =< y
      BY <2>1, MinOf
    <2>3. PICK m \in Nat : m \in K /\ \A y \in K : m =< y
      BY <2>2
    <2>4. m # 0
      BY <1>1, <2>3
    <2>5. m - 1 \in Nat /\ m - 1 \notin K /\ m = (m - 1) + 1
      BY <2>3, <2>4
    <2>6. Q(m - 1)
      BY <2>5
    <2>7. Q((m - 1) + 1)
      BY <1>2, <2>5, <2>6
    <2>8. QED
      BY <2>3, <2>5, <2>7
  <1>4. Cardinality(D) \in Nat
    BY FS_CardinalityType
  <1>5. Q(Cardinality(D))
    BY <1>3, <1>4
  <1>6. Upto(D, Cardinality(D)) = SUBSET D
    BY <1>0 DEF Upto
  <1>7. QED
    BY <1>5, <1>6 DEF Q

(* Two of them agree on a subset of both domains if the functions do. *)
LEMMA SumsSame ==
    ASSUME NEW C, NEW D, NEW f, NEW h, NEW g, NEW k, IsFiniteSet(D),
           Sums(f, SUBSET C, g), Sums(h, SUBSET D, k),
           NEW r \in SUBSET D, r \subseteq C, Agree(f, h, r)
    PROVE  g[r] = k[r]
  <1> DEFINE K == { n \in Nat : \E s \in SUBSET r : Cardinality(s) = n /\ g[s] # k[s] }
  <1>0. \A s \in SUBSET r : s \in SUBSET C /\ s \in SUBSET D /\ IsFiniteSet(s) /\ Cardinality(s) \in Nat
    BY FS_Subset, FS_CardinalityType
  <1>1. SUFFICES ASSUME g[r] # k[r] PROVE FALSE
    OBVIOUS
  <1>2. K # {} /\ K \subseteq Nat
    BY <1>0, <1>1
  <1>3. PICK m \in Nat : m \in K /\ \A y \in K : m =< y
    BY <1>2, MinOf
  <1>4. PICK s \in SUBSET r : Cardinality(s) = m /\ g[s] # k[s]
    BY <1>3
  <1>5. /\ g[s] = (IF s = {} THEN 0 ELSE f[Pick(s)] + g[s \ {Pick(s)}])
        /\ k[s] = (IF s = {} THEN 0 ELSE h[Pick(s)] + k[s \ {Pick(s)}])
    BY <1>0 DEF Sums
  <1>6. s # {}
    BY <1>4, <1>5
  <1>7. Pick(s) \in s /\ Cardinality(s \ {Pick(s)}) = m - 1 /\ m - 1 \in Nat
    BY <1>0, <1>4, <1>6, Picked, OneLess
  <1>8. m - 1 \notin K
    BY <1>3, <1>7
  <1>9. g[s \ {Pick(s)}] = k[s \ {Pick(s)}]
    BY <1>7, <1>8
  <1>10. QED
    BY <1>4, <1>5, <1>6, <1>7, <1>9 DEF Agree

(* In particular on the whole of the smaller domain. *)
LEMMA SumsPart ==
    ASSUME NEW C, NEW D, NEW f, NEW h, NEW g, NEW k, IsFiniteSet(D), D \subseteq C,
           Sums(f, SUBSET C, g), Sums(h, SUBSET D, k), Agree(f, h, D)
    PROVE  g[D] = k[D]
  <1>1. D \in SUBSET D
    OBVIOUS
  <1>2. \A r \in SUBSET D : r \subseteq C /\ Agree(f, h, r) => g[r] = k[r]
    BY SumsSame
  <1>3. QED
    BY <1>1, <1>2

(* So Bytes is such a function at the whole domain. *)
LEMMA BytesSums ==
    ASSUME NEW D, IsFiniteSet(D), NEW f \in [D -> Int]
    PROVE  \E g \in [SUBSET D -> Int] : Sums(f, SUBSET D, g) /\ Bytes(f) = g[D]
  <1>1. PICK h \in [SUBSET D -> Int] : Sums(f, SUBSET D, h)
    BY SumsExist
  <1> DEFINE c == CHOOSE g : g = [s \in SUBSET D |->
                    IF s = {} THEN 0 ELSE f[CHOOSE x \in s : TRUE] + g[s \ {CHOOSE x \in s : TRUE}]]
  <1>2. Bytes(f) = c[D]
    BY DEF Bytes, MapThenSumSet, MapThenFoldSet
  <1>3. h = [s \in SUBSET D |->
               IF s = {} THEN 0 ELSE f[CHOOSE x \in s : TRUE] + h[s \ {CHOOSE x \in s : TRUE}]]
    BY <1>1 DEF Sums, Pick
  <1>4. c = [s \in SUBSET D |->
               IF s = {} THEN 0 ELSE f[CHOOSE x \in s : TRUE] + c[s \ {CHOOSE x \in s : TRUE}]]
    BY <1>3
  <1> HIDE DEF c
  <1>5. Sums(f, SUBSET D, c)
    BY <1>4 DEF Sums, Pick
  <1>6. c \in [SUBSET D -> Int]
    <2>1. \A s \in SUBSET D : c[s] = h[s]
      <3>1. \A s \in SUBSET D : Agree(f, f, s)
        BY DEF Agree
      <3>2. QED
        BY <1>1, <1>5, <3>1, SumsSame
    <2>2. c = [s \in SUBSET D |-> c[s]]
      BY <1>4
    <2>3. QED
      BY <2>1, <2>2
  <1>7. QED
    BY <1>2, <1>5, <1>6

(* Whichever element is taken out first, the sum is the same. *)
LEMMA SumsAny ==
    ASSUME NEW D, IsFiniteSet(D), NEW f \in [D -> Int], NEW g \in [SUBSET D -> Int],
           Sums(f, SUBSET D, g), NEW r \in SUBSET D, NEW z \in r
    PROVE  g[r] = f[z] + g[r \ {z}]
  <1> DEFINE Off(s, x) == g[s] # f[x] + g[s \ {x}]
             K == { n \in Nat : \E s \in SUBSET D : Cardinality(s) = n /\ \E x \in s : Off(s, x) }
  <1>0. \A s \in SUBSET D : IsFiniteSet(s) /\ Cardinality(s) \in Nat
    BY FS_Subset, FS_CardinalityType
  <1>1. SUFFICES ASSUME Off(r, z) PROVE FALSE
    OBVIOUS
  <1>2. K # {} /\ K \subseteq Nat
    BY <1>0, <1>1
  <1>3. PICK m \in Nat : m \in K /\ \A y \in K : m =< y
    BY <1>2, MinOf
  <1>4. PICK s \in SUBSET D : Cardinality(s) = m /\ \E x \in s : Off(s, x)
    BY <1>3
  <1>5. PICK x \in s : Off(s, x)
    BY <1>4
  <1>6. PICK c : c = Pick(s)
    OBVIOUS
  <1>7. c \in s /\ g[s] = f[c] + g[s \ {c}]
    BY <1>5, <1>6, Picked DEF Sums
  <1>8. x # c
    BY <1>5, <1>7
  <1>9. /\ Cardinality(s \ {c}) = m - 1 /\ Cardinality(s \ {x}) = m - 1 /\ m - 1 \in Nat
    BY <1>0, <1>4, <1>7, OneLess
  <1>10. m - 1 \notin K
    BY <1>3, <1>9
  <1>11. ~Off(s \ {c}, x)
    BY <1>8, <1>9, <1>10
  <1>12. ~Off(s \ {x}, c)
    BY <1>7, <1>8, <1>9, <1>10
  <1>13. g[s \ {c}] = f[x] + g[(s \ {c}) \ {x}] /\ g[s \ {x}] = f[c] + g[(s \ {x}) \ {c}]
    BY <1>11, <1>12
  <1>14. (s \ {c}) \ {x} = (s \ {x}) \ {c}
    OBVIOUS
  <1>15. /\ f[x] \in Int /\ f[c] \in Int /\ g[(s \ {x}) \ {c}] \in Int
    BY <1>7
  <1>16. PICK a \in Int, b \in Int, d \in Int :
           a = f[x] /\ b = f[c] /\ d = g[(s \ {x}) \ {c}]
    BY <1>15
  <1>17. g[s] = b + (a + d) /\ g[s \ {x}] = b + d
    BY <1>7, <1>13, <1>14, <1>16
  <1>18. b + (a + d) = a + (b + d)
    BY <1>16
  <1>19. g[s] = f[x] + g[s \ {x}]
    BY <1>16, <1>17, <1>18
  <1>20. QED
    BY <1>5, <1>19

(* The sum over no element, *)
LEMMA BytesEmpty ==
    ASSUME NEW f, DOMAIN f = {}, f = [x \in DOMAIN f |-> f[x]]
    PROVE  Bytes(f) = 0
  <1>1. f \in [{} -> Int] /\ IsFiniteSet({})
    BY FS_EmptySet
  <1>2. PICK g \in [SUBSET {} -> Int] : Sums(f, SUBSET {}, g) /\ Bytes(f) = g[{}]
    BY <1>1, BytesSums
  <1>3. QED
    BY <1>2 DEF Sums

(* that it is a number, *)
LEMMA BytesInt ==
    ASSUME NEW D, IsFiniteSet(D), NEW f \in [D -> Int]
    PROVE  Bytes(f) \in Int
  <1>1. PICK g \in [SUBSET D -> Int] : Sums(f, SUBSET D, g) /\ Bytes(f) = g[D]
    BY BytesSums
  <1>2. QED
    BY <1>1

(* and with one element more. *)
LEMMA BytesAdd ==
    ASSUME NEW D, IsFiniteSet(D), NEW f \in [D -> Int], NEW x \in D,
           NEW h \in [D \ {x} -> Int], Agree(f, h, D \ {x})
    PROVE  Bytes(f) = f[x] + Bytes(h)
  <1>1. PICK g \in [SUBSET D -> Int] : Sums(f, SUBSET D, g) /\ Bytes(f) = g[D]
    BY BytesSums
  <1>2. PICK C : C = D \ {x}
    OBVIOUS
  <1>3. IsFiniteSet(C) /\ h \in [C -> Int]
    BY <1>2, FS_RemoveElement
  <1>4. PICK k \in [SUBSET C -> Int] : Sums(h, SUBSET C, k) /\ Bytes(h) = k[C]
    BY <1>3, BytesSums
  <1>5. g[C] = k[C]
    <2>1. Agree(f, h, C)
      BY <1>2
    <2>2. C \in SUBSET C /\ C \subseteq D
      BY <1>2
    <2>3. Sums(f, SUBSET D, g) /\ Sums(h, SUBSET C, k) /\ IsFiniteSet(C)
      BY <1>1, <1>3, <1>4
    <2>4. QED
      BY <2>1, <2>2, <2>3, SumsPart
  <1>6. g[D] = f[x] + g[D \ {x}]
    BY <1>1, SumsAny, SMTT(40)
  <1>7. QED
    BY <1>1, <1>2, <1>4, <1>5, <1>6

AllNew(f, D) == \A x \in D : f[x] = 4032

(* Equal numbers: 4032 bytes are what is free in a new page. *)
LEMMA BytesEqual ==
    ASSUME NEW D, IsFiniteSet(D), NEW f \in [D -> Int], AllNew(f, D)
    PROVE  Bytes(f) = 4032 * Cardinality(D)
  <1> DEFINE Off(h, s) == Bytes(h) # 4032 * Cardinality(s)
             K == { n \in Nat : \E s \in SUBSET D : Cardinality(s) = n /\ Off(Restrict(f, s), s) }
  <1>0. \A s \in SUBSET D : IsFiniteSet(s) /\ Cardinality(s) \in Nat
    BY FS_Subset, FS_CardinalityType
  <1>1. \A s \in SUBSET D : /\ Restrict(f, s) \in [s -> Int]
                             /\ \A x \in s : Restrict(f, s)[x] = 4032
    BY DEF Restrict, AllNew
  <1>2. Restrict(f, D) = f
    BY DEF Restrict
  <1>3. SUFFICES ASSUME Off(f, D) PROVE FALSE
    OBVIOUS
  <1>4. K # {} /\ K \subseteq Nat
    BY <1>0, <1>2, <1>3
  <1> HIDE DEF K
  <1>5. PICK m \in Nat : m \in K /\ \A y \in K : m =< y
    BY <1>4, MinOf
  <1>6. PICK s \in SUBSET D : Cardinality(s) = m /\ Off(Restrict(f, s), s)
    BY <1>5 DEF K
  <1> HIDE DEF Off
  <1>7. s # {}
    <2>1. ASSUME s = {} PROVE FALSE
      <3>1. Bytes(Restrict(f, s)) = 0
        <4>1. DOMAIN Restrict(f, s) = {} /\ Restrict(f, s) = [x \in {} |-> f[x]]
          BY <2>1 DEF Restrict
        <4>2. QED
          BY <4>1, BytesEmpty
      <3>2. Cardinality(s) = 0
        BY <2>1, FS_EmptySet
      <3>3. QED
        BY <1>6, <3>1, <3>2 DEF Off
    <2>2. QED
      BY <2>1
  <1>8. PICK x \in s : TRUE
    BY <1>7
  <1>9. PICK r : r = s \ {x}
    OBVIOUS
  <1>10. r \in SUBSET D /\ Cardinality(r) = m - 1 /\ m - 1 \in Nat
    BY <1>0, <1>6, <1>9, OneLess
  <1>11. ~Off(Restrict(f, r), r)
    <2>1. m - 1 \notin K
      BY <1>5, <1>10
    <2>2. QED
      BY <1>10, <2>1 DEF K
  <1>12. Bytes(Restrict(f, s)) = Restrict(f, s)[x] + Bytes(Restrict(f, r))
    <2>1. Restrict(f, r) \in [s \ {x} -> Int] /\ Restrict(f, s) \in [s -> Int] /\ IsFiniteSet(s)
      BY <1>0, <1>1, <1>9, <1>10
    <2>2. Agree(Restrict(f, s), Restrict(f, r), s \ {x})
      BY <1>9 DEF Restrict, Agree
    <2>3. QED
      BY <2>1, <2>2, BytesAdd
  <1>13. Restrict(f, s)[x] = 4032
    BY <1>1
  <1>14. Bytes(Restrict(f, r)) = 4032 * (m - 1)
    BY <1>10, <1>11 DEF Off
  <1>15. Bytes(Restrict(f, s)) = 4032 * m
    BY <1>12, <1>13, <1>14
  <1>16. QED
    BY <1>6, <1>15 DEF Off

(* The sum of two parts. *)
LEMMA BytesParts ==
    ASSUME NEW D, IsFiniteSet(D), NEW f \in [D -> Int], NEW A \in SUBSET D
    PROVE  Bytes(f) = Bytes(Restrict(f, A)) + Bytes(Restrict(f, D \ A))
  <1> DEFINE Off(s) == Bytes(f) # Bytes(Restrict(f, s)) + Bytes(Restrict(f, D \ s))
             K == { n \in Nat : \E s \in SUBSET D : Cardinality(s) = n /\ Off(s) }
  <1>0. \A s \in SUBSET D : IsFiniteSet(s) /\ Cardinality(s) \in Nat
    BY FS_Subset, FS_CardinalityType
  <1>1. \A s \in SUBSET D : /\ Restrict(f, s) \in [s -> Int]
                             /\ \A x \in s : Restrict(f, s)[x] = f[x]
    BY DEF Restrict
  <1>2. \A s \in SUBSET D : Bytes(Restrict(f, s)) \in Int
    BY <1>0, <1>1, BytesInt
  <1>3. SUFFICES ASSUME Off(A) PROVE FALSE
    OBVIOUS
  <1>4. K # {} /\ K \subseteq Nat
    BY <1>0, <1>3
  <1>5. PICK m \in Nat : m \in K /\ \A y \in K : m =< y
    BY <1>4, MinOf
  <1>6. PICK s \in SUBSET D : Cardinality(s) = m /\ Off(s)
    BY <1>5
  <1>7. s # {}
    <2>1. ASSUME s = {} PROVE FALSE
      <3>1. Bytes(Restrict(f, s)) = 0
        BY <2>1, BytesEmpty DEF Restrict
      <3>2. D \ s = D /\ Restrict(f, D) = f
        BY <2>1 DEF Restrict
      <3>3. Bytes(f) \in Int
        BY BytesInt
      <3>4. QED
        BY <1>6, <3>1, <3>2, <3>3
    <2>2. QED
      BY <2>1
  <1>8. PICK x \in s : TRUE
    BY <1>7
  <1>9. PICK r, c, d : r = s \ {x} /\ c = D \ s /\ d = D \ r
    OBVIOUS
  <1>10. /\ r \in SUBSET D /\ c \in SUBSET D /\ d \in SUBSET D
         /\ Cardinality(r) = m - 1 /\ m - 1 \in Nat
    BY <1>0, <1>6, <1>9, OneLess
  <1>11. Bytes(f) = Bytes(Restrict(f, r)) + Bytes(Restrict(f, d))
    <2>1. m - 1 \notin K
      BY <1>5, <1>10
    <2>2. QED
      BY <1>9, <1>10, <2>1
  <1>12. Bytes(Restrict(f, s)) = f[x] + Bytes(Restrict(f, r))
    <2>1. Restrict(f, r) \in [s \ {x} -> Int] /\ Restrict(f, s) \in [s -> Int] /\ IsFiniteSet(s)
      BY <1>0, <1>1, <1>9, <1>10
    <2>2. Agree(Restrict(f, s), Restrict(f, r), s \ {x})
      BY <1>9 DEF Restrict, Agree
    <2>3. Restrict(f, s)[x] = f[x]
      BY <1>1
    <2>4. QED
      BY <2>1, <2>2, <2>3, BytesAdd
  <1>13. Bytes(Restrict(f, d)) = f[x] + Bytes(Restrict(f, c))
    <2>0. x \in d /\ c = d \ {x}
      BY <1>9
    <2>1. Restrict(f, c) \in [d \ {x} -> Int] /\ Restrict(f, d) \in [d -> Int] /\ IsFiniteSet(d)
      BY <1>0, <1>1, <1>10, <2>0
    <2>2. Agree(Restrict(f, d), Restrict(f, c), d \ {x})
      BY <1>9, <2>0 DEF Restrict, Agree
    <2>3. Restrict(f, d)[x] = f[x]
      BY <1>1, <1>10, <2>0
    <2>4. Bytes(Restrict(f, d)) = Restrict(f, d)[x] + Bytes(Restrict(f, c))
      BY <2>0, <2>1, <2>2, BytesAdd
    <2>5. QED
      BY <2>3, <2>4
  <1>14. PICK i \in Int, j \in Int, k \in Int :
           /\ i = Bytes(Restrict(f, r)) /\ j = Bytes(Restrict(f, c)) /\ k = f[x]
    <2>1. f[x] \in Int
      OBVIOUS
    <2>2. QED
      BY <1>2, <1>10, <2>1
  <1>15. /\ Bytes(Restrict(f, s)) = k + i /\ Bytes(f) = i + (k + j)
    BY <1>11, <1>12, <1>13, <1>14
  <1>16. (k + i) + j = i + (k + j)
    BY <1>14
  <1>17. QED
    BY <1>6, <1>9, <1>14, <1>15, <1>16

------------------------------------------------------------------------------
(* Words and edges of one page. *)

USE DEF WSIZE, DSIZE, BLOCK_MIN, PAGESIZE, PageHead, PoolHead

Tags(b, n, h, g) == h = b - 8 /\ g = b + n - 16 /\ h # g

Wrote(N, M, W, h, g, t) ==
    /\ N \in [W \cup {h, g} -> Tag] /\ N[h] = t /\ N[g] = t
    /\ \A x \in W : x # h /\ x # g => N[x] = M[x]

(* Both words of a block are written. *)
LEMMA PutWords ==
    ASSUME NEW W, NEW M \in [W -> Tag], NEW b, NEW n, NEW u, T(n, u) \in Tag, NEW N, N = PutBlk(M, b, n, u), NEW h, NEW g, Tags(b, n, h, g)
    PROVE  Wrote(N, M, W, h, g, T(n, u))
  <1>1. h = b - 8 /\ g = b + n - 16 /\ h # g
    BY DEF Tags
  <1>3. PICK t \in Tag : t = T(n, u)
    OBVIOUS
  <1>4. PICK L : L = Write(M, g, t)
    OBVIOUS
  <1>5. N = Write(L, h, t)
    BY <1>1, <1>3, <1>4 DEF PutBlk
  <1>6. /\ L \in [W \cup {g} -> Tag] /\ L[g] = t
        /\ \A x \in W : x # g => L[x] = M[x]
    BY <1>3, <1>4 DEF Write
  <1>7. PICK V : V = W \cup {g}
    OBVIOUS
  <1>8. L \in [V -> Tag]
    BY <1>6, <1>7
  <1>9. /\ N \in [V \cup {h} -> Tag] /\ N[h] = t /\ \A x \in V : x # h => N[x] = L[x]
    BY <1>3, <1>5, <1>8 DEF Write
  <1>10. V \cup {h} = W \cup {h, g}
    BY <1>7
  <1>11. N[g] = t
    BY <1>1, <1>6, <1>7, <1>9
  <1>12. \A x \in W : x # h /\ x # g => N[x] = M[x]
    BY <1>6, <1>7, <1>9
  <1>13. QED
    BY <1>3, <1>9, <1>10, <1>11, <1>12 DEF Wrote

(* The head of a page, in bytes. *)
LEMMA HeadBytes ==
    ASSUME NEW p
    PROVE  HeadOf(p) \in Nat /\ HeadOf(p) >= 48 /\ HeadOf(p) <= 272
  BY DEF HeadOf

(* A tag. *)
LEMMA TagOf ==
    ASSUME NEW n \in Nat, NEW u \in BOOLEAN
    PROVE  T(n, u) \in Tag /\ T(n, u).size = n /\ T(n, u).used = u
  BY DEF T, Tag

(* Edges, and the words at them. *)
LEMMA SpacedEdges ==
    ASSUME NEW E, Spaced(E)
    PROVE  /\ (\A z \in E : z \in Nat /\ 16 <= z /\ z <= 4096) /\ 16 \in E /\ 4096 \in E
           /\ \A a, b \in E : a < b => a + 48 <= b
           /\ \A e \in E : e - 8 \in Words(E) /\ e - 16 \in Words(E)
           /\ \A x : x \in Words(E) <=> x \in Nat /\ (x + 8 \in E \/ x + 16 \in E)
  <1>1. /\ (\A z \in E : z \in Nat /\ 16 <= z /\ z <= 4096) /\ 16 \in E /\ 4096 \in E
        /\ \A a, b \in E : a < b => a + 48 <= b
    BY DEF Spaced
  <1>2. \A x : x \in Words(E) <=> x \in Nat /\ (x + 8 \in E \/ x + 16 \in E)
    BY DEF Words
  <1>3. ASSUME NEW e \in E PROVE e - 8 \in Words(E) /\ e - 16 \in Words(E)
    <2>1. e \in Nat /\ 16 <= e /\ e <= 4096
      BY <1>1
    <2>2. e - 8 \in Nat /\ (e - 8) + 8 = e /\ e - 16 \in Nat /\ (e - 16) + 16 = e
      BY <2>1
    <2>3. PICK x, y : x = e - 8 /\ y = e - 16
      OBVIOUS
    <2>4. x \in Nat /\ x + 8 \in E /\ y \in Nat /\ y + 16 \in E
      BY <2>2, <2>3
    <2>5. x \in Words(E) /\ y \in Words(E)
      BY <2>4 DEF Words
    <2>6. QED
      BY <2>3, <2>5
  <1>4. QED
    BY <1>1, <1>2, <1>3

(* What the words of a page are, edge by edge. *)
LEMMA CutWords ==
    ASSUME NEW M, NEW E, CutBy(M, E)
    PROVE  /\ Spaced(E) /\ (\A z \in E : z \in Nat /\ 16 <= z /\ z <= 4096) /\ 16 \in E /\ 4096 \in E
           /\ \A a, b \in E : a < b => a + 48 <= b
           /\ \A e \in E : Hd(M, e) \in Tag /\ Ft(M, e) \in Tag
           /\ M \in [Words(E) -> Tag]
  <1>1. Spaced(E) /\ M \in [Words(E) -> Tag]
    BY DEF CutBy
  <1>2. /\ (\A z \in E : z \in Nat /\ 16 <= z /\ z <= 4096) /\ 16 \in E /\ 4096 \in E
        /\ \A a, b \in E : a < b => a + 48 <= b
        /\ \A e \in E : e - 8 \in Words(E) /\ e - 16 \in Words(E)
    BY <1>1, SpacedEdges
  <1>3. \A e \in E : Hd(M, e) \in Tag /\ Ft(M, e) \in Tag
    BY <1>1, <1>2 DEF Hd, Ft
  <1>4. QED
    BY <1>1, <1>2, <1>3

(* The edges of a page can be told from its words. *)
LEMMA EdgesOf ==
    ASSUME NEW M, NEW E, CutBy(M, E)
    PROVE  /\ Starts(M) = E \ {PAGESIZE} /\ Edges(M) = E
  <1>1. PICK W : W = DOMAIN M
    OBVIOUS
  <1>2. W = Words(E) /\ Spaced(E)
    BY <1>1 DEF CutBy
  <1>3. /\ (\A z \in E : z \in Nat /\ 16 <= z /\ z <= 4096) /\ 16 \in E /\ 4096 \in E
        /\ \A a, b \in E : a < b => a + 48 <= b
        /\ \A e \in E : e - 8 \in W /\ e - 16 \in W
        /\ \A x : x \in W <=> x \in Nat /\ (x + 8 \in E \/ x + 16 \in E)
    BY <1>2, SpacedEdges
  <1>4. Starts(M) = { a + 8 : a \in { a \in W : a - 8 \in W /\ a + 8 < 4096 } }
    BY <1>1 DEF Starts
  <1>5. ASSUME NEW a, a \in W, a - 8 \in W, a + 8 < 4096
        PROVE  a + 8 \in E \ {4096}
    <2>1. a \in Nat /\ (a + 8 \in E \/ a + 16 \in E)
      BY <1>3, <1>5
    <2>2. a - 8 \in Nat /\ ((a - 8) + 8 \in E \/ (a - 8) + 16 \in E)
      <3>1. PICK d : d = a - 8
        OBVIOUS
      <3>2. d \in W
        BY <1>5, <3>1
      <3>3. d \in Nat /\ (d + 8 \in E \/ d + 16 \in E)
        BY <1>3, <3>2
      <3>4. QED
        BY <3>1, <3>3
    <2>3. (a - 8) + 8 = a /\ (a - 8) + 16 = a + 8
      BY <2>1
    <2>4. a + 16 \in E /\ a \in E => a + 48 <= a + 16
      BY <1>3, <2>1
    <2>5. ~(a + 16 \in E /\ a \in E)
      BY <2>1, <2>4
    <2>6. a + 8 \in E
      BY <2>1, <2>2, <2>3, <2>5
    <2>7. a + 8 # 4096
      BY <1>5, <2>1
    <2>8. QED
      BY <2>6, <2>7
  <1>6. ASSUME NEW e \in E \ {4096}
        PROVE  e - 8 \in W /\ (e - 8) - 8 \in W /\ (e - 8) + 8 = e /\ (e - 8) + 8 < 4096
    <2>1. e \in Nat /\ 16 <= e /\ e <= 4096 /\ e # 4096
      BY <1>3
    <2>2. (e - 8) + 8 = e /\ (e - 8) - 8 = e - 16 /\ e < 4096
      BY <2>1
    <2>3. QED
      BY <1>3, <2>2
  <1>7. Starts(M) \subseteq E \ {4096}
    BY <1>4, <1>5
  <1>8. E \ {4096} \subseteq Starts(M)
    BY <1>4, <1>6
  <1>9. Starts(M) = E \ {4096}
    BY <1>7, <1>8
  <1>10. 4096 \in E
    BY <1>3
  <1>11. QED
    BY <1>9, <1>10 DEF Edges

(* The parts of a tag. *)
LEMMA TagParts ==
    ASSUME NEW t \in Tag
    PROVE  t.size \in Nat /\ t.used \in BOOLEAN
  BY DEF Tag

Lower(E, b) == b \in E /\ b < 4096
Upper(E, e) == e \in E /\ 16 < e
Ordered(E, b, e) == b \in E /\ e \in E /\ b < e

(* Every edge but the last has one behind it ... *)
LEMMA Behind ==
    ASSUME NEW E, Spaced(E), NEW b, Lower(E, b)
    PROVE  \E e \in E : Adj(E, b, e)
  <1>1. (\A z \in E : z \in Nat /\ 16 <= z /\ z <= 4096) /\ 4096 \in E
    BY SpacedEdges
  <1> DEFINE S == { x \in E : b < x }
  <1>2. \A x : x \in S <=> x \in E /\ b < x
    OBVIOUS
  <1> HIDE DEF S
  <1>3. S \subseteq Nat /\ S # {}
    <2>1. b < 4096
      BY DEF Lower
    <2>2. 4096 \in S
      BY <1>1, <1>2, <2>1
    <2>3. S \subseteq E
      BY <1>2
    <2>4. E \subseteq Nat
      BY <1>1
    <2>5. QED
      BY <2>2, <2>3, <2>4
  <1>0. Min(S) \in S /\ \A y \in S : Min(S) =< y
    BY <1>3, MinOf
  <1>4. PICK e \in S : \A y \in S : e =< y
    BY <1>0, Zenon
  <1>5. e \in E /\ b < e
    BY <1>2
  <1>6. ASSUME NEW c \in E PROVE c <= b \/ e <= c
    <2>1. b < c => c \in S
      BY <1>2
    <2>2. b \in Nat /\ c \in Nat
      BY <1>1 DEF Lower
    <2>3. b < c \/ c <= b
      BY <2>2
    <2>4. QED
      BY <1>4, <2>1, <2>3
  <1>7. QED
    BY <1>5, <1>6 DEF Adj, Lower

(* ... and every one but the first has one in front of it. *)
LEMMA Before ==
    ASSUME NEW E, Spaced(E), NEW e, Upper(E, e)
    PROVE  \E b \in E : Adj(E, b, e)
  <1>1. (\A z \in E : z \in Nat /\ 16 <= z /\ z <= 4096) /\ 16 \in E
    BY SpacedEdges
  <1>2. PICK S : S = { x \in E : x < e }
    OBVIOUS
  <1>3. PICK K \in Nat : K = 4096
    OBVIOUS
  <1>4. S \subseteq 0..K /\ S # {}
    <2>1. 16 < e
      BY DEF Upper
    <2>2. 16 \in S
      BY <1>1, <1>2, <2>1
    <2>3. \A x \in S : x \in 0..K
      BY <1>1, <1>2, <1>3, SMTT(40)
    <2>4. QED
      BY <2>2, <2>3
  <1>5. Max(S) \in S /\ \A y \in S : y =< Max(S)
    BY <1>4, MaxOf
  <1>6. PICK b \in S : \A y \in S : y =< b
    BY <1>5
  <1>7. b \in E /\ b < e
    BY <1>2
  <1>8. ASSUME NEW c \in E PROVE c <= b \/ e <= c
    <2>1. c < e => c \in S
      BY <1>2
    <2>2. e \in Nat /\ c \in Nat
      BY <1>1 DEF Upper
    <2>3. c < e \/ e <= c
      BY <2>2
    <2>4. QED
      BY <1>6, <2>1, <2>3
  <1>9. QED
    BY <1>7, <1>8 DEF Adj, Upper

(* The edge behind or in front is one. *)
LEMMA AdjOne ==
    ASSUME NEW E, Spaced(E), NEW b, NEW e, NEW c, NEW d, Adj(E, b, e), Adj(E, c, d)
    PROVE  b = c <=> e = d
  <1>1. (\A z \in E : z \in Nat /\ 16 <= z /\ z <= 4096)
    BY SpacedEdges
  <1>2. b \in Nat /\ c \in Nat /\ d \in Nat /\ e \in Nat
    BY <1>1 DEF Adj
  <1>3. b < e /\ c < d /\ (d <= b \/ e <= d) /\ (e <= c \/ d <= e) /\ (c <= b \/ e <= c) /\ (b <= c \/ d <= b)
    BY DEF Adj
  <1>4. QED
    BY <1>2, <1>3

(* A block of a page in words. *)
LEMMA BlockWords ==
    ASSUME NEW M, NEW E, CutBy(M, E), NEW b, NEW e, Adj(E, b, e), Block(M, b, e)
    PROVE  /\ b \in Nat /\ e \in Nat /\ b + 48 <= e /\ 16 <= b /\ e <= 4096 /\ b \in E /\ e \in E
           /\ Hd(M, b) \in Tag /\ Hd(M, b).size = e - b /\ e - b \in Nat /\ Ft(M, e) = Hd(M, b)
           /\ NextBlk(M, b) = e /\ PrevBlk(M, e) = b /\ Ftr(M, b) = e - 16
           /\ End(M, b) = e /\ Back(M, e) = b
           /\ Hd(M, b).used \/ Hd(M, e).used
  <1>1. /\ (\A z \in E : z \in Nat /\ 16 <= z /\ z <= 4096) /\ \A x, y \in E : x < y => x + 48 <= y
        /\ \A x \in E : Hd(M, x) \in Tag
    BY CutWords
  <1>2. b \in E /\ e \in E /\ b < e
    BY DEF Adj
  <1>3. b \in Nat /\ e \in Nat /\ b + 48 <= e /\ 16 <= b /\ e <= 4096
    BY <1>1, <1>2
  <1>4. e - b \in Nat /\ b + (e - b) = e /\ e - (e - b) = b /\ b + (e - b) - 16 = e - 16
    BY <1>3
  <1>5. /\ Hd(M, b) \in Tag /\ Hd(M, b).size = e - b /\ Ft(M, e) = Hd(M, b)
        /\ Hd(M, b).used \/ Hd(M, e).used
    BY <1>1, <1>2 DEF Block
  <1>6. M[b - 8].size = e - b /\ M[e - 16].size = e - b
    BY <1>5 DEF Hd, Ft
  <1>7. NextBlk(M, b) = e /\ PrevBlk(M, e) = b /\ Ftr(M, b) = e - 16
    BY <1>4, <1>6 DEF NextBlk, PrevBlk, Ftr
  <1>8. End(M, b) = e /\ Back(M, e) = b
    BY <1>4, <1>5 DEF End, Back
  <1>9. QED
    BY <1>2, <1>3, <1>4, <1>5, <1>7, <1>8

Span(b, n, e) == e = b + n
Placed(N, M, F, W, b, e, t) ==
    /\ N \in [W \cup {b - 8, e - 16} -> Tag]
    /\ Hd(N, b) = t /\ Ft(N, e) = t
    /\ \A d \in F : d # b /\ d - 8 \in W => Hd(N, d) = Hd(M, d)
    /\ \A d \in F : d # e /\ d - 16 \in W => Ft(N, d) = Ft(M, d)

(* Both words of a block are written; other headers and footers stay. *)
LEMMA PutEdges ==
    ASSUME NEW F, Spaced(F), NEW b, NEW e, Ordered(F, b, e), NEW n \in Nat, Span(b, n, e),
           NEW W, NEW M \in [W -> Tag], NEW u, T(n, u) \in Tag, NEW N, N = PutBlk(M, b, n, u)
    PROVE  Placed(N, M, F, W, b, e, T(n, u))
  <1>1. /\ (\A z \in F : z \in Nat /\ 16 <= z /\ z <= 4096) /\ \A x, y \in F : x < y => x + 48 <= y
    BY SpacedEdges
  <1>2. b \in Int /\ e \in Int /\ n \in Nat /\ n # 8 /\ b + n - 16 = e - 16
    BY <1>1 DEF Span, Ordered
  <1>3. PICK h, g : h = b - 8 /\ g = e - 16
    OBVIOUS
  <1>9. Tags(b, n, h, g)
    BY <1>2, <1>3 DEF Tags
  <1>4. /\ N \in [W \cup {h, g} -> Tag] /\ N[h] = T(n, u) /\ N[g] = T(n, u)
        /\ \A x \in W : x # h /\ x # g => N[x] = M[x]
    <2>1. Wrote(N, M, W, h, g, T(n, u))
      BY <1>9, PutWords
    <2>2. QED
      BY <2>1 DEF Wrote
  <1>5. ASSUME NEW d \in F, d # b, d - 8 \in W PROVE Hd(N, d) = Hd(M, d)
    <2>1. d \in Int /\ (d < e => d + 48 <= e)
      BY <1>1 DEF Ordered
    <2>2. d - 8 # h /\ d - 8 # g
      BY <1>2, <1>3, <1>5, <2>1
    <2>3. N[d - 8] = M[d - 8]
      BY <1>4, <1>5, <2>2
    <2>4. QED
      BY <2>3 DEF Hd
  <1>6. ASSUME NEW d \in F, d # e, d - 16 \in W PROVE Ft(N, d) = Ft(M, d)
    <2>1. d \in Int /\ (b < d => b + 48 <= d)
      BY <1>1 DEF Ordered
    <2>2. d - 16 # h /\ d - 16 # g
      BY <1>2, <1>3, <1>6, <2>1
    <2>3. N[d - 16] = M[d - 16]
      BY <1>4, <1>6, <2>2
    <2>4. QED
      BY <2>3 DEF Ft
  <1>7. Hd(N, b) = T(n, u) /\ Ft(N, e) = T(n, u)
    BY <1>3, <1>4 DEF Hd, Ft
  <1>8. QED
    BY <1>3, <1>4, <1>5, <1>6, <1>7 DEF Placed

------------------------------------------------------------------------------
(* What gfs_mem.c does to a page. *)

(* The head of a page is in front of all other blocks. *)
LEMMA HeadFirst ==
    ASSUME NEW p, NEW M, NEW E, CutBy(M, E), Sealed(p, M, E)
    PROVE  /\ Body(p) \in Nat /\ Body(p) >= 64 /\ Body(p) <= 288 /\ Body(p) \in E
           /\ \A e \in E : e = 16 \/ Body(p) <= e
  <1>1. Body(p) \in Nat /\ Body(p) >= 64 /\ Body(p) <= 288
    BY HeadBytes DEF Body
  <1>2. Adj(E, 16, Body(p))
    BY DEF Sealed
  <1>3. Body(p) \in E /\ \A e \in E : e <= 16 \/ Body(p) <= e
    BY <1>2 DEF Adj
  <1>4. (\A z \in E : z \in Nat /\ 16 <= z /\ z <= 4096)
    BY CutWords
  <1>5. ASSUME NEW e \in E PROVE e = 16 \/ Body(p) <= e
    <2>1. e \in Nat /\ 16 <= e /\ e <= 4096
      BY <1>4
    <2>2. e <= 16 \/ Body(p) <= e
      BY <1>3
    <2>4. QED
      BY <2>1, <2>2
  <1>6. QED
    BY <1>1, <1>3, <1>5

(* Outside of what is between two edges, nothing changes. *)
Outside(M, N, E, F, at, en) ==
    /\ \A d \in Nat : d <= at \/ en <= d => (d \in E <=> d \in F)
    /\ \A d \in E : d < at \/ en <= d => Hd(N, d) = Hd(M, d)
    /\ \A d \in E : d <= at \/ en < d => Ft(N, d) = Ft(M, d)
Within(N, F, at, en) ==
    \A b, e \in F : Adj(F, b, e) /\ at <= b /\ e <= en => Block(N, b, e)

(* A page stays good when the blocks between two edges become others. *)
LEMMA Reshaped ==
    ASSUME NEW p, NEW M, NEW E, Good(p, M, E), NEW N, NEW F, CutBy(N, F),
           NEW at, NEW en, Ordered(E, at, en), Body(p) <= at,
           Outside(M, N, E, F, at, en), Within(N, F, at, en),
           Ft(M, at).used \/ Hd(N, at).used
    PROVE  Good(p, N, F)
  <1>1. CutBy(M, E) /\ Sealed(p, M, E) /\ \A b, e \in E : Adj(E, b, e) => Block(M, b, e)
    BY DEF Good
  <1>2. (\A z \in E : z \in Nat /\ 16 <= z /\ z <= 4096) /\ 16 \in E /\ 4096 \in E
    BY <1>1, CutWords
  <1>3. (\A z \in F : z \in Nat /\ 16 <= z /\ z <= 4096)
    BY CutWords
  <1>4. at \in E /\ en \in E /\ at < en /\ at \in Nat /\ en \in Nat /\ en <= 4096 /\ 16 <= at
    BY <1>2 DEF Ordered
  <1>5. /\ \A d \in Nat : d <= at \/ en <= d => (d \in E <=> d \in F)
        /\ \A d \in E : d < at \/ en <= d => Hd(N, d) = Hd(M, d)
        /\ \A d \in E : d <= at \/ en < d => Ft(N, d) = Ft(M, d)
    BY DEF Outside
  <1>6. at \in F /\ en \in F
    BY <1>4, <1>5
  <1>7. E \subseteq Nat /\ F \subseteq Nat
    BY <1>2, <1>3
  <1>8. ASSUME NEW b \in F, NEW e \in F, Adj(F, b, e) PROVE Block(N, b, e)
    <2>1. b \in Nat /\ e \in Nat /\ b < e /\ \A c \in F : c <= b \/ e <= c
      BY <1>7, <1>8 DEF Adj
    <2>2. CASE e <= at
      <3>1. b \in E /\ e \in E /\ b < at /\ b < en /\ e < en
        BY <1>4, <1>5, <2>1, <2>2
      <3>2. ASSUME NEW c \in E PROVE c <= b \/ e <= c
        <4>1. CASE c <= at
          <5>1. c \in F
            BY <1>5, <1>7, <4>1
          <5>2. QED
            BY <2>1, <5>1
        <4>2. CASE ~(c <= at)
          <5>1. c \in Nat
            BY <1>7
          <5>2. QED
            BY <1>4, <2>1, <2>2, <4>2, <5>1
        <4>3. QED
          BY <4>1, <4>2
      <3>3. Adj(E, b, e)
        BY <2>1, <3>1, <3>2 DEF Adj
      <3>4. Hd(M, b) = Ft(M, e) /\ Hd(M, b).size = e - b /\ (Hd(M, b).used \/ Hd(M, e).used)
        BY <1>1, <3>1, <3>3 DEF Block
      <3>5. Hd(N, b) = Hd(M, b) /\ Ft(N, e) = Ft(M, e)
        BY <1>5, <2>2, <3>1
      <3>6. Hd(N, b).used \/ Hd(N, e).used
        <4>1. CASE e = at
          BY <3>4, <3>5, <4>1
        <4>2. CASE e # at
          <5>1. e < at
            BY <1>4, <2>1, <2>2, <4>2
          <5>2. Hd(N, e) = Hd(M, e)
            BY <1>5, <3>1, <5>1
          <5>3. QED
            BY <3>4, <3>5, <5>2
        <4>3. QED
          BY <4>1, <4>2
      <3>7. QED
        BY <3>4, <3>5, <3>6 DEF Block
    <2>3. CASE ~(e <= at) /\ e <= en
      <3>1. at <= b
        BY <1>4, <1>6, <2>1, <2>3
      <3>2. QED
        BY <1>8, <2>3, <3>1 DEF Within
    <2>4. CASE ~(e <= en)
      <3>1. en <= b
        BY <1>4, <1>6, <2>1, <2>4
      <3>2. en < e /\ en <= e
        BY <1>4, <2>1, <2>4
      <3>3. b \in E /\ e \in E
        BY <1>5, <2>1, <3>1, <3>2
      <3>4. ASSUME NEW c \in E PROVE c <= b \/ e <= c
        <4>1. CASE en <= c
          <5>1. c \in F
            BY <1>5, <1>7, <4>1
          <5>2. QED
            BY <2>1, <5>1
        <4>2. CASE ~(en <= c)
          <5>1. c \in Nat
            BY <1>7
          <5>2. QED
            BY <1>4, <2>1, <3>1, <4>2, <5>1
        <4>3. QED
          BY <4>1, <4>2
      <3>5. Adj(E, b, e)
        BY <2>1, <3>3, <3>4 DEF Adj
      <3>6. Hd(M, b) = Ft(M, e) /\ Hd(M, b).size = e - b /\ (Hd(M, b).used \/ Hd(M, e).used)
        BY <1>1, <3>3, <3>5 DEF Block
      <3>7. Hd(N, b) = Hd(M, b) /\ Ft(N, e) = Ft(M, e) /\ Hd(N, e) = Hd(M, e)
        BY <1>5, <3>1, <3>2, <3>3
      <3>8. QED
        BY <3>6, <3>7 DEF Block
    <2>5. QED
      BY <2>2, <2>3, <2>4
  <1>9. Sealed(p, N, F)
    <2>1. /\ Adj(E, 16, Body(p)) /\ Ft(M, 16) = Outer /\ Hd(M, 4096) = Outer
          /\ Hd(M, 16) = HeadTag(p) /\ Ft(M, Body(p)) = HeadTag(p)
      BY <1>1 DEF Sealed
    <2>2. Body(p) \in Nat /\ Body(p) >= 64 /\ Body(p) \in E /\ \A e \in E : e = 16 \/ Body(p) <= e
      BY <1>1, HeadFirst
    <2>3. 16 < at
      BY <1>4, <2>2
    <2>4. Body(p) \in F /\ 16 \in F
      <3>1. \A d \in Nat : d <= at => (d \in E <=> d \in F)
        BY <1>5
      <3>2. 16 \in Nat /\ 16 <= at
        BY <1>4
      <3>3. QED
        BY <1>2, <2>2, <3>1, <3>2
    <2>5. ASSUME NEW c \in F PROVE c <= 16 \/ Body(p) <= c
      <3>1. c \in Nat
        BY <1>7
      <3>2. CASE c <= at
        <4>1. c \in E
          BY <1>5, <3>1, <3>2
        <4>2. c = 16 \/ Body(p) <= c
          BY <2>2, <4>1
        <4>3. QED
          BY <3>1, <4>2
      <3>3. CASE ~(c <= at)
        BY <1>4, <2>2, <3>1, <3>3
      <3>4. QED
        BY <3>2, <3>3
    <2>6. Adj(F, 16, Body(p))
      BY <2>2, <2>4, <2>5 DEF Adj
    <2>7. Ft(N, 16) = Ft(M, 16) /\ Hd(N, 16) = Hd(M, 16)
      <3>1. \A d \in E : d < at => Hd(N, d) = Hd(M, d) 
        BY <1>5
      <3>2. \A d \in E : d <= at => Ft(N, d) = Ft(M, d)
        BY <1>5
      <3>3. 16 <= at
        BY <1>4
      <3>4. QED
        BY <1>2, <2>3, <3>1, <3>2, <3>3
    <2>8. Hd(N, 4096) = Hd(M, 4096)
      BY <1>2, <1>4, <1>5
    <2>9. Ft(N, Body(p)) = Ft(M, Body(p))
      BY <1>5, <2>2
    <2>10. QED
      BY <2>1, <2>6, <2>7, <2>8, <2>9 DEF Sealed
  <1>10. QED
    BY <1>8, <1>9 DEF Good

(* The words of one edge more. *)
LEMMA WordsMore ==
    ASSUME NEW E, Spaced(E), NEW k \in Nat, 16 <= k
    PROVE  Words(E \cup {k}) = Words(E) \cup {k - 8, k - 16}
  <1>1. PICK h, g : h = k - 8 /\ g = k - 16
    OBVIOUS
  <1>2. h \in Nat /\ g \in Nat /\ h + 8 = k /\ g + 16 = k
    BY <1>1
  <1>3. ASSUME NEW x \in Nat PROVE (x + 8 = k <=> x = h) /\ (x + 16 = k <=> x = g)
    BY <1>1
  <1>4. \A x : x \in Words(E \cup {k}) <=> x \in Nat /\ (x + 8 \in E \cup {k} \/ x + 16 \in E \cup {k})
    BY DEF Words
  <1>5. \A x : x \in Words(E) <=> x \in Nat /\ (x + 8 \in E \/ x + 16 \in E)
    BY DEF Words
  <1>6. ASSUME NEW x PROVE x \in Words(E \cup {k}) <=> x \in Words(E) \/ x = h \/ x = g
    <2>1. CASE x \in Nat
      BY <1>3, <1>4, <1>5, <2>1
    <2>2. CASE x \notin Nat
      BY <1>2, <1>4, <1>5, <2>2
    <2>3. QED
      BY <2>1, <2>2
  <1>7. QED
    BY <1>1, <1>6

(* Words of a good page, and what its blocks are. *)
LEMMA GoodPage ==
    ASSUME NEW p, NEW M, NEW E, Good(p, M, E)
    PROVE  /\ CutBy(M, E) /\ Sealed(p, M, E) /\ Spaced(E) /\ M \in [Words(E) -> Tag]
           /\ \A z \in E : z \in Nat /\ 16 <= z /\ z <= 4096
           /\ \A x, y \in E : x < y => x + 48 <= y
           /\ \A x \in E : x - 8 \in Words(E) /\ x - 16 \in Words(E)
           /\ \A b, e \in E : Adj(E, b, e) => Block(M, b, e)
  <1>1. CutBy(M, E) /\ Sealed(p, M, E) /\ \A b, e \in E : Adj(E, b, e) => Block(M, b, e)
    BY DEF Good
  <1>2. Spaced(E) /\ M \in [Words(E) -> Tag]
    BY <1>1, CutWords
  <1>3. /\ \A z \in E : z \in Nat /\ 16 <= z /\ z <= 4096
        /\ \A x, y \in E : x < y => x + 48 <= y
        /\ \A x \in E : x - 8 \in Words(E) /\ x - 16 \in Words(E)
    BY <1>2, SpacedEdges
  <1>4. QED
    BY <1>1, <1>2, <1>3

(* A free block does not start where the head of the page does. *)
LEMMA FreeBehind ==
    ASSUME NEW p, NEW M, NEW E, CutBy(M, E), Sealed(p, M, E), NEW b \in E, ~Hd(M, b).used
    PROVE  b \in Nat /\ Body(p) <= b /\ b # 16 /\ b # 4096
  <1>1. Hd(M, 16) = HeadTag(p) /\ Hd(M, 4096) = Outer
    BY DEF Sealed
  <1>2. HeadTag(p).used /\ Outer.used
    BY DEF HeadTag, Outer, T
  <1>3. b # 16
    BY <1>1, <1>2
  <1>4. b # 4096
    BY <1>1, <1>2
  <1>5. \A e \in E : e = 16 \/ Body(p) <= e
    BY HeadFirst
  <1>6. \A z \in E : z \in Nat
    BY CutWords
  <1>7. QED
    BY <1>3, <1>4, <1>5, <1>6

Two(b, k, e) == b \in Nat /\ k \in Nat /\ e \in Nat /\ 16 <= b /\ b + 48 <= k /\ k + 48 <= e /\ e <= 4096
Split(p, N, M, E, b, k, e) ==
    /\ k \notin E /\ Good(p, N, E \cup {k})
    /\ Hd(N, b) = T(k - b, TRUE) /\ Hd(N, k) = T(e - k, FALSE)
    /\ \A d \in E : d # b => Hd(N, d) = Hd(M, d)

(* A free block is cut in two. *)
LEMMA SplitPage ==
    ASSUME NEW p, NEW M, NEW E, Good(p, M, E), NEW b, NEW e, Adj(E, b, e), ~Hd(M, b).used,
           NEW k, Two(b, k, e), NEW a \in Nat, Span(b, a, k), NEW r \in Nat, Span(k, r, e),
           NEW L, L = PutBlk(M, b, a, TRUE), NEW N, N = PutBlk(L, k, r, FALSE)
    PROVE  Split(p, N, M, E, b, k, e)
  <1>1. /\ CutBy(M, E) /\ Sealed(p, M, E) /\ Spaced(E) /\ M \in [Words(E) -> Tag]
        /\ \A z \in E : z \in Nat /\ 16 <= z /\ z <= 4096
        /\ \A x, y \in E : x < y => x + 48 <= y
        /\ \A x \in E : x - 8 \in Words(E) /\ x - 16 \in Words(E)
        /\ \A x, y \in E : Adj(E, x, y) => Block(M, x, y)
    BY GoodPage
  <1>2. b \in E /\ e \in E /\ b < e /\ \A c \in E : c <= b \/ e <= c
    BY DEF Adj
  <1>3. /\ b \in Nat /\ k \in Nat /\ e \in Nat /\ 16 <= b /\ b + 48 <= k /\ k + 48 <= e /\ e <= 4096
        /\ b < k /\ k < e /\ 16 <= k
    BY DEF Two
  <1>4. a = k - b /\ r = e - k /\ a \in Nat /\ r \in Nat
    BY <1>3 DEF Span
  <1>5. k \notin E
    BY <1>2, <1>3
  <1>6. PICK F : F = E \cup {k}
    OBVIOUS
  <1>7. Spaced(F)
    <2>1. \A z \in F : z \in Nat /\ 16 <= z /\ z <= 4096
      BY <1>1, <1>3, <1>6
    <2>2. 16 \in F /\ 4096 \in F
      BY <1>1, <1>6, SpacedEdges
    <2>3. ASSUME NEW x \in E PROVE (x < k => x + 48 <= k) /\ (k < x => k + 48 <= x)
      <3>1. x \in Nat /\ (x <= b \/ e <= x)
        BY <1>1, <1>2
      <3>2. QED
        BY <1>3, <3>1
    <2>4. ASSUME NEW x \in F, NEW y \in F, x < y PROVE x + 48 <= y
      <3>1. CASE x \in E /\ y \in E
        BY <1>1, <2>4, <3>1
      <3>2. CASE x = k /\ y \in E
        BY <2>3, <2>4, <3>2
      <3>3. CASE x \in E /\ y = k
        BY <2>3, <2>4, <3>3
      <3>4. CASE x = k /\ y = k
        BY <1>3, <2>4, <3>4
      <3>5. QED
        BY <1>6, <3>1, <3>2, <3>3, <3>4
    <2>5. QED
      BY <2>1, <2>2, <2>4 DEF Spaced
  <1>8. PICK W : W = Words(E)
    OBVIOUS
  <1>9. PICK s, t : s = T(a, TRUE) /\ t = T(r, FALSE)
    OBVIOUS
  <1>10. s \in Tag /\ s.size = a /\ s.used
    BY <1>4, <1>9 DEF T, Tag
  <1>11. t \in Tag /\ t.size = r /\ ~t.used
    BY <1>4, <1>9 DEF T, Tag
  <1>12. Placed(L, M, F, W, b, k, s)
    <2>1. Ordered(F, b, k) /\ M \in [W -> Tag]
      BY <1>1, <1>2, <1>3, <1>6, <1>8 DEF Ordered
    <2>4. T(a, TRUE) \in Tag
      BY <1>9, <1>10
    <2>2. Placed(L, M, F, W, b, k, T(a, TRUE))
      BY <1>7, <2>1, <2>4, PutEdges
    <2>3. QED
      BY <1>9, <2>2
  <1>13. PICK V : V = W \cup {b - 8, k - 16}
    OBVIOUS
  <1>14. Placed(N, L, F, V, k, e, t)
    <2>1. Ordered(F, k, e)
      BY <1>2, <1>3, <1>6 DEF Ordered
    <2>5. T(r, FALSE) \in Tag
      BY <1>9, <1>11
    <2>2. L \in [V -> Tag]
      BY <1>12, <1>13 DEF Placed
    <2>3. Placed(N, L, F, V, k, e, T(r, FALSE))
      BY <1>7, <2>1, <2>2, <2>5, PutEdges
    <2>4. QED
      BY <1>9, <2>3
  <1>15. N \in [Words(F) -> Tag]
    <2>1. Words(F) = W \cup {k - 8, k - 16}
      BY <1>1, <1>3, <1>6, <1>8, WordsMore
    <2>2. b - 8 \in W /\ e - 16 \in W
      BY <1>1, <1>2, <1>8
    <2>3. V \cup {k - 8, e - 16} = Words(F)
      BY <1>13, <2>1, <2>2
    <2>4. N \in [V \cup {k - 8, e - 16} -> Tag]
      BY <1>14 DEF Placed
    <2>5. QED
      BY <2>3, <2>4
  <1>16. CutBy(N, F)
    BY <1>7, <1>15 DEF CutBy
  <1>17. /\ Hd(N, k) = t /\ Ft(N, e) = t /\ Hd(N, b) = s /\ Ft(N, k) = s
    <2>1. Hd(N, k) = t /\ Ft(N, e) = t
      BY <1>14 DEF Placed
    <2>2. Hd(L, b) = s /\ Ft(L, k) = s
      BY <1>12 DEF Placed
    <2>3. b - 8 \in V /\ k - 16 \in V /\ b \in F /\ k \in F /\ b # k /\ k # e
      BY <1>2, <1>3, <1>6, <1>13
    <2>4. Hd(N, b) = Hd(L, b) /\ Ft(N, k) = Ft(L, k)
      BY <1>14, <2>3 DEF Placed
    <2>5. QED
      BY <2>1, <2>2, <2>4
  <1>18. ASSUME NEW d \in E
         PROVE  (d # b => Hd(N, d) = Hd(M, d)) /\ (d # e => Ft(N, d) = Ft(M, d))
    <2>1. d \in F /\ d # k /\ d - 8 \in W /\ d - 16 \in W /\ d - 8 \in V /\ d - 16 \in V
      BY <1>1, <1>5, <1>6, <1>8, <1>13
    <2>2. d # b => Hd(L, d) = Hd(M, d)
      BY <1>12, <2>1 DEF Placed
    <2>3. Ft(L, d) = Ft(M, d)
      BY <1>12, <2>1 DEF Placed
    <2>4. Hd(N, d) = Hd(L, d)
      BY <1>14, <2>1 DEF Placed
    <2>5. d # e => Ft(N, d) = Ft(L, d)
      BY <1>14, <2>1 DEF Placed
    <2>6. QED
      BY <2>2, <2>3, <2>4, <2>5
  <1>19. Outside(M, N, E, F, b, e)
    <2>1. ASSUME NEW d \in Nat, d <= b \/ e <= d PROVE d \in E <=> d \in F
      <3>1. d # k
        BY <1>3, <2>1
      <3>2. QED
        BY <1>6, <3>1
    <2>2. ASSUME NEW d \in E, d < b \/ e <= d PROVE Hd(N, d) = Hd(M, d)
      <3>1. d # b
        BY <1>1, <1>3, <2>2
      <3>2. QED
        BY <1>18, <3>1
    <2>3. ASSUME NEW d \in E, d <= b \/ e < d PROVE Ft(N, d) = Ft(M, d)
      <3>1. d # e
        BY <1>1, <1>3, <2>3
      <3>2. QED
        BY <1>18, <3>1
    <2>4. QED
      BY <2>1, <2>2, <2>3 DEF Outside
  <1>20. Hd(M, e).used
    <2>1. Block(M, b, e)
      BY <1>1, <1>2
    <2>2. QED
      BY <2>1 DEF Block
  <1>21. Within(N, F, b, e)
    <2>1. ASSUME NEW x \in F, NEW y \in F, Adj(F, x, y), b <= x, y <= e PROVE Block(N, x, y)
      <3>1. x < y /\ (b <= x \/ y <= b) /\ (k <= x \/ y <= k) /\ (e <= x \/ y <= e)
        BY <1>2, <1>6, <2>1 DEF Adj
      <3>2. \A z \in F : z = k \/ z <= b \/ e <= z
        BY <1>2, <1>6
      <3>3. /\ x \in Nat /\ y \in Nat
            /\ x = k \/ x <= b \/ e <= x
            /\ y = k \/ y <= b \/ e <= y
        BY <1>1, <1>3, <1>6, <3>2
      <3>4. (x = b /\ y = k) \/ (x = k /\ y = e)
        BY <1>3, <2>1, <3>1, <3>3
      <3>5. Block(N, b, k)
        BY <1>4, <1>10, <1>17 DEF Block
      <3>6. Hd(N, e) = Hd(M, e)
        <4>1. e # b
          BY <1>3
        <4>2. QED
          BY <1>2, <1>18, <4>1
      <3>7. Block(N, k, e)
        BY <1>4, <1>11, <1>17, <1>20, <3>6 DEF Block
      <3>8. QED
        BY <3>4, <3>5, <3>7
    <2>2. QED
      BY <2>1 DEF Within
  <1>22. Ordered(E, b, e) /\ Body(p) <= b /\ Hd(N, b).used
    <2>1. Ordered(E, b, e)
      BY <1>2 DEF Ordered
    <2>2. Body(p) <= b
      BY <1>1, <1>2, FreeBehind
    <2>3. QED
      BY <1>10, <1>17, <2>1, <2>2
  <1>23. Good(p, N, F)
    BY <1>16, <1>19, <1>21, <1>22, Reshaped
  <1>24. Hd(N, b) = T(k - b, TRUE) /\ Hd(N, k) = T(e - k, FALSE)
    BY <1>4, <1>9, <1>17
  <1>25. QED
    BY <1>5, <1>6, <1>18, <1>23, <1>24 DEF Split

Took(p, N, M, E, b, e) ==
    /\ Good(p, N, E) /\ Hd(N, b) = T(e - b, TRUE)
    /\ \A d \in E : d # b => Hd(N, d) = Hd(M, d)

(* A free block is taken as it is. *)
LEMMA TakePage ==
    ASSUME NEW p, NEW M, NEW E, Good(p, M, E), NEW b, NEW e, Adj(E, b, e), ~Hd(M, b).used,
           NEW c \in Nat, Span(b, c, e), NEW N, N = PutBlk(M, b, c, TRUE)
    PROVE  Took(p, N, M, E, b, e)
  <1>1. /\ CutBy(M, E) /\ Sealed(p, M, E) /\ Spaced(E) /\ M \in [Words(E) -> Tag]
        /\ \A z \in E : z \in Nat /\ 16 <= z /\ z <= 4096
        /\ \A x \in E : x - 8 \in Words(E) /\ x - 16 \in Words(E)
        /\ \A x, y \in E : Adj(E, x, y) => Block(M, x, y)
    BY GoodPage
  <1>2. b \in E /\ e \in E /\ b < e /\ \A x \in E : x <= b \/ e <= x
    BY DEF Adj
  <1>3. b \in Nat /\ e \in Nat /\ c = e - b /\ b # e
    BY <1>1, <1>2 DEF Span
  <1>4. PICK t : t = T(c, TRUE)
    OBVIOUS
  <1>5. t \in Tag /\ t.size = c /\ t.used
    BY <1>4 DEF T, Tag
  <1>6. PICK W : W = Words(E)
    OBVIOUS
  <1>7. Placed(N, M, E, W, b, e, t)
    <2>1. Ordered(E, b, e) /\ M \in [W -> Tag]
      BY <1>1, <1>2, <1>6 DEF Ordered
    <2>2. T(c, TRUE) \in Tag
      BY <1>4, <1>5
    <2>5. Spaced(E)
      BY <1>1
    <2>3. Placed(N, M, E, W, b, e, T(c, TRUE))
      BY <2>1, <2>2, <2>5, PutEdges
    <2>4. QED
      BY <1>4, <2>3
  <1>8. CutBy(N, E)
    <2>1. b - 8 \in W /\ e - 16 \in W
      BY <1>1, <1>2, <1>6
    <2>2. W \cup {b - 8, e - 16} = W
      BY <2>1
    <2>3. N \in [W \cup {b - 8, e - 16} -> Tag]
      BY <1>7 DEF Placed
    <2>4. N \in [Words(E) -> Tag]
      BY <1>6, <2>2, <2>3
    <2>5. QED
      BY <1>1, <2>4 DEF CutBy
  <1>9. Hd(N, b) = t /\ Ft(N, e) = t
    BY <1>7 DEF Placed
  <1>10. ASSUME NEW d \in E
         PROVE  (d # b => Hd(N, d) = Hd(M, d)) /\ (d # e => Ft(N, d) = Ft(M, d))
    <2>1. d - 8 \in W /\ d - 16 \in W
      BY <1>1, <1>6
    <2>2. QED
      BY <1>7, <2>1 DEF Placed
  <1>11. Outside(M, N, E, E, b, e)
    <2>1. ASSUME NEW d \in E, d < b \/ e <= d PROVE Hd(N, d) = Hd(M, d)
      <3>1. d # b
        BY <1>1, <1>2, <1>3, <2>1
      <3>2. QED
        BY <1>10, <3>1
    <2>2. ASSUME NEW d \in E, d <= b \/ e < d PROVE Ft(N, d) = Ft(M, d)
      <3>1. d # e
        BY <1>1, <1>2, <1>3, <2>2
      <3>2. QED
        BY <1>10, <3>1
    <2>3. QED
      BY <2>1, <2>2 DEF Outside
  <1>12. Within(N, E, b, e)
    <2>1. ASSUME NEW x \in E, NEW y \in E, Adj(E, x, y), b <= x, y <= e PROVE Block(N, x, y)
      <3>1. x \in Nat /\ y \in Nat /\ x < y /\ (x <= b \/ e <= x) /\ (y <= b \/ e <= y)
        BY <1>1, <1>2, <2>1 DEF Adj
      <3>2. x = b /\ y = e
        BY <1>2, <1>3, <2>1, <3>1
      <3>3. Block(N, b, e)
        BY <1>3, <1>5, <1>9 DEF Block
      <3>4. QED
        BY <3>2, <3>3
    <2>2. QED
      BY <2>1 DEF Within
  <1>13. Body(p) <= b
    BY <1>1, <1>2, FreeBehind
  <1>14. Ordered(E, b, e) /\ Hd(N, b).used
    BY <1>2, <1>5, <1>9 DEF Ordered
  <1>15. Good(p, N, E)
    BY <1>8, <1>11, <1>12, <1>13, <1>14, Reshaped
  <1>16. Hd(N, b) = T(e - b, TRUE)
    BY <1>3, <1>4, <1>9
  <1>17. QED
    BY <1>10, <1>15, <1>16 DEF Took

Rim(E, at, en) == { d \in E : d <= at \/ en <= d }
Same(N, K, F) == \A d \in F : Hd(N, d) = Hd(K, d) /\ Ft(N, d) = Ft(K, d)

Shrunk(N, K, F, at, en) == CutBy(N, F) /\ Same(N, K, F) /\ at \in F /\ en \in F

(* The words inside a block are forgotten. *)
LEMMA WholeWords ==
    ASSUME NEW E, Spaced(E), NEW K \in [Words(E) -> Tag], NEW at, NEW en, Ordered(E, at, en), 16 < at,
           NEW n \in Nat, Span(at, n, en), NEW N, N = Whole(K, at, n), NEW F, F = Rim(E, at, en)
    PROVE  Shrunk(N, K, F, at, en)
  <1>1. /\ \A z \in E : z \in Nat /\ 16 <= z /\ z <= 4096
        /\ 16 \in E /\ 4096 \in E
        /\ \A x, y \in E : x < y => x + 48 <= y
        /\ \A x \in E : x - 8 \in Words(E) /\ x - 16 \in Words(E)
        /\ \A x : x \in Words(E) <=> x \in Nat /\ (x + 8 \in E \/ x + 16 \in E)
    BY SpacedEdges
  <1>2. at \in E /\ en \in E /\ at < en
    BY DEF Ordered
  <1>3. at \in Nat /\ en \in Nat /\ at + n - 16 = en - 16 /\ at + 48 <= en /\ en <= 4096
    BY <1>1, <1>2 DEF Span
  <1>4. \A d : d \in F <=> d \in E /\ (d <= at \/ en <= d)
    BY DEF Rim
  <1>5. at \in F /\ en \in F
    BY <1>2, <1>3, <1>4
  <1>6. Spaced(F)
    <2>1. 16 \in F
      BY <1>1, <1>3, <1>4
    <2>2. 4096 \in F
      BY <1>1, <1>3, <1>4
    <2>3. F \subseteq E
      BY <1>4
    <2>4. QED
      BY <1>1, <2>1, <2>2, <2>3 DEF Spaced
  <1>7. PICK X : X = { a \in Words(E) : a <= at - 8 \/ a >= en - 16 }
    OBVIOUS
  <1>8. N = [a \in X |-> K[a]]
    <2>1. DOMAIN K = Words(E)
      OBVIOUS
    <2>2. QED
      BY <1>3, <1>7, <2>1 DEF Whole
  <1>9. ASSUME NEW x \in Nat
        PROVE  x \in Words(E) /\ (x <= at - 8 \/ x >= en - 16) <=> x + 8 \in F \/ x + 16 \in F
    <2>1. x + 8 \in E => x + 8 \in Nat /\ (x + 8 < en => x + 8 + 48 <= en) /\ (at < x + 8 => at + 48 <= x + 8)
      BY <1>1, <1>2
    <2>2. x + 16 \in E => x + 16 \in Nat /\ (x + 16 < en => x + 16 + 48 <= en) /\ (at < x + 16 => at + 48 <= x + 16)
      BY <1>1, <1>2
    <2>3. x + 8 \in E => ((x <= at - 8 \/ x >= en - 16) <=> (x + 8 <= at \/ en <= x + 8))
      BY <1>3, <2>1
    <2>4. x + 16 \in E => ((x <= at - 8 \/ x >= en - 16) <=> (x + 16 <= at \/ en <= x + 16))
      BY <1>3, <2>2
    <2>5. x + 8 \in F <=> x + 8 \in E /\ (x + 8 <= at \/ en <= x + 8)
      BY <1>4
    <2>6. x + 16 \in F <=> x + 16 \in E /\ (x + 16 <= at \/ en <= x + 16)
      BY <1>4
    <2>7. x \in Words(E) <=> x + 8 \in E \/ x + 16 \in E
      BY <1>1
    <2>8. QED
      BY <2>3, <2>4, <2>5, <2>6, <2>7
  <1>10. X = Words(F)
    <2>1. \A x : x \in Words(F) <=> x \in Nat /\ (x + 8 \in F \/ x + 16 \in F)
      BY DEF Words
    <2>2. \A x : x \in X => x \in Nat
      BY <1>1, <1>7
    <2>3. \A x \in Nat : x \in X <=> x \in Words(F)
      BY <1>7, <1>9, <2>1
    <2>4. QED
      BY <2>1, <2>2, <2>3
  <1>11. N \in [X -> Tag] /\ \A x \in X : N[x] = K[x]
    <2>1. \A x \in X : K[x] \in Tag
      BY <1>7
    <2>2. QED
      BY <1>8, <2>1
  <1>12. CutBy(N, F)
    BY <1>6, <1>10, <1>11 DEF CutBy
  <1>13. ASSUME NEW d \in F PROVE Hd(N, d) = Hd(K, d) /\ Ft(N, d) = Ft(K, d)
    <2>1. d - 8 \in X /\ d - 16 \in X
      BY <1>6, <1>10, SpacedEdges
    <2>2. N[d - 8] = K[d - 8] /\ N[d - 16] = K[d - 16]
      BY <1>11, <2>1
    <2>3. QED
      BY <2>2 DEF Hd, Ft
  <1>14. QED
    BY <1>5, <1>12, <1>13 DEF Same, Shrunk

Joined(p, N, M, F, at, en) ==
    /\ Good(p, N, F) /\ Hd(N, at) = T(en - at, FALSE)
    /\ \A d \in F : d # at => Hd(N, d) = Hd(M, d)

(* What is between two edges becomes one free block. *)
LEMMA JoinPage ==
    ASSUME NEW p, NEW M, NEW E, Good(p, M, E), NEW at, NEW en, Ordered(E, at, en),
           Body(p) <= at, Ft(M, at).used, Hd(M, en).used,
           NEW L \in [Words(E) -> Tag], Outside(M, L, E, E, at, en),
           NEW n \in Nat, Span(at, n, en), NEW K, K = PutBlk(L, at, n, FALSE),
           NEW N, N = Whole(K, at, n)
    PROVE  Joined(p, N, M, Rim(E, at, en), at, en)
  <1>1. /\ CutBy(M, E) /\ Sealed(p, M, E) /\ Spaced(E)
        /\ \A z \in E : z \in Nat /\ 16 <= z /\ z <= 4096
        /\ \A x \in E : x - 8 \in Words(E) /\ x - 16 \in Words(E)
    BY GoodPage
  <1>2. at \in E /\ en \in E /\ at < en
    BY DEF Ordered
  <1>3. at \in Nat /\ en \in Nat /\ n = en - at /\ at # en
    BY <1>1, <1>2 DEF Span
  <1>4. 16 < at
    <2>1. Body(p) \in Nat /\ Body(p) >= 64
      BY <1>1, HeadFirst
    <2>2. QED
      BY <1>3, <2>1
  <1>5. PICK t : t = T(n, FALSE)
    OBVIOUS
  <1>6. t \in Tag /\ t.size = n /\ ~t.used
    BY <1>5 DEF T, Tag
  <1>7. PICK W : W = Words(E)
    OBVIOUS
  <1>8. Placed(K, L, E, W, at, en, t)
    <2>1. L \in [W -> Tag]
      BY <1>7
    <2>2. T(n, FALSE) \in Tag
      BY <1>5, <1>6
    <2>3. Spaced(E)
      BY <1>1
    <2>4. Placed(K, L, E, W, at, en, T(n, FALSE))
      BY <2>1, <2>2, <2>3, PutEdges
    <2>5. QED
      BY <1>5, <2>4
  <1>9. K \in [Words(E) -> Tag]
    <2>1. at - 8 \in W /\ en - 16 \in W
      BY <1>1, <1>2, <1>7
    <2>2. W \cup {at - 8, en - 16} = W
      BY <2>1
    <2>3. K \in [W \cup {at - 8, en - 16} -> Tag]
      BY <1>8 DEF Placed
    <2>4. QED
      BY <1>7, <2>2, <2>3
  <1>10. Hd(K, at) = t /\ Ft(K, en) = t
    BY <1>8 DEF Placed
  <1>11. ASSUME NEW d \in E
         PROVE  (d # at => Hd(K, d) = Hd(L, d)) /\ (d # en => Ft(K, d) = Ft(L, d))
    <2>1. d - 8 \in W /\ d - 16 \in W
      BY <1>1, <1>7
    <2>2. QED
      BY <1>8, <2>1 DEF Placed
  <1>12. PICK F : F = Rim(E, at, en)
    OBVIOUS
  <1>13. \A d : d \in F <=> d \in E /\ (d <= at \/ en <= d)
    BY <1>12 DEF Rim
  <1>14. CutBy(N, F) /\ Same(N, K, F) /\ at \in F /\ en \in F
    <2>1. Spaced(E)
      BY <1>1
    <2>2. Shrunk(N, K, F, at, en)
      BY <1>4, <1>9, <1>12, <2>1, WholeWords
    <2>3. QED
      BY <2>2 DEF Shrunk
  <1>15. Hd(N, at) = t /\ Ft(N, en) = t
    BY <1>10, <1>14 DEF Same
  <1>16. ASSUME NEW d \in F, d < at \/ en <= d PROVE Hd(N, d) = Hd(M, d)
    <2>1. d \in E /\ d # at
      BY <1>1, <1>3, <1>2, <1>13, <1>16
    <2>2. Hd(N, d) = Hd(K, d) /\ Hd(K, d) = Hd(L, d)
      BY <1>11, <1>14, <2>1 DEF Same
    <2>3. Hd(L, d) = Hd(M, d)
      BY <1>16, <2>1 DEF Outside
    <2>4. QED
      BY <2>2, <2>3
  <1>17. ASSUME NEW d \in F, d <= at \/ en < d PROVE Ft(N, d) = Ft(M, d)
    <2>1. d \in E /\ d # en
      BY <1>1, <1>3, <1>2, <1>13, <1>17
    <2>2. Ft(N, d) = Ft(K, d) /\ Ft(K, d) = Ft(L, d)
      BY <1>11, <1>14, <2>1 DEF Same
    <2>3. Ft(L, d) = Ft(M, d)
      BY <1>17, <2>1 DEF Outside
    <2>4. QED
      BY <2>2, <2>3
  <1>18. Outside(M, N, E, F, at, en)
    <2>1. \A d \in Nat : d <= at \/ en <= d => (d \in E <=> d \in F)
      BY <1>13
    <2>2. \A d \in E : d < at \/ en <= d => d \in F
      BY <1>1, <1>3, <1>13
    <2>3. \A d \in E : d <= at \/ en < d => d \in F
      BY <1>1, <1>3, <1>13
    <2>4. QED
      BY <1>16, <1>17, <2>1, <2>2, <2>3 DEF Outside
  <1>19. Within(N, F, at, en)
    <2>1. ASSUME NEW x \in F, NEW y \in F, Adj(F, x, y), at <= x, y <= en PROVE Block(N, x, y)
      <3>1. x \in Nat /\ y \in Nat /\ x < y /\ (x <= at \/ en <= x) /\ (y <= at \/ en <= y)
        BY <1>1, <1>13, <2>1 DEF Adj
      <3>2. x = at /\ y = en
        BY <1>2, <1>3, <2>1, <3>1
      <3>3. Hd(N, en) = Hd(M, en)
        <4>1. en <= en
          BY <1>3
        <4>2. QED
          BY <1>14, <1>16, <4>1
      <3>4. Block(N, at, en)
        BY <1>3, <1>6, <1>15, <3>3 DEF Block
      <3>5. QED
        BY <3>2, <3>4
    <2>2. QED
      BY <2>1 DEF Within
  <1>20. Good(p, N, F)
    BY <1>14, <1>18, <1>19, Reshaped
  <1>21. \A d \in F : d # at => Hd(N, d) = Hd(M, d)
    <2>1. ASSUME NEW d \in F, d # at PROVE d < at \/ en <= d
      <3>1. d \in Nat /\ (d <= at \/ en <= d)
        BY <1>1, <1>13
      <3>2. QED
        BY <1>3, <2>1, <3>1
    <2>2. QED
      BY <1>16, <2>1
  <1>22. Hd(N, at) = T(en - at, FALSE)
    BY <1>3, <1>5, <1>15
  <1>23. QED
    BY <1>12, <1>20, <1>21, <1>22 DEF Joined
------------------------------------------------------------------------------
(* gfs_mem_coalesce in a good page. *)

(* The blocks around bp and what they make together with it. *)
Surround(M, E, pv, bp, nx, at, en) ==
    /\ Adj(E, pv, bp) /\ Adj(E, bp, nx)
    /\ \/ at = pv /\ ~Hd(M, pv).used
       \/ at = bp /\ Hd(M, pv).used
    /\ \/ Adj(E, nx, en) /\ ~Hd(M, nx).used
       \/ en = nx /\ Hd(M, nx).used

(* There are such blocks. *)
LEMMA Surrounded ==
    ASSUME NEW p, NEW M, NEW E, Good(p, M, E), NEW bp, NEW nx, Adj(E, bp, nx), 16 < bp
    PROVE  \E pv, at, en : Surround(M, E, pv, bp, nx, at, en)
  <1>1. Spaced(E) /\ CutBy(M, E) /\ Sealed(p, M, E) /\ \A z \in E : z \in Nat /\ 16 <= z /\ z <= 4096
    BY GoodPage
  <1>2. bp \in E /\ nx \in E
    BY DEF Adj
  <1>3. PICK pv \in E : Adj(E, pv, bp)
    BY <1>1, <1>2, Before DEF Upper
  <1>4. PICK at : (at = pv /\ ~Hd(M, pv).used) \/ (at = bp /\ Hd(M, pv).used)
    OBVIOUS
  <1>5. \E en : (Adj(E, nx, en) /\ ~Hd(M, nx).used) \/ (en = nx /\ Hd(M, nx).used)
    <2>1. CASE Hd(M, nx).used
      BY <2>1
    <2>2. CASE ~Hd(M, nx).used
      <3>1. nx # 4096
        BY <1>1, <1>2, <2>2, FreeBehind
      <3>2. nx \in Nat /\ nx <= 4096
        BY <1>1, <1>2
      <3>3. Lower(E, nx)
        BY <1>2, <3>1, <3>2 DEF Lower
      <3>4. \E en \in E : Adj(E, nx, en)
        BY <1>1, <3>3, Behind
      <3>5. QED
        BY <2>2, <3>4
    <2>3. QED
      BY <2>1, <2>2
  <1>6. PICK en : (Adj(E, nx, en) /\ ~Hd(M, nx).used) \/ (en = nx /\ Hd(M, nx).used)
    BY <1>5
  <1>7. QED
    BY <1>3, <1>4, <1>6 DEF Surround

(* How far they reach. *)
LEMMA Reach ==
    ASSUME NEW p, NEW M, NEW E, Good(p, M, E), NEW pv, NEW bp, NEW nx, NEW at, NEW en,
           Surround(M, E, pv, bp, nx, at, en), 16 < bp
    PROVE  /\ pv \in Nat /\ bp \in Nat /\ nx \in Nat /\ at \in Nat /\ en \in Nat
           /\ pv < bp /\ bp < nx /\ at <= bp /\ nx <= en /\ at \in E /\ en \in E
           /\ Body(p) <= at /\ Ft(M, at).used /\ Hd(M, en).used /\ Ordered(E, at, en)
  <1>1. /\ Spaced(E) /\ CutBy(M, E) /\ Sealed(p, M, E)
        /\ \A z \in E : z \in Nat /\ 16 <= z /\ z <= 4096
        /\ \A b, e \in E : Adj(E, b, e) => Block(M, b, e)
    BY GoodPage
  <1>2. /\ Adj(E, pv, bp) /\ Adj(E, bp, nx)
        /\ (at = pv /\ ~Hd(M, pv).used) \/ (at = bp /\ Hd(M, pv).used)
        /\ (Adj(E, nx, en) /\ ~Hd(M, nx).used) \/ (en = nx /\ Hd(M, nx).used)
    BY DEF Surround
  <1>3. pv \in E /\ bp \in E /\ nx \in E /\ pv < bp /\ bp < nx
    BY <1>2 DEF Adj
  <1>4. pv \in Nat /\ bp \in Nat /\ nx \in Nat
    BY <1>1, <1>3
  <1>5. at \in E /\ at \in Nat /\ at <= bp
    BY <1>2, <1>3, <1>4
  <1>6. en \in E /\ nx <= en /\ en \in Nat
    <2>1. CASE Adj(E, nx, en)
      <3>1. en \in E /\ nx < en
        BY <2>1 DEF Adj
      <3>2. en \in Nat
        BY <1>1, <3>1
      <3>3. QED
        BY <1>4, <3>1, <3>2
    <2>2. CASE en = nx
      BY <1>3, <1>4, <2>2
    <2>3. QED
      BY <1>2, <2>1, <2>2
  <1>7. Body(p) <= at /\ Ft(M, at).used
    <2>1. CASE at = pv /\ ~Hd(M, pv).used
      <3>1. Body(p) <= pv /\ pv # 16
        BY <1>1, <1>3, <2>1, FreeBehind
      <3>2. 16 <= pv
        BY <1>1, <1>3
      <3>3. 16 < pv
        BY <1>4, <3>1, <3>2
      <3>4. PICK q \in E : Adj(E, q, pv)
        BY <1>1, <1>3, <3>3, Before DEF Upper
      <3>5. Block(M, q, pv)
        BY <1>1, <1>3, <3>4
      <3>6. QED
        BY <2>1, <3>1, <3>5 DEF Block
    <2>2. CASE at = bp /\ Hd(M, pv).used
      <3>1. \A e \in E : e = 16 \/ Body(p) <= e
        BY <1>1, HeadFirst
      <3>2. Body(p) <= bp
        BY <1>3, <1>4, <3>1
      <3>3. Block(M, pv, bp)
        BY <1>1, <1>2, <1>3
      <3>4. QED
        BY <2>2, <3>2, <3>3 DEF Block
    <2>3. QED
      BY <1>2, <2>1, <2>2
  <1>8. Hd(M, en).used
    <2>1. CASE Adj(E, nx, en) /\ ~Hd(M, nx).used
      <3>1. Block(M, nx, en)
        BY <1>1, <1>3, <1>6, <2>1
      <3>2. QED
        BY <2>1, <3>1 DEF Block
    <2>2. CASE en = nx /\ Hd(M, nx).used
      BY <2>2
    <2>3. QED
      BY <1>2, <2>1, <2>2
  <1>9. Ordered(E, at, en)
    BY <1>3, <1>4, <1>5, <1>6 DEF Ordered
  <1>10. QED
    BY <1>3, <1>4, <1>5, <1>6, <1>7, <1>8, <1>9

(* Block bp is marked free. *)
Marked(L, M, E, bp, nx) ==
    /\ L \in [Words(E) -> Tag]
    /\ Hd(L, bp) = T(nx - bp, FALSE) /\ Ft(L, nx) = T(nx - bp, FALSE)
    /\ \A d \in E : (d # bp => Hd(L, d) = Hd(M, d)) /\ (d # nx => Ft(L, d) = Ft(M, d))

(* That changes its two words only. *)
LEMMA MarkPage ==
    ASSUME NEW M, NEW E, CutBy(M, E), NEW bp, NEW nx, Ordered(E, bp, nx),
           NEW own \in Nat, Span(bp, own, nx), NEW L, L = PutBlk(M, bp, own, FALSE)
    PROVE  Marked(L, M, E, bp, nx)
  <1>1. /\ Spaced(E) /\ M \in [Words(E) -> Tag]
        /\ \A z \in E : z \in Nat /\ 16 <= z /\ z <= 4096
    BY CutWords
  <1>2. \A x \in E : x - 8 \in Words(E) /\ x - 16 \in Words(E)
    BY <1>1, SpacedEdges
  <1>3. bp \in E /\ nx \in E /\ own = nx - bp
    BY <1>1 DEF Ordered, Span
  <1>4. PICK t : t = T(own, FALSE)
    OBVIOUS
  <1>5. t \in Tag
    BY <1>4 DEF T, Tag
  <1>6. PICK W : W = Words(E)
    OBVIOUS
  <1>7. Placed(L, M, E, W, bp, nx, t)
    <2>1. Spaced(E) /\ M \in [W -> Tag]
      BY <1>1, <1>6
    <2>2. T(own, FALSE) \in Tag
      BY <1>4, <1>5
    <2>3. Placed(L, M, E, W, bp, nx, T(own, FALSE))
      BY <2>1, <2>2, PutEdges
    <2>4. QED
      BY <1>4, <2>3
  <1>8. L \in [Words(E) -> Tag]
    <2>1. bp - 8 \in W /\ nx - 16 \in W
      BY <1>2, <1>3, <1>6
    <2>2. W \cup {bp - 8, nx - 16} = W
      BY <2>1
    <2>3. L \in [W \cup {bp - 8, nx - 16} -> Tag]
      BY <1>7 DEF Placed
    <2>4. QED
      BY <1>6, <2>2, <2>3
  <1>9. Hd(L, bp) = T(nx - bp, FALSE) /\ Ft(L, nx) = T(nx - bp, FALSE)
    BY <1>3, <1>4, <1>7 DEF Placed
  <1>10. ASSUME NEW d \in E
         PROVE  (d # bp => Hd(L, d) = Hd(M, d)) /\ (d # nx => Ft(L, d) = Ft(M, d))
    <2>1. d - 8 \in W /\ d - 16 \in W
      BY <1>2, <1>6
    <2>2. QED
      BY <1>7, <2>1 DEF Placed
  <1>11. QED
    BY <1>8, <1>9, <1>10 DEF Marked

(* What gfs_mem_coalesce finds next to bp ... *)
Found(L, M, E, pv, bp, nx, at, en) ==
    /\ PrevBlk(L, bp) = pv /\ NextBlk(L, bp) = nx /\ Reads(L, bp)
    /\ PrevFree(L, bp) <=> ~Hd(M, pv).used
    /\ NextFree(L, bp) <=> ~Hd(M, nx).used
    /\ Total(L, bp) = en - at

(* ... is what is there. *)
LEMMA FindPage ==
    ASSUME NEW p, NEW M, NEW E, Good(p, M, E), NEW pv, NEW bp, NEW nx, NEW at, NEW en,
           Surround(M, E, pv, bp, nx, at, en), 16 < bp, NEW L, Marked(L, M, E, bp, nx)
    PROVE  /\ Found(L, M, E, pv, bp, nx, at, en)
           /\ ~Hd(M, nx).used => Ftr(L, nx) = en - 16
           /\ Ftr(L, bp) = nx - 16
  <1>1. /\ Spaced(E) /\ CutBy(M, E)
        /\ \A x \in E : x - 8 \in Words(E) /\ x - 16 \in Words(E)
        /\ \A b, e \in E : Adj(E, b, e) => Block(M, b, e)
    BY GoodPage
  <1>2. /\ Adj(E, pv, bp) /\ Adj(E, bp, nx)
        /\ (at = pv /\ ~Hd(M, pv).used) \/ (at = bp /\ Hd(M, pv).used)
        /\ (Adj(E, nx, en) /\ ~Hd(M, nx).used) \/ (en = nx /\ Hd(M, nx).used)
    BY DEF Surround
  <1>3. /\ pv \in Nat /\ bp \in Nat /\ nx \in Nat /\ at \in Nat /\ en \in Nat
        /\ pv < bp /\ bp < nx /\ at <= bp /\ nx <= en /\ at \in E /\ en \in E
    BY Reach
  <1>4. pv \in E /\ bp \in E /\ nx \in E
    BY <1>2 DEF Adj
  <1>5. /\ L \in [Words(E) -> Tag] /\ Hd(L, bp) = T(nx - bp, FALSE)
        /\ \A d \in E : (d # bp => Hd(L, d) = Hd(M, d)) /\ (d # nx => Ft(L, d) = Ft(M, d))
    BY DEF Marked
  <1>6. DOMAIN L = Words(E)
    BY <1>5
  <1>7. pv # bp /\ nx # bp
    BY <1>3
  <1>8. Hd(M, pv) = Ft(M, bp) /\ Hd(M, pv).size = bp - pv
    <2>1. Block(M, pv, bp)
      BY <1>1, <1>2, <1>4
    <2>2. QED
      BY <2>1 DEF Block
  <1>9. Ft(L, bp) = Hd(M, pv) /\ Hd(L, pv) = Hd(M, pv) /\ Hd(L, nx) = Hd(M, nx)
    BY <1>4, <1>5, <1>7, <1>8
  <1>10. Hd(L, bp).size = nx - bp
    BY <1>5 DEF T
  <1>11. /\ L[bp - 16] = Hd(M, pv) /\ L[pv - 8] = Hd(M, pv) /\ L[nx - 8] = Hd(M, nx)
         /\ L[bp - 8].size = nx - bp /\ L[bp - 16].size = bp - pv /\ L[pv - 8].size = bp - pv
    BY <1>8, <1>9, <1>10 DEF Hd, Ft
  <1>12. PrevBlk(L, bp) = pv
    BY <1>3, <1>11 DEF PrevBlk
  <1>13. NextBlk(L, bp) = nx
    BY <1>3, <1>11 DEF NextBlk
  <1>14. Ftr(L, pv) = bp - 16
    BY <1>3, <1>11 DEF Ftr
  <1>15. PrevFree(L, bp) <=> ~Hd(M, pv).used
    BY <1>11, <1>12, <1>14 DEF PrevFree
  <1>16. NextFree(L, bp) <=> ~Hd(M, nx).used
    BY <1>11, <1>13 DEF NextFree
  <1>17. ASSUME ~Hd(M, nx).used
         PROVE  /\ L[nx - 8].size = en - nx /\ Ftr(L, nx) = en - 16 /\ L[en - 16].size = en - nx
    <2>1. Adj(E, nx, en)
      BY <1>2, <1>17
    <2>2. Block(M, nx, en)
      BY <1>1, <1>3, <1>4, <2>1
    <2>3. Hd(M, nx).size = en - nx /\ Ft(M, en) = Hd(M, nx) /\ nx < en
      BY <2>1, <2>2 DEF Block, Adj
    <2>4. en # nx
      BY <1>3, <2>3
    <2>5. Ft(L, en) = Hd(M, nx)
      BY <1>3, <1>5, <2>3, <2>4
    <2>6. L[nx - 8].size = en - nx /\ L[en - 16].size = en - nx
      BY <1>11, <2>3, <2>5 DEF Ft
    <2>7. Ftr(L, nx) = en - 16
      BY <1>3, <2>6 DEF Ftr
    <2>8. QED
      BY <2>6, <2>7
  <1>18. Reads(L, bp)
    <2>1. bp - 16 \in DOMAIN L /\ pv - 8 \in DOMAIN L /\ nx - 8 \in DOMAIN L /\ en - 16 \in DOMAIN L
      BY <1>1, <1>3, <1>4, <1>6
    <2>2. L[nx - 8].used \/ Ftr(L, nx) \in DOMAIN L
      BY <1>11, <1>17, <2>1
    <2>3. QED
      BY <1>12, <1>13, <1>14, <2>1, <2>2 DEF Reads
  <1>19. NextSize(L, bp) = en - nx \/ Hd(M, nx).used
    BY <1>13, <1>17 DEF NextSize
  <1>20. Total(L, bp) = en - at
    <2>1. PICK x, y : /\ x = IF PrevFree(L, bp) THEN L[PrevBlk(L, bp) - 8].size ELSE 0
                      /\ y = IF NextFree(L, bp) THEN NextSize(L, bp) ELSE 0
      OBVIOUS
    <2>2. Total(L, bp) = L[bp - 8].size + x + y
      BY <2>1 DEF Total
    <2>3. x = bp - at
      <3>1. CASE Hd(M, pv).used
        <4>1. x = 0 /\ at = bp
          BY <1>2, <1>15, <2>1, <3>1
        <4>2. QED
          BY <1>3, <4>1
      <3>2. CASE ~Hd(M, pv).used
        BY <1>2, <1>11, <1>12, <1>15, <2>1, <3>2
      <3>3. QED
        BY <3>1, <3>2
    <2>4. y = en - nx
      <3>1. CASE Hd(M, nx).used
        <4>1. y = 0 /\ en = nx
          BY <1>2, <1>16, <2>1, <3>1
        <4>2. QED
          BY <1>3, <4>1
      <3>2. CASE ~Hd(M, nx).used
        BY <1>16, <1>19, <2>1, <3>2
      <3>3. QED
        BY <3>1, <3>2
    <2>5. QED
      BY <1>3, <1>11, <2>2, <2>3, <2>4
  <1>21. Ftr(L, bp) = nx - 16
    BY <1>3, <1>11 DEF Ftr
  <1>22. QED
    BY <1>12, <1>13, <1>15, <1>16, <1>17, <1>18, <1>20, <1>21 DEF Found

Coalesced(p, M, E, L, bp, at, en) ==
    LET r == Merged(L, bp) IN
    /\ r.at = at /\ r.size = en - at
    /\ Joined(p, Whole(r.M, at, en - at), M, Rim(E, at, en), at, en)

(* gfs_mem_coalesce makes them one free block of a page that is good. *)
LEMMA MergePage ==
    ASSUME NEW p, NEW M, NEW E, Good(p, M, E), NEW pv, NEW bp, NEW nx, NEW at, NEW en,
           Surround(M, E, pv, bp, nx, at, en), 16 < bp, NEW L, Marked(L, M, E, bp, nx)
    PROVE  Coalesced(p, M, E, L, bp, at, en)
  <1>1. /\ Found(L, M, E, pv, bp, nx, at, en)
        /\ ~Hd(M, nx).used => Ftr(L, nx) = en - 16
        /\ Ftr(L, bp) = nx - 16
    BY FindPage
  <1>2. /\ PrevBlk(L, bp) = pv /\ NextBlk(L, bp) = nx
        /\ PrevFree(L, bp) <=> ~Hd(M, pv).used
        /\ NextFree(L, bp) <=> ~Hd(M, nx).used
        /\ Total(L, bp) = en - at
    BY <1>1 DEF Found
  <1>3. /\ (at = pv /\ ~Hd(M, pv).used) \/ (at = bp /\ Hd(M, pv).used)
        /\ (Adj(E, nx, en) /\ ~Hd(M, nx).used) \/ (en = nx /\ Hd(M, nx).used)
    BY DEF Surround
  <1>4. /\ bp \in Nat /\ nx \in Nat /\ at \in Nat /\ en \in Nat
        /\ bp < nx /\ at <= bp /\ nx <= en
        /\ Body(p) <= at /\ Ft(M, at).used /\ Hd(M, en).used /\ Ordered(E, at, en)
    BY Reach
  <1>5. PICK n : n = en - at
    OBVIOUS
  <1>6. n \in Nat /\ Span(at, n, en) /\ at + n - 16 = en - 16
    BY <1>4, <1>5 DEF Span
  <1>7. at = IF PrevFree(L, bp) THEN PrevBlk(L, bp) ELSE bp
    BY <1>2, <1>3
  <1>8. PICK last : last = IF NextFree(L, bp) THEN NextBlk(L, bp) ELSE bp
    OBVIOUS
  <1>9. Ftr(L, last) = en - 16
    <2>1. CASE Hd(M, nx).used
      <3>1. last = bp
        BY <1>2, <1>8, <2>1
      <3>2. en = nx
        BY <1>3, <2>1
      <3>3. QED
        BY <1>1, <3>1, <3>2
    <2>2. CASE ~Hd(M, nx).used
      BY <1>1, <1>2, <1>8, <2>2
    <2>3. QED
      BY <2>1, <2>2
  <1>10. PICK r : r = Merged(L, bp)
    OBVIOUS
  <1>11. PICK t : t = T(n, FALSE)
    OBVIOUS
  <1>12. T(Total(L, bp), FALSE) = t /\ t.size = n
    BY <1>2, <1>5, <1>11 DEF T
  <1>13. r = [at |-> at, size |-> t.size, M |-> Write(Write(L, Ftr(L, last), t), at - 8, t)]
    BY <1>7, <1>8, <1>10, <1>12 DEF Merged
  <1>14. r.at = at /\ r.size = n /\ r.M = Write(Write(L, en - 16, t), at - 8, t)
    BY <1>9, <1>12, <1>13
  <1>15. r.M = PutBlk(L, at, n, FALSE)
    BY <1>6, <1>11, <1>14 DEF PutBlk
  <1>16. L \in [Words(E) -> Tag] /\ Outside(M, L, E, E, at, en)
    <2>1. /\ L \in [Words(E) -> Tag]
          /\ \A d \in E : (d # bp => Hd(L, d) = Hd(M, d)) /\ (d # nx => Ft(L, d) = Ft(M, d))
      BY DEF Marked
    <2>2. \A z \in E : z \in Nat
      BY GoodPage
    <2>3. ASSUME NEW d \in E, d < at \/ en <= d PROVE Hd(L, d) = Hd(M, d)
      <3>1. d # bp
        BY <1>4, <2>2, <2>3
      <3>2. QED
        BY <2>1, <3>1
    <2>4. ASSUME NEW d \in E, d <= at \/ en < d PROVE Ft(L, d) = Ft(M, d)
      <3>1. d # nx
        BY <1>4, <2>2, <2>4
      <3>2. QED
        BY <2>1, <3>1
    <2>5. QED
      BY <2>1, <2>3, <2>4 DEF Outside
  <1>17. PICK K, N : K = r.M /\ N = Whole(K, at, n)
    OBVIOUS
  <1>18. Joined(p, N, M, Rim(E, at, en), at, en)
    <2>1. K = PutBlk(L, at, n, FALSE)
      BY <1>15, <1>17
    <2>2. Ordered(E, at, en) /\ Body(p) <= at /\ Ft(M, at).used /\ Hd(M, en).used
      BY <1>4
    <2>3. Span(at, n, en) /\ n \in Nat
      BY <1>6
    <2>4. N = Whole(K, at, n)
      BY <1>17
    <2>5. QED
      BY <1>16, <2>1, <2>2, <2>3, <2>4, JoinPage
  <1>19. QED
    BY <1>5, <1>10, <1>14, <1>17, <1>18 DEF Coalesced

(* A page with its head and one free block. *)
Low == DSIZE
High == PAGESIZE
Trio(p) == {Low, Body(p), High}
Rest(p) == T(PAGESIZE - Body(p), FALSE)
Blank(p, N) == Good(p, N, Trio(p)) /\ Hd(N, Body(p)) = Rest(p)

(* The edges of such a page. *)
LEMMA ThreeSpaced ==
    ASSUME NEW p
    PROVE  /\ Spaced(Trio(p)) /\ Adj(Trio(p), Low, Body(p))
           /\ Low \in Trio(p) /\ Body(p) \in Trio(p) /\ High \in Trio(p)
           /\ Low \in Nat /\ High \in Nat /\ Low = 16 /\ High = 4096
           /\ \A z \in Trio(p) : z = Low \/ z = Body(p) \/ z = High
           /\ Body(p) \in Nat /\ 64 <= Body(p) /\ Body(p) <= 288 /\ HeadOf(p) = Body(p) - 16
           /\ HeadOf(p) \in Nat
  <1>1. /\ Body(p) \in Nat /\ 64 <= Body(p) /\ Body(p) <= 288 /\ HeadOf(p) = Body(p) - 16
        /\ HeadOf(p) \in Nat
    BY HeadBytes DEF Body
  <1>2. PICK f : f = Body(p)
    OBVIOUS
  <1>3. f \in Nat /\ 64 <= f /\ f <= 288
    BY <1>1, <1>2
  <1>4. PICK F : F = Trio(p)
    OBVIOUS
  <1>5. /\ \A z \in F : z = Low \/ z = f \/ z = High
        /\ Low \in F /\ f \in F /\ High \in F
    BY <1>2, <1>4 DEF Trio
  <1>6. Low \in Nat /\ High \in Nat /\ Low = 16 /\ High = 4096
    BY DEF Low, High
  <1>7. \A z \in F : z \in Nat /\ 16 <= z /\ z <= 4096
    BY <1>3, <1>5, <1>6
  <1>8. ASSUME NEW x \in F, NEW y \in F, x < y PROVE x + 48 <= y
    <2>1. (x = Low \/ x = f \/ x = High) /\ (y = Low \/ y = f \/ y = High)
      BY <1>5
    <2>2. QED
      BY <1>3, <1>6, <1>8, <2>1
  <1>9. Spaced(F)
    BY <1>5, <1>6, <1>7, <1>8 DEF Spaced
  <1>10. Adj(F, Low, f)
    <2>1. ASSUME NEW c \in F PROVE c <= Low \/ f <= c
      <3>1. c = Low \/ c = f \/ c = High
        BY <1>5
      <3>2. QED
        BY <1>3, <1>6, <3>1
    <2>2. Low < f
      BY <1>3, <1>6
    <2>3. QED
      BY <1>5, <2>1, <2>2 DEF Adj
  <1>11. QED
    BY <1>1, <1>2, <1>4, <1>5, <1>6, <1>9, <1>10

(* What is around a page and its head, by name. *)
LEMMA SealedBy ==
    ASSUME NEW p, NEW M, NEW E
    PROVE  Sealed(p, M, E) <=> /\ Adj(E, Low, Body(p)) /\ Ft(M, Low) = Outer /\ Hd(M, High) = Outer
                               /\ Hd(M, Low) = HeadTag(p) /\ Ft(M, Body(p)) = HeadTag(p)
  BY DEF Sealed, Low, High

(* These words make such a page good. *)
LEMMA ThreeEdges ==
    ASSUME NEW p, NEW N, CutBy(N, Trio(p)), Ft(N, Low) = Outer, Hd(N, High) = Outer,
           Hd(N, Low) = HeadTag(p), Ft(N, Body(p)) = HeadTag(p),
           Hd(N, Body(p)) = Rest(p), Ft(N, High) = Rest(p)
    PROVE  Blank(p, N)
  <1>1. PICK f, F : f = Body(p) /\ F = Trio(p)
    OBVIOUS
  <1>2. /\ Spaced(F) /\ Adj(F, Low, f) /\ f \in Nat /\ 64 <= f /\ f <= 288 /\ HeadOf(p) = f - 16
        /\ Low \in Nat /\ High \in Nat /\ Low = 16 /\ High = 4096
        /\ \A z \in F : z = Low \/ z = f \/ z = High
        /\ Low \in F /\ f \in F /\ High \in F
    BY <1>1, ThreeSpaced
  <1>3. HeadTag(p).size = f - Low /\ HeadTag(p).used /\ Outer.used
    BY <1>2 DEF HeadTag, Outer, T
  <1>4. Rest(p).size = High - f
    BY <1>1, <1>2 DEF T, Rest
  <1>5. Sealed(p, N, F)
    BY <1>1, <1>2, SealedBy
  <1>6. Block(N, Low, f)
    BY <1>1, <1>3 DEF Block
  <1>7. Block(N, f, High)
    BY <1>1, <1>3, <1>4 DEF Block
  <1>8. ASSUME NEW b \in F, NEW e \in F, Adj(F, b, e) PROVE Block(N, b, e)
    <2>1. (b = Low \/ b = f \/ b = High) /\ (e = Low \/ e = f \/ e = High)
      BY <1>2
    <2>2. b < e /\ (f <= b \/ e <= f)
      BY <1>2, <1>8 DEF Adj
    <2>3. (b = Low /\ e = f) \/ (b = f /\ e = High)
      BY <1>2, <2>1, <2>2
    <2>4. QED
      BY <1>6, <1>7, <2>3
  <1>9. Good(p, N, F)
    BY <1>1, <1>5, <1>8 DEF Good
  <1>10. QED
    BY <1>1, <1>9 DEF Blank

(* gfs_mem_pool_reset of a page whose head is as it was. *)
LEMMA BlankPage ==
    ASSUME NEW p, NEW M, NEW E, CutBy(M, E), Sealed(p, M, E),
           NEW f, f = Body(p), NEW n \in Nat, Span(f, n, High),
           NEW K, K = PutBlk(M, f, n, FALSE), NEW N, N = Whole(K, f, n)
    PROVE  Blank(p, N)
  <1>1. /\ Spaced(E) /\ (\A z \in E : z \in Nat /\ 16 <= z /\ z <= 4096)
        /\ Low \in E /\ High \in E
    BY CutWords DEF Low, High
  <1>2. f \in Nat /\ 64 <= f /\ f <= 288 /\ f \in E /\ \A e \in E : e = Low \/ f <= e
    BY HeadFirst DEF Low
  <1>0. /\ Low \in Nat /\ High \in Nat /\ Low = 16 /\ High = 4096
    BY DEF Low, High
  <1>3. Ordered(E, f, High) /\ 16 < f
    BY <1>0, <1>1, <1>2 DEF Ordered
  <1>4. Marked(K, M, E, f, High)
    BY <1>3, MarkPage
  <1>5. K \in [Words(E) -> Tag]
    BY <1>4 DEF Marked
  <1>6. PICK F : F = Rim(E, f, High)
    OBVIOUS
  <1>7. Shrunk(N, K, F, f, High)
    <2>1. Spaced(E)
      BY <1>1
    <2>2. QED
      BY <1>3, <1>5, <1>6, <2>1, WholeWords
  <1>8. \A d : d \in F <=> d = Low \/ d = f \/ d = High
    <2>1. \A d : d \in F <=> d \in E /\ (d <= f \/ High <= d)
      BY <1>6 DEF Rim
    <2>2. Low \in F /\ f \in F /\ High \in F
      <3>1. Low <= f /\ f <= f /\ High <= High
        BY <1>0, <1>2
      <3>2. QED
        BY <1>1, <1>2, <2>1, <3>1
    <2>3. ASSUME NEW d \in F PROVE d = Low \/ d = f \/ d = High
      <3>1. d \in E /\ (d <= f \/ High <= d)
        BY <2>1
      <3>2. d \in Nat /\ d <= 4096 /\ (d = Low \/ f <= d)
        BY <1>1, <1>2, <3>1
      <3>3. QED
        BY <1>0, <1>2, <3>1, <3>2
    <2>4. QED
      BY <2>2, <2>3
  <1>9. F = Trio(p)
    BY <1>8 DEF Trio
  <1>10. CutBy(N, F) /\ \A d \in F : Hd(N, d) = Hd(K, d) /\ Ft(N, d) = Ft(K, d)
    BY <1>7 DEF Shrunk, Same
  <1>11. /\ Hd(K, f) = T(High - f, FALSE) /\ Ft(K, High) = T(High - f, FALSE)
         /\ \A d \in E : (d # f => Hd(K, d) = Hd(M, d)) /\ (d # High => Ft(K, d) = Ft(M, d))
    BY <1>4 DEF Marked
  <1>12. T(High - f, FALSE) = Rest(p)
    BY DEF Rest, High
  <1>13. f # Low /\ f # High /\ Low # High
    BY <1>0, <1>2
  <1>20. \A d \in E : (d # f => Hd(K, d) = Hd(M, d)) /\ (d # High => Ft(K, d) = Ft(M, d))
    BY <1>11
  <1>21. Low \in E /\ High \in E /\ f \in E
    BY <1>1, <1>2
  <1>14. Hd(K, Low) = Hd(M, Low) /\ Hd(K, High) = Hd(M, High)
    BY <1>13, <1>20, <1>21
  <1>15. Ft(K, Low) = Ft(M, Low) /\ Ft(K, f) = Ft(M, f)
    BY <1>13, <1>20, <1>21
  <1>16. /\ Ft(M, Low) = Outer /\ Hd(M, High) = Outer
         /\ Hd(M, Low) = HeadTag(p) /\ Ft(M, f) = HeadTag(p)
    BY SealedBy
  <1>17. /\ Ft(N, Low) = Outer /\ Hd(N, High) = Outer
         /\ Hd(N, Low) = HeadTag(p) /\ Ft(N, f) = HeadTag(p)
    BY <1>8, <1>10, <1>14, <1>15, <1>16
  <1>18. Hd(N, f) = Rest(p) /\ Ft(N, High) = Rest(p)
    BY <1>8, <1>10, <1>11, <1>12
  <1>19. QED
    BY <1>9, <1>10, <1>17, <1>18, ThreeEdges

Rim0 == {0, PAGESIZE - WSIZE}
Shell == [a \in Rim0 |-> T(0, TRUE)]

(* The words of such a page. *)
LEMMA ThreeWords ==
    ASSUME NEW p
    PROVE  /\ (Rim0 \cup {Low - 8, Body(p) - 16}) \cup {Body(p) - 8, High - 16} = Words(Trio(p))
           /\ Low - 16 \in Rim0 /\ High - 8 \in Rim0
  <1>1. PICK f, F : f = Body(p) /\ F = Trio(p)
    OBVIOUS
  <1>2. /\ f \in Nat /\ 64 <= f /\ f <= 288
        /\ Low \in Nat /\ High \in Nat /\ Low = 16 /\ High = 4096
        /\ \A z \in F : z = Low \/ z = f \/ z = High
        /\ Low \in F /\ f \in F /\ High \in F
    BY <1>1, ThreeSpaced
  <1>3. PICK a, b, c, d, g, h : /\ a = Low - 16 /\ b = Low - 8 /\ c = f - 16 /\ d = f - 8
                                /\ g = High - 16 /\ h = High - 8
    OBVIOUS
  <1>4. /\ a \in Nat /\ b \in Nat /\ c \in Nat /\ d \in Nat /\ g \in Nat /\ h \in Nat
        /\ a + 16 = Low /\ b + 8 = Low /\ c + 16 = f /\ d + 8 = f /\ g + 16 = High /\ h + 8 = High
        /\ a = 0 /\ h = 4088
    BY <1>2, <1>3
  <1>5. \A x : x \in Rim0 <=> x = a \/ x = h
    BY <1>4 DEF Rim0
  <1>6. \A x : x \in Words(F) <=> x \in Nat /\ (x + 8 \in F \/ x + 16 \in F)
    BY DEF Words
  <1>7. ASSUME NEW x \in Nat
        PROVE  /\ x + 8 = Low <=> x = b
               /\ x + 8 = f <=> x = d
               /\ x + 8 = High <=> x = h
               /\ x + 16 = Low <=> x = a
               /\ x + 16 = f <=> x = c
               /\ x + 16 = High <=> x = g
    BY <1>2, <1>3
  <1>8. \A z : z \in F <=> z = Low \/ z = f \/ z = High
    BY <1>1 DEF Trio
  <1>9. \A x : x \in Words(F) => x = a \/ x = b \/ x = c \/ x = d \/ x = g \/ x = h
    BY <1>6, <1>7, <1>8
  <1>10. a \in Words(F) /\ b \in Words(F) /\ c \in Words(F) /\ d \in Words(F) /\ g \in Words(F) /\ h \in Words(F)
    BY <1>4, <1>6, <1>8
  <1>11. (Rim0 \cup {b, c}) \cup {d, g} = Words(F)
    BY <1>5, <1>9, <1>10
  <1>12. QED
    BY <1>1, <1>3, <1>5, <1>11

(* gfs_mem_page_create. *)
LEMMA FreshPage ==
    ASSUME NEW p
    PROVE  Blank(p, NewPage(HeadOf(p)))
  <1>1. PICK f, F, n : f = Body(p) /\ F = Trio(p) /\ n = HeadOf(p)
    OBVIOUS
  <1>2. /\ Spaced(F) /\ f \in Nat /\ 64 <= f /\ f <= 288 /\ n = f - 16 /\ n \in Nat
        /\ Low \in Nat /\ High \in Nat /\ Low = 16 /\ High = 4096
        /\ Low \in F /\ f \in F /\ High \in F
    BY <1>1, ThreeSpaced
  <1>3. PICK c \in Nat : c = High - f
    BY <1>2
  <1>4. Span(Low, n, f) /\ Span(f, c, High) /\ 16 + n = f /\ 4096 - 16 - n = c
    BY <1>2, <1>3 DEF Span
  <1>5. PICK L : L = PutBlk(Shell, Low, n, TRUE)
    OBVIOUS
  <1>7. PICK N : N = PutBlk(L, f, c, FALSE)
    OBVIOUS
  <1>8. N = NewPage(n)
    <2>1. NewPage(n) = PutBlk(PutBlk(Shell, 16, n, TRUE), 16 + n, 4096 - 16 - n, FALSE)
      BY DEF NewPage, Shell, Rim0
    <2>2. Low = 16
      BY DEF Low
    <2>3. L = PutBlk(Shell, 16, n, TRUE)
      BY <1>5, <2>2
    <2>4. 16 + n = f /\ 4096 - 16 - n = c
      BY <1>4
    <2>5. NewPage(n) = PutBlk(PutBlk(Shell, 16, n, TRUE), f, c, FALSE)
      <3>1. PICK x, y : x = 16 + n /\ y = 4096 - 16 - n
        OBVIOUS
      <3>2. x = f /\ y = c
        BY ONLY <2>4, <3>1
      <3>3. NewPage(n) = PutBlk(PutBlk(Shell, 16, n, TRUE), x, y, FALSE)
        BY ONLY <2>1, <3>1
      <3>4. QED
        BY ONLY <3>2, <3>3, ZenonT(40)
    <2>6. N = PutBlk(PutBlk(Shell, 16, n, TRUE), f, c, FALSE)
      BY ONLY <1>7, <2>3, ZenonT(40)
    <2>7. QED
      BY ONLY <2>5, <2>6
  <1>9. Outer \in Tag /\ HeadTag(p) \in Tag
    BY <1>1, <1>2 DEF Outer, HeadTag, T, Tag
  <1>20. HeadTag(p) = T(n, TRUE)
    BY <1>1 DEF HeadTag
  <1>10. T(c, FALSE) \in Tag
    BY DEF T, Tag
  <1>11. Shell \in [Rim0 -> Tag]
    BY <1>9 DEF Shell, Outer
  <1>12. Placed(L, Shell, F, Rim0, Low, f, HeadTag(p))
    <2>1. Ordered(F, Low, f) /\ Spaced(F) /\ n \in Nat
      BY <1>2 DEF Ordered
    <2>4. T(n, TRUE) \in Tag
      BY <1>9, <1>20
    <2>5. Span(Low, n, f)
      BY <1>4
    <2>2. Placed(L, Shell, F, Rim0, Low, f, T(n, TRUE))
      BY <1>5, <1>11, <2>1, <2>4, <2>5, PutEdges
    <2>3. QED
      BY <1>20, <2>2
  <1>13. PICK V : V = Rim0 \cup {Low - 8, f - 16}
    OBVIOUS
  <1>14. Placed(N, L, F, V, f, High, T(c, FALSE))
    <2>1. Ordered(F, f, High) /\ Spaced(F)
      BY <1>2 DEF Ordered
    <2>2. L \in [V -> Tag]
      BY <1>12, <1>13 DEF Placed
    <2>4. Span(f, c, High)
      BY <1>4
    <2>3. QED
      BY <1>7, <1>10, <2>1, <2>2, <2>4, PutEdges
  <1>15. V \cup {f - 8, High - 16} = Words(F) /\ Low - 16 \in Rim0 /\ High - 8 \in Rim0
    BY <1>1, <1>13, ThreeWords
  <1>16. CutBy(N, F)
    <2>1. N \in [V \cup {f - 8, High - 16} -> Tag]
      BY <1>14 DEF Placed
    <2>2. N \in [Words(F) -> Tag]
      BY <1>15, <2>1
    <2>3. QED
      BY <1>2, <2>2 DEF CutBy
  <1>17. Hd(N, f) = T(c, FALSE) /\ Ft(N, High) = T(c, FALSE)
    BY <1>14 DEF Placed
  <1>18. Hd(L, Low) = HeadTag(p) /\ Ft(L, f) = HeadTag(p)
    BY <1>12 DEF Placed
  <1>19. /\ Low - 8 \in V /\ Low - 16 \in V /\ High - 8 \in V /\ f - 16 \in V
    BY <1>13, <1>15
  <1>21. Low # f /\ High # f /\ Low # High
    BY <1>2
  <1>22. Hd(N, Low) = Hd(L, Low) /\ Hd(N, High) = Hd(L, High)
    BY <1>2, <1>14, <1>19, <1>21 DEF Placed
  <1>23. Ft(N, Low) = Ft(L, Low) /\ Ft(N, f) = Ft(L, f)
    BY <1>2, <1>14, <1>19, <1>21 DEF Placed
  <1>24. Hd(L, High) = Hd(Shell, High) /\ Ft(L, Low) = Ft(Shell, Low)
    BY <1>2, <1>12, <1>15, <1>21 DEF Placed
  <1>25. Hd(Shell, High) = Outer /\ Ft(Shell, Low) = Outer
    <2>1. \A x \in Rim0 : Shell[x] = Outer
      BY DEF Shell, Outer
    <2>2. QED
      BY <1>15, <2>1 DEF Hd, Ft
  <1>26. T(c, FALSE) = Rest(p)
    BY <1>1, <1>3 DEF Rest, High
  <1>27. QED
    <2>1. CutBy(N, Trio(p)) /\ Hd(N, Body(p)) = Rest(p) /\ Ft(N, High) = Rest(p)
      BY <1>1, <1>16, <1>17, <1>26
    <2>2. /\ Ft(N, Low) = Outer /\ Hd(N, High) = Outer
          /\ Hd(N, Low) = HeadTag(p) /\ Ft(N, Body(p)) = HeadTag(p)
      BY <1>1, <1>18, <1>22, <1>23, <1>24, <1>25
    <2>3. Blank(p, N)
      BY <2>1, <2>2, ThreeEdges
    <2>4. QED
      BY <1>1, <1>8, <2>3
------------------------------------------------------------------------------
(* Lists. *)

(* A sequence without its i-th element. *)
LEMMA RemoveAtPlaces ==
    ASSUME NEW X, NEW s \in Seq(X), NEW i \in 1 .. Len(s)
    PROVE  /\ RemoveAt(s, i) \in Seq(X)
           /\ Len(RemoveAt(s, i)) = Len(s) - 1
           /\ \A j \in 1 .. Len(s) - 1 :
                RemoveAt(s, i)[j] = IF j < i THEN s[j] ELSE s[j + 1]
  <1> DEFINE a == SubSeq(s, 1, i - 1)
             b == SubSeq(s, i + 1, Len(s))
  <1>0. Len(s) \in Nat /\ i \in Nat
    OBVIOUS
  <1>1. /\ a \in Seq(X) /\ Len(a) = i - 1
        /\ \A j \in 1 .. i - 1 : a[j] = s[j]
    BY <1>0
  <1>2. /\ b \in Seq(X) /\ Len(b) = Len(s) - i
        /\ \A j \in 1 .. Len(s) - i : b[j] = s[i + j]
    BY <1>0
  <1> HIDE DEF a, b
  <1>3. RemoveAt(s, i) = a \o b
    BY DEF RemoveAt, a, b
  <1>4. /\ a \o b \in Seq(X) /\ Len(a \o b) = Len(s) - 1
    <2>1. /\ a \o b \in Seq(X) /\ Len(a \o b) = Len(a) + Len(b)
      BY <1>1, <1>2, ConcatProperties
    <2>2. QED
      BY <1>0, <1>1, <1>2, <2>1
  <1>5. ASSUME NEW j \in 1 .. Len(s) - 1
        PROVE  (a \o b)[j] = IF j < i THEN s[j] ELSE s[j + 1]
    <2>1. CASE j < i
      BY <1>0, <1>1, <1>2, <2>1
    <2>2. CASE ~(j < i)
      <3>1. (a \o b)[j] = b[j - (i - 1)]
        BY <1>0, <1>1, <1>2, <2>2
      <3>2. j - (i - 1) \in 1 .. Len(s) - i /\ i + (j - (i - 1)) = j + 1
        BY <1>0, <2>2
      <3>3. QED
        BY <1>2, <2>2, <3>1, <3>2
    <2>3. QED
      BY <2>1, <2>2
  <1>6. QED
    BY <1>3, <1>4, <1>5

Pushed(u, t, c, X) ==
    /\ u \in Seq(X) /\ \A x : Contains(u, x) <=> x = c \/ Contains(t, x)
    /\ \A x : x # c /\ Single(t, x) => Single(u, x)
    /\ ~Contains(t, c) => Single(u, c)

(* What is put in front. *)
LEMMA InFront ==
    ASSUME NEW X, NEW c \in X, NEW t \in Seq(X), NEW u, u = <<c>> \o t
    PROVE  Pushed(u, t, c, X)
  <1>1. /\ u \in Seq(X) /\ Len(u) = Len(t) + 1 /\ Len(t) \in Nat
        /\ \A i \in 1 .. Len(t) + 1 : u[i] = IF i = 1 THEN c ELSE t[i - 1]
    <2>1. <<c>> \in Seq(X) /\ Len(<<c>>) = 1 /\ <<c>>[1] = c
      OBVIOUS
    <2>2. /\ u \in Seq(X) /\ Len(u) = 1 + Len(t)
          /\ \A i \in 1 .. 1 + Len(t) : u[i] = IF i =< 1 THEN <<c>>[i] ELSE t[i - 1]
      BY <2>1, ConcatProperties
    <2>3. Len(t) \in Nat
      OBVIOUS
    <2>4. QED
      BY <2>1, <2>2, <2>3
  <1>2. ASSUME NEW x PROVE Contains(u, x) <=> x = c \/ Contains(t, x)
    <2>1. ASSUME NEW i \in 1 .. Len(u), u[i] = x
          PROVE  x = c \/ \E k \in 1 .. Len(t) : t[k] = x
      <3>1. i = 1 \/ i - 1 \in 1 .. Len(t)
        BY <1>1
      <3>2. QED
        BY <1>1, <2>1, <3>1
    <2>2. u[1] = c /\ 1 \in 1 .. Len(u)
      BY <1>1
    <2>3. ASSUME NEW i \in 1 .. Len(t) PROVE i + 1 \in 1 .. Len(u) /\ u[i + 1] = t[i]
      BY <1>1
    <2>4. QED
      BY <2>1, <2>2, <2>3 DEF Contains
  <1>3. ASSUME NEW i \in 1 .. Len(u), u[i] # c PROVE i - 1 \in 1 .. Len(t) /\ u[i] = t[i - 1]
    BY <1>1, <1>3
  <1>4. ASSUME NEW x, x # c, Single(t, x) PROVE Single(u, x)
    <2>1. ASSUME NEW i \in 1 .. Len(u), NEW j \in 1 .. Len(u), u[i] = x, u[j] = x PROVE i = j
      <3>1. i - 1 \in 1 .. Len(t) /\ t[i - 1] = x /\ j - 1 \in 1 .. Len(t) /\ t[j - 1] = x
        BY <1>3, <1>4, <2>1
      <3>2. i - 1 = j - 1
        BY <1>4, <3>1 DEF Single
      <3>3. QED
        BY <1>1, <3>2
    <2>2. QED
      BY <2>1 DEF Single
  <1>5. ASSUME ~Contains(t, c), NEW i \in 1 .. Len(u), u[i] = c PROVE i = 1
    <2>1. i # 1 => i - 1 \in 1 .. Len(t) /\ t[i - 1] = c
      BY <1>1, <1>5
    <2>2. QED
      BY <1>5, <2>1 DEF Contains
  <1>6. \A x : x # c /\ Single(t, x) => Single(u, x)
    BY <1>4
  <1>7. ~Contains(t, c) => Single(u, c)
    BY <1>5 DEF Single
  <1>8. QED
    BY <1>1, <1>2, <1>6, <1>7 DEF Pushed

(* What is left when the first c is taken out. *)
LEMMA TakeOut ==
    ASSUME NEW X, NEW s \in Seq(X), NEW c, NEW t, t = RemoveFirst(s, c)
    PROVE  /\ t \in Seq(X)
           /\ \A x : x # c => (Contains(t, x) <=> Contains(s, x))
           /\ Contains(t, c) => Contains(s, c)
           /\ \A x : Single(s, x) => Single(t, x)
           /\ Single(s, c) => ~Contains(t, c)
  <1>0. Len(s) \in Nat
    OBVIOUS
  <1>1. CASE ~Contains(s, c)
    BY <1>1 DEF RemoveFirst, Contains
  <1>2. CASE Contains(s, c)
    <2> DEFINE I == {i \in 1 .. Len(s) : s[i] = c}
               m == Min(I)
    <2>1. t = RemoveAt(s, m) /\ I # {} /\ I \subseteq Nat
      BY <1>2 DEF RemoveFirst, SelectInSeq, Contains
    <2>2. m \in 1 .. Len(s) /\ s[m] = c
      <3>1. m \in I
        BY <2>1, MinOf
      <3>2. QED
        BY <3>1
    <2> HIDE DEF m
    <2>3. /\ t \in Seq(X) /\ Len(t) = Len(s) - 1
          /\ \A j \in 1 .. Len(s) - 1 : t[j] = IF j < m THEN s[j] ELSE s[j + 1]
      <3>1. /\ RemoveAt(s, m) \in Seq(X) /\ Len(RemoveAt(s, m)) = Len(s) - 1
            /\ \A j \in 1 .. Len(s) - 1 :
                 RemoveAt(s, m)[j] = IF j < m THEN s[j] ELSE s[j + 1]
        BY <2>2, RemoveAtPlaces
      <3>2. t = RemoveAt(s, m)
        BY <2>1
      <3>3. QED
        BY <3>1, <3>2
    <2> DEFINE at(j) == IF j < m THEN j ELSE j + 1
    <2>4. \A j \in 1 .. Len(t) : at(j) \in 1 .. Len(s) /\ at(j) # m /\ t[j] = s[at(j)]
      BY <1>0, <2>2, <2>3
    <2>5. \A i, j \in 1 .. Len(t) : at(i) = at(j) => i = j
      BY <1>0, <2>2, <2>3
    <2>6. ASSUME NEW i \in 1 .. Len(s), i # m
          PROVE  \E j \in 1 .. Len(t) : at(j) = i
      <3>1. CASE i < m
        <4>1. i \in 1 .. Len(t) /\ at(i) = i
          BY <1>0, <2>2, <2>3, <3>1
        <4>2. QED
          BY <4>1
      <3>2. CASE ~(i < m)
        <4>1. i - 1 \in 1 .. Len(t) /\ at(i - 1) = i
          BY <1>0, <2>2, <2>3, <2>6, <3>2
        <4>2. QED
          BY <4>1
      <3>3. QED
        BY <3>1, <3>2
    <2> HIDE DEF at
    <2>7. \A x : Contains(t, x) => Contains(s, x)
      BY <2>4 DEF Contains
    <2>8. ASSUME NEW x, x # c, Contains(s, x) PROVE Contains(t, x)
      <3>1. PICK i \in 1 .. Len(s) : s[i] = x
        BY <2>8 DEF Contains
      <3>2. i # m
        BY <2>2, <2>8, <3>1
      <3>3. PICK j \in 1 .. Len(t) : at(j) = i
        BY <2>6, <3>2
      <3>4. QED
        BY <2>4, <3>1, <3>3 DEF Contains
    <2>9. ASSUME NEW x, Single(s, x), NEW i \in 1 .. Len(t), NEW j \in 1 .. Len(t), t[i] = x, t[j] = x
          PROVE  i = j
      <3>1. at(i) = at(j)
        BY <2>4, <2>9 DEF Single
      <3>2. QED
        BY <2>5, <3>1
    <2>10. ASSUME Single(s, c), NEW i \in 1 .. Len(t), t[i] = c PROVE FALSE
      <3>1. at(i) \in 1 .. Len(s) /\ s[at(i)] = c /\ at(i) # m
        BY <2>4, <2>10
      <3>2. QED
        BY <2>2, <2>10, <3>1 DEF Single
    <2>11. Single(s, c) => ~Contains(t, c)
      BY <2>10 DEF Contains
    <2>12. \A x : Single(s, x) => Single(t, x)
      BY <2>9 DEF Single
    <2>13. QED
      BY <2>3, <2>7, <2>8, <2>11, <2>12
  <1>3. QED
    BY <1>1, <1>2

Without(N, B, b) ==
    /\ ListsOK(N)
    /\ \A i \in Class : \A x : x # b => (In(N, i, x) <=> In(B, i, x))
    /\ \A i \in Class : In(N, i, b) => In(B, i, b)
    /\ \A x : Once(B, x) => Once(N, x)
    /\ Once(B, b) => \A i \in Class : ~In(N, i, b)
With(N, B, c, b) ==
    /\ ListsOK(N)
    /\ \A i \in Class : \A x : In(N, i, x) <=> In(B, i, x) \/ (i = c /\ x = b)
    /\ \A x : x # b /\ Once(B, x) => Once(N, x)
    /\ (\A i \in Class : ~In(B, i, b)) => Once(N, b)

(* A block is taken out of its list ... *)
LEMMA UnlinkLists ==
    ASSUME NEW B, ListsOK(B), NEW b
    PROVE  Without(Unlink(B, b), B, b)
  <1>1. PICK N : N = Unlink(B, b)
    OBVIOUS
  <1>2. N = [i \in Class |-> RemoveFirst(B[i], b)]
    BY <1>1 DEF Unlink, Class
  <1>3. ASSUME NEW i \in Class
        PROVE  /\ N[i] \in Seq(Addr)
               /\ \A x : x # b => (Contains(N[i], x) <=> Contains(B[i], x))
               /\ Contains(N[i], b) => Contains(B[i], b)
               /\ \A x : Single(B[i], x) => Single(N[i], x)
               /\ Single(B[i], b) => ~Contains(N[i], b)
    <2>1. B[i] \in Seq(Addr)
      BY DEF ListsOK
    <2>2. PICK s, t : s = B[i] /\ t = RemoveFirst(s, b)
      OBVIOUS
    <2>3. s \in Seq(Addr)
      BY <2>1, <2>2
    <2>4. /\ t \in Seq(Addr)
          /\ \A x : x # b => (Contains(t, x) <=> Contains(s, x))
          /\ Contains(t, b) => Contains(s, b)
          /\ \A x : Single(s, x) => Single(t, x)
          /\ Single(s, b) => ~Contains(t, b)
      BY <2>2, <2>3, TakeOut
    <2>5. N[i] = t
      BY <1>2, <2>2
    <2>6. QED
      BY <2>2, <2>4, <2>5
  <1>4. ListsOK(N)
    BY <1>2, <1>3 DEF ListsOK
  <1>5. /\ \A i \in Class : \A x : x # b => (In(N, i, x) <=> In(B, i, x))
        /\ \A i \in Class : In(N, i, b) => In(B, i, b)
    BY <1>3 DEF In
  <1>6. \A i \in Class : \A x : In(N, i, x) => In(B, i, x)
    BY <1>5
  <1>7. ASSUME NEW x, Once(B, x) PROVE Once(N, x)
    <2>1. \A i \in Class : Single(N[i], x)
      BY <1>3, <1>7 DEF Once
    <2>2. \A i, j \in Class : In(N, i, x) /\ In(N, j, x) => i = j
      BY <1>6, <1>7 DEF Once
    <2>3. QED
      BY <2>1, <2>2 DEF Once
  <1>8. Once(B, b) => \A i \in Class : ~In(N, i, b)
    BY <1>3 DEF Once, In
  <1>9. QED
    BY <1>1, <1>4, <1>5, <1>7, <1>8 DEF Without

(* ... and put into one. *)
LEMMA InsertLists ==
    ASSUME NEW B, ListsOK(B), NEW c \in Class, NEW b \in Addr
    PROVE  With(Insert(B, c, b), B, c, b)
  <1>1. PICK N : N = Insert(B, c, b)
    OBVIOUS
  <1>2. PICK t, u : t = B[c] /\ u = <<b>> \o t
    OBVIOUS
  <1>3. DOMAIN B = Class /\ \A i \in Class : B[i] \in Seq(Addr)
    BY DEF ListsOK
  <1>4. t \in Seq(Addr)
    BY <1>2, <1>3
  <1>5. /\ u \in Seq(Addr) /\ \A x : Contains(u, x) <=> x = b \/ Contains(t, x)
        /\ \A x : x # b /\ Single(t, x) => Single(u, x)
        /\ ~Contains(t, b) => Single(u, b)
    <2>1. Pushed(u, t, b, Addr)
      BY <1>2, <1>4, InFront
    <2>2. QED
      BY <2>1 DEF Pushed
  <1>6. N = [B EXCEPT ![c] = u]
    BY <1>1, <1>2 DEF Insert
  <1>7. N[c] = u /\ \A i \in Class : i # c => N[i] = B[i]
    BY <1>3, <1>6
  <1>8. ListsOK(N)
    <2>1. N \in [Class -> Seq(Addr)]
      BY <1>5, <1>6 DEF ListsOK
    <2>2. QED
      BY <2>1 DEF ListsOK
  <1>9. ASSUME NEW i \in Class, NEW x PROVE In(N, i, x) <=> In(B, i, x) \/ (i = c /\ x = b)
    <2>1. CASE i = c
      BY <1>2, <1>5, <1>7, <2>1 DEF In
    <2>2. CASE i # c
      BY <1>7, <2>2 DEF In
    <2>3. QED
      BY <2>1, <2>2
  <1>10. ASSUME NEW x, x # b, Once(B, x) PROVE Once(N, x)
    <2>1. \A i \in Class : Single(B[i], x)
      BY <1>10 DEF Once
    <2>2. ASSUME NEW i \in Class PROVE Single(N[i], x)
      <3>1. CASE i = c
        BY <1>2, <1>5, <1>7, <1>10, <2>1, <3>1
      <3>2. CASE i # c
        BY <1>7, <2>1, <3>2
      <3>3. QED
        BY <3>1, <3>2
    <2>3. \A i, j \in Class : In(N, i, x) /\ In(N, j, x) => i = j
      BY <1>9, <1>10 DEF Once
    <2>4. QED
      BY <2>2, <2>3 DEF Once
  <1>11. ASSUME \A i \in Class : ~In(B, i, b) PROVE Once(N, b)
    <2>1. ~Contains(t, b)
      BY <1>2, <1>11 DEF In
    <2>2. ASSUME NEW i \in Class PROVE Single(N[i], b)
      <3>1. CASE i = c
        BY <1>5, <1>7, <2>1, <3>1
      <3>2. CASE i # c
        <4>1. N[i] = B[i] /\ ~Contains(B[i], b)
          BY <1>7, <1>11, <3>2 DEF In
        <4>2. QED
          BY <4>1 DEF Single, Contains
      <3>3. QED
        BY <3>1, <3>2
    <2>3. \A i, j \in Class : In(N, i, b) /\ In(N, j, b) => i = j
      BY <1>9, <1>11
    <2>4. QED
      BY <2>2, <2>3 DEF Once
  <1>12. QED
    BY <1>1, <1>8, <1>9, <1>10, <1>11 DEF With

(* The class of a size. *)
LEMMA IndexClass ==
    ASSUME NEW n
    PROVE  getindex(n) \in Class
  <1>1. PICK S : S = { i \in 1..7 : Limit[i] < n }
    OBVIOUS
  <1>2. S \subseteq 1..7 /\ IsFiniteSet(1..7) /\ Cardinality(1..7) = 7
    <2>1. PICK m \in Nat : m = 7
      OBVIOUS
    <2>2. IsFiniteSet(1..m) /\ Cardinality(1..m) = m
      BY FS_Interval
    <2>3. QED
      BY <1>1, <2>1, <2>2
  <1>3. IsFiniteSet(S) /\ Cardinality(S) <= 7 /\ Cardinality(S) \in Nat
    BY <1>2, FS_Subset, FS_CardinalityType
  <1>4. getindex(n) = Cardinality(S)
    BY <1>1 DEF getindex
  <1>5. QED
    BY <1>3, <1>4 DEF Class

------------------------------------------------------------------------------
(* Sums, and the lists with what their blocks weigh. *)

Sum(f, D, w) == IsFiniteSet(D) /\ f \in [D -> Int] /\ w \in Int /\ Bytes(f) = w

(* One more. *)
LEMMA SumMore ==
    ASSUME NEW D, NEW f, NEW w, Sum(f, D, w), NEW x, x \notin D, NEW n \in Int,
           NEW h \in [D \cup {x} -> Int], Agree(h, f, D), h[x] = n
    PROVE  Sum(h, D \cup {x}, w + n)
  <1>1. IsFiniteSet(D) /\ f \in [D -> Int] /\ w \in Int /\ Bytes(f) = w
    BY DEF Sum
  <1>2. PICK C : C = D \cup {x}
    OBVIOUS
  <1>3. IsFiniteSet(C) /\ x \in C /\ C \ {x} = D /\ h \in [C -> Int]
    BY <1>1, <1>2, FS_AddElement
  <1>4. f \in [C \ {x} -> Int] /\ Agree(h, f, C \ {x})
    BY <1>1, <1>3
  <1>5. Bytes(h) = h[x] + Bytes(f)
    BY <1>3, <1>4, BytesAdd
  <1>6. Bytes(h) = w + n /\ w + n \in Int
    BY <1>1, <1>5
  <1>7. QED
    BY <1>2, <1>3, <1>6 DEF Sum

(* One less. *)
LEMMA SumLess ==
    ASSUME NEW D, NEW f, NEW w, Sum(f, D, w), NEW x \in D, NEW n, f[x] = n,
           NEW h \in [D \ {x} -> Int], Agree(f, h, D \ {x})
    PROVE  Sum(h, D \ {x}, w - n)
  <1>1. IsFiniteSet(D) /\ f \in [D -> Int] /\ w \in Int /\ Bytes(f) = w
    BY DEF Sum
  <1>2. IsFiniteSet(D \ {x})
    BY <1>1, FS_RemoveElement
  <1>3. Bytes(f) = f[x] + Bytes(h)
    BY <1>1, BytesAdd
  <1>4. Bytes(h) \in Int
    BY <1>2, BytesInt
  <1>5. n \in Int
    BY <1>1
  <1>6. Bytes(h) = w - n /\ w - n \in Int
    BY <1>1, <1>3, <1>4, <1>5
  <1>7. QED
    BY <1>2, <1>6 DEF Sum

(* None. *)
LEMMA SumNone ==
    ASSUME NEW f \in [{} -> Int]
    PROVE  Sum(f, {}, 0)
  <1>1. Bytes(f) = 0
    BY BytesEmpty
  <1>2. QED
    BY <1>1, FS_EmptySet DEF Sum

Sizes(S, m) == [x \in S |-> SizeAt(m, x)]
Stock(B, S, m, w) == Listing(B, S, m) /\ S \subseteq Addr /\ Sum(Sizes(S, m), S, w)

(* There are only so many addresses. *)
LEMMA AddrFinite == IsFiniteSet(Addr)
  <1> HIDE DEF PAGESIZE
  <1>1. IsFiniteSet(Page)
    BY FS_Interval, MemAssumption DEF Page
  <1>2. IsFiniteSet(Offset)
    <2>1. \A a, b \in Int : IsFiniteSet(a..b)
      BY FS_Interval
    <2>2. PAGESIZE \in Int /\ 0 \in Int
      BY DEF PAGESIZE
    <2>3. QED
      BY <2>1, <2>2, Zenon DEF Offset
  <1>3. QED
    BY <1>1, <1>2, FS_Product DEF Addr

(* The sizes of the blocks of a list, one by one. *)
LEMMA SizesOf ==
    ASSUME NEW S, NEW m, \A x \in S : SizeAt(m, x) \in Int
    PROVE  Sizes(S, m) \in [S -> Int] /\ \A x \in S : Sizes(S, m)[x] = SizeAt(m, x)
  BY DEF Sizes

(* A sum is over integers. *)
LEMMA SizesInt ==
    ASSUME NEW S, NEW m, NEW w, Sum(Sizes(S, m), S, w)
    PROVE  \A x \in S : SizeAt(m, x) \in Int
  <1>1. PICK f : f = Sizes(S, m)
    OBVIOUS
  <1>2. f \in [S -> Int]
    BY <1>1 DEF Sum
  <1>3. \A x \in S : f[x] = SizeAt(m, x)
    BY <1>1 DEF Sizes
  <1>4. QED
    BY <1>2, <1>3

(* A block leaves the lists. *)
LEMMA HoldOut ==
    ASSUME NEW B, NEW S, NEW m, NEW w, Stock(B, S, m, w), NEW x \in S, NEW n, n = SizeAt(m, x)
    PROVE  Stock(Unlink(B, x), S \ {x}, m, w - n)
  <1>0. Listing(B, S, m) /\ S \subseteq Addr /\ Sum(Sizes(S, m), S, w)
    BY DEF Stock
  <1>1. /\ ListsOK(B) /\ (\A y \in Addr : Once(B, y)) /\ x \in Addr
        /\ \A y \in Addr : \A i \in Class : In(B, i, y) <=> y \in S /\ getindex(SizeAt(m, y)) = i
    BY <1>0 DEF Listing
  <1>2. PICK N : N = Unlink(B, x)
    OBVIOUS
  <1>3. /\ ListsOK(N)
        /\ \A i \in Class : \A y : y # x => (In(N, i, y) <=> In(B, i, y))
        /\ \A y : Once(B, y) => Once(N, y)
        /\ Once(B, x) => \A i \in Class : ~In(N, i, x)
    <2>1. Without(N, B, x)
      BY <1>1, <1>2, UnlinkLists
    <2>2. QED
      BY <2>1 DEF Without
  <1>4. ASSUME NEW y \in Addr, NEW i \in Class
        PROVE  In(N, i, y) <=> y \in S \ {x} /\ getindex(SizeAt(m, y)) = i
    <2>1. CASE y = x
      BY <1>1, <1>3, <2>1
    <2>2. CASE y # x
      <3>1. In(N, i, y) <=> In(B, i, y)
        BY <1>3, <2>2
      <3>2. In(B, i, y) <=> y \in S /\ getindex(SizeAt(m, y)) = i
        BY <1>1
      <3>3. y \in S <=> y \in S \ {x}
        BY <2>2
      <3>4. QED
        BY <3>1, <3>2, <3>3
    <2>3. QED
      BY <2>1, <2>2
  <1>5. Listing(N, S \ {x}, m)
    BY <1>1, <1>3, <1>4 DEF Listing
  <1>6. Sum(Sizes(S \ {x}, m), S \ {x}, w - n)
    <2>1. \A y \in S : SizeAt(m, y) \in Int
      BY <1>0, SizesInt
    <2>2. PICK f, h, R : f = Sizes(S, m) /\ R = S \ {x} /\ h = Sizes(R, m)
      OBVIOUS
    <2>3. \A y \in S : f[y] = SizeAt(m, y)
      BY <2>1, <2>2, SizesOf
    <2>4. h \in [R -> Int] /\ \A y \in R : h[y] = SizeAt(m, y)
      <3>1. \A y \in R : SizeAt(m, y) \in Int
        BY <2>1, <2>2
      <3>2. QED
        BY <2>2, <3>1, SizesOf
    <2>5. Agree(f, h, R) /\ f[x] = n
      BY <2>2, <2>3, <2>4 DEF Agree
    <2>6. Sum(f, S, w) /\ h \in [S \ {x} -> Int] /\ Agree(f, h, S \ {x})
      BY <1>0, <2>2, <2>4, <2>5
    <2>7. Sum(h, S \ {x}, w - n)
      BY <2>5, <2>6, SumLess
    <2>8. QED
      BY <2>2, <2>7
  <1>7. QED
    BY <1>0, <1>2, <1>5, <1>6 DEF Stock

(* A block joins the list of its class. *)
LEMMA HoldIn ==
    ASSUME NEW B, NEW S, NEW m, NEW w, Stock(B, S, m, w), NEW x \in Addr, x \notin S,
           NEW n \in Int, n = SizeAt(m, x)
    PROVE  Stock(Insert(B, getindex(n), x), S \cup {x}, m, w + n)
  <1>0. Listing(B, S, m) /\ S \subseteq Addr /\ Sum(Sizes(S, m), S, w)
    BY DEF Stock
  <1>1. /\ ListsOK(B) /\ \A y \in Addr : Once(B, y)
        /\ \A y \in Addr : \A i \in Class : In(B, i, y) <=> y \in S /\ getindex(SizeAt(m, y)) = i
    BY <1>0 DEF Listing
  <1>2. PICK N, c : c = getindex(n) /\ N = Insert(B, c, x)
    OBVIOUS
  <1>2a. c \in Class
    BY <1>2, IndexClass
  <1>3. /\ ListsOK(N)
        /\ \A i \in Class : \A y : In(N, i, y) <=> In(B, i, y) \/ (i = c /\ y = x)
        /\ \A y : y # x /\ Once(B, y) => Once(N, y)
        /\ (\A i \in Class : ~In(B, i, x)) => Once(N, x)
    <2>1. With(N, B, c, x)
      BY <1>1, <1>2, <1>2a, InsertLists
    <2>2. QED
      BY <2>1 DEF With
  <1>4. ASSUME NEW y \in Addr, NEW i \in Class
        PROVE  In(N, i, y) <=> y \in S \cup {x} /\ getindex(SizeAt(m, y)) = i
    <2>0. In(B, i, y) <=> y \in S /\ getindex(SizeAt(m, y)) = i
      BY <1>1
    <2>1. CASE y = x
      BY <1>2, <1>3, <2>0, <2>1
    <2>2. CASE y # x
      <3>1. In(N, i, y) <=> In(B, i, y)
        BY <1>3, <2>2
      <3>3. y \in S <=> y \in S \cup {x}
        BY <2>2
      <3>4. QED
        BY <2>0, <3>1, <3>3
    <2>3. QED
      BY <2>1, <2>2
  <1>4a. \A y \in Addr : Once(N, y)
    <2>1. \A i \in Class : ~In(B, i, x)
      BY <1>1
    <2>2. QED
      BY <1>1, <1>3, <2>1
  <1>5. Listing(N, S \cup {x}, m)
    BY <1>3, <1>4, <1>4a DEF Listing
  <1>6. Sum(Sizes(S \cup {x}, m), S \cup {x}, w + n)
    <2>1. \A y \in S : SizeAt(m, y) \in Int
      BY <1>0, SizesInt
    <2>2. PICK f, h, R : f = Sizes(S, m) /\ R = S \cup {x} /\ h = Sizes(R, m)
      OBVIOUS
    <2>3. \A y \in S : f[y] = SizeAt(m, y)
      BY <2>1, <2>2, SizesOf
    <2>4. h \in [R -> Int] /\ \A y \in R : h[y] = SizeAt(m, y)
      <3>1. \A y \in R : SizeAt(m, y) \in Int
        BY <2>1, <2>2
      <3>2. QED
        BY <2>2, <3>1, SizesOf
    <2>5. Agree(h, f, S) /\ h[x] = n
      BY <2>2, <2>3, <2>4 DEF Agree
    <2>6. Sum(f, S, w) /\ h \in [S \cup {x} -> Int]
      BY <1>0, <2>2, <2>4
    <2>7. Sum(h, S \cup {x}, w + n)
      BY <2>5, <2>6, SumMore
    <2>8. QED
      BY <2>2, <2>7
  <1>7. QED
    BY <1>0, <1>2, <1>5, <1>6 DEF Stock

(* Nothing about the listed blocks changes. *)
LEMMA HoldSame ==
    ASSUME NEW B, NEW S, NEW m, NEW k, NEW w, Stock(B, S, m, w),
           \A x \in S : SizeAt(k, x) = SizeAt(m, x)
    PROVE  Stock(B, S, k, w)
  <1>0. Listing(B, S, m) /\ S \subseteq Addr /\ Sum(Sizes(S, m), S, w)
    BY DEF Stock
  <1>1. Listing(B, S, k)
    <2>1. /\ ListsOK(B) /\ \A y \in Addr : Once(B, y)
          /\ \A y \in Addr : \A i \in Class : In(B, i, y) <=> y \in S /\ getindex(SizeAt(m, y)) = i
      BY <1>0 DEF Listing
    <2>2. \A y \in Addr : \A i \in Class : In(B, i, y) <=> y \in S /\ getindex(SizeAt(k, y)) = i
      BY <2>1
    <2>3. QED
      BY <2>1, <2>2 DEF Listing
  <1>2. Sizes(S, k) = Sizes(S, m)
    BY DEF Sizes
  <1>3. QED
    BY <1>0, <1>1, <1>2 DEF Stock

------------------------------------------------------------------------------
(* The blocks of all pages. *)

Used(P, m) ==
    { x \in Addr : /\ x[1] \in P /\ x[2] \in Starts(m[x[1]]) /\ x[2] # DSIZE
                   /\ Hd(m[x[1]], x[2]).used }
Pool(P, m, B, w) ==
    /\ P \subseteq Page /\ DOMAIN m = Page /\ GoodPages(P, m)
    /\ Stock(B, Free(P, m), m, w)

(* One page as part of the pool, and all the others. *)
View(P, m, p, M, E) ==
    /\ M = m[p] /\ Good(p, M, E)
    /\ \A b \in Offset :
         /\ <<p, b>> \in Free(P, m) <=> b \in E /\ ~Hd(M, b).used
         /\ <<p, b>> \in Used(P, m) <=> b \in E /\ b # DSIZE /\ b # PAGESIZE /\ Hd(M, b).used
         /\ SizeAt(m, <<p, b>>) = Hd(M, b).size
Else(P, m, k, p) ==
    \A x \in Addr : x[1] # p =>
        /\ x \in Free(P, k) <=> x \in Free(P, m)
        /\ x \in Used(P, k) <=> x \in Used(P, m)
        /\ SizeAt(k, x) = SizeAt(m, x)

(* The offsets of a page. *)
LEMMA Offsets ==
    ASSUME NEW z PROVE z \in Offset <=> z \in Nat /\ z <= 4096
  <1>1. z \in Offset <=> z \in Nat /\ z <= PAGESIZE
    <2> HIDE DEF PAGESIZE
    <2>1. PAGESIZE \in Nat
      BY DEF PAGESIZE
    <2>2. QED
      BY <2>1 DEF Offset
  <1>2. QED
    BY <1>1

(* The parts of an address. *)
LEMMA AddrParts ==
    ASSUME NEW x
    PROVE  /\ x \in Addr => x[1] \in Page /\ x[2] \in Offset /\ x = <<x[1], x[2]>>
           /\ \A p \in Page, b \in Offset : <<p, b>> \in Addr /\ <<p, b>>[1] = p /\ <<p, b>>[2] = b
  BY DEF Addr

(* A page of the pool. *)
LEMMA PageView ==
    ASSUME NEW P, P \subseteq Page, NEW m, GoodPages(P, m), NEW p \in P
    PROVE  View(P, m, p, m[p], Edges(m[p]))
  <1>1. PICK M, E : M = m[p] /\ E = Edges(M)
    OBVIOUS
  <1>2. Good(p, M, E)
    BY <1>1 DEF GoodPages
  <1>3. CutBy(M, E) /\ Sealed(p, M, E)
    BY <1>2, GoodPage
  <1>4. Starts(M) = E \ {PAGESIZE}
    BY <1>3, EdgesOf
  <1>5. Hd(M, PAGESIZE).used
    BY <1>3 DEF Sealed, Outer, T
  <1>6. ASSUME NEW b \in Offset
        PROVE  /\ <<p, b>> \in Free(P, m) <=> b \in E /\ ~Hd(M, b).used
               /\ <<p, b>> \in Used(P, m) <=> b \in E /\ b # DSIZE /\ b # PAGESIZE /\ Hd(M, b).used
               /\ SizeAt(m, <<p, b>>) = Hd(M, b).size
    <2>1. PICK x : x = <<p, b>>
      OBVIOUS
    <2>2. x \in Addr /\ x[1] = p /\ x[2] = b
      BY <2>1, AddrParts
    <2>3. x \in Free(P, m) <=> b \in Starts(M) /\ ~Hd(M, b).used
      BY <1>1, <2>2 DEF Free
    <2>4. x \in Used(P, m) <=> b \in Starts(M) /\ b # DSIZE /\ Hd(M, b).used
      BY <1>1, <2>2 DEF Used
    <2>5. b \in Starts(M) <=> b \in E /\ b # PAGESIZE
      BY <1>4
    <2>6. b \in Starts(M) /\ ~Hd(M, b).used <=> b \in E /\ ~Hd(M, b).used
      BY <1>5, <2>5
    <2>7. SizeAt(m, x) = Hd(M, b).size
      BY <1>1, <2>2 DEF SizeAt, Hd
    <2>8. QED
      BY <2>1, <2>3, <2>4, <2>5, <2>6, <2>7
  <1>7. View(P, m, p, M, E)
    BY <1>1, <1>2, <1>6 DEF View
  <1>8. QED
    BY <1>1, <1>7

Turned(P, m, k, p, N, F) ==
    DOMAIN k = Page /\ GoodPages(P, k) /\ View(P, k, p, N, F) /\ Else(P, m, k, p)

(* A page is replaced by another good one. *)
LEMMA OnePage ==
    ASSUME NEW P, P \subseteq Page, NEW m, DOMAIN m = Page, GoodPages(P, m), NEW p \in P,
           NEW N, NEW F, Good(p, N, F), NEW k, k = [m EXCEPT ![p] = N]
    PROVE  Turned(P, m, k, p, N, F)
  <1>1. DOMAIN k = Page /\ k[p] = N /\ \A q \in Page : q # p => k[q] = m[q]
    OBVIOUS
  <1>2. Edges(N) = F
    <2>1. CutBy(N, F)
      BY GoodPage
    <2>2. QED
      BY <2>1, EdgesOf
  <1>3. GoodPages(P, k)
    <2>1. ASSUME NEW q \in P PROVE Good(q, k[q], Edges(k[q]))
      <3>1. CASE q = p
        BY <1>1, <1>2, <3>1
      <3>2. CASE q # p
        <4>1. k[q] = m[q] /\ Good(q, m[q], Edges(m[q]))
          BY <1>1, <3>2 DEF GoodPages
        <4>2. QED
          BY <4>1
      <3>3. QED
        BY <3>1, <3>2
    <2>2. QED
      BY <2>1 DEF GoodPages
  <1>4. View(P, k, p, N, F)
    <2>1. View(P, k, p, k[p], Edges(k[p]))
      BY <1>3, PageView
    <2>2. QED
      BY <1>1, <1>2, <2>1
  <1>5. ASSUME NEW x \in Addr, x[1] # p
        PROVE  /\ x \in Free(P, k) <=> x \in Free(P, m)
               /\ x \in Used(P, k) <=> x \in Used(P, m)
               /\ SizeAt(k, x) = SizeAt(m, x)
    <2>1. x[1] \in Page
      BY AddrParts
    <2>2. k[x[1]] = m[x[1]]
      BY <1>1, <1>5, <2>1
    <2>3. QED
      BY <2>2 DEF Free, Used, SizeAt
  <1>6. QED
    BY <1>1, <1>3, <1>4, <1>5 DEF Else, Turned

Keep(P, m, k, D) == \A x \in D : x \in Used(P, k) /\ SizeAt(k, x) = SizeAt(m, x)

------------------------------------------------------------------------------
(* A block is taken. *)

Sits(P, m, x, p, b, M, E, e, c) ==
    /\ p \in P /\ p \in Page /\ b \in Offset /\ x = <<p, b>> /\ M = m[p] /\ View(P, m, p, M, E)
    /\ Adj(E, b, e) /\ Span(b, c, e) /\ c \in Nat /\ c = SizeAt(m, x)
    /\ b \in Nat /\ e \in Nat /\ 16 <= b /\ e <= 4096 /\ b + 48 <= e

(* Where a block of the pool is. *)
LEMMA BlockSits ==
    ASSUME NEW P, P \subseteq Page, NEW m, GoodPages(P, m), NEW x,
           x \in Free(P, m) \/ x \in Used(P, m)
    PROVE  \E p, b, M, E, e, c : Sits(P, m, x, p, b, M, E, e, c)
  <1>1. x \in Addr /\ x[1] \in P
    BY DEF Free, Used
  <1>2. PICK p, b : p = x[1] /\ b = x[2]
    OBVIOUS
  <1>3. p \in P /\ p \in Page /\ b \in Offset /\ x = <<p, b>>
    BY <1>1, <1>2, AddrParts
  <1>4. PICK M, E : M = m[p] /\ E = Edges(M)
    OBVIOUS
  <1>5. View(P, m, p, M, E)
    BY <1>3, <1>4, PageView
  <1>6. Good(p, M, E) /\ SizeAt(m, x) = Hd(M, b).size /\ b \in E
    BY <1>3, <1>5 DEF View
  <1>7. CutBy(M, E) /\ Sealed(p, M, E) /\ Spaced(E) /\ b \in Nat /\ b <= 4096
    <2>1. CutBy(M, E) /\ Sealed(p, M, E) /\ Spaced(E) /\ \A z \in E : z \in Nat /\ 16 <= z /\ z <= 4096
      BY <1>6, GoodPage
    <2>2. QED
      BY <1>6, <2>1
  <1>8. b # 4096
    <2>1. CASE x \in Used(P, m)
      BY <1>3, <1>5, <2>1 DEF View
    <2>2. CASE x \in Free(P, m)
      <3>1. ~Hd(M, b).used
        BY <1>3, <1>5, <2>2 DEF View
      <3>2. QED
        BY <1>6, <1>7, <3>1, FreeBehind
    <2>3. QED
      BY <2>1, <2>2
  <1>9. Lower(E, b)
    BY <1>6, <1>7, <1>8 DEF Lower
  <1>10. PICK e : Adj(E, b, e)
    BY <1>7, <1>9, Behind
  <1>11. Block(M, b, e)
    <2>1. b \in E /\ e \in E
      BY <1>10 DEF Adj
    <2>2. \A y, z \in E : Adj(E, y, z) => Block(M, y, z)
      BY <1>6, GoodPage
    <2>3. QED
      BY <1>10, <2>1, <2>2
  <1>12. /\ b \in Nat /\ e \in Nat /\ b + 48 <= e /\ 16 <= b /\ e <= 4096
         /\ Hd(M, b).size = e - b /\ e - b \in Nat
    BY <1>7, <1>10, <1>11, BlockWords
  <1>13. PICK c : c = SizeAt(m, x)
    OBVIOUS
  <1>14. c \in Nat /\ Span(b, c, e)
    BY <1>6, <1>12, <1>13 DEF Span
  <1>15. Sits(P, m, x, p, b, M, E, e, c)
    BY <1>3, <1>4, <1>5, <1>10, <1>12, <1>13, <1>14 DEF Sits
  <1>16. QED
    BY <1>15

Halved(p, N, M, E, b, o, e) ==
    /\ o \notin E /\ Good(p, N, E \cup {o})
    /\ Hd(N, b).used /\ Hd(N, b).size = o - b
    /\ ~Hd(N, o).used /\ Hd(N, o).size = e - o
    /\ \A d \in E : d # b => Hd(N, d) = Hd(M, d)
Claimed(p, N, M, E, b, e) ==
    /\ Good(p, N, E) /\ Hd(N, b).used /\ Hd(N, b).size = e - b
    /\ \A d \in E : d # b => Hd(N, d) = Hd(M, d)

(* The two blocks of a block that was split, as their headers say. *)
LEMMA SplitParts ==
    ASSUME NEW p, NEW N, NEW M, NEW E, NEW b, NEW o, NEW e, Split(p, N, M, E, b, o, e)
    PROVE  Halved(p, N, M, E, b, o, e)
  <1>1. Hd(N, b) = T(o - b, TRUE) /\ Hd(N, o) = T(e - o, FALSE)
    BY DEF Split
  <1>2. Hd(N, b).used /\ Hd(N, b).size = o - b
    BY <1>1 DEF T
  <1>3. ~Hd(N, o).used /\ Hd(N, o).size = e - o
    BY <1>1 DEF T
  <1>4. QED
    BY <1>2, <1>3 DEF Split, Halved

(* The block that was taken, as its header says. *)
LEMMA TookParts ==
    ASSUME NEW p, NEW N, NEW M, NEW E, NEW b, NEW e, Took(p, N, M, E, b, e)
    PROVE  Claimed(p, N, M, E, b, e)
  <1>1. Hd(N, b) = T(e - b, TRUE)
    BY DEF Took
  <1>2. Hd(N, b).used /\ Hd(N, b).size = e - b
    BY <1>1 DEF T
  <1>3. QED
    BY <1>2 DEF Took, Claimed

Gave(P, m, k, B, x, w, n, a) ==
    /\ Pool(P, k, B, w - n) /\ Keep(P, m, k, Used(P, m))
    /\ x \in Used(P, k) /\ SizeAt(k, x) = n /\ a <= n /\ n \in Nat

(* A part of it, the rest becomes free. *)
LEMMA TakePart ==
    ASSUME NEW P, NEW m, NEW B, NEW w, Pool(P, m, B, w), NEW x \in Free(P, m),
           NEW p, NEW b, NEW M, NEW E, NEW e, NEW c, Sits(P, m, x, p, b, M, E, e, c),
           NEW a \in Nat, 48 <= a, a + 48 <= c, NEW r \in Nat, r = c - a,
           NEW o, o = b + a, NEW N, Halved(p, N, M, E, b, o, e),
           NEW k, Turned(P, m, k, p, N, E \cup {o}),
           NEW y, y = <<p, o>>
    PROVE  Gave(P, m, k, Insert(Unlink(B, x), getindex(r), y), x, w, a, a)
  <1>1. /\ P \subseteq Page /\ DOMAIN m = Page /\ GoodPages(P, m) /\ Stock(B, Free(P, m), m, w)
    BY DEF Pool
  <1>2. /\ p \in P /\ p \in Page /\ b \in Offset /\ x = <<p, b>> /\ M = m[p] /\ View(P, m, p, M, E)
        /\ Adj(E, b, e) /\ Span(b, c, e) /\ c \in Nat /\ c = SizeAt(m, x)
        /\ b \in Nat /\ e \in Nat /\ 16 <= b /\ e <= 4096 /\ b + 48 <= e
    BY DEF Sits
  <1>3. /\ Good(p, M, E)
        /\ \A d \in Offset :
             /\ <<p, d>> \in Free(P, m) <=> d \in E /\ ~Hd(M, d).used
             /\ <<p, d>> \in Used(P, m) <=> d \in E /\ d # 16 /\ d # 4096 /\ Hd(M, d).used
             /\ SizeAt(m, <<p, d>>) = Hd(M, d).size
    BY <1>2 DEF View
  <1>4. ~Hd(M, b).used /\ b \in E
    BY <1>2, <1>3
  <1>5. o \in Nat /\ o <= e /\ o - b = a /\ e - o = r /\ b # o
    BY <1>2 DEF Span
  <1>6. /\ o \notin E /\ Good(p, N, E \cup {o})
        /\ Hd(N, b).used /\ Hd(N, b).size = o - b
        /\ ~Hd(N, o).used /\ Hd(N, o).size = e - o
        /\ \A d \in E : d # b => Hd(N, d) = Hd(M, d)
    BY DEF Halved
  <1>7. o \notin E /\ \A d \in E : d # b => Hd(N, d) = Hd(M, d)
    BY <1>6
  <1>8. PICK F : F = E \cup {o}
    OBVIOUS
  <1>9. Turned(P, m, k, p, N, F)
    BY <1>8
  <1>10. /\ DOMAIN k = Page /\ GoodPages(P, k)
         /\ \A d \in Offset :
              /\ <<p, d>> \in Free(P, k) <=> d \in F /\ ~Hd(N, d).used
              /\ <<p, d>> \in Used(P, k) <=> d \in F /\ d # 16 /\ d # 4096 /\ Hd(N, d).used
              /\ SizeAt(k, <<p, d>>) = Hd(N, d).size
    BY <1>9 DEF Turned, View
  <1>11. \A z \in Addr : z[1] # p =>
             /\ z \in Free(P, k) <=> z \in Free(P, m)
             /\ z \in Used(P, k) <=> z \in Used(P, m)
             /\ SizeAt(k, z) = SizeAt(m, z)
    BY <1>9 DEF Turned, Else
  <1>12. /\ Hd(N, b).used /\ Hd(N, b).size = a
         /\ ~Hd(N, o).used /\ Hd(N, o).size = r
    BY <1>5, <1>6
  <1>13. o \in Offset /\ y \in Addr /\ y # x /\ x \in Addr /\ x[1] = p /\ x[2] = b /\ y[1] = p /\ y[2] = o
    <2>1. o \in Nat /\ o <= 4096
      BY <1>2, <1>5
    <2>2. o \in Offset
      BY <2>1, Offsets
    <2>3. y \in Addr /\ x \in Addr /\ x[1] = p /\ x[2] = b /\ y[1] = p /\ y[2] = o
      BY <1>2, <2>2, AddrParts
    <2>4. QED
      BY <1>5, <2>2, <2>3
  <1>14. ASSUME NEW z \in Addr
         PROVE  /\ z \in Free(P, k) <=> z = y \/ (z \in Free(P, m) /\ z # x)
                /\ z \in Used(P, m) => z \in Used(P, k)
                /\ z # x /\ z # y => SizeAt(k, z) = SizeAt(m, z) \/ z \notin Free(P, m) \cup Used(P, m)
    <2>1. CASE z[1] # p
      BY <1>11, <1>13, <2>1
    <2>2. CASE z[1] = p
      <3>1. PICK d \in Offset : z = <<p, d>>
        BY <2>2, AddrParts
      <3>2. CASE d = o
        BY <1>3, <1>7, <1>8, <1>10, <1>12, <1>13, <3>1, <3>2
      <3>3. CASE d = b
        <4>1. z = x /\ z # y
          BY <1>2, <1>13, <3>1, <3>3
        <4>2. z \notin Free(P, k) /\ z \notin Used(P, m)
          BY <1>3, <1>4, <1>10, <1>12, <3>1, <3>3
        <4>3. QED
          BY <4>1, <4>2
      <3>4. CASE d # o /\ d # b
        <4>1. z # x /\ z # y
          BY <1>2, <1>13, <3>1, <3>4
        <4>2. d \in F <=> d \in E
          BY <1>8, <3>4
        <4>3. d \in E => Hd(N, d) = Hd(M, d)
          BY <1>7, <3>4
        <4>4. QED
          BY <1>3, <1>10, <3>1, <4>1, <4>2, <4>3
      <3>5. QED
        BY <3>2, <3>3, <3>4
    <2>3. QED
      BY <2>1, <2>2
  <1>15. Free(P, m) \subseteq Addr /\ Free(P, k) \subseteq Addr /\ Used(P, m) \subseteq Addr
    BY DEF Free, Used
  <1>16. Free(P, k) = (Free(P, m) \ {x}) \cup {y}
    BY <1>13, <1>14, <1>15
  <1>17. y \notin Free(P, m) /\ y \notin Used(P, m) /\ x \notin Used(P, m) /\ x \in Used(P, k)
    <2>1. y \notin Free(P, m) /\ y \notin Used(P, m)
      BY <1>3, <1>7, <1>13
    <2>2. x \notin Used(P, m)
      BY <1>2, <1>3, <1>4
    <2>3. b \in F /\ b # 16 /\ b # 4096
      <3>1. CutBy(M, E) /\ Sealed(p, M, E)
        BY <1>3, GoodPage
      <3>2. QED
        BY <1>4, <1>8, <3>1, FreeBehind
    <2>4. x \in Used(P, k)
      BY <1>2, <1>10, <1>12, <2>3
    <2>5. QED
      BY <2>1, <2>2, <2>4
  <1>18. Keep(P, m, k, Used(P, m))
    BY <1>14, <1>15, <1>17 DEF Keep
  <1>19. SizeAt(k, x) = a /\ SizeAt(k, y) = r
    BY <1>2, <1>10, <1>12, <1>13
  <1>20. PICK S, A : S = Free(P, m) /\ A = S \ {x}
    OBVIOUS
  <1>21. Stock(Unlink(B, x), A, m, w - c)
    BY <1>1, <1>2, <1>20, HoldOut
  <1>22. Stock(Unlink(B, x), A, k, w - c)
    <2>1. \A z \in A : SizeAt(k, z) = SizeAt(m, z)
      BY <1>14, <1>15, <1>17, <1>20
    <2>2. QED
      BY <1>21, <2>1, HoldSame
  <1>23. Stock(Insert(Unlink(B, x), getindex(r), y), A \cup {y}, k, (w - c) + r)
    <2>1. y \notin A
      BY <1>17, <1>20
    <2>2. r \in Int
      OBVIOUS
    <2>3. QED
      BY <1>13, <1>19, <1>22, <2>1, <2>2, HoldIn
  <1>24. (w - c) + r = w - a
    <2>1. w \in Int
      BY <1>1 DEF Stock, Sum
    <2>2. QED
      BY <1>2, <2>1
  <1>25. Pool(P, k, Insert(Unlink(B, x), getindex(r), y), w - a)
    BY <1>1, <1>10, <1>16, <1>20, <1>23, <1>24 DEF Pool
  <1>26. QED
    BY <1>17, <1>18, <1>19, <1>25 DEF Gave

(* All of it. *)
LEMMA TakeWhole ==
    ASSUME NEW P, NEW m, NEW B, NEW w, Pool(P, m, B, w), NEW x \in Free(P, m),
           NEW p, NEW b, NEW M, NEW E, NEW e, NEW c, Sits(P, m, x, p, b, M, E, e, c),
           NEW a \in Nat, a <= c,
           NEW N, Claimed(p, N, M, E, b, e), NEW k, Turned(P, m, k, p, N, E)
    PROVE  Gave(P, m, k, Unlink(B, x), x, w, c, a)
  <1>1. /\ P \subseteq Page /\ DOMAIN m = Page /\ GoodPages(P, m) /\ Stock(B, Free(P, m), m, w)
    BY DEF Pool
  <1>2. /\ p \in P /\ p \in Page /\ b \in Offset /\ x = <<p, b>> /\ M = m[p] /\ View(P, m, p, M, E)
        /\ Adj(E, b, e) /\ Span(b, c, e) /\ c \in Nat /\ c = SizeAt(m, x)
        /\ b \in Nat /\ e \in Nat /\ 16 <= b /\ e <= 4096 /\ b + 48 <= e
    BY DEF Sits
  <1>3. /\ Good(p, M, E)
        /\ \A d \in Offset :
             /\ <<p, d>> \in Free(P, m) <=> d \in E /\ ~Hd(M, d).used
             /\ <<p, d>> \in Used(P, m) <=> d \in E /\ d # 16 /\ d # 4096 /\ Hd(M, d).used
             /\ SizeAt(m, <<p, d>>) = Hd(M, d).size
    BY <1>2 DEF View
  <1>4. ~Hd(M, b).used /\ b \in E
    BY <1>2, <1>3
  <1>5. e - b = c
    BY <1>2 DEF Span
  <1>6. /\ Good(p, N, E) /\ Hd(N, b).used /\ Hd(N, b).size = e - b
        /\ \A d \in E : d # b => Hd(N, d) = Hd(M, d)
    BY DEF Claimed
  <1>7. \A d \in E : d # b => Hd(N, d) = Hd(M, d)
    BY <1>6
  <1>10. /\ DOMAIN k = Page /\ GoodPages(P, k)
         /\ \A d \in Offset :
              /\ <<p, d>> \in Free(P, k) <=> d \in E /\ ~Hd(N, d).used
              /\ <<p, d>> \in Used(P, k) <=> d \in E /\ d # 16 /\ d # 4096 /\ Hd(N, d).used
              /\ SizeAt(k, <<p, d>>) = Hd(N, d).size
    BY DEF Turned, View
  <1>11. \A z \in Addr : z[1] # p =>
             /\ z \in Free(P, k) <=> z \in Free(P, m)
             /\ z \in Used(P, k) <=> z \in Used(P, m)
             /\ SizeAt(k, z) = SizeAt(m, z)
    BY DEF Turned, Else
  <1>12. Hd(N, b).used /\ Hd(N, b).size = c
    BY <1>5, <1>6
  <1>13. x \in Addr /\ x[1] = p /\ x[2] = b
    BY <1>2, AddrParts
  <1>14. ASSUME NEW z \in Addr
         PROVE  /\ z \in Free(P, k) <=> z \in Free(P, m) /\ z # x
                /\ z \in Used(P, m) => z \in Used(P, k)
                /\ z # x => SizeAt(k, z) = SizeAt(m, z) \/ z \notin Free(P, m) \cup Used(P, m)
    <2>1. CASE z[1] # p
      BY <1>11, <1>13, <2>1
    <2>2. CASE z[1] = p
      <3>1. PICK d \in Offset : z = <<p, d>>
        BY <2>2, AddrParts
      <3>3. CASE d = b
        <4>1. z = x
          BY <1>2, <3>1, <3>3
        <4>2. z \notin Free(P, k) /\ z \notin Used(P, m)
          BY <1>3, <1>4, <1>10, <1>12, <3>1, <3>3
        <4>3. QED
          BY <4>1, <4>2
      <3>4. CASE d # b
        <4>1. z # x
          BY <1>2, <3>1, <3>4
        <4>3. d \in E => Hd(N, d) = Hd(M, d)
          BY <1>7, <3>4
        <4>4. QED
          BY <1>3, <1>10, <3>1, <4>1, <4>3
      <3>5. QED
        BY <3>3, <3>4
    <2>3. QED
      BY <2>1, <2>2
  <1>15. Free(P, m) \subseteq Addr /\ Free(P, k) \subseteq Addr /\ Used(P, m) \subseteq Addr
    BY DEF Free, Used
  <1>16. Free(P, k) = Free(P, m) \ {x}
    BY <1>13, <1>14, <1>15
  <1>17. x \notin Used(P, m) /\ x \in Used(P, k)
    <2>2. x \notin Used(P, m)
      BY <1>2, <1>3, <1>4
    <2>3. b \in E /\ b # 16 /\ b # 4096
      <3>1. CutBy(M, E) /\ Sealed(p, M, E)
        BY <1>3, GoodPage
      <3>2. QED
        BY <1>4, <3>1, FreeBehind
    <2>4. x \in Used(P, k)
      BY <1>2, <1>10, <1>12, <2>3
    <2>5. QED
      BY <2>2, <2>4
  <1>18. Keep(P, m, k, Used(P, m))
    BY <1>14, <1>15, <1>17 DEF Keep
  <1>19. SizeAt(k, x) = c
    BY <1>2, <1>10, <1>12
  <1>20. PICK S, A : S = Free(P, m) /\ A = S \ {x}
    OBVIOUS
  <1>21. Stock(Unlink(B, x), A, m, w - c)
    BY <1>1, <1>2, <1>20, HoldOut
  <1>22. Stock(Unlink(B, x), A, k, w - c)
    <2>1. \A z \in A : SizeAt(k, z) = SizeAt(m, z)
      BY <1>14, <1>15, <1>17, <1>20
    <2>2. QED
      BY <1>21, <2>1, HoldSame
  <1>25. Pool(P, k, Unlink(B, x), w - c)
    BY <1>1, <1>10, <1>16, <1>20, <1>22 DEF Pool
  <1>26. QED
    BY <1>2, <1>17, <1>18, <1>19, <1>25 DEF Gave

(* gfs_mem_place. *)
LEMMA TakeBlock ==
    ASSUME NEW P, NEW m, NEW B, NEW w, Pool(P, m, B, w), NEW x \in Free(P, m),
           NEW a \in Nat, 48 <= a, a <= SizeAt(m, x), NEW r, r = Place(m, B, x, a)
    PROVE  Gave(P, m, r.m, r.B, x, w, r.took, a)
  <1>1. P \subseteq Page /\ DOMAIN m = Page /\ GoodPages(P, m)
    BY DEF Pool
  <1>2. PICK p, b, M, E, e, c : Sits(P, m, x, p, b, M, E, e, c)
    BY <1>1, BlockSits
  <1>3. x[1] = p /\ x[2] = b /\ M = m[p] /\ c = SizeAt(m, x) /\ c \in Nat
    BY <1>2, AddrParts DEF Sits
  <1>3a. /\ Good(p, M, E) /\ ~Hd(M, b).used
         /\ b \in Nat /\ e \in Nat /\ 16 <= b /\ e <= 4096
    BY <1>2 DEF Sits, View
  <1>3b. Adj(E, b, e) /\ Span(b, c, e)
    BY <1>2 DEF Sits
  <1>4. CASE a + 48 <= c
    <2>1. PICK L, N, o, s, y, k : /\ L = PutBlk(M, b, a, TRUE) /\ o = b + a /\ s = c - a
                                  /\ N = PutBlk(L, o, s, FALSE) /\ k = [m EXCEPT ![p] = N]
                                  /\ y = <<p, o>>
      OBVIOUS
    <2>2. s \in Nat /\ c - a >= 48
      BY <1>3, <1>4, <2>1
    <2>2a. Two(b, o, e) /\ Span(b, a, o) /\ Span(o, s, e)
      <3>1. o = b + a /\ s = c - a
        BY <2>1
      <3>2. QED
        BY <1>3, <1>3a, <1>3b, <1>4, <3>1 DEF Span, Two
    <2>2b. Split(p, N, M, E, b, o, e)
      <3>1. L = PutBlk(M, b, a, TRUE) /\ N = PutBlk(L, o, s, FALSE)
        BY <2>1
      <3>2. Good(p, M, E) /\ ~Hd(M, b).used
        BY <1>3a
      <3>3. s \in Nat
        BY <2>2
      <3>4. QED
        BY <1>3b, <2>2a, <3>1, <3>2, <3>3, SplitPage
    <2>3. Gave(P, m, k, Insert(Unlink(B, x), getindex(s), y), x, w, a, a)
      <3>1. s \in Nat /\ s = c - a /\ o = b + a /\ y = <<p, o>>
        BY <2>1, <2>2
      <3>2. Halved(p, N, M, E, b, o, e)
        BY <2>2b, SplitParts
      <3>3. Turned(P, m, k, p, N, E \cup {o})
        <4>1. PICK F : F = E \cup {o}
          OBVIOUS
        <4>2. Good(p, N, F) /\ p \in P
          BY <1>2, <3>2, <4>1 DEF Halved, Sits
        <4>3. k = [m EXCEPT ![p] = N]
          BY <2>1
        <4>4. Turned(P, m, k, p, N, F)
          BY <1>1, <4>2, <4>3, OnePage
        <4>5. QED
          BY <4>1, <4>4
      <3>4. QED
        BY <1>2, <1>4, <3>1, <3>2, <3>3, TakePart
    <2>4. r = [m |-> k, B |-> Insert(Unlink(B, x), getindex(s), y), took |-> a]
      BY <1>3, <2>1, <2>2 DEF Place
    <2>5. QED
      BY <2>3, <2>4
  <1>5. CASE ~(a + 48 <= c)
    <2>1. PICK N, k : N = PutBlk(M, b, c, TRUE) /\ k = [m EXCEPT ![p] = N]
      OBVIOUS
    <2>2. a <= c /\ ~(c - a >= 48)
      BY <1>3, <1>5
    <2>2b. Took(p, N, M, E, b, e)
      <3>1. N = PutBlk(M, b, c, TRUE)
        BY <2>1
      <3>2. Good(p, M, E) /\ ~Hd(M, b).used
        BY <1>3a
      <3>3. c \in Nat
        BY <1>3
      <3>4. QED
        BY <1>3b, <3>1, <3>2, <3>3, TakePage
    <2>3. Gave(P, m, k, Unlink(B, x), x, w, c, a)
      <3>1. k = [m EXCEPT ![p] = N] /\ a <= c
        BY <2>1, <2>2
      <3>2. Claimed(p, N, M, E, b, e)
        BY <2>2b, TookParts
      <3>3. Turned(P, m, k, p, N, E)
        <4>1. Good(p, N, E) /\ p \in P
          BY <1>2, <3>2 DEF Claimed, Sits
        <4>2. QED
          BY <1>1, <3>1, <4>1, OnePage
      <3>4. QED
        BY <1>2, <2>2, <3>2, <3>3, TakeWhole
    <2>4. r = [m |-> k, B |-> Unlink(B, x), took |-> c]
      <3>1. [m EXCEPT ![p] = PutBlk(@, b, c, TRUE)] = k
        BY <1>3, <2>1
      <3>2. QED
        BY <1>3, <2>1, <2>2, <3>1 DEF Place
    <2>5. QED
      BY <2>3, <2>4
  <1>6. QED
    BY <1>4, <1>5

------------------------------------------------------------------------------
(* A block is given back. *)

Between(E, at, en, b, e) ==
    \A d \in E : (at < d /\ d < en) <=> ((d = b /\ at # b) \/ (d = e /\ e # en))
Merge(M, pv, b, e, at, en) ==
    /\ (at = pv /\ ~Hd(M, pv).used) \/ (at = b /\ Hd(M, pv).used)
    /\ (e # en /\ ~Hd(M, e).used) \/ (e = en /\ Hd(M, e).used)
Sides(pv, b, e, at, en) ==
    /\ pv \in Nat /\ b \in Nat /\ e \in Nat /\ at \in Nat /\ en \in Nat
    /\ pv < b /\ b < e /\ at <= b /\ e <= en /\ (at = pv \/ at = b)

(* What lies inside the block that a free one and its neighbours make. *)
LEMMA Inside ==
    ASSUME NEW p, NEW M, NEW E, Good(p, M, E), NEW pv, NEW b, NEW e, NEW at, NEW en,
           Surround(M, E, pv, b, e, at, en), 16 < b
    PROVE  Between(E, at, en, b, e) /\ Merge(M, pv, b, e, at, en) /\ Sides(pv, b, e, at, en)
  <1>1. /\ pv \in Nat /\ b \in Nat /\ e \in Nat /\ at \in Nat /\ en \in Nat
        /\ pv < b /\ b < e /\ at <= b /\ e <= en /\ at \in E /\ en \in E
    BY Reach
  <1>2. \A z \in E : z \in Nat
    BY GoodPage
  <1>3. /\ b \in E /\ e \in E /\ pv \in E
        /\ \A d \in E : (d <= pv \/ b <= d) /\ (d <= b \/ e <= d)
    BY DEF Surround, Adj
  <1>4. \/ at = pv /\ ~Hd(M, pv).used
        \/ at = b /\ Hd(M, pv).used
    BY DEF Surround
  <1>5. \/ e < en /\ (\A d \in E : d <= e \/ en <= d) /\ ~Hd(M, e).used
        \/ en = e /\ Hd(M, e).used
    BY DEF Surround, Adj
  <1>6. ASSUME NEW d \in E PROVE (at < d /\ d < en) <=> ((d = b /\ at # b) \/ (d = e /\ e # en))
    <2>1. d \in Nat /\ (d <= pv \/ b <= d) /\ (d <= b \/ e <= d)
      BY <1>2, <1>3
    <2>2. at = pv \/ at = b
      BY <1>4
    <2>3. (e < en /\ (d <= e \/ en <= d)) \/ en = e
      BY <1>5
    <2>4. QED
      BY <1>1, <2>1, <2>2, <2>3
  <1>7. (e # en /\ ~Hd(M, e).used) \/ (e = en /\ Hd(M, e).used)
    <2>1. e < en => e # en
      BY <1>1
    <2>2. QED
      BY <1>5, <2>1
  <1>8. Sides(pv, b, e, at, en)
    <2>1. at = pv \/ at = b
      BY <1>4
    <2>2. QED
      BY <1>1, <2>1 DEF Sides
  <1>9. Merge(M, pv, b, e, at, en)
    BY <1>4, <1>7 DEF Merge
  <1>10. Between(E, at, en, b, e)
    BY <1>6 DEF Between
  <1>11. QED
    BY <1>8, <1>9, <1>10

Grown(p, N, M, F, at, en) ==
    /\ Good(p, N, F) /\ ~Hd(N, at).used /\ Hd(N, at).size = en - at
    /\ \A d \in F : d # at => Hd(N, d) = Hd(M, d)

(* It, as its header says. *)
LEMMA JoinedParts ==
    ASSUME NEW p, NEW N, NEW M, NEW F, NEW at, NEW en, Joined(p, N, M, F, at, en)
    PROVE  Grown(p, N, M, F, at, en)
  <1>1. Hd(N, at) = T(en - at, FALSE)
    BY DEF Joined
  <1>2. ~Hd(N, at).used /\ Hd(N, at).size = en - at
    BY <1>1 DEF T
  <1>3. QED
    BY <1>2 DEF Joined, Grown

Regained(P, m, k, p, b, e, pv, at, en) ==
    /\ GoodPages(P, k) /\ DOMAIN k = Page
    /\ Free(P, k) = ((Free(P, m) \ {<<p, e>>}) \ {<<p, pv>>}) \cup {<<p, at>>}
    /\ <<p, at>> \in Addr /\ SizeAt(k, <<p, at>>) = en - at
    /\ <<p, at>> \notin (Free(P, m) \ {<<p, e>>}) \ {<<p, pv>>}
    /\ \A z \in (Free(P, m) \ {<<p, e>>}) \ {<<p, pv>>} : SizeAt(k, z) = SizeAt(m, z)
    /\ Keep(P, m, k, Used(P, m) \ {<<p, b>>})

(* The free and the used blocks of the pool after that. *)
LEMMA JoinSets ==
    ASSUME NEW P, NEW m, NEW p, p \in Page, NEW M, NEW E, View(P, m, p, M, E),
           NEW pv, NEW b, NEW e, NEW at, NEW en,
           Between(E, at, en, b, e), Merge(M, pv, b, e, at, en), Sides(pv, b, e, at, en),
           en \in E, b \in E, at \in E, Hd(M, b).used,
           NEW N, NEW F, F = Rim(E, at, en), Grown(p, N, M, F, at, en),
           NEW k, Turned(P, m, k, p, N, F)
    PROVE  Regained(P, m, k, p, b, e, pv, at, en)
  <1>1. /\ Good(p, M, E)
        /\ \A d \in Offset :
             /\ <<p, d>> \in Free(P, m) <=> d \in E /\ ~Hd(M, d).used
             /\ <<p, d>> \in Used(P, m) <=> d \in E /\ d # 16 /\ d # 4096 /\ Hd(M, d).used
             /\ SizeAt(m, <<p, d>>) = Hd(M, d).size
    BY DEF View
  <1>2. /\ DOMAIN k = Page /\ GoodPages(P, k)
        /\ \A d \in Offset :
             /\ <<p, d>> \in Free(P, k) <=> d \in F /\ ~Hd(N, d).used
             /\ <<p, d>> \in Used(P, k) <=> d \in F /\ d # 16 /\ d # 4096 /\ Hd(N, d).used
             /\ SizeAt(k, <<p, d>>) = Hd(N, d).size
    BY DEF Turned, View
  <1>3. \A z \in Addr : z[1] # p =>
             /\ z \in Free(P, k) <=> z \in Free(P, m)
             /\ z \in Used(P, k) <=> z \in Used(P, m)
             /\ SizeAt(k, z) = SizeAt(m, z)
    BY DEF Turned, Else
  <1>4. /\ ~Hd(N, at).used /\ Hd(N, at).size = en - at
        /\ \A d \in F : d # at => Hd(N, d) = Hd(M, d)
    BY DEF Grown
  <1>5. /\ (at = pv /\ ~Hd(M, pv).used) \/ (at = b /\ Hd(M, pv).used)
        /\ (e # en /\ ~Hd(M, e).used) \/ (e = en /\ Hd(M, e).used)
    BY DEF Merge
  <1>6. \A z \in E : z \in Nat /\ z <= 4096
    BY <1>1, GoodPage
  <1>7. ASSUME NEW d \in E PROVE d \in F <=> ~((d = b /\ at # b) \/ (d = e /\ e # en))
    <2>1. d \in F <=> d <= at \/ en <= d
      BY DEF Rim
    <2>2. (at < d /\ d < en) <=> ((d = b /\ at # b) \/ (d = e /\ e # en))
      BY DEF Between
    <2>3. d \in Nat /\ at \in Nat /\ en \in Nat
      BY <1>6 DEF Sides
    <2>4. d <= at \/ en <= d <=> ~(at < d /\ d < en)
      BY <2>3
    <2>5. QED
      BY <2>1, <2>2, <2>4
  <1>8. F \subseteq E /\ at \in F
    <2>1. F \subseteq E
      BY DEF Rim
    <2>2. at # e
      BY DEF Sides
    <2>3. at = b \/ at # b
      OBVIOUS
    <2>4. QED
      BY <1>7, <2>1, <2>2
  <1>9. ASSUME NEW d \in Offset
        PROVE  /\ <<p, d>> \in Free(P, k) <=> d = at \/ (<<p, d>> \in Free(P, m) /\ d # e /\ d # pv)
               /\ d # b /\ <<p, d>> \in Used(P, m) => <<p, d>> \in Used(P, k)
               /\ d # b /\ d # at /\ d # e /\ (<<p, d>> \in Free(P, m) \/ <<p, d>> \in Used(P, m))
                    => SizeAt(k, <<p, d>>) = SizeAt(m, <<p, d>>)
    <2>1. CASE d = at
      BY <1>1, <1>2, <1>4, <1>5, <1>8, <2>1
    <2>2. CASE d # at /\ d \in E
      <3>1. d \in F => Hd(N, d) = Hd(M, d)
        BY <1>4, <2>2
      <3>2. d \in F <=> ~((d = b /\ at # b) \/ (d = e /\ e # en))
        BY <1>7, <2>2
      <3>3. CASE d \in F
        BY <1>1, <1>2, <1>5, <2>2, <3>1, <3>2, <3>3
      <3>4. CASE d \notin F
        BY <1>1, <1>2, <1>5, <2>2, <3>2, <3>4
      <3>5. QED
        BY <3>3, <3>4
    <2>3. CASE d # at /\ d \notin E
      BY <1>1, <1>2, <1>8, <2>3
    <2>4. QED
      BY <2>1, <2>2, <2>3
  <1>10. PICK ye, yp, ya, x : ye = <<p, e>> /\ yp = <<p, pv>> /\ ya = <<p, at>> /\ x = <<p, b>>
    OBVIOUS
  <1>11. at \in Offset /\ ya \in Addr
    <2>1. at \in Offset
      BY <1>6, Offsets
    <2>2. QED
      BY <1>10, <2>1, AddrParts
  <1>12. ASSUME NEW z \in Addr
         PROVE  /\ z \in Free(P, k) <=> z = ya \/ (z \in Free(P, m) /\ z # ye /\ z # yp)
                /\ z # x /\ z \in Used(P, m) => z \in Used(P, k)
                /\ z # x /\ z # ya /\ z # ye /\ (z \in Free(P, m) \/ z \in Used(P, m))
                     => SizeAt(k, z) = SizeAt(m, z)
    <2>1. CASE z[1] # p
      <3>1. z # ya /\ z # ye /\ z # yp
        BY <1>10, <2>1
      <3>2. QED
        BY <1>3, <2>1, <3>1
    <2>2. CASE z[1] = p
      <3>1. PICK d \in Offset : z = <<p, d>>
        BY <2>2, AddrParts
      <3>2. (z = ya <=> d = at) /\ (z = ye <=> d = e) /\ (z = yp <=> d = pv) /\ (z = x <=> d = b)
        BY <1>10, <3>1
      <3>3. QED
        BY <1>9, <3>1, <3>2
    <2>3. QED
      BY <2>1, <2>2
  <1>13. Free(P, m) \subseteq Addr /\ Free(P, k) \subseteq Addr /\ Used(P, m) \subseteq Addr
    BY DEF Free, Used
  <1>14. Free(P, k) = ((Free(P, m) \ {ye}) \ {yp}) \cup {ya}
    BY <1>11, <1>12, <1>13
  <1>15. ya \notin (Free(P, m) \ {ye}) \ {yp}
    <2>1. CASE at = pv
      BY <1>10, <2>1
    <2>2. CASE at = b
      BY <1>1, <1>10, <1>11, <2>2
    <2>3. QED
      BY <1>5, <2>1, <2>2
  <1>16. ASSUME NEW z \in (Free(P, m) \ {ye}) \ {yp} PROVE SizeAt(k, z) = SizeAt(m, z)
    <2>1. z # ya
      BY <1>15
    <2>2. z # x
      <3>1. b \in Offset
        BY <1>6, Offsets
      <3>2. x \notin Free(P, m)
        BY <1>1, <1>10, <3>1
      <3>3. QED
        BY <3>2
    <2>3. QED
      BY <1>12, <1>13, <2>1, <2>2
  <1>17. ASSUME NEW z \in Used(P, m) \ {x}
         PROVE  z \in Used(P, k) /\ SizeAt(k, z) = SizeAt(m, z)
    <2>1. z \in Used(P, k)
      BY <1>12, <1>13
    <2>2. z # ya
      <3>1. CASE at = pv /\ ~Hd(M, pv).used
        BY <1>1, <1>10, <1>11, <3>1
      <3>2. CASE at = b
        BY <1>10, <3>2
      <3>3. QED
        BY <1>5, <3>1, <3>2
    <2>3. CASE z # ye
      BY <1>12, <1>13, <2>2, <2>3
    <2>4. CASE z = ye
      <3>1. e \in Offset
        BY <1>10, <1>13, <2>4, AddrParts
      <3>2. e \in E /\ Hd(M, e).used
        BY <1>1, <1>10, <2>4, <3>1
      <3>3. e = en /\ e # at
        BY <1>5, <3>2 DEF Sides
      <3>4. e \in F /\ Hd(N, e) = Hd(M, e)
        <4>1. e # b
          BY DEF Sides
        <4>2. e \in F
          BY <1>7, <3>2, <3>3, <4>1
        <4>3. QED
          BY <1>4, <3>3, <4>2
      <3>5. QED
        BY <1>1, <1>2, <1>10, <2>1, <2>4, <3>1, <3>4
    <2>5. QED
      BY <2>3, <2>4
  <1>18. SizeAt(k, ya) = en - at
    BY <1>2, <1>4, <1>10, <1>11
  <1>19. QED
    BY <1>2, <1>10, <1>11, <1>14, <1>15, <1>16, <1>17, <1>18 DEF Regained, Keep

(* The neighbours leave their lists and the new block joins one. *)
LEMMA JoinLists ==
    ASSUME NEW P, NEW m, NEW B, NEW w, Stock(B, Free(P, m), m, w),
           NEW p, NEW M, NEW E, View(P, m, p, M, E), NEW pv, NEW b, NEW e, NEW at, NEW en,
           pv \in E, e \in E, \A z \in E : z \in Offset,
           Merge(M, pv, b, e, at, en), Sides(pv, b, e, at, en),
           at = pv => SizeAt(m, <<p, pv>>) = b - pv,
           e # en => SizeAt(m, <<p, e>>) = en - e,
           NEW k, Regained(P, m, k, p, b, e, pv, at, en),
           NEW ne, ne <=> ~Hd(M, e).used, NEW pe, pe <=> ~Hd(M, pv).used,
           NEW A, A = IF ne THEN Unlink(B, <<p, e>>) ELSE B,
           NEW C, C = IF pe THEN Unlink(A, <<p, pv>>) ELSE A
    PROVE  Stock(Insert(C, getindex(en - at), <<p, at>>), Free(P, k), k, w + (e - b))
  <1>1. PICK S, ye, yp, ya : /\ S = Free(P, m) /\ ye = <<p, e>> /\ yp = <<p, pv>> /\ ya = <<p, at>>
    OBVIOUS
  <1>2. /\ (ye \in S <=> ~Hd(M, e).used) /\ (yp \in S <=> ~Hd(M, pv).used)
    <2>1. e \in Offset /\ pv \in Offset
      OBVIOUS
    <2>2. QED
      BY <1>1, <2>1 DEF View
  <1>3. /\ (at = pv /\ yp \in S) \/ (at = b /\ yp \notin S)
        /\ (e # en /\ ye \in S) \/ (e = en /\ ye \notin S)
    BY <1>2 DEF Merge
  <1>4. /\ pv \in Nat /\ b \in Nat /\ e \in Nat /\ at \in Nat /\ en \in Nat /\ pv < b /\ b < e /\ at <= b /\ e <= en
    BY DEF Sides
  <1>5. w \in Int
    BY DEF Stock, Sum
  <1>6. PICK v, u : v = w - (en - e) /\ u = v - (b - at)
    OBVIOUS
  <1>7. Stock(A, S \ {ye}, m, v)
    <2>1. CASE ye \in S
      <3>1. A = Unlink(B, ye)
        BY <1>1, <1>2, <2>1
      <3>2. PICK n : n = SizeAt(m, ye)
        OBVIOUS
      <3>3. n = en - e
        BY <1>1, <1>3, <2>1, <3>2
      <3>4. Stock(Unlink(B, ye), S \ {ye}, m, w - n)
        BY <1>1, <2>1, <3>2, HoldOut
      <3>5. QED
        BY <1>6, <3>1, <3>3, <3>4
    <2>2. CASE ye \notin S
      <3>1. A = B /\ S \ {ye} = S
        BY <1>1, <1>2, <2>2
      <3>2. v = w
        BY <1>3, <1>4, <1>5, <1>6, <2>2
      <3>3. QED
        BY <1>1, <3>1, <3>2
    <2>3. QED
      BY <2>1, <2>2
  <1>8. ye # yp
    BY <1>1, <1>4
  <1>9. Stock(C, (S \ {ye}) \ {yp}, m, u)
    <2>1. CASE yp \in S
      <3>1. C = Unlink(A, yp)
        BY <1>1, <1>2, <2>1
      <3>2. PICK n : n = SizeAt(m, yp)
        OBVIOUS
      <3>3. n = b - at
        BY <1>1, <1>3, <2>1, <3>2
      <3>4. PICK R : R = S \ {ye}
        OBVIOUS
      <3>5. yp \in R /\ Stock(A, R, m, v)
        BY <1>7, <1>8, <2>1, <3>4
      <3>6. Stock(Unlink(A, yp), R \ {yp}, m, v - n)
        BY <3>2, <3>5, HoldOut
      <3>7. QED
        BY <1>6, <3>1, <3>3, <3>4, <3>6
    <2>2. CASE yp \notin S
      <3>1. C = A /\ (S \ {ye}) \ {yp} = S \ {ye}
        BY <1>1, <1>2, <2>2
      <3>2. u = v
        BY <1>3, <1>4, <1>5, <1>6, <2>2
      <3>3. QED
        BY <1>7, <3>1, <3>2
    <2>3. QED
      BY <2>1, <2>2
  <1>10. PICK R : R = (S \ {ye}) \ {yp}
    OBVIOUS
  <1>11. /\ Free(P, k) = R \cup {ya} /\ ya \in Addr /\ ya \notin R
         /\ SizeAt(k, ya) = en - at /\ \A z \in R : SizeAt(k, z) = SizeAt(m, z)
    BY <1>1, <1>10 DEF Regained
  <1>12. Stock(C, R, k, u)
    <2>1. Stock(C, R, m, u)
      BY <1>9, <1>10
    <2>2. \A z \in R : SizeAt(k, z) = SizeAt(m, z)
      BY <1>11
    <2>3. QED
      BY <2>1, <2>2, HoldSame
  <1>13. PICK n : n = en - at
    OBVIOUS
  <1>14. n \in Int /\ u + n = w + (e - b)
    BY <1>4, <1>5, <1>6, <1>13
  <1>15. Stock(Insert(C, getindex(n), ya), R \cup {ya}, k, u + n)
    <2>1. ya \in Addr /\ ya \notin R /\ n = SizeAt(k, ya)
      BY <1>11, <1>13
    <2>2. QED
      BY <1>12, <1>14, <2>1, HoldIn
  <1>16. QED
    BY <1>1, <1>11, <1>13, <1>14, <1>15

Spot(P, m, x, p, b, M, E, e, c, pv, at, en, L) ==
    /\ Sits(P, m, x, p, b, M, E, e, c) /\ Good(p, M, E) /\ 16 < b /\ Hd(M, b).used
    /\ Surround(M, E, pv, b, e, at, en) /\ Marked(L, M, E, b, e)

(* A used block, its neighbours, and the page once it is marked free. *)
LEMMA UsedSpot ==
    ASSUME NEW P, P \subseteq Page, NEW m, GoodPages(P, m), NEW x \in Used(P, m),
           NEW p, p = x[1], NEW b, b = x[2], NEW M, M = m[p], NEW c, c = Hd(M, b).size,
           NEW L, L = PutBlk(M, b, c, FALSE)
    PROVE  \E E, e, pv, at, en : Spot(P, m, x, p, b, M, E, e, c, pv, at, en, L)
  <1>1. PICK q, d, K, E, e, n : Sits(P, m, x, q, d, K, E, e, n)
    BY BlockSits
  <1>2. /\ q \in Page /\ d \in Offset /\ x = <<q, d>> /\ K = m[q] /\ View(P, m, q, K, E)
        /\ n = SizeAt(m, x)
    BY <1>1 DEF Sits
  <1>3. q = p /\ d = b /\ K = M
    BY <1>2, AddrParts
  <1>4. Good(p, M, E) /\ b # 16 /\ Hd(M, b).used /\ SizeAt(m, x) = Hd(M, b).size
    BY <1>2, <1>3 DEF View
  <1>5. n = c
    BY <1>2, <1>4
  <1>6. Sits(P, m, x, p, b, M, E, e, c)
    BY <1>1, <1>3, <1>5
  <1>7. b \in Nat /\ e \in Nat /\ 16 <= b /\ b < e /\ c \in Nat
    BY <1>6 DEF Sits
  <1>8. Adj(E, b, e) /\ Span(b, c, e)
    BY <1>6 DEF Sits
  <1>9. 16 < b
    BY <1>4, <1>7
  <1>10. PICK pv, at, en : Surround(M, E, pv, b, e, at, en)
    <2>1. Good(p, M, E)
      BY <1>4
    <2>2. QED
      BY <1>8, <1>9, <2>1, Surrounded
  <1>11. Marked(L, M, E, b, e)
    <2>1. CutBy(M, E)
      BY <1>4, GoodPage
    <2>2. Ordered(E, b, e)
      BY <1>8 DEF Ordered, Adj
    <2>3. c \in Nat
      BY <1>7
    <2>4. QED
      BY <1>8, <2>1, <2>2, <2>3, MarkPage
  <1>12. Spot(P, m, x, p, b, M, E, e, c, pv, at, en, L)
    BY <1>4, <1>6, <1>9, <1>10, <1>11 DEF Spot
  <1>13. QED
    BY <1>12

GaveBack(P, m, k, C, x, w, n) == Pool(P, k, C, w + n) /\ Keep(P, m, k, Used(P, m) \ {x})

(* What gfs_mem_free makes of the pool. *)
LEMMA FreeSpot ==
    ASSUME NEW P, NEW m, NEW B, NEW w, Pool(P, m, B, w), NEW x,
           NEW p, NEW b, NEW M, NEW E, NEW e, NEW c, NEW pv, NEW at, NEW en, NEW L,
           Spot(P, m, x, p, b, M, E, e, c, pv, at, en, L),
           NEW r, r = Merged(L, b),
           NEW k, k = [m EXCEPT ![p] = Whole(r.M, r.at, r.size)],
           NEW C, C = Insert(Unlinked(B, p, L, b), getindex(r.size), <<p, r.at>>)
    PROVE  GaveBack(P, m, k, C, x, w, c)
  <1>1. /\ P \subseteq Page /\ DOMAIN m = Page /\ GoodPages(P, m) /\ Stock(B, Free(P, m), m, w)
    BY DEF Pool
  <1>2. /\ Sits(P, m, x, p, b, M, E, e, c) /\ Good(p, M, E) /\ 16 < b /\ Hd(M, b).used
        /\ Surround(M, E, pv, b, e, at, en) /\ Marked(L, M, E, b, e)
    BY DEF Spot
  <1>3. /\ p \in P /\ p \in Page /\ x = <<p, b>> /\ M = m[p] /\ View(P, m, p, M, E)
        /\ c \in Nat /\ Span(b, c, e) /\ b \in Nat /\ e \in Nat
    BY <1>2 DEF Sits
  <1>4. Found(L, M, E, pv, b, e, at, en)
    BY <1>2, FindPage
  <1>5. /\ PrevBlk(L, b) = pv /\ NextBlk(L, b) = e
        /\ PrevFree(L, b) <=> ~Hd(M, pv).used
        /\ NextFree(L, b) <=> ~Hd(M, e).used
    BY <1>4 DEF Found
  <1>6. Coalesced(p, M, E, L, b, at, en)
    BY <1>2, MergePage
  <1>7. PICK N, F : N = Whole(r.M, at, en - at) /\ F = Rim(E, at, en)
    OBVIOUS
  <1>8. r.at = at /\ r.size = en - at /\ Joined(p, N, M, F, at, en)
    BY <1>6, <1>7 DEF Coalesced
  <1>9. Grown(p, N, M, F, at, en)
    BY <1>8, JoinedParts
  <1>10. k = [m EXCEPT ![p] = N]
    BY <1>7, <1>8
  <1>11. Turned(P, m, k, p, N, F)
    <2>1. Good(p, N, F)
      BY <1>9 DEF Grown
    <2>2. p \in P
      BY <1>3
    <2>3. QED
      BY <1>1, <1>10, <2>1, <2>2, OnePage
  <1>12. Between(E, at, en, b, e) /\ Merge(M, pv, b, e, at, en) /\ Sides(pv, b, e, at, en)
    BY <1>2, Inside
  <1>13. at \in E /\ en \in E
    BY <1>2, Reach
  <1>14. b \in E /\ e \in E /\ pv \in E /\ Adj(E, pv, b)
    BY <1>2 DEF Surround, Adj
  <1>15. Regained(P, m, k, p, b, e, pv, at, en)
    <2>1. p \in Page /\ View(P, m, p, M, E) /\ b \in E /\ Hd(M, b).used
      BY <1>2, <1>3, <1>14
    <2>2. QED
      BY <1>7, <1>9, <1>11, <1>12, <1>13, <2>1, JoinSets
  <1>16. CutBy(M, E) /\ \A z \in E : z \in Offset
    <2>1. CutBy(M, E) /\ \A z \in E : z \in Nat /\ z <= 4096
      BY <1>2, GoodPage
    <2>2. QED
      BY <2>1, Offsets
  <1>17. \A y, z \in E : Adj(E, y, z) => Hd(M, y).size = z - y
    <2>1. \A y, z \in E : Adj(E, y, z) => Block(M, y, z)
      BY <1>2, GoodPage
    <2>2. QED
      BY <2>1 DEF Block
  <1>18. \A z \in E : SizeAt(m, <<p, z>>) = Hd(M, z).size
    BY <1>3, <1>16 DEF View
  <1>19. SizeAt(m, <<p, pv>>) = b - pv
    BY <1>14, <1>17, <1>18
  <1>20. e # en => SizeAt(m, <<p, e>>) = en - e
    <2>1. e # en => Adj(E, e, en)
      BY <1>2 DEF Surround
    <2>2. QED
      BY <1>13, <1>14, <1>17, <1>18, <2>1
  <1>21. PICK ne, pe : ne = NextFree(L, b) /\ pe = PrevFree(L, b)
    OBVIOUS
  <1>22. PICK A, D : /\ A = IF ne THEN Unlink(B, <<p, e>>) ELSE B
                     /\ D = IF pe THEN Unlink(A, <<p, pv>>) ELSE A
    OBVIOUS
  <1>23. Unlinked(B, p, L, b) = D
    BY <1>5, <1>21, <1>22 DEF Unlinked
  <1>24. Stock(Insert(D, getindex(en - at), <<p, at>>), Free(P, k), k, w + (e - b))
    <2>1. (ne <=> ~Hd(M, e).used) /\ (pe <=> ~Hd(M, pv).used)
      BY <1>5, <1>21
    <2>2. /\ View(P, m, p, M, E) /\ pv \in E /\ e \in E /\ \A z \in E : z \in Offset
      BY <1>3, <1>14, <1>16
    <2>3. Stock(B, Free(P, m), m, w)
      BY <1>1
    <2>4. Merge(M, pv, b, e, at, en) /\ Sides(pv, b, e, at, en)
      BY <1>12
    <2>5. QED
      BY <1>15, <1>19, <1>20, <1>22, <2>1, <2>2, <2>3, <2>4, JoinLists
  <1>25. C = Insert(D, getindex(en - at), <<p, at>>) /\ e - b = c
    BY <1>3, <1>8, <1>23 DEF Span
  <1>26. Stock(C, Free(P, k), k, w + c)
    BY <1>24, <1>25
  <1>27. GoodPages(P, k) /\ DOMAIN k = Page /\ Keep(P, m, k, Used(P, m) \ {x})
    BY <1>3, <1>15 DEF Regained
  <1>28. QED
    BY <1>1, <1>26, <1>27 DEF GaveBack, Pool

Allowed(B, p, M, L, b) ==
    /\ Tagged(M, b) /\ Intact(M, b) /\ Reads(L, b)
    /\ PrevFree(L, b) => InLists(B, <<p, PrevBlk(L, b)>>)
    /\ NextFree(L, b) => InLists(B, <<p, NextBlk(L, b)>>)

(* It finds nothing wrong. *)
LEMMA FreeAllowed ==
    ASSUME NEW P, NEW m, NEW B, NEW w, Pool(P, m, B, w), NEW x,
           NEW p, NEW b, NEW M, NEW E, NEW e, NEW c, NEW pv, NEW at, NEW en, NEW L,
           Spot(P, m, x, p, b, M, E, e, c, pv, at, en, L)
    PROVE  Allowed(B, p, M, L, b)
  <1>1. P \subseteq Page /\ Stock(B, Free(P, m), m, w)
    BY DEF Pool
  <1>2. /\ Sits(P, m, x, p, b, M, E, e, c) /\ Good(p, M, E) /\ 16 < b
        /\ Surround(M, E, pv, b, e, at, en) /\ Marked(L, M, E, b, e)
    BY DEF Spot
  <1>3. /\ p \in Page /\ View(P, m, p, M, E) /\ Adj(E, b, e)
    BY <1>2 DEF Sits
  <1>4. Found(L, M, E, pv, b, e, at, en)
    BY <1>2, FindPage
  <1>5. /\ PrevBlk(L, b) = pv /\ NextBlk(L, b) = e /\ Reads(L, b)
        /\ PrevFree(L, b) <=> ~Hd(M, pv).used
        /\ NextFree(L, b) <=> ~Hd(M, e).used
    BY <1>4 DEF Found
  <1>6. CutBy(M, E) /\ Block(M, b, e) /\ M \in [Words(E) -> Tag] /\ Spaced(E)
    <2>1. b \in E /\ e \in E
      BY <1>3 DEF Adj
    <2>2. CutBy(M, E) /\ M \in [Words(E) -> Tag] /\ Spaced(E) /\ \A y, z \in E : Adj(E, y, z) => Block(M, y, z)
      BY <1>2, GoodPage
    <2>3. QED
      BY <1>3, <2>1, <2>2
  <1>7. Tagged(M, b) /\ Intact(M, b)
    <2>1. Ftr(M, b) = e - 16 /\ Ft(M, e) = Hd(M, b) /\ b \in E /\ e \in E
      BY <1>3, <1>6, BlockWords
    <2>2. b - 8 \in Words(E) /\ e - 16 \in Words(E)
      BY <1>6, <2>1, SpacedEdges
    <2>3. DOMAIN M = Words(E)
      BY <1>6
    <2>4. QED
      BY <2>1, <2>2, <2>3 DEF Tagged, Intact, Hd, Ft
  <1>8. \A z \in E : z \in Offset
    <2>1. \A z \in E : z \in Nat /\ z <= 4096
      BY <1>2, GoodPage
    <2>2. QED
      BY <2>1, Offsets
  <1>9. ASSUME NEW d \in E, ~Hd(M, d).used PROVE InLists(B, <<p, d>>)
    <2>1. PICK y : y = <<p, d>>
      OBVIOUS
    <2>2. y \in Free(P, m) /\ y \in Addr
      <3>1. d \in Offset
        BY <1>8
      <3>2. y \in Free(P, m)
        BY <1>3, <1>9, <2>1, <3>1 DEF View
      <3>3. QED
        BY <3>2 DEF Free
    <2>3. PICK i : i = getindex(SizeAt(m, y))
      OBVIOUS
    <2>4. i \in Class
      BY <2>3, IndexClass
    <2>5. In(B, i, y)
      BY <1>1, <2>2, <2>3, <2>4 DEF Stock, Listing
    <2>6. QED
      BY <2>1, <2>4, <2>5 DEF InLists, In, Class
  <1>10. pv \in E /\ e \in E
    BY <1>2 DEF Surround, Adj
  <1>11. /\ PrevFree(L, b) => InLists(B, <<p, pv>>)
         /\ NextFree(L, b) => InLists(B, <<p, e>>)
    BY <1>5, <1>9, <1>10
  <1>12. QED
    BY <1>5, <1>7, <1>11 DEF Allowed

------------------------------------------------------------------------------
(* Pages are added. *)

BigClass == 7
Spots(Q) == { FreeOf(q) : q \in Q }
Lines(u, D) == u \in Seq(Addr) /\ (\A x : Contains(u, x) <=> x \in D) /\ \A x : Single(u, x)
Empty == [i \in Class |-> <<>>]

(* Large blocks are in the last class. *)
LEMMA LastClass ==
    ASSUME NEW n \in Nat, 2048 < n
    PROVE  getindex(n) = BigClass /\ BigClass \in Class
  <1>1. \A i \in 1..7 : Limit[i] < n
    BY DEF Limit
  <1>2. { i \in 1..7 : Limit[i] < n } = 1..7
    BY <1>1
  <1>3. Cardinality(1..7) = 7
    <2>1. PICK m \in Nat : m = 7
      OBVIOUS
    <2>2. Cardinality(1..m) = m
      BY FS_Interval
    <2>3. QED
      BY <2>1, <2>2
  <1>4. QED
    BY <1>2, <1>3 DEF getindex, BigClass, Class

(* One list in front of another. *)
LEMMA InBoth ==
    ASSUME NEW X, NEW s \in Seq(X), NEW t \in Seq(X), NEW u, u = s \o t
    PROVE  /\ u \in Seq(X) /\ \A x : Contains(u, x) <=> Contains(s, x) \/ Contains(t, x)
           /\ \A x : Single(s, x) /\ Single(t, x) /\ ~(Contains(s, x) /\ Contains(t, x)) => Single(u, x)
  <1>1. Len(s) \in Nat /\ Len(t) \in Nat
    OBVIOUS
  <1>2. /\ u \in Seq(X) /\ Len(u) = Len(s) + Len(t)
        /\ \A i \in 1 .. Len(s) + Len(t) : u[i] = IF i <= Len(s) THEN s[i] ELSE t[i - Len(s)]
    BY ConcatProperties
  <1>3. ASSUME NEW i \in 1 .. Len(u)
        PROVE  \/ i \in 1 .. Len(s) /\ u[i] = s[i]
               \/ i - Len(s) \in 1 .. Len(t) /\ u[i] = t[i - Len(s)]
    BY <1>1, <1>2
  <1>4. ASSUME NEW i \in 1 .. Len(s) PROVE i \in 1 .. Len(u) /\ u[i] = s[i]
    BY <1>1, <1>2
  <1>5. ASSUME NEW i \in 1 .. Len(t) PROVE i + Len(s) \in 1 .. Len(u) /\ u[i + Len(s)] = t[i]
    BY <1>1, <1>2
  <1>6. ASSUME NEW x PROVE Contains(u, x) <=> Contains(s, x) \/ Contains(t, x)
    <2>1. ASSUME Contains(u, x) PROVE Contains(s, x) \/ Contains(t, x)
      <3>1. PICK i \in 1 .. Len(u) : u[i] = x
        BY <2>1 DEF Contains
      <3>2. \/ i \in 1 .. Len(s) /\ u[i] = s[i]
            \/ i - Len(s) \in 1 .. Len(t) /\ u[i] = t[i - Len(s)]
        BY <1>3
      <3>3. QED
        BY <3>1, <3>2 DEF Contains
    <2>2. Contains(s, x) => Contains(u, x)
      BY <1>4 DEF Contains
    <2>3. Contains(t, x) => Contains(u, x)
      BY <1>5 DEF Contains
    <2>4. QED
      BY <2>1, <2>2, <2>3
  <1>7. ASSUME NEW x, Single(s, x), Single(t, x), ~(Contains(s, x) /\ Contains(t, x)),
               NEW i \in 1 .. Len(u), NEW j \in 1 .. Len(u), u[i] = x, u[j] = x
        PROVE  i = j
    <2>1. \/ i \in 1 .. Len(s) /\ s[i] = x
          \/ i - Len(s) \in 1 .. Len(t) /\ t[i - Len(s)] = x
      BY <1>3, <1>7
    <2>2. \/ j \in 1 .. Len(s) /\ s[j] = x
          \/ j - Len(s) \in 1 .. Len(t) /\ t[j - Len(s)] = x
      BY <1>3, <1>7
    <2>3. CASE Contains(s, x)
      <3>1. ~Contains(t, x)
        BY <1>7, <2>3
      <3>2. i \in 1 .. Len(s) /\ s[i] = x /\ j \in 1 .. Len(s) /\ s[j] = x
        BY <2>1, <2>2, <3>1 DEF Contains
      <3>3. QED
        BY <1>7, <3>2 DEF Single
    <2>4. CASE ~Contains(s, x)
      <3>1. i - Len(s) \in 1 .. Len(t) /\ t[i - Len(s)] = x /\ j - Len(s) \in 1 .. Len(t) /\ t[j - Len(s)] = x
        BY <2>1, <2>2, <2>4 DEF Contains
      <3>2. i - Len(s) = j - Len(s)
        BY <1>7, <3>1 DEF Single
      <3>3. QED
        BY <1>1, <3>2
    <2>5. QED
      BY <2>3, <2>4
  <1>8. \A x : Single(s, x) /\ Single(t, x) /\ ~(Contains(s, x) /\ Contains(t, x)) => Single(u, x)
    <2>1. ASSUME NEW x, Single(s, x), Single(t, x), ~(Contains(s, x) /\ Contains(t, x))
          PROVE  Single(u, x)
      <3>1. \A i, j \in 1 .. Len(u) : u[i] = x /\ u[j] = x => i = j
        BY <1>7, <2>1
      <3>2. QED
        BY <3>1 DEF Single
    <2>2. QED
      BY <2>1
  <1>9. QED
    BY <1>2, <1>6, <1>8

Joins(C, B, D) ==
    /\ ListsOK(C) /\ \A x : Once(B, x) /\ (x \in D => \A i \in Class : ~In(B, i, x)) => Once(C, x)
    /\ \A i \in Class : \A x : In(C, i, x) <=> In(B, i, x) \/ (i = BigClass /\ x \in D)

(* New blocks in front of the last list. *)
LEMMA JoinLast ==
    ASSUME NEW B, ListsOK(B), NEW D, NEW u, Lines(u, D), NEW C, C = [B EXCEPT ![BigClass] = u \o @]
    PROVE  Joins(C, B, D)
  <1>1. DOMAIN B = Class /\ \A i \in Class : B[i] \in Seq(Addr)
    BY DEF ListsOK
  <1>2. BigClass \in Class
    BY DEF BigClass, Class
  <1>3. PICK t, v : t = B[BigClass] /\ v = u \o t
    OBVIOUS
  <1>4. t \in Seq(Addr) /\ u \in Seq(Addr) /\ (\A x : Contains(u, x) <=> x \in D) /\ \A x : Single(u, x)
    BY <1>1, <1>2, <1>3 DEF Lines
  <1>5. /\ v \in Seq(Addr) /\ \A x : Contains(v, x) <=> Contains(u, x) \/ Contains(t, x)
        /\ \A x : Single(u, x) /\ Single(t, x) /\ ~(Contains(u, x) /\ Contains(t, x)) => Single(v, x)
    BY <1>3, <1>4, InBoth
  <1>6. C = [B EXCEPT ![BigClass] = v]
    BY <1>3
  <1>7. C[BigClass] = v /\ \A i \in Class : i # BigClass => C[i] = B[i]
    BY <1>1, <1>2, <1>6
  <1>8. ListsOK(C)
    <2>1. C \in [Class -> Seq(Addr)]
      BY <1>5, <1>6 DEF ListsOK
    <2>2. QED
      BY <2>1 DEF ListsOK
  <1>9. ASSUME NEW i \in Class, NEW x PROVE In(C, i, x) <=> In(B, i, x) \/ (i = BigClass /\ x \in D)
    <2>1. CASE i = BigClass
      BY <1>3, <1>4, <1>5, <1>7, <2>1 DEF In
    <2>2. CASE i # BigClass
      BY <1>7, <2>2 DEF In
    <2>3. QED
      BY <2>1, <2>2
  <1>10. ASSUME NEW x, Once(B, x), x \in D => \A i \in Class : ~In(B, i, x) PROVE Once(C, x)
    <2>1. \A i \in Class : Single(B[i], x)
      BY <1>10 DEF Once
    <2>2. ASSUME NEW i \in Class PROVE Single(C[i], x)
      <3>1. CASE i = BigClass
        <4>1. Single(u, x) /\ Single(t, x)
          BY <1>2, <1>3, <1>4, <2>1
        <4>2. ~(Contains(u, x) /\ Contains(t, x))
          BY <1>2, <1>3, <1>4, <1>10 DEF In
        <4>3. QED
          BY <1>5, <1>7, <3>1, <4>1, <4>2
      <3>2. CASE i # BigClass
        BY <1>7, <2>1, <3>2
      <3>3. QED
        BY <3>1, <3>2
    <2>3. \A i, j \in Class : In(C, i, x) /\ In(C, j, x) => i = j
      BY <1>9, <1>10 DEF Once
    <2>4. QED
      BY <2>2, <2>3 DEF Once
  <1>11. QED
    BY <1>8, <1>9, <1>10 DEF Joins

(* Sums over two parts. *)
LEMMA SumBoth ==
    ASSUME NEW D, NEW f, NEW w, Sum(f, D, w), NEW G, NEW g, NEW v, Sum(g, G, v),
           D \cap G = {}, NEW h \in [D \cup G -> Int], Agree(h, f, D), Agree(h, g, G)
    PROVE  Sum(h, D \cup G, w + v)
  <1>1. /\ IsFiniteSet(D) /\ f \in [D -> Int] /\ w \in Int /\ Bytes(f) = w
        /\ IsFiniteSet(G) /\ g \in [G -> Int] /\ v \in Int /\ Bytes(g) = v
    BY DEF Sum
  <1>2. PICK U : U = D \cup G
    OBVIOUS
  <1>3. IsFiniteSet(U) /\ D \in SUBSET U /\ U \ D = G /\ h \in [U -> Int]
    BY <1>1, <1>2, FS_Union
  <1>4. Bytes(h) = Bytes(Restrict(h, D)) + Bytes(Restrict(h, U \ D))
    BY <1>3, BytesParts
  <1>5. Restrict(h, D) = f
    BY <1>1 DEF Restrict, Agree
  <1>6. Restrict(h, G) = g
    BY <1>1 DEF Restrict, Agree
  <1>7. Bytes(h) = w + v
    BY <1>1, <1>3, <1>4, <1>5, <1>6
  <1>8. QED
    BY <1>1, <1>2, <1>3, <1>7 DEF Sum

Idle(P, k, q) ==
    /\ FreeOf(q) \in Addr /\ FreeOf(q)[1] = q
    /\ \A x \in Addr : x[1] = q => (x \in Free(P, k) <=> x = FreeOf(q)) /\ x \notin Used(P, k)
    /\ SizeAt(k, FreeOf(q)) = 4096 - Body(q) /\ getindex(SizeAt(k, FreeOf(q))) = BigClass

(* A blank page has one block besides its head, and that is free. *)
LEMMA BlankView ==
    ASSUME NEW P, P \subseteq Page, NEW k, GoodPages(P, k), NEW q \in P, Blank(q, k[q])
    PROVE  Idle(P, k, q)
  <1>1. PICK N, F : N = k[q] /\ F = Trio(q)
    OBVIOUS
  <1>2. Good(q, N, F) /\ Hd(N, Body(q)) = Rest(q)
    BY <1>1 DEF Blank
  <1>3. CutBy(N, F) /\ Sealed(q, N, F)
    BY <1>2, GoodPage
  <1>4. Edges(N) = F
    BY <1>3, EdgesOf
  <1>5. View(P, k, q, N, F)
    <2>1. View(P, k, q, k[q], Edges(k[q]))
      BY PageView
    <2>2. QED
      BY <1>1, <1>4, <2>1
  <1>6. \A b \in Offset :
          /\ <<q, b>> \in Free(P, k) <=> b \in F /\ ~Hd(N, b).used
          /\ <<q, b>> \in Used(P, k) <=> b \in F /\ b # 16 /\ b # 4096 /\ Hd(N, b).used
          /\ SizeAt(k, <<q, b>>) = Hd(N, b).size
    BY <1>5 DEF View
  <1>7. PICK f : f = Body(q)
    OBVIOUS
  <1>8. /\ f \in F /\ f \in Nat /\ 64 <= f /\ f <= 288
        /\ \A z \in F : z = Low \/ z = f \/ z = High
        /\ Low = 16 /\ High = 4096
    BY <1>1, <1>7, ThreeSpaced
  <1>9. ~Hd(N, f).used /\ Hd(N, f).size = 4096 - f
    BY <1>2, <1>7 DEF Rest, T
  <1>10. Hd(N, Low).used /\ Hd(N, High).used
    BY <1>3, SealedBy DEF Outer, HeadTag, T
  <1>11. f \in Offset /\ FreeOf(q) = <<q, f>> /\ q \in Page
    <2>1. f \in Nat /\ f <= 4096
      BY <1>8
    <2>2. QED
      BY <1>7, <2>1, Offsets DEF FreeOf, Body
  <1>12. ASSUME NEW b \in Offset
         PROVE  (<<q, b>> \in Free(P, k) <=> b = f) /\ <<q, b>> \notin Used(P, k)
    <2>1. CASE b = f
      BY <1>6, <1>8, <1>9, <2>1
    <2>2. CASE b # f
      <3>1. b \in F => b = Low \/ b = High
        BY <1>8, <2>2
      <3>2. QED
        BY <1>6, <1>8, <1>10, <2>2, <3>1
    <2>3. QED
      BY <2>1, <2>2
  <1>13. ASSUME NEW x \in Addr, x[1] = q
         PROVE  (x \in Free(P, k) <=> x = FreeOf(q)) /\ x \notin Used(P, k)
    <2>1. PICK b \in Offset : x = <<q, b>>
      BY <1>13, AddrParts
    <2>2. x = FreeOf(q) <=> b = f
      BY <1>11, <2>1
    <2>3. QED
      BY <1>12, <2>1, <2>2
  <1>14. SizeAt(k, FreeOf(q)) = 4096 - f
    BY <1>6, <1>9, <1>11
  <1>15. getindex(4096 - f) = BigClass
    <2>1. 4096 - f \in Nat /\ 2048 < 4096 - f
      BY <1>8
    <2>2. QED
      BY <2>1, LastClass
  <1>16. FreeOf(q) \in Addr /\ FreeOf(q)[1] = q
    BY <1>11, AddrParts
  <1>17. QED
    BY <1>7, <1>13, <1>14, <1>15, <1>16 DEF Idle

Widened(P, Q, m, k, C, w) == Pool(P \cup Q, k, C, w) /\ Keep(P \cup Q, m, k, Used(P, m))

(* Blank pages join a pool. *)
LEMMA AddPages ==
    ASSUME NEW P, NEW m, NEW B, NEW w, Pool(P, m, B, w), NEW Q, Q \subseteq Page, P \cap Q = {},
           NEW k, DOMAIN k = Page, \A p \in P : k[p] = m[p], \A q \in Q : Blank(q, k[q]),
           NEW u, Lines(u, Spots(Q)), NEW C, C = [B EXCEPT ![BigClass] = u \o @],
           NEW v, Sum(Sizes(Spots(Q), k), Spots(Q), v)
    PROVE  Widened(P, Q, m, k, C, w + v)
  <1>1. /\ P \subseteq Page /\ DOMAIN m = Page /\ GoodPages(P, m) /\ Stock(B, Free(P, m), m, w)
    BY DEF Pool
  <1>2. PICK U, D, S : U = P \cup Q /\ D = Spots(Q) /\ S = Free(P, m)
    OBVIOUS
  <1>3. U \subseteq Page /\ GoodPages(U, k)
    <2>1. ASSUME NEW p \in P PROVE Good(p, k[p], Edges(k[p]))
      BY <1>1 DEF GoodPages
    <2>2. ASSUME NEW q \in Q PROVE Good(q, k[q], Edges(k[q]))
      <3>1. Good(q, k[q], Trio(q))
        BY DEF Blank
      <3>2. CutBy(k[q], Trio(q))
        BY <3>1, GoodPage
      <3>3. Edges(k[q]) = Trio(q)
        BY <3>2, EdgesOf
      <3>4. QED
        BY <3>1, <3>3
    <2>3. QED
      BY <1>1, <1>2, <2>1, <2>2 DEF GoodPages
  <1>4. ASSUME NEW q \in Q
        PROVE  /\ FreeOf(q) \in Addr /\ FreeOf(q)[1] = q
               /\ \A x \in Addr : x[1] = q => (x \in Free(U, k) <=> x = FreeOf(q))
               /\ getindex(SizeAt(k, FreeOf(q))) = BigClass
    <2>1. q \in U /\ Blank(q, k[q])
      BY <1>2
    <2>2. QED
      <3>1. Idle(U, k, q)
        BY <1>3, <2>1, BlankView
      <3>2. QED
        BY <3>1 DEF Idle
  <1>5. ASSUME NEW x \in Addr, x[1] \in P
        PROVE  /\ x \in Free(U, k) <=> x \in S
               /\ x \in Used(U, k) <=> x \in Used(P, m)
               /\ SizeAt(k, x) = SizeAt(m, x)
    <2>1. k[x[1]] = m[x[1]] /\ x[1] \in U
      BY <1>2, <1>5
    <2>2. QED
      BY <1>2, <1>5, <2>1 DEF Free, Used, SizeAt
  <1>6. D \subseteq Addr /\ (\A x \in D : x[1] \in Q /\ x = FreeOf(x[1]))
    BY <1>2, <1>4 DEF Spots
  <1>7. S \subseteq Addr /\ (\A x \in S : x[1] \in P) /\ Used(P, m) \subseteq Addr
        /\ (\A x \in Used(P, m) : x[1] \in P) /\ Free(U, k) \subseteq Addr /\ \A x \in Free(U, k) : x[1] \in U
    BY <1>2 DEF Free, Used
  <1>8. Free(U, k) = S \cup D
    <2>1. ASSUME NEW x \in Free(U, k) PROVE x \in S \cup D
      <3>1. CASE x[1] \in P
        BY <1>5, <1>7, <3>1
      <3>2. CASE x[1] \in Q
        BY <1>2, <1>4, <1>7, <3>2 DEF Spots
      <3>3. QED
        BY <1>2, <1>7, <3>1, <3>2
    <2>2. ASSUME NEW x \in S PROVE x \in Free(U, k)
      BY <1>5, <1>7
    <2>3. ASSUME NEW x \in D PROVE x \in Free(U, k)
      BY <1>4, <1>6
    <2>4. QED
      BY <2>1, <2>2, <2>3
  <1>9. S \cap D = {}
    BY <1>6, <1>7
  <1>10. Keep(U, m, k, Used(P, m))
    BY <1>5, <1>7 DEF Keep
  <1>11. /\ Listing(B, S, m) /\ Sum(Sizes(S, m), S, w)
    BY <1>1, <1>2 DEF Stock
  <1>12. /\ ListsOK(B) /\ (\A y \in Addr : Once(B, y))
         /\ \A y \in Addr : \A i \in Class : In(B, i, y) <=> y \in S /\ getindex(SizeAt(m, y)) = i
    BY <1>11 DEF Listing
  <1>13. /\ ListsOK(C) /\ \A x : Once(B, x) /\ (x \in D => \A i \in Class : ~In(B, i, x)) => Once(C, x)
         /\ \A i \in Class : \A x : In(C, i, x) <=> In(B, i, x) \/ (i = BigClass /\ x \in D)
    <2>1. Lines(u, D)
      BY <1>2
    <2>2. Joins(C, B, D)
      BY <1>12, <2>1, JoinLast
    <2>3. QED
      BY <2>2 DEF Joins
  <1>14. \A y \in Addr : Once(C, y)
    BY <1>9, <1>12, <1>13
  <1>15. ASSUME NEW y \in Addr, NEW i \in Class
         PROVE  In(C, i, y) <=> y \in S \cup D /\ getindex(SizeAt(k, y)) = i
    <2>1. CASE y \in D
      <3>1. getindex(SizeAt(k, y)) = BigClass /\ y \notin S
        BY <1>4, <1>6, <1>9, <2>1
      <3>2. QED
        BY <1>12, <1>13, <2>1, <3>1
    <2>2. CASE y \in S
      <3>1. SizeAt(k, y) = SizeAt(m, y) /\ y \notin D
        BY <1>5, <1>7, <1>9, <2>2
      <3>2. QED
        BY <1>12, <1>13, <2>2, <3>1
    <2>3. CASE y \notin S /\ y \notin D
      BY <1>12, <1>13, <2>3
    <2>4. QED
      BY <2>1, <2>2, <2>3
  <1>16. Listing(C, S \cup D, k)
    BY <1>13, <1>14, <1>15 DEF Listing
  <1>17. Sum(Sizes(S \cup D, k), S \cup D, w + v)
    <2>1. PICK f, g, h, G : /\ f = Sizes(S, m) /\ g = Sizes(D, k) /\ G = S \cup D /\ h = Sizes(G, k)
      OBVIOUS
    <2>2. /\ \A y \in S : SizeAt(m, y) \in Int
      BY <1>11, SizesInt
    <2>3. Sum(g, D, v) /\ \A y \in D : SizeAt(k, y) \in Int
      BY <1>2, <2>1, SizesInt
    <2>4. \A y \in S : SizeAt(k, y) = SizeAt(m, y)
      BY <1>5, <1>7
    <2>5. \A y \in G : SizeAt(k, y) \in Int
      BY <2>1, <2>2, <2>3, <2>4
    <2>6. h \in [G -> Int] /\ \A y \in G : h[y] = SizeAt(k, y)
      BY <2>1, <2>5, SizesOf
    <2>7. (\A y \in S : f[y] = SizeAt(m, y)) /\ (\A y \in D : g[y] = SizeAt(k, y))
      BY <2>1 DEF Sizes
    <2>8. Agree(h, f, S) /\ Agree(h, g, D)
      BY <2>1, <2>4, <2>6, <2>7 DEF Agree
    <2>9. Sum(f, S, w) /\ h \in [S \cup D -> Int]
      BY <1>11, <2>1, <2>6
    <2>10. Sum(h, S \cup D, w + v)
      BY <1>9, <2>3, <2>8, <2>9, SumBoth
    <2>11. QED
      BY <2>1, <2>10
  <1>18. Stock(C, Free(U, k), k, w + v)
    BY <1>6, <1>7, <1>8, <1>16, <1>17 DEF Stock
  <1>19. QED
    BY <1>2, <1>3, <1>10, <1>18 DEF Widened, Pool

------------------------------------------------------------------------------
(* Pools that were just made. *)

(* Where the free block of a blank page is. *)
LEMMA FreeAddr ==
    ASSUME NEW q \in Page
    PROVE  FreeOf(q) \in Addr /\ FreeOf(q)[1] = q
  <1>1. PICK f : f = Body(q)
    OBVIOUS
  <1>2. f \in Nat /\ f <= 288
    BY <1>1, ThreeSpaced
  <1>3. f \in Offset
    BY <1>2, Offsets
  <1>4. FreeOf(q) = <<q, f>>
    BY <1>1 DEF FreeOf, Body
  <1>5. QED
    BY <1>3, <1>4, AddrParts

(* There is one for each page. *)
LEMMA SpotsCount ==
    ASSUME NEW Q, Q \subseteq Page
    PROVE  /\ IsFiniteSet(Q) /\ IsFiniteSet(Spots(Q)) /\ Cardinality(Spots(Q)) = Cardinality(Q)
           /\ Cardinality(Q) \in Nat
  <1>1. IsFiniteSet(Page)
    BY FS_Interval, MemAssumption DEF Page
  <1>2. IsFiniteSet(Q)
    BY <1>1, FS_Subset
  <1>3. PICK f, D : f = [q \in Q |-> FreeOf(q)] /\ D = Spots(Q)
    OBVIOUS
  <1>4. f \in [Q -> D] /\ \A q \in Q : f[q] = FreeOf(q)
    BY <1>3 DEF Spots
  <1>5. \A y \in D : \E q \in Q : f[q] = y
    BY <1>3, <1>4 DEF Spots
  <1>6. \A q, s \in Q : f[q] = f[s] => q = s
    <2>1. \A q \in Q : FreeOf(q)[1] = q
      BY FreeAddr
    <2>2. QED
      BY <1>4, <2>1
  <1>7. ExistsBijection(Q, D)
    <2>1. f \in Injection(Q, D)
      BY <1>4, <1>6 DEF Injection, IsInjective
    <2>2. f \in Surjection(Q, D)
      BY <1>4, <1>5 DEF Surjection
    <2>3. QED
      BY <2>1, <2>2 DEF ExistsBijection, Bijection
  <1>8. IsFiniteSet(D) /\ Cardinality(D) = Cardinality(Q)
    BY <1>2, <1>7, FS_Bijection
  <1>9. QED
    BY <1>2, <1>3, <1>8, FS_CardinalityType

(* What the free blocks of blank pages weigh. *)
LEMMA SpotsSum ==
    ASSUME NEW Q, Q \subseteq Page, 1 \notin Q, NEW k,
           \A q \in Q : SizeAt(k, FreeOf(q)) = 4096 - Body(q)
    PROVE  Sum(Sizes(Spots(Q), k), Spots(Q), 4032 * Cardinality(Q))
  <1>1. PICK D, f : D = Spots(Q) /\ f = Sizes(D, k)
    OBVIOUS
  <1>2. IsFiniteSet(D) /\ Cardinality(D) = Cardinality(Q) /\ Cardinality(Q) \in Nat
    BY <1>1, SpotsCount
  <1>3. ASSUME NEW x \in D PROVE SizeAt(k, x) = 4032
    <2>1. PICK q \in Q : x = FreeOf(q)
      BY <1>1 DEF Spots
    <2>2. Body(q) = 64
      BY DEF Body, HeadOf
    <2>3. QED
      BY <2>1, <2>2
  <1>4. f \in [D -> Int] /\ \A x \in D : f[x] = SizeAt(k, x)
    <2>1. \A x \in D : SizeAt(k, x) \in Int
      BY <1>3
    <2>2. QED
      BY <1>1, <2>1, SizesOf
  <1>5. AllNew(f, D)
    BY <1>3, <1>4 DEF AllNew
  <1>6. Bytes(f) = 4032 * Cardinality(D)
    BY <1>2, <1>4, <1>5, BytesEqual
  <1>7. 4032 * Cardinality(Q) \in Int
    BY <1>2
  <1>8. QED
    BY <1>1, <1>2, <1>4, <1>6, <1>7 DEF Sum

(* The same with the page of the pool itself. *)
LEMMA SpotsSumOne ==
    ASSUME NEW Q, Q \subseteq Page, 1 \in Q, NEW k,
           \A q \in Q : SizeAt(k, FreeOf(q)) = 4096 - Body(q)
    PROVE  Sum(Sizes(Spots(Q), k), Spots(Q), 4032 * (Cardinality(Q) - 1) + 3808)
  <1>0. \E R : R = Q \ {1}
    <2> DEFINE R == Q \ {1}
    <2>1. R = Q \ {1}
      OBVIOUS
    <2> HIDE DEF R
    <2>2. QED
      BY <2>1
  <1>0b. PICK R : R = Q \ {1}
    BY <1>0
  <1>0a. PICK x : x = FreeOf(1)
    OBVIOUS
  <1>1. PICK D, G : R = Q \ {1} /\ x = FreeOf(1) /\ D = Spots(Q) /\ G = Spots(R)
    BY <1>0b, <1>0a
  <1>2. IsFiniteSet(Q) /\ Cardinality(Q) \in Nat
    BY SpotsCount
  <1>3. Cardinality(R) = Cardinality(Q) - 1
    BY <1>1, <1>2, FS_RemoveElement
  <1>4. x \notin G /\ D = G \cup {x}
    <2>1. \A q \in Q : FreeOf(q)[1] = q
      BY FreeAddr
    <2>2. QED
      BY <1>1, <2>1 DEF Spots
  <1>5. SizeAt(k, x) = 3808
    <2>1. Body(1) = 288
      BY DEF Body, HeadOf
    <2>2. QED
      BY <1>1, <2>1
  <1>6. Sum(Sizes(G, k), G, 4032 * Cardinality(R))
    <2>1. R \subseteq Page /\ 1 \notin R /\ \A q \in R : SizeAt(k, FreeOf(q)) = 4096 - Body(q)
      BY <1>1
    <2>2. QED
      BY <1>1, <2>1, SpotsSum
  <1>7. PICK g, h, w : g = Sizes(G, k) /\ h = Sizes(D, k) /\ w = 4032 * Cardinality(R)
    OBVIOUS
  <1>8. \A y \in G : SizeAt(k, y) \in Int
    BY <1>6, SizesInt
  <1>9. \A y \in D : SizeAt(k, y) \in Int
    BY <1>4, <1>5, <1>8
  <1>10. h \in [D -> Int] /\ \A y \in D : h[y] = SizeAt(k, y)
    BY <1>7, <1>9, SizesOf
  <1>11. Agree(h, g, G) /\ h[x] = 3808 /\ h \in [G \cup {x} -> Int]
    <2>1. \A y \in G : g[y] = SizeAt(k, y)
      BY <1>7 DEF Sizes
    <2>2. QED
      BY <1>4, <1>5, <1>10, <2>1 DEF Agree
  <1>12. PICK n \in Int : n = 3808
    OBVIOUS
  <1>13. Sum(h, G \cup {x}, w + n)
    <2>1. Sum(g, G, w) /\ h[x] = n
      BY <1>6, <1>7, <1>11, <1>12
    <2>2. QED
      BY <1>4, <1>11, <2>1, SumMore
  <1>14. w + n = 4032 * (Cardinality(Q) - 1) + 3808
    BY <1>3, <1>7, <1>12
  <1>15. QED
    BY <1>1, <1>4, <1>7, <1>13, <1>14

(* A list of the free blocks of pages that are all different. *)
LEMMA LinesOf ==
    ASSUME NEW n \in Nat, NEW s \in [1..n -> Page], \A i, j \in 1..n : s[i] = s[j] => i = j,
           NEW Q, Q = { s[i] : i \in 1..n }, NEW u, u = [i \in 1..n |-> FreeOf(s[i])]
    PROVE  Lines(u, Spots(Q))
  <1>1. \A q \in Page : FreeOf(q) \in Addr /\ FreeOf(q)[1] = q
    BY FreeAddr
  <1>2. u \in [1..n -> Addr] /\ \A i \in 1..n : u[i] = FreeOf(s[i])
    BY <1>1
  <1>3. u \in Seq(Addr) /\ Len(u) = n
    BY <1>2
  <1>4. ASSUME NEW x PROVE Contains(u, x) <=> x \in Spots(Q)
    <2>1. Contains(u, x) <=> \E i \in 1..n : FreeOf(s[i]) = x
      BY <1>2, <1>3 DEF Contains
    <2>2. x \in Spots(Q) <=> \E q \in Q : FreeOf(q) = x
      BY DEF Spots
    <2>3. QED
      BY <2>1, <2>2
  <1>5. ASSUME NEW x, NEW i \in 1..n, NEW j \in 1..n, u[i] = x, u[j] = x PROVE i = j
    <2>1. FreeOf(s[i]) = FreeOf(s[j])
      BY <1>2, <1>5
    <2>2. s[i] = s[j]
      BY <1>1, <2>1
    <2>3. QED
      BY <2>2
  <1>6. \A x : Single(u, x)
    BY <1>3, <1>5 DEF Single
  <1>7. QED
    BY <1>3, <1>4, <1>6 DEF Lines

(* No pages, no blocks. *)
LEMMA NoPool ==
    ASSUME NEW m, DOMAIN m = Page
    PROVE  Pool({}, m, Empty, 0)
  <1>1. Free({}, m) = {} /\ GoodPages({}, m)
    BY DEF Free, GoodPages
  <1>2. ListsOK(Empty) /\ \A i \in Class : Empty[i] = <<>>
    BY DEF ListsOK, Empty
  <1>3. \A i \in Class : \A x : ~In(Empty, i, x) /\ Single(Empty[i], x)
    BY <1>2 DEF In, Contains, Single
  <1>4. \A x : Once(Empty, x)
    BY <1>3 DEF Once
  <1>5. Listing(Empty, {}, m)
    BY <1>2, <1>3, <1>4 DEF Listing
  <1>6. Sum(Sizes({}, m), {}, 0)
    <2>1. Sizes({}, m) \in [{} -> Int]
      BY DEF Sizes
    <2>2. QED
      BY <2>1, SumNone
  <1>7. QED
    BY <1>1, <1>5, <1>6 DEF Pool, Stock

Begin == 4032 * (InitPages - 1) + 3808
Firsts == 1..InitPages

(* The pool of blank pages that gfs_mem_pool_create and gfs_mem_pool_reset *)
(* leave.                                                                  *)
LEMMA FirstPool ==
    ASSUME NEW k, DOMAIN k = Page, \A q \in Firsts : Blank(q, k[q]),
           NEW u, Lines(u, Spots(Firsts)), NEW C, C = [i \in Class |-> IF i = BigClass THEN u ELSE <<>>]
    PROVE  Pool(Firsts, k, C, Begin)
  <1>1. Firsts \subseteq Page /\ 1 \in Firsts
    BY MemAssumption DEF Firsts, Page
  <1>2. Cardinality(Firsts) = InitPages
    BY FS_Interval, MemAssumption DEF Firsts
  <1>3. Pool({}, k, Empty, 0)
    BY NoPool
  <1>4. u \in Seq(Addr) /\ BigClass \in Class
    BY DEF Lines, BigClass, Class
  <1>5. C = [Empty EXCEPT ![BigClass] = u \o @]
    <2>1. u \o <<>> = u
      BY <1>4
    <2>2. DOMAIN Empty = Class /\ \A i \in Class : Empty[i] = <<>>
      BY DEF Empty
    <2>3. PICK G : G = [Empty EXCEPT ![BigClass] = u \o @]
      OBVIOUS
    <2>4. DOMAIN G = Class /\ G[BigClass] = u /\ (\A i \in Class : i # BigClass => G[i] = <<>>)
      BY <1>4, <2>1, <2>2, <2>3
    <2>5. G = [i \in Class |-> IF i = BigClass THEN u ELSE <<>>]
      <3>1. G = [i \in Class |-> G[i]]
        BY <2>2, <2>3
      <3>2. QED
        BY <2>4, <3>1
    <2>6. QED
      BY <2>3, <2>5
  <1>6. GoodPages(Firsts, k)
    <2>2. ASSUME NEW q \in Firsts PROVE Good(q, k[q], Edges(k[q]))
      <3>1. Good(q, k[q], Trio(q))
        BY DEF Blank
      <3>2. CutBy(k[q], Trio(q))
        BY <3>1, GoodPage
      <3>3. Edges(k[q]) = Trio(q)
        BY <3>2, EdgesOf
      <3>4. QED
        BY <3>1, <3>3
    <2>3. QED
      BY <2>2 DEF GoodPages
  <1>7. \A q \in Firsts : SizeAt(k, FreeOf(q)) = 4096 - Body(q)
    <2>1. ASSUME NEW q \in Firsts PROVE SizeAt(k, FreeOf(q)) = 4096 - Body(q)
      <3>1. Idle(Firsts, k, q)
        BY <1>1, <1>6, BlankView
      <3>2. QED
        BY <3>1 DEF Idle
    <2>2. QED
      BY <2>1
  <1>8. Sum(Sizes(Spots(Firsts), k), Spots(Firsts), Begin)
    <2>1. Sum(Sizes(Spots(Firsts), k), Spots(Firsts), 4032 * (Cardinality(Firsts) - 1) + 3808)
      BY <1>1, <1>7, SpotsSumOne
    <2>2. QED
      BY <1>2, <2>1 DEF Begin
  <1>9. PICK O, Q, z, v : O = {} /\ Q = Firsts /\ z = 0 /\ v = Begin
    OBVIOUS
  <1>10. Widened(O, Q, k, k, C, z + v)
    <2>1. Pool(O, k, Empty, z) /\ Q \subseteq Page /\ O \cap Q = {} /\ \A p \in O : k[p] = k[p]
      BY <1>1, <1>3, <1>9
    <2>2. \A q \in Q : Blank(q, k[q])
      BY <1>9
    <2>3. Lines(u, Spots(Q)) /\ Sum(Sizes(Spots(Q), k), Spots(Q), v)
      BY <1>8, <1>9
    <2>4. QED
      BY <1>5, <2>1, <2>2, <2>3, AddPages
  <1>11. O \cup Q = Firsts
    BY <1>9
  <1>12. z + v = Begin
    BY <1>9, MemAssumption DEF Begin
  <1>13. QED
    BY <1>10, <1>11, <1>12 DEF Widened

------------------------------------------------------------------------------
(* The books of the pool. *)

TakenBy(m, L, lv) == [x \in lv |-> TakenIn(m, L, x)]
HoldsAt(P, m, x) == x.at[1] # 0 => x.at \in Used(P, m) /\ x.n + 24 <= SizeAt(m, x.at)
Keeps(P, m, L, lv) == LiveOK(lv) /\ LargeOK(L, lv) /\ \A x \in lv : HoldsAt(P, m, x)
Sums3(m, B, P, L, lv, w, l, v) ==
    Pool(P, m, B, w) /\ Sum(L, DOMAIN L, l) /\ Sum(TakenBy(m, L, lv), lv, v)
Ledger(P, m, B, L, lv, ps, as, pu, ms, n) ==
    \E w, l, v :
        /\ Sums3(m, B, P, L, lv, w, l, v) /\ Keeps(P, m, L, lv)
        /\ ps = 4096 * n /\ as = ps + l /\ pu = ps + (l - w) /\ ms = v
SoundAt(P, m, B, L, lv, ps, as, pu, ms, n) ==
    /\ SoundPool(P, m, B, L, lv)
    /\ ps = PAGESIZE * n /\ as = ps + Bytes(L)
    /\ pu = ps + (Bytes(L) - FreeBytes(P, m))
    /\ ms = LiveBytes(m, L, lv)

(* Blocks have sizes. *)
LEMMA SizeNat ==
    ASSUME NEW P, P \subseteq Page, NEW m, GoodPages(P, m), NEW x,
           x \in Free(P, m) \/ x \in Used(P, m)
    PROVE  SizeAt(m, x) \in Nat
  <1>1. PICK p, b, M, E, e, c : Sits(P, m, x, p, b, M, E, e, c)
    BY BlockSits
  <1>2. QED
    BY <1>1 DEF Sits

(* What is handed out, as an entry of a list. *)
LEMMA HandedParts ==
    ASSUME NEW x \in Handed
    PROVE  /\ x.n \in Nat /\ x.n \in Size /\ x.at[1] \in Nat /\ x.at[2] \in Nat
           /\ x.at = <<x.at[1], x.at[2]>> /\ (x.at[1] # 0 => x.at[1] \in Page)
  <1>1. x.n \in Size /\ x.at \in (0..MaxPages) \X Nat
    BY DEF Handed
  <1>2. x.n \in Nat
    BY <1>1, MemAssumption
  <1>3. PICK y : y = x.at
    OBVIOUS
  <1>4. y \in (0..MaxPages) \X Nat
    BY <1>1, <1>3
  <1>5. y[1] \in 0..MaxPages /\ y[2] \in Nat /\ y = <<y[1], y[2]>>
    BY <1>4
  <1>6. y[1] \in Nat /\ (y[1] # 0 => y[1] \in Page)
    BY <1>5, MemAssumption DEF Page
  <1>7. QED
    BY <1>1, <1>2, <1>3, <1>5, <1>6

(* The two ways to say that a block is one of the pool and large enough. *)
LEMMA HoldsIs ==
    ASSUME NEW P, P \subseteq Page, NEW m, GoodPages(P, m), NEW x \in Handed
    PROVE  Holds(P, m, x) <=> HoldsAt(P, m, x)
  <1>1. PICK y, p, b : y = x.at /\ p = y[1] /\ b = y[2]
    OBVIOUS
  <1>2. x.n \in Nat /\ p \in Nat /\ b \in Nat /\ y = <<p, b>> /\ (p # 0 => p \in Page)
    BY <1>1, HandedParts
  <1>3. CASE p = 0
    BY <1>1, <1>3 DEF Holds, HoldsAt
  <1>4. CASE p # 0 /\ p \notin P
    <2>1. y \notin Used(P, m)
      BY <1>1, <1>4 DEF Used
    <2>2. QED
      BY <1>1, <1>4, <2>1 DEF Holds, HoldsAt
  <1>5. CASE p # 0 /\ p \in P
    <2>1. PICK M, E : M = m[p] /\ E = Edges(M)
      OBVIOUS
    <2>2. Good(p, M, E)
      BY <1>5, <2>1 DEF GoodPages
    <2>3. CutBy(M, E) /\ \A z \in E : z \in Nat /\ z <= 4096
      BY <2>2, GoodPage
    <2>4. Starts(M) \subseteq E
      BY <2>3, EdgesOf
    <2>5. b \in Starts(M) => y \in Addr
      <3>1. b \in Starts(M) => b \in Offset
        BY <2>3, <2>4, Offsets
      <3>2. QED
        BY <1>2, <1>5, <3>1, AddrParts
    <2>6. y \in Used(P, m) <=> b \in Starts(M) \ {16} /\ Hd(M, b).used
      BY <1>1, <1>5, <2>1, <2>5 DEF Used
    <2>7. SizeAt(m, y) = Hd(M, b).size
      BY <1>1, <2>1 DEF SizeAt, Hd
    <2>8. y \in Used(P, m) => Hd(M, b).size \in Nat
      BY <2>7, SizeNat
    <2>9. PICK s : s = Hd(M, b).size
      OBVIOUS
    <2>10. s \in Nat => (x.n <= s - 8 - 16 <=> x.n + 24 <= s)
      BY <1>2
    <2>11. Holds(P, m, x) <=> y \in Used(P, m) /\ x.n <= s - 8 - 16
      BY <1>1, <1>5, <2>1, <2>6, <2>9 DEF Holds
    <2>12. HoldsAt(P, m, x) <=> y \in Used(P, m) /\ x.n + 24 <= s
      BY <1>1, <1>5, <2>7, <2>9 DEF HoldsAt
    <2>13. QED
      BY <2>8, <2>9, <2>10, <2>11, <2>12
  <1>6. QED
    BY <1>3, <1>4, <1>5

(* The same of all that is handed out. *)
LEMMA ApartIs ==
    ASSUME NEW P, P \subseteq Page, NEW m, GoodPages(P, m), NEW L, NEW lv
    PROVE  Apart(P, m, L, lv) <=> Keeps(P, m, L, lv)
  <1>1. LiveOK(lv) => lv \subseteq Handed
    BY DEF LiveOK
  <1>2. \A x \in Handed : Holds(P, m, x) <=> HoldsAt(P, m, x)
    BY HoldsIs
  <1>3. QED
    BY <1>1, <1>2 DEF Apart, Keeps

(* A sound pool has its books in order ... *)
LEMMA SoundOpen ==
    ASSUME NEW P, P \subseteq Page, NEW m, DOMAIN m = Page, NEW B, NEW L, NEW lv,
           NEW ps, NEW as, NEW pu, NEW ms, NEW n, SoundAt(P, m, B, L, lv, ps, as, pu, ms, n)
    PROVE  Ledger(P, m, B, L, lv, ps, as, pu, ms, n)
  <1>1. /\ GoodPages(P, m) /\ Listing(B, Free(P, m), m) /\ Apart(P, m, L, lv)
        /\ ps = 4096 * n /\ as = ps + Bytes(L)
        /\ pu = ps + (Bytes(L) - FreeBytes(P, m)) /\ ms = LiveBytes(m, L, lv)
    BY DEF SoundAt, SoundPool
  <1>2. Keeps(P, m, L, lv)
    BY <1>1, ApartIs
  <1>3. PICK S, f : S = Free(P, m) /\ f = Sizes(S, m)
    OBVIOUS
  <1>4. S \subseteq Addr /\ IsFiniteSet(S)
    <2>1. S \in SUBSET Addr
      BY <1>3 DEF Free
    <2>2. QED
      BY <2>1, AddrFinite, FS_Subset
  <1>5. f \in [S -> Int]
    <2>1. \A x \in S : SizeAt(m, x) \in Int
      BY <1>1, <1>3, SizeNat
    <2>2. QED
      BY <1>3, <2>1, SizesOf
  <1>6. Bytes(f) = FreeBytes(P, m)
    BY <1>3 DEF FreeBytes, Sizes
  <1>7. Sum(f, S, FreeBytes(P, m))
    <2>1. Bytes(f) \in Int
      BY <1>4, <1>5, BytesInt
    <2>2. QED
      BY <1>4, <1>5, <1>6, <2>1 DEF Sum
  <1>8. Pool(P, m, B, FreeBytes(P, m))
    BY <1>1, <1>3, <1>4, <1>7 DEF Pool, Stock
  <1>9. L \in [DOMAIN L -> Nat] /\ DOMAIN L \subseteq 1..MaxLive
    BY <1>2 DEF Keeps, LargeOK
  <1>10. Sum(L, DOMAIN L, Bytes(L))
    <2>1. IsFiniteSet(1..MaxLive)
      BY FS_Interval, MemAssumption
    <2>2. IsFiniteSet(DOMAIN L)
      BY <1>9, <2>1, FS_Subset
    <2>3. PICK D : D = DOMAIN L
      OBVIOUS
    <2>4. L \in [D -> Int] /\ IsFiniteSet(D)
      BY <1>9, <2>2, <2>3
    <2>5. Bytes(L) \in Int
      BY <2>4, BytesInt
    <2>6. Sum(L, D, Bytes(L))
      BY <2>4, <2>5 DEF Sum
    <2>7. QED
      BY <2>3, <2>6
  <1>11. PICK h : h = TakenBy(m, L, lv)
    OBVIOUS
  <1>12. h \in [lv -> Int] /\ IsFiniteSet(lv)
    <2>1. IsFiniteSet(lv)
      BY <1>2 DEF Keeps, LiveOK
    <2>2. ASSUME NEW x \in lv PROVE TakenIn(m, L, x) \in Int
      <3>1. CASE x.at[1] = 0
        BY <1>2, <1>9, <3>1 DEF TakenIn, Keeps, LargeOK
      <3>2. CASE x.at[1] # 0
        <4>1. x.at \in Used(P, m)
          BY <1>2, <3>2 DEF Keeps, HoldsAt
        <4>2. SizeAt(m, x.at) \in Nat
          BY <1>1, <4>1, SizeNat
        <4>3. QED
          BY <3>2, <4>2 DEF TakenIn
      <3>3. QED
        BY <3>1, <3>2
    <2>3. QED
      BY <1>11, <2>1, <2>2 DEF TakenBy
  <1>13. Sum(h, lv, LiveBytes(m, L, lv))
    <2>1. Bytes(h) \in Int
      BY <1>12, BytesInt
    <2>2. Bytes(h) = LiveBytes(m, L, lv)
      BY <1>11 DEF LiveBytes, TakenBy
    <2>3. QED
      BY <1>12, <2>1, <2>2 DEF Sum
  <1>14. PICK w, l, v : w = FreeBytes(P, m) /\ l = Bytes(L) /\ v = LiveBytes(m, L, lv)
    OBVIOUS
  <1>15. Sums3(m, B, P, L, lv, w, l, v)
    BY <1>8, <1>10, <1>11, <1>13, <1>14 DEF Sums3
  <1>16. ps = 4096 * n /\ as = ps + l /\ pu = ps + (l - w) /\ ms = v
    BY <1>1, <1>14
  <1>17. QED
    BY <1>2, <1>15, <1>16 DEF Ledger

(* ... and the other way round. *)
LEMMA SoundClose ==
    ASSUME NEW P, NEW m, NEW B, NEW L, NEW lv,
           NEW ps, NEW as, NEW pu, NEW ms, NEW n, Ledger(P, m, B, L, lv, ps, as, pu, ms, n)
    PROVE  SoundAt(P, m, B, L, lv, ps, as, pu, ms, n)
  <1>1. PICK w, l, v : /\ Sums3(m, B, P, L, lv, w, l, v) /\ Keeps(P, m, L, lv)
                       /\ ps = 4096 * n /\ as = ps + l /\ pu = ps + (l - w) /\ ms = v
    BY DEF Ledger
  <1>2. Pool(P, m, B, w) /\ Sum(L, DOMAIN L, l) /\ Sum(TakenBy(m, L, lv), lv, v)
    BY <1>1 DEF Sums3
  <1>3. P \subseteq Page /\ GoodPages(P, m) /\ Listing(B, Free(P, m), m) /\ Sum(Sizes(Free(P, m), m), Free(P, m), w)
    BY <1>2 DEF Pool, Stock
  <1>4. Apart(P, m, L, lv)
    BY <1>1, <1>3, ApartIs
  <1>5. Bytes(L) = l
    BY <1>2 DEF Sum
  <1>6. FreeBytes(P, m) = w
    BY <1>3 DEF Sum, FreeBytes, Sizes
  <1>7. LiveBytes(m, L, lv) = v
    BY <1>2 DEF Sum, LiveBytes, TakenBy
  <1>8. QED
    BY <1>1, <1>3, <1>4, <1>5, <1>6, <1>7 DEF SoundAt, SoundPool

HeldIn(O, m, lv, D) ==
    (\A x \in lv : HoldsAt(O, m, x)) /\ \A x \in lv : x.at[1] # 0 => x.at \in D
Carried(P, m, k, L, lv) ==
    \A x \in lv : TakenIn(k, L, x) = TakenIn(m, L, x) /\ HoldsAt(P, k, x)

(* Blocks that are kept are still held, and weigh the same. *)
LEMMA KeepHeld ==
    ASSUME NEW P, NEW O, NEW m, NEW k, NEW D, Keep(P, m, k, D), NEW L, NEW lv, HeldIn(O, m, lv, D)
    PROVE  Carried(P, m, k, L, lv)
  <1>1. ASSUME NEW x \in lv PROVE TakenIn(k, L, x) = TakenIn(m, L, x) /\ HoldsAt(P, k, x)
    <2>1. CASE x.at[1] = 0
      BY <2>1 DEF TakenIn, HoldsAt
    <2>2. CASE x.at[1] # 0
      <3>1. x.at \in Used(P, k) /\ SizeAt(k, x.at) = SizeAt(m, x.at)
        BY <2>2 DEF Keep, HeldIn
      <3>2. x.n + 24 <= SizeAt(m, x.at)
        BY <2>2 DEF HoldsAt, HeldIn
      <3>3. QED
        BY <2>2, <3>1, <3>2 DEF TakenIn, HoldsAt
    <2>3. QED
      BY <2>1, <2>2
  <1>2. QED
    BY <1>1 DEF Carried

(* What of a sum of sizes is integer. *)
LEMMA TakenInt ==
    ASSUME NEW m, NEW L, NEW lv, NEW v, Sum(TakenBy(m, L, lv), lv, v)
    PROVE  /\ IsFiniteSet(lv) /\ v \in Int
           /\ \A x \in lv : TakenIn(m, L, x) \in Int
           /\ TakenBy(m, L, lv) \in [lv -> Int] /\ \A x \in lv : TakenBy(m, L, lv)[x] = TakenIn(m, L, x)
  <1>1. PICK f : f = TakenBy(m, L, lv)
    OBVIOUS
  <1>2. f \in [lv -> Int] /\ IsFiniteSet(lv) /\ v \in Int
    BY <1>1 DEF Sum
  <1>3. \A x \in lv : f[x] = TakenIn(m, L, x)
    BY <1>1 DEF TakenBy
  <1>4. QED
    BY <1>1, <1>2, <1>3

(* One block more is handed out. *)
LEMMA TakenMore ==
    ASSUME NEW m, NEW L, NEW lv, NEW v, Sum(TakenBy(m, L, lv), lv, v),
           NEW k, NEW K, NEW h, h \notin lv, NEW n \in Int, TakenIn(k, K, h) = n,
           \A x \in lv : TakenIn(k, K, x) = TakenIn(m, L, x)
    PROVE  Sum(TakenBy(k, K, lv \cup {h}), lv \cup {h}, v + n)
  <1>1. PICK f, g, U : f = TakenBy(m, L, lv) /\ U = lv \cup {h} /\ g = TakenBy(k, K, U)
    OBVIOUS
  <1>2. (\A x \in lv : TakenIn(m, L, x) \in Int) /\ \A x \in lv : f[x] = TakenIn(m, L, x)
    BY <1>1, TakenInt
  <1>3. \A x \in U : g[x] = TakenIn(k, K, x)
    BY <1>1 DEF TakenBy
  <1>4. g \in [U -> Int]
    <2>1. \A x \in U : TakenIn(k, K, x) \in Int
      BY <1>1, <1>2
    <2>2. QED
      BY <1>1, <2>1 DEF TakenBy
  <1>5. Agree(g, f, lv) /\ g[h] = n /\ Sum(f, lv, v) /\ g \in [lv \cup {h} -> Int]
    BY <1>1, <1>2, <1>3, <1>4 DEF Agree
  <1>6. Sum(g, lv \cup {h}, v + n)
    BY <1>5, SumMore
  <1>7. QED
    BY <1>1, <1>6

(* One block less. *)
LEMMA TakenLess ==
    ASSUME NEW m, NEW L, NEW lv, NEW v, Sum(TakenBy(m, L, lv), lv, v),
           NEW k, NEW K, NEW h \in lv, NEW n, TakenIn(m, L, h) = n,
           \A x \in lv \ {h} : TakenIn(k, K, x) = TakenIn(m, L, x)
    PROVE  Sum(TakenBy(k, K, lv \ {h}), lv \ {h}, v - n)
  <1>1. PICK f, g, U : f = TakenBy(m, L, lv) /\ U = lv \ {h} /\ g = TakenBy(k, K, U)
    OBVIOUS
  <1>2. (\A x \in lv : TakenIn(m, L, x) \in Int) /\ \A x \in lv : f[x] = TakenIn(m, L, x)
    BY <1>1, TakenInt
  <1>3. \A x \in U : g[x] = TakenIn(k, K, x)
    BY <1>1 DEF TakenBy
  <1>4. g \in [U -> Int]
    <2>1. \A x \in U : TakenIn(k, K, x) \in Int
      BY <1>1, <1>2
    <2>2. QED
      BY <1>1, <2>1 DEF TakenBy
  <1>5. Agree(f, g, lv \ {h}) /\ f[h] = n /\ Sum(f, lv, v) /\ g \in [lv \ {h} -> Int]
    BY <1>1, <1>2, <1>3, <1>4 DEF Agree
  <1>6. Sum(g, lv \ {h}, v - n)
    BY <1>5, SumLess
  <1>7. QED
    BY <1>1, <1>6

(* None changes. *)
LEMMA TakenSame ==
    ASSUME NEW m, NEW L, NEW lv, NEW v, Sum(TakenBy(m, L, lv), lv, v),
           NEW k, NEW K, \A x \in lv : TakenIn(k, K, x) = TakenIn(m, L, x)
    PROVE  Sum(TakenBy(k, K, lv), lv, v)
  <1>1. TakenBy(k, K, lv) = TakenBy(m, L, lv)
    BY DEF TakenBy
  <1>2. QED
    BY <1>1

(* gfs_mem_place in the books. *)
LEMMA BookTake ==
    ASSUME NEW P, NEW m, NEW B, NEW L, NEW lv, NEW w, NEW l, NEW v,
           Sums3(m, B, P, L, lv, w, l, v), Keeps(P, m, L, lv),
           NEW x \in Free(P, m), NEW k, NEW C, NEW n, NEW a \in Nat, Gave(P, m, k, C, x, w, n, a),
           NEW s \in Size, s + 24 <= a, NEW h, h = [at |-> x, n |-> s]
    PROVE  Sums3(k, C, P, L, lv \cup {h}, w - n, l, v + n) /\ Keeps(P, k, L, lv \cup {h})
  <1>1. Pool(P, m, B, w) /\ Sum(L, DOMAIN L, l) /\ Sum(TakenBy(m, L, lv), lv, v)
    BY DEF Sums3
  <1>2. /\ Pool(P, k, C, w - n) /\ Keep(P, m, k, Used(P, m))
        /\ x \in Used(P, k) /\ SizeAt(k, x) = n /\ a <= n /\ n \in Nat
    BY DEF Gave
  <1>3. LiveOK(lv) /\ LargeOK(L, lv) /\ \A y \in lv : HoldsAt(P, m, y)
    BY DEF Keeps
  <1>4. lv \subseteq Handed /\ IsFiniteSet(lv) /\ \A y, z \in lv : y.at = z.at => y = z
    BY <1>3 DEF LiveOK
  <1>5. x \in Addr /\ x[1] \in Page /\ x[2] \in Nat /\ x = <<x[1], x[2]>> /\ x \notin Used(P, m) /\ x[1] # 0
    <2>1. x \in Addr /\ x \notin Used(P, m)
      BY DEF Free, Used
    <2>2. x[1] \in Page /\ x[2] \in Offset /\ x = <<x[1], x[2]>>
      BY <2>1, AddrParts
    <2>3. x[2] \in Nat
      BY <2>2, Offsets
    <2>4. x[1] # 0
      BY <2>2, MemAssumption DEF Page
    <2>5. QED
      BY <2>1, <2>2, <2>3, <2>4
  <1>6. h \in Handed /\ h.at = x /\ h.n = s
    <2>1. x[1] \in 0..MaxPages
      BY <1>5, MemAssumption DEF Page
    <2>2. x \in (0..MaxPages) \X Nat
      BY <1>5, <2>1
    <2>3. QED
      BY <2>2 DEF Handed
  <1>7. \A y \in lv : y.at # x
    BY <1>3, <1>5 DEF HoldsAt
  <1>8. h \notin lv
    BY <1>6, <1>7
  <1>9. \A y \in lv : TakenIn(k, L, y) = TakenIn(m, L, y) /\ HoldsAt(P, k, y)
    <2>1. \A y \in lv : y.at[1] # 0 => y.at \in Used(P, m)
      BY <1>3 DEF HoldsAt
    <2>2. HeldIn(P, m, lv, Used(P, m))
      BY <1>3, <2>1 DEF HeldIn
    <2>3. Carried(P, m, k, L, lv)
      BY <1>2, <2>2, KeepHeld
    <2>4. QED
      BY <2>3 DEF Carried
  <1>10. TakenIn(k, L, h) = n
    BY <1>2, <1>5, <1>6 DEF TakenIn
  <1>11. Sum(TakenBy(k, L, lv \cup {h}), lv \cup {h}, v + n)
    <2>1. n \in Int
      BY <1>2
    <2>2. QED
      BY <1>1, <1>8, <1>9, <1>10, <2>1, TakenMore
  <1>12. HoldsAt(P, k, h)
    <2>1. s \in Nat
      BY MemAssumption
    <2>2. s + 24 <= n
      BY <1>2, <2>1
    <2>3. QED
      BY <1>2, <1>6, <2>2 DEF HoldsAt
  <1>13. LiveOK(lv \cup {h})
    <2>1. IsFiniteSet(lv \cup {h})
      BY <1>4, FS_AddElement
    <2>2. QED
      BY <1>4, <1>6, <1>7, <2>1 DEF LiveOK
  <1>14. LargeOK(L, lv \cup {h})
    BY <1>3, <1>5, <1>6 DEF LargeOK
  <1>15. QED
    BY <1>1, <1>2, <1>9, <1>11, <1>12, <1>13, <1>14 DEF Sums3, Keeps

(* gfs_mem_extend_pool in the books. *)
LEMMA BookWiden ==
    ASSUME NEW P, NEW m, NEW B, NEW L, NEW lv, NEW w, NEW l, NEW v,
           Sums3(m, B, P, L, lv, w, l, v), Keeps(P, m, L, lv),
           NEW Q, NEW k, NEW C, NEW z, Widened(P, Q, m, k, C, z)
    PROVE  Sums3(k, C, P \cup Q, L, lv, z, l, v) /\ Keeps(P \cup Q, k, L, lv)
  <1>1. Sum(L, DOMAIN L, l) /\ Sum(TakenBy(m, L, lv), lv, v)
    BY DEF Sums3
  <1>2. LiveOK(lv) /\ LargeOK(L, lv) /\ \A y \in lv : HoldsAt(P, m, y)
    BY DEF Keeps
  <1>3. PICK U : U = P \cup Q
    OBVIOUS
  <1>4. Pool(U, k, C, z) /\ Keep(U, m, k, Used(P, m))
    BY <1>3 DEF Widened
  <1>5. \A y \in lv : TakenIn(k, L, y) = TakenIn(m, L, y) /\ HoldsAt(U, k, y)
    <2>1. \A y \in lv : y.at[1] # 0 => y.at \in Used(P, m)
      BY <1>2 DEF HoldsAt
    <2>2. HeldIn(P, m, lv, Used(P, m))
      BY <1>2, <2>1 DEF HeldIn
    <2>3. Carried(U, m, k, L, lv)
      BY <1>4, <2>2, KeepHeld
    <2>4. QED
      BY <2>3 DEF Carried
  <1>6. Sum(TakenBy(k, L, lv), lv, v)
    BY <1>1, <1>5, TakenSame
  <1>7. QED
    BY <1>1, <1>2, <1>3, <1>4, <1>5, <1>6 DEF Sums3, Keeps

(* gfs_mem_free in the books. *)
LEMMA BookGive ==
    ASSUME NEW P, NEW m, NEW B, NEW L, NEW lv, NEW w, NEW l, NEW v,
           Sums3(m, B, P, L, lv, w, l, v), Keeps(P, m, L, lv),
           NEW h \in lv, h.at[1] # 0, NEW k, NEW C, NEW n, n = SizeAt(m, h.at),
           GaveBack(P, m, k, C, h.at, w, n)
    PROVE  Sums3(k, C, P, L, lv \ {h}, w + n, l, v - n) /\ Keeps(P, k, L, lv \ {h})
  <1>1. Sum(L, DOMAIN L, l) /\ Sum(TakenBy(m, L, lv), lv, v)
    BY DEF Sums3
  <1>2. LiveOK(lv) /\ LargeOK(L, lv) /\ \A y \in lv : HoldsAt(P, m, y)
    BY DEF Keeps
  <1>3. lv \subseteq Handed /\ IsFiniteSet(lv) /\ \A y, z \in lv : y.at = z.at => y = z
    BY <1>2 DEF LiveOK
  <1>4. PICK U, D : U = lv \ {h} /\ D = Used(P, m) \ {h.at}
    OBVIOUS
  <1>5. Pool(P, k, C, w + n) /\ Keep(P, m, k, D)
    BY <1>4 DEF GaveBack
  <1>6. \A y \in U : TakenIn(k, L, y) = TakenIn(m, L, y) /\ HoldsAt(P, k, y)
    <2>1. \A y \in U : y.at[1] # 0 => y.at \in D
      BY <1>2, <1>3, <1>4 DEF HoldsAt
    <2>2. \A y \in U : HoldsAt(P, m, y)
      BY <1>2, <1>4
    <2>3. HeldIn(P, m, U, D)
      BY <2>1, <2>2 DEF HeldIn
    <2>4. Carried(P, m, k, L, U)
      BY <1>5, <2>3, KeepHeld
    <2>5. QED
      BY <2>4 DEF Carried
  <1>7. TakenIn(m, L, h) = n
    BY DEF TakenIn
  <1>8. Sum(TakenBy(k, L, lv \ {h}), lv \ {h}, v - n)
    BY <1>1, <1>4, <1>6, <1>7, TakenLess
  <1>9. LiveOK(U)
    <2>1. IsFiniteSet(U)
      BY <1>3, <1>4, FS_RemoveElement
    <2>2. QED
      BY <1>3, <1>4, <2>1 DEF LiveOK
  <1>10. LargeOK(L, U)
    <2>1. /\ L \in [DOMAIN L -> Nat] /\ DOMAIN L \subseteq 1..MaxLive
          /\ \A x \in lv : x.at[1] = 0 => x.at[2] \in DOMAIN L
          /\ \A id \in DOMAIN L : \E x \in lv : x.at = <<0, id>>
      BY <1>2 DEF LargeOK
    <2>2. ASSUME NEW id \in DOMAIN L PROVE \E x \in U : x.at = <<0, id>>
      <3>1. PICK x \in lv : x.at = <<0, id>>
        BY <2>1
      <3>2. x # h
        BY <3>1
      <3>3. QED
        BY <1>4, <3>1, <3>2
    <2>3. QED
      BY <1>4, <2>1, <2>2 DEF LargeOK
  <1>11. QED
    BY <1>1, <1>4, <1>5, <1>6, <1>8, <1>9, <1>10 DEF Sums3, Keeps

(* One large block more ... *)
LEMMA BookLarge ==
    ASSUME NEW P, NEW m, NEW B, NEW L, NEW lv, NEW w, NEW l, NEW v,
           Sums3(m, B, P, L, lv, w, l, v), Keeps(P, m, L, lv),
           NEW id \in 1..MaxLive, id \notin DOMAIN L, NEW z \in Nat, NEW s \in Size,
           NEW K, K = Write(L, id, z), NEW h, h = [at |-> <<0, id>>, n |-> s]
    PROVE  Sums3(m, B, P, K, lv \cup {h}, w, l + z, v + z) /\ Keeps(P, m, K, lv \cup {h})
  <1>1. Pool(P, m, B, w) /\ Sum(L, DOMAIN L, l) /\ Sum(TakenBy(m, L, lv), lv, v)
    BY DEF Sums3
  <1>2. LiveOK(lv) /\ LargeOK(L, lv) /\ \A y \in lv : HoldsAt(P, m, y)
    BY DEF Keeps
  <1>3. lv \subseteq Handed /\ IsFiniteSet(lv) /\ \A y, x \in lv : y.at = x.at => y = x
    BY <1>2 DEF LiveOK
  <1>4. /\ L \in [DOMAIN L -> Nat] /\ DOMAIN L \subseteq 1..MaxLive
        /\ \A x \in lv : x.at[1] = 0 => x.at[2] \in DOMAIN L
        /\ \A i \in DOMAIN L : \E x \in lv : x.at = <<0, i>>
    BY <1>2 DEF LargeOK
  <1>5. PICK D : D = DOMAIN L
    OBVIOUS
  <1>6. /\ DOMAIN K = D \cup {id} /\ K \in [D \cup {id} -> Nat]
        /\ K[id] = z /\ \A i \in D : K[i] = L[i]
    BY <1>4, <1>5 DEF Write
  <1>7. Sum(K, D \cup {id}, l + z)
    <2>1. Sum(L, D, l) /\ id \notin D /\ z \in Int
      BY <1>1, <1>5
    <2>2. Agree(K, L, D) /\ K \in [D \cup {id} -> Int]
      BY <1>6 DEF Agree
    <2>3. QED
      BY <1>6, <2>1, <2>2, SumMore
  <1>8. h \in Handed /\ h.at = <<0, id>> /\ h.at[1] = 0 /\ h.at[2] = id
    <2>1. 0 \in 0..MaxPages /\ id \in Nat
      BY MemAssumption
    <2>2. <<0, id>> \in (0..MaxPages) \X Nat
      BY <2>1
    <2>3. QED
      BY <2>2 DEF Handed
  <1>9. ASSUME NEW y \in lv PROVE y.at # h.at
    BY <1>4, <1>8
  <1>10. h \notin lv
    BY <1>9
  <1>11. ASSUME NEW x \in lv PROVE TakenIn(m, K, x) = TakenIn(m, L, x)
    BY <1>4, <1>5, <1>6 DEF TakenIn
  <1>12. TakenIn(m, K, h) = z
    BY <1>6, <1>8 DEF TakenIn
  <1>13. Sum(TakenBy(m, K, lv \cup {h}), lv \cup {h}, v + z)
    <2>1. z \in Int
      OBVIOUS
    <2>2. \A x \in lv : TakenIn(m, K, x) = TakenIn(m, L, x)
      BY <1>11
    <2>3. QED
      BY <1>1, <1>10, <1>12, <2>1, <2>2, TakenMore
  <1>14. LiveOK(lv \cup {h})
    <2>1. IsFiniteSet(lv \cup {h})
      BY <1>3, FS_AddElement
    <2>2. QED
      BY <1>3, <1>8, <1>9, <2>1 DEF LiveOK
  <1>15. LargeOK(K, lv \cup {h})
    <2>1. \A x \in lv \cup {h} : x.at[1] = 0 => x.at[2] \in DOMAIN K
      BY <1>4, <1>5, <1>6, <1>8
    <2>2. \A i \in DOMAIN K : \E x \in lv \cup {h} : x.at = <<0, i>>
      BY <1>4, <1>5, <1>6, <1>8
    <2>3. K \in [DOMAIN K -> Nat] /\ DOMAIN K \subseteq 1..MaxLive
      BY <1>4, <1>5, <1>6
    <2>4. QED
      BY <2>1, <2>2, <2>3 DEF LargeOK
  <1>16. \A x \in lv \cup {h} : HoldsAt(P, m, x)
    BY <1>2, <1>8 DEF HoldsAt
  <1>17. QED
    BY <1>1, <1>6, <1>7, <1>13, <1>14, <1>15, <1>16 DEF Sums3, Keeps

(* ... and one less. *)
LEMMA BookUnlarge ==
    ASSUME NEW P, NEW m, NEW B, NEW L, NEW lv, NEW w, NEW l, NEW v,
           Sums3(m, B, P, L, lv, w, l, v), Keeps(P, m, L, lv),
           NEW h \in lv, h.at[1] = 0, NEW id, id = h.at[2], NEW z, z = L[id],
           NEW K, K = [i \in DOMAIN L \ {id} |-> L[i]]
    PROVE  /\ Sums3(m, B, P, K, lv \ {h}, w, l - z, v - z) /\ Keeps(P, m, K, lv \ {h})
           /\ z \in Nat
  <1>1. Pool(P, m, B, w) /\ Sum(L, DOMAIN L, l) /\ Sum(TakenBy(m, L, lv), lv, v)
    BY DEF Sums3
  <1>2. LiveOK(lv) /\ LargeOK(L, lv) /\ \A y \in lv : HoldsAt(P, m, y)
    BY DEF Keeps
  <1>3. lv \subseteq Handed /\ IsFiniteSet(lv) /\ \A y, x \in lv : y.at = x.at => y = x
    BY <1>2 DEF LiveOK
  <1>4. /\ L \in [DOMAIN L -> Nat] /\ DOMAIN L \subseteq 1..MaxLive
        /\ \A x \in lv : x.at[1] = 0 => x.at[2] \in DOMAIN L
        /\ \A i \in DOMAIN L : \E x \in lv : x.at = <<0, i>>
    BY <1>2 DEF LargeOK
  <1>5. PICK D, U : D = DOMAIN L /\ U = lv \ {h}
    OBVIOUS
  <1>6. /\ DOMAIN K = D \ {id} /\ K \in [D \ {id} -> Nat]
        /\ id \in D /\ z \in Nat /\ \A i \in D \ {id} : K[i] = L[i]
    BY <1>4, <1>5
  <1>7. Sum(K, D \ {id}, l - z)
    <2>1. Sum(L, D, l) /\ id \in D /\ L[id] = z
      BY <1>1, <1>5, <1>6
    <2>2. Agree(L, K, D \ {id}) /\ K \in [D \ {id} -> Int]
      BY <1>6 DEF Agree
    <2>3. QED
      BY <2>1, <2>2, SumLess
  <1>8. h.at = <<0, id>>
    <2>1. h.at = <<h.at[1], h.at[2]>>
      BY <1>3, HandedParts
    <2>2. QED
      BY <2>1
  <1>9. ASSUME NEW y \in U, y.at[1] = 0 PROVE y.at[2] \in D \ {id}
    <2>1. y \in Handed /\ y # h /\ y \in lv
      BY <1>3, <1>5
    <2>2. y.at = <<y.at[1], y.at[2]>>
      BY <2>1, HandedParts
    <2>3. y.at[2] # id
      BY <1>3, <1>8, <1>9, <2>1, <2>2
    <2>4. QED
      BY <1>4, <1>5, <1>9, <2>1, <2>3
  <1>11. ASSUME NEW x \in U PROVE TakenIn(m, K, x) = TakenIn(m, L, x)
    BY <1>6, <1>9 DEF TakenIn
  <1>12. TakenIn(m, L, h) = z
    BY DEF TakenIn
  <1>13. Sum(TakenBy(m, K, lv \ {h}), lv \ {h}, v - z)
    <2>2. \A x \in lv \ {h} : TakenIn(m, K, x) = TakenIn(m, L, x)
      BY <1>5, <1>11
    <2>3. QED
      BY <1>1, <1>12, <2>2, TakenLess
  <1>14. LiveOK(U)
    <2>1. IsFiniteSet(U)
      BY <1>3, <1>5, FS_RemoveElement
    <2>2. QED
      BY <1>3, <1>5, <2>1 DEF LiveOK
  <1>15. LargeOK(K, U)
    <2>1. \A x \in U : x.at[1] = 0 => x.at[2] \in DOMAIN K
      BY <1>6, <1>9
    <2>2. ASSUME NEW i \in DOMAIN K PROVE \E x \in U : x.at = <<0, i>>
      <3>1. i \in D /\ i # id
        BY <1>6
      <3>2. PICK x \in lv : x.at = <<0, i>>
        BY <1>4, <1>5, <3>1
      <3>3. x # h
        BY <1>8, <3>1, <3>2
      <3>4. QED
        BY <1>5, <3>2, <3>3
    <2>3. K \in [DOMAIN K -> Nat] /\ DOMAIN K \subseteq 1..MaxLive
      BY <1>4, <1>5, <1>6
    <2>4. QED
      BY <2>1, <2>2, <2>3 DEF LargeOK
  <1>16. \A x \in U : HoldsAt(P, m, x)
    BY <1>2, <1>5
  <1>17. QED
    BY <1>1, <1>5, <1>6, <1>7, <1>13, <1>14, <1>15, <1>16 DEF Sums3, Keeps

------------------------------------------------------------------------------
(* The steps of a sound pool. *)

(* Rounding up. *)
LEMMA Rounded ==
    ASSUME NEW n \in Nat
    PROVE  Align(n) \in Nat /\ n <= Align(n) /\ Align(n) <= n + 7
  BY DEF Align

(* A block has room for its tags, the pool pointer and what is asked for. *)
LEMMA AsizeRoom ==
    ASSUME NEW n \in Nat
    PROVE  /\ Asize(n) \in Nat /\ 48 <= Asize(n) /\ n + 24 <= Asize(n)
           /\ (n <= 3072 => Asize(n) <= 4032)
  <1>1. PICK z \in Nat : z = Align(n) /\ n <= z /\ z <= n + 7
    BY Rounded
  <1>2. Asize(n) = IF n <= 16 THEN 48 ELSE z + 32
    BY <1>1 DEF Asize
  <1>3. QED
    BY <1>1, <1>2

(* gfs_mem_find_fit finds a free block that is large enough. *)
LEMMA FitFree ==
    ASSUME NEW B, NEW S, NEW m, Listing(B, S, m), NEW i \in Class, NEW a,
           Fits(m, B, i, a) # {}, NEW x, x = find_fit(m, B, i, a)
    PROVE  x \in S /\ SizeAt(m, x) >= a /\ x \in Addr
  <1>1. PICK s, K, j : s = B[i] /\ K = Fits(m, B, i, a) /\ j = Min(K)
    OBVIOUS
  <1>2. s \in Seq(Addr)
    BY <1>1 DEF Listing, ListsOK
  <1>3. K \subseteq Nat /\ K = { k \in DOMAIN s : SizeAt(m, s[k]) >= a } /\ DOMAIN s = 1..Len(s)
    BY <1>1, <1>2 DEF Fits
  <1>4. j \in K
    BY <1>1, <1>3, MinOf
  <1>5. j \in 1..Len(s) /\ x = s[j] /\ SizeAt(m, x) >= a
    BY <1>1, <1>3, <1>4 DEF find_fit
  <1>6. x \in Addr /\ In(B, i, x)
    BY <1>1, <1>2, <1>5 DEF In, Contains
  <1>7. QED
    BY <1>5, <1>6 DEF Listing

(* The class it is searched in. *)
LEMMA ClassesIn ==
    ASSUME NEW n \in Nat, Classes(n) # {}
    PROVE  /\ Min(Classes(n)) \in Class
           /\ Fits(mem, block, Min(Classes(n)), Asize(n)) # {}
  <1>1. PICK a : a = Asize(n)
    OBVIOUS
  <1>2. getindex(a) \in Nat
    <2>1. getindex(a) \in Class
      BY IndexClass
    <2>2. QED
      BY <2>1 DEF Class
  <1>3. FirstClass(a) \in Nat
    BY <1>2 DEF FirstClass
  <1>4. Classes(n) = { i \in FirstClass(a)..7 : Fits(mem, block, i, a) # {} }
    BY <1>1 DEF Classes
  <1>5. Classes(n) \subseteq Nat
    BY <1>3, <1>4
  <1>6. Min(Classes(n)) \in Classes(n)
    BY <1>5, MinOf
  <1>7. Min(Classes(n)) \in FirstClass(a)..7 /\ Fits(mem, block, Min(Classes(n)), a) # {}
    BY <1>4, <1>6
  <1>8. QED
    BY <1>1, <1>3, <1>7 DEF Class

PagesAt(pg, in, m) ==
    /\ pg \in Seq(Page) /\ IsInjective(pg)
    /\ pg = <<>> => in = {}
    /\ pg # <<>> =>
         /\ in = 1..InitPages /\ Len(pg) >= InitPages
         /\ \A k \in 1..InitPages : pg[Len(pg) - InitPages + k] = PageList[k]
    /\ DOMAIN m = Page
    /\ \A p \in Page : p \notin ToSet(pg) => m[p] = <<>>

(* The list of pages, as a set. *)
LEMMA PageSet ==
    ASSUME NEW pg, NEW in, NEW m, PagesAt(pg, in, m)
    PROVE  ToSet(pg) \subseteq Page /\ DOMAIN m = Page /\ Len(pg) \in Nat
  BY DEF PagesAt, ToSet

(* One of its pages changes. *)
LEMMA PagesSame ==
    ASSUME NEW pg, NEW in, NEW m, PagesAt(pg, in, m), NEW k, DOMAIN k = Page,
           NEW p \in ToSet(pg), \A q \in Page : q # p => k[q] = m[q]
    PROVE  PagesAt(pg, in, k)
  BY DEF PagesAt

(* gfs_mem_place touches one page. *)
LEMMA PlaceElse ==
    ASSUME NEW m, DOMAIN m = Page, NEW B, NEW x, NEW a, NEW r, r = Place(m, B, x, a)
    PROVE  DOMAIN r.m = Page /\ \A q \in Page : q # x[1] => r.m[q] = m[q]
  <1>1. ASSUME NEW N, NEW k, k = [m EXCEPT ![x[1]] = N]
        PROVE  DOMAIN k = Page /\ \A q \in Page : q # x[1] => k[q] = m[q]
    BY <1>1
  <1>2. \E N : r.m = [m EXCEPT ![x[1]] = N]
    <2>1. PICK c, M : c = SizeAt(m, x) /\ M = m[x[1]]
      OBVIOUS
    <2>2. CASE c - a >= BLOCK_MIN
      BY <2>1, <2>2 DEF Place
    <2>3. CASE ~(c - a >= BLOCK_MIN)
      <3>1. r.m = [m EXCEPT ![x[1]] = PutBlk(@, x[2], c, TRUE)]
        BY <2>1, <2>3 DEF Place
      <3>2. [m EXCEPT ![x[1]] = PutBlk(@, x[2], c, TRUE)] = [m EXCEPT ![x[1]] = PutBlk(M, x[2], c, TRUE)]
        BY <2>1
      <3>3. QED
        BY <3>1, <3>2
    <2>4. QED
      BY <2>2, <2>3
  <1>3. QED
    BY <1>1, <1>2

Entry(ps, as, pu, ms, n, w, l, v) == ps = 4096 * n /\ as = ps + l /\ pu = ps + (l - w) /\ ms = v

(* The books, from what they add up. *)
LEMMA LedgerBy ==
    ASSUME NEW P, NEW m, NEW B, NEW L, NEW lv, NEW w, NEW l, NEW v, NEW n,
           Sums3(m, B, P, L, lv, w, l, v), Keeps(P, m, L, lv),
           NEW ps, NEW as, NEW pu, NEW ms, Entry(ps, as, pu, ms, n, w, l, v)
    PROVE  Ledger(P, m, B, L, lv, ps, as, pu, ms, n)
  BY DEF Ledger, Entry

(* ... and back. *)
LEMMA LedgerOpen ==
    ASSUME NEW P, NEW m, NEW B, NEW L, NEW lv, NEW ps, NEW as, NEW pu, NEW ms, NEW n,
           Ledger(P, m, B, L, lv, ps, as, pu, ms, n)
    PROVE  \E w, l, v : /\ Sums3(m, B, P, L, lv, w, l, v) /\ Keeps(P, m, L, lv)
                        /\ Entry(ps, as, pu, ms, n, w, l, v) /\ w \in Int /\ l \in Int /\ v \in Int
  <1>1. PICK w, l, v : /\ Sums3(m, B, P, L, lv, w, l, v) /\ Keeps(P, m, L, lv)
                       /\ ps = 4096 * n /\ as = ps + l /\ pu = ps + (l - w) /\ ms = v
    BY DEF Ledger
  <1>2. w \in Int /\ l \in Int /\ v \in Int
    BY <1>1 DEF Sums3, Pool, Stock, Sum
  <1>3. Entry(ps, as, pu, ms, n, w, l, v)
    BY <1>1 DEF Entry
  <1>4. QED
    BY <1>1, <1>2, <1>3

(* A block of a pool with its books in order is handed out. *)
LEMMA LedgerTake ==
    ASSUME NEW P, NEW m, NEW B, NEW L, NEW lv, NEW ps, NEW as, NEW pu, NEW ms, NEW n \in Nat,
           Ledger(P, m, B, L, lv, ps, as, pu, ms, n), NEW x \in Free(P, m), NEW s \in Size,
           NEW a, a = Asize(s), SizeAt(m, x) >= a, NEW r, r = Place(m, B, x, a),
           NEW h, h = [at |-> x, n |-> s]
    PROVE  Ledger(P, r.m, r.B, L, lv \cup {h}, ps, as, pu + r.took, ms + r.took, n)
  <1>1. PICK w, l, v : /\ Sums3(m, B, P, L, lv, w, l, v) /\ Keeps(P, m, L, lv)
                       /\ ps = 4096 * n /\ as = ps + l /\ pu = ps + (l - w) /\ ms = v
    BY DEF Ledger
  <1>2. Pool(P, m, B, w) /\ w \in Int /\ l \in Int /\ v \in Int
    BY <1>1 DEF Sums3, Pool, Stock, Sum
  <1>3. P \subseteq Page /\ GoodPages(P, m) /\ s \in Nat
    BY <1>2, MemAssumption DEF Pool
  <1>4. a \in Nat /\ 48 <= a /\ s + 24 <= a
    BY <1>3, AsizeRoom
  <1>5. a <= SizeAt(m, x)
    <2>1. SizeAt(m, x) \in Nat
      BY <1>3, SizeNat
    <2>2. QED
      BY <1>4, <2>1
  <1>6. PICK k, C, t : k = r.m /\ C = r.B /\ t = r.took
    OBVIOUS
  <1>7. Gave(P, m, k, C, x, w, t, a)
    <2>1. Gave(P, m, r.m, r.B, x, w, r.took, a)
      BY <1>2, <1>4, <1>5, TakeBlock
    <2>2. QED
      BY <1>6, <2>1
  <1>8. t \in Nat
    BY <1>7 DEF Gave
  <1>9. Sums3(k, C, P, L, lv \cup {h}, w - t, l, v + t) /\ Keeps(P, k, L, lv \cup {h})
    <2>1. Sums3(m, B, P, L, lv, w, l, v) /\ Keeps(P, m, L, lv)
      BY <1>1
    <2>2. QED
      BY <1>4, <1>7, <2>1, BookTake
  <1>10. PICK z, y : z = w - t /\ y = v + t
    OBVIOUS
  <1>11. PICK A, D, U : A = pu + t /\ D = ms + t /\ U = lv \cup {h}
    OBVIOUS
  <1>11a. A = ps + (l - z) /\ D = y /\ ps = 4096 * n /\ as = ps + l
    BY <1>1, <1>2, <1>8, <1>10, <1>11
  <1>11b. Sums3(k, C, P, L, U, z, l, y) /\ Keeps(P, k, L, U)
    BY <1>9, <1>10, <1>11
  <1>11c. Ledger(P, k, C, L, U, ps, as, A, D, n)
    <2>1. Entry(ps, as, A, D, n, z, l, y)
      BY <1>11a DEF Entry
    <2>2. QED
      BY <1>11b, <2>1, LedgerBy
  <1>12. QED
    BY <1>6, <1>11, <1>11c

Sane(pg, in, m, B, L, lv, ps, as, pu, ms) ==
    PagesAt(pg, in, m) /\ SoundAt(ToSet(pg), m, B, L, lv, ps, as, pu, ms, Len(pg))

(* The invariant of a sound pool, of its variables. *)
LEMMA SaneIs ==
    PagesOK /\ SoundInv <=> Sane(pages, init, mem, block, large, live, psize, allsize, pused, msize)
  <1>1. PagesOK <=> PagesAt(pages, init, mem)
    BY DEF PagesOK, PagesAt
  <1>2. SoundInv <=> SoundAt(ToSet(pages), mem, block, large, live, psize, allsize, pused, msize, Len(pages))
    BY DEF SoundInv, SoundAt
  <1>3. QED
    BY <1>1, <1>2 DEF Sane

(* What it says. *)
LEMMA SaneOpen ==
    ASSUME NEW pg, NEW in, NEW m, NEW B, NEW L, NEW lv, NEW ps, NEW as, NEW pu, NEW ms,
           Sane(pg, in, m, B, L, lv, ps, as, pu, ms)
    PROVE  /\ PagesAt(pg, in, m) /\ ToSet(pg) \subseteq Page /\ DOMAIN m = Page /\ Len(pg) \in Nat
           /\ Ledger(ToSet(pg), m, B, L, lv, ps, as, pu, ms, Len(pg))
           /\ GoodPages(ToSet(pg), m) /\ Listing(B, Free(ToSet(pg), m), m)
  <1>1. PagesAt(pg, in, m) /\ SoundAt(ToSet(pg), m, B, L, lv, ps, as, pu, ms, Len(pg))
    BY DEF Sane
  <1>2. ToSet(pg) \subseteq Page /\ DOMAIN m = Page /\ Len(pg) \in Nat
    BY <1>1, PageSet
  <1>3. Ledger(ToSet(pg), m, B, L, lv, ps, as, pu, ms, Len(pg))
    BY <1>1, <1>2, SoundOpen
  <1>4. GoodPages(ToSet(pg), m) /\ Listing(B, Free(ToSet(pg), m), m)
    BY <1>1 DEF SoundAt, SoundPool
  <1>5. QED
    BY <1>1, <1>2, <1>3, <1>4

(* gfs_mem_malloc of a block of the pool. *)
LEMMA MallocSane ==
    ASSUME Sane(pages, init, mem, block, large, live, psize, allsize, pused, msize),
           NEW n \in Size, mem_malloc(n)
    PROVE  Sane(pages, init, mem, block, large, live, psize, allsize, pused, msize)'
  <1>1. /\ PagesAt(pages, init, mem) /\ ToSet(pages) \subseteq Page /\ DOMAIN mem = Page /\ Len(pages) \in Nat
        /\ Ledger(ToSet(pages), mem, block, large, live, psize, allsize, pused, msize, Len(pages))
        /\ Listing(block, Free(ToSet(pages), mem), mem)
    BY SaneOpen
  <1>2. n \in Nat /\ Classes(n) # {}
    BY MemAssumption DEF mem_malloc
  <1>3. PICK i, a, b, r, h : /\ i = Min(Classes(n)) /\ a = Asize(n) /\ b = find_fit(mem, block, i, a)
                             /\ r = Place(mem, block, b, a) /\ h = [at |-> b, n |-> n]
    OBVIOUS
  <1>4. i \in Class /\ Fits(mem, block, i, a) # {}
    BY <1>2, <1>3, ClassesIn
  <1>5. PICK P : P = ToSet(pages)
    OBVIOUS
  <1>6. b \in Free(P, mem) /\ SizeAt(mem, b) >= a
    BY <1>1, <1>3, <1>4, <1>5, FitFree
  <1>7. Ledger(P, r.m, r.B, large, live \cup {h}, psize, allsize, pused + r.took, msize + r.took, Len(pages))
    <2>1. Ledger(P, mem, block, large, live, psize, allsize, pused, msize, Len(pages)) /\ Len(pages) \in Nat
      BY <1>1, <1>5
    <2>2. QED
      BY <1>3, <1>6, <2>1, LedgerTake
  <1>8. /\ mem' = r.m /\ block' = r.B /\ msize' = msize + r.took /\ live' = live \cup {h}
        /\ pused' = pused + r.took
        /\ pages' = pages /\ init' = init /\ large' = large /\ psize' = psize /\ allsize' = allsize
    BY <1>3 DEF mem_malloc, HandOut
  <1>9. SoundAt(ToSet(pages'), mem', block', large', live', psize', allsize', pused', msize', Len(pages'))
    <2>1. SoundAt(P, r.m, r.B, large, live \cup {h}, psize, allsize, pused + r.took, msize + r.took, Len(pages))
      BY <1>7, SoundClose
    <2>2. QED
      BY <1>5, <1>8, <2>1
  <1>10. PagesAt(pages', init', mem')
    <2>1. DOMAIN r.m = Page /\ \A q \in Page : q # b[1] => r.m[q] = mem[q]
      BY <1>1, <1>3, PlaceElse
    <2>2. b[1] \in ToSet(pages)
      BY <1>5, <1>6 DEF Free
    <2>3. PagesAt(pages, init, r.m)
      BY <1>1, <2>1, <2>2, PagesSame
    <2>4. QED
      BY <1>8, <2>3
  <1>11. QED
    BY <1>9, <1>10 DEF Sane

Chosen(s, P) == s \in [1..InitPages -> Page \ P] /\ IsInjective(s)

(* There are pages left for a pool that grows. *)
LEMMA NewOnes ==
    ASSUME PagesAt(pages, init, mem), Len(pages) + InitPages <= MaxPages
    PROVE  Chosen(NewPages, ToSet(pages))
  <1>1. pages \in Seq(Page)
    BY DEF PagesAt
  <1>2. PICK n, P : n = Len(pages) /\ P = ToSet(pages)
    OBVIOUS
  <1>3. n \in Nat /\ pages \in [1..n -> Page] /\ P = { pages[i] : i \in 1..n }
    BY <1>1, <1>2 DEF ToSet
  <1>4. IsFiniteSet(P) /\ Cardinality(P) <= n /\ Cardinality(P) \in Nat
    <2>1. pages \in Surjection(1..n, P)
      BY <1>3 DEF Surjection
    <2>2. IsFiniteSet(1..n) /\ Cardinality(1..n) = n
      BY <1>3, FS_Interval
    <2>3. IsFiniteSet(P) /\ Cardinality(P) <= Cardinality(1..n)
      BY <2>1, <2>2, FS_Surjection
    <2>4. QED
      BY <2>2, <2>3, FS_CardinalityType
  <1>5. P \subseteq Page
    BY <1>3
  <1>6. IsFiniteSet(Page) /\ Cardinality(Page) = MaxPages
    BY FS_Interval, MemAssumption DEF Page
  <1>7. PICK R : R = Page \ P
    OBVIOUS
  <1>8. IsFiniteSet(R) /\ Cardinality(R) = MaxPages - Cardinality(P)
    <2>1. Page \cap P = P
      BY <1>5
    <2>2. QED
      BY <1>6, <1>7, <2>1, FS_Difference
  <1>9. PICK c \in Nat : c = Cardinality(R) /\ InitPages <= c
    <2>1. Cardinality(R) \in Nat
      BY <1>8, FS_CardinalityType
    <2>2. InitPages <= Cardinality(R)
      BY <1>2, <1>3, <1>4, <1>8, MemAssumption
    <2>3. QED
      BY <2>1, <2>2
  <1>10. PICK f : f \in Bijection(1..c, R)
    BY <1>8, <1>9, FS_CardinalityType DEF ExistsBijection
  <1>11. f \in [1..c -> R] /\ \A i, j \in 1..c : f[i] = f[j] => i = j
    BY <1>10 DEF Bijection, Injection, IsInjective
  <1>12. PICK s : s = [i \in 1..InitPages |-> f[i]]
    OBVIOUS
  <1>13. \A i \in 1..InitPages : i \in 1..c
    BY <1>9, MemAssumption
  <1>14. s \in [1..InitPages -> R] /\ IsInjective(s)
    BY <1>11, <1>12, <1>13 DEF IsInjective
  <1>15. NewPages = CHOOSE t \in [1..InitPages -> R] : IsInjective(t)
    BY <1>2, <1>7 DEF NewPages
  <1>16. NewPages \in [1..InitPages -> R] /\ IsInjective(NewPages)
    BY <1>14, <1>15
  <1>17. QED
    BY <1>2, <1>7, <1>16 DEF Chosen

HasFirst(P) == 1 \in P
Newcome(m, k, Q) == k = [p \in Page |-> IF p \in Q THEN NewPage(PageHead) ELSE m[p]]
NewLines(s) == [i \in 1..InitPages |-> <<s[i], DSIZE + PageHead>>]

(* The pages gfs_mem_extend_pool adds. *)
LEMMA NewcomeBlank ==
    ASSUME NEW m, NEW k, NEW Q, Newcome(m, k, Q), Q \subseteq Page, 1 \notin Q
    PROVE  /\ DOMAIN k = Page /\ (\A q \in Q : Blank(q, k[q]))
           /\ \A p \in Page : p \notin Q => k[p] = m[p]
  <1>1. DOMAIN k = Page /\ (\A p \in Page : k[p] = IF p \in Q THEN NewPage(PageHead) ELSE m[p])
    BY DEF Newcome
  <1>2. ASSUME NEW q \in Q PROVE Blank(q, k[q])
    <2>1. HeadOf(q) = PageHead
      BY DEF HeadOf
    <2>2. k[q] = NewPage(HeadOf(q))
      BY <1>1, <2>1
    <2>3. QED
      BY <2>2, FreshPage
  <1>3. QED
    BY <1>1, <1>2

Fronted(B, C, u) == C = [B EXCEPT ![BigClass] = u \o @]

(* Growing adds the blocks behind their heads. *)
LEMMA GrowPool ==
    ASSUME NEW P, NEW m, NEW B, NEW w, Pool(P, m, B, w), HasFirst(P), NEW s, Chosen(s, P),
           NEW Q, Q = { s[i] : i \in 1..InitPages }, NEW k, Newcome(m, k, Q),
           NEW C, Fronted(B, C, NewLines(s))
    PROVE  Widened(P, Q, m, k, C, w + 4032 * InitPages)
  <1>1. s \in [1..InitPages -> Page \ P] /\ \A i, j \in 1..InitPages : s[i] = s[j] => i = j
    BY DEF Chosen, IsInjective
  <1>2. P \subseteq Page /\ Q \subseteq Page /\ P \cap Q = {} /\ 1 \notin Q
    BY <1>1 DEF Pool, HasFirst
  <1>3. /\ DOMAIN k = Page /\ (\A q \in Q : Blank(q, k[q]))
        /\ \A p \in Page : p \notin Q => k[p] = m[p]
    BY <1>2, NewcomeBlank
  <1>4. \A p \in P : k[p] = m[p]
    BY <1>2, <1>3
  <1>5. PICK u, D : u = NewLines(s) /\ D = Spots(Q)
    OBVIOUS
  <1>6. Lines(u, D)
    <2>1. InitPages \in Nat /\ s \in [1..InitPages -> Page]
      BY <1>1, MemAssumption
    <2>2. \A i \in 1..InitPages : <<s[i], DSIZE + PageHead>> = FreeOf(s[i])
      <3>1. \A i \in 1..InitPages : s[i] # 1
        BY <1>1 DEF HasFirst
      <3>2. QED
        BY <3>1 DEF FreeOf, HeadOf
    <2>3. u = [i \in 1..InitPages |-> FreeOf(s[i])]
      BY <1>5, <2>2 DEF NewLines
    <2>4. Lines(u, Spots(Q))
      BY <1>1, <2>1, <2>3, LinesOf
    <2>5. QED
      BY <1>5, <2>4
  <1>7. Cardinality(Q) = InitPages
    <2>1. s \in Surjection(1..InitPages, Q) /\ s \in Injection(1..InitPages, Q)
      BY <1>1 DEF Surjection, Injection, IsInjective
    <2>2. IsFiniteSet(1..InitPages) /\ Cardinality(1..InitPages) = InitPages
      BY FS_Interval, MemAssumption
    <2>3. Cardinality(Q) = Cardinality(1..InitPages)
      BY <2>1, <2>2, FS_Surjection
    <2>4. QED
      BY <2>2, <2>3
  <1>8. GoodPages(Q, k)
    <2>2. ASSUME NEW q \in Q PROVE Good(q, k[q], Edges(k[q]))
      <3>1. Good(q, k[q], Trio(q))
        BY <1>3 DEF Blank
      <3>2. CutBy(k[q], Trio(q))
        BY <3>1, GoodPage
      <3>3. Edges(k[q]) = Trio(q)
        BY <3>2, EdgesOf
      <3>4. QED
        BY <3>1, <3>3
    <2>3. QED
      BY <2>2 DEF GoodPages
  <1>9. \A q \in Q : SizeAt(k, FreeOf(q)) = 4096 - Body(q)
    <2>1. ASSUME NEW q \in Q PROVE SizeAt(k, FreeOf(q)) = 4096 - Body(q)
      <3>1. Idle(Q, k, q)
        BY <1>2, <1>3, <1>8, BlankView
      <3>2. QED
        BY <3>1 DEF Idle
    <2>2. QED
      BY <2>1
  <1>10. PICK v : v = 4032 * InitPages
    OBVIOUS
  <1>11. Sum(Sizes(D, k), D, v)
    <2>1. Sum(Sizes(Spots(Q), k), Spots(Q), 4032 * Cardinality(Q))
      BY <1>2, <1>9, SpotsSum
    <2>2. QED
      BY <1>5, <1>7, <1>10, <2>1
  <1>12. C = [B EXCEPT ![BigClass] = u \o @]
    BY <1>5 DEF Fronted
  <1>13. Widened(P, Q, m, k, C, w + v)
    <2>1. Lines(u, Spots(Q)) /\ Sum(Sizes(Spots(Q), k), Spots(Q), v)
      BY <1>5, <1>6, <1>11
    <2>2. QED
      BY <1>2, <1>3, <1>4, <1>12, <2>1, AddPages
  <1>14. QED
    BY <1>10, <1>13

More(ps, as, pu, n, ps2, as2, pu2, n2) ==
    /\ ps2 = ps + 4096 * InitPages /\ as2 = as + 4096 * InitPages
    /\ pu2 = pu + 64 * InitPages /\ n2 = n + InitPages

(* gfs_mem_extend_pool in the books. *)
LEMMA LedgerGrow ==
    ASSUME NEW P, NEW m, NEW B, NEW L, NEW lv, NEW ps, NEW as, NEW pu, NEW ms, NEW n \in Nat,
           Ledger(P, m, B, L, lv, ps, as, pu, ms, n), HasFirst(P), NEW s, Chosen(s, P),
           NEW Q, Q = { s[i] : i \in 1..InitPages }, NEW k, Newcome(m, k, Q),
           NEW C, Fronted(B, C, NewLines(s)),
           NEW ps2, NEW as2, NEW pu2, NEW n2, More(ps, as, pu, n, ps2, as2, pu2, n2)
    PROVE  Ledger(P \cup Q, k, C, L, lv, ps2, as2, pu2, ms, n2)
  <1>1. PICK w, l, v : /\ Sums3(m, B, P, L, lv, w, l, v) /\ Keeps(P, m, L, lv)
                       /\ Entry(ps, as, pu, ms, n, w, l, v) /\ w \in Int /\ l \in Int /\ v \in Int
    BY LedgerOpen
  <1>2. Sums3(m, B, P, L, lv, w, l, v) /\ Keeps(P, m, L, lv) /\ Pool(P, m, B, w)
    BY <1>1 DEF Sums3
  <1>3. PICK z \in Int : z = w + 4032 * InitPages
    BY <1>1, MemAssumption
  <1>3a. PICK U : U = P \cup Q
    OBVIOUS
  <1>4. Widened(P, Q, m, k, C, z)
    BY <1>2, <1>3, GrowPool
  <1>5. Sums3(k, C, P \cup Q, L, lv, z, l, v) /\ Keeps(P \cup Q, k, L, lv)
    BY <1>2, <1>4, BookWiden
  <1>6. Sums3(k, C, U, L, lv, z, l, v) /\ Keeps(U, k, L, lv)
    BY <1>3a, <1>5
  <1>8. Entry(ps2, as2, pu2, ms, n2, z, l, v)
    <2>1. ps = 4096 * n /\ as = ps + l /\ pu = ps + (l - w) /\ ms = v
      BY <1>1 DEF Entry
    <2>2. ps2 = 4096 * n2 /\ as2 = ps2 + l /\ pu2 = ps2 + (l - z)
      BY <1>1, <1>3, <2>1, MemAssumption DEF More
    <2>3. QED
      BY <2>1, <2>2 DEF Entry
  <1>9. Ledger(U, k, C, L, lv, ps2, as2, pu2, ms, n2)
    BY <1>6, <1>8, LedgerBy
  <1>10. QED
    BY <1>3a, <1>9

(* The page with the pool is one of its pages. *)
LEMMA FirstThere ==
    ASSUME NEW pg, NEW in, NEW m, PagesAt(pg, in, m), pg # <<>>
    PROVE  HasFirst(ToSet(pg))
  <1>1. PICK n : n = Len(pg)
    OBVIOUS
  <1>2. /\ pg \in Seq(Page) /\ n \in Nat /\ n >= InitPages
        /\ \A k \in 1..InitPages : pg[n - InitPages + k] = PageList[k]
    BY <1>1 DEF PagesAt
  <1>3. InitPages \in 1..InitPages /\ InitPages \in Nat
    BY MemAssumption
  <1>4. PageList[InitPages] = 1
    BY <1>3 DEF PageList
  <1>5. n - InitPages + InitPages = n
    BY <1>2, <1>3
  <1>6. pg[n] = 1
    BY <1>2, <1>3, <1>4, <1>5
  <1>7. n \in 1..n
    BY <1>2, <1>3
  <1>8. ToSet(pg) = { pg[i] : i \in 1..n }
    BY <1>1, <1>2 DEF ToSet
  <1>9. QED
    BY <1>6, <1>7, <1>8 DEF HasFirst

Longer(pg, in, k, s, Q, t) ==
    PagesAt(t, in, k) /\ ToSet(t) = ToSet(pg) \cup Q /\ Len(t) = Len(pg) + InitPages

(* New pages are in front of the others. *)
LEMMA PagesGrow ==
    ASSUME NEW pg, NEW in, NEW m, PagesAt(pg, in, m), pg # <<>>, NEW s, Chosen(s, ToSet(pg)),
           NEW Q, Q = { s[i] : i \in 1..InitPages }, NEW k, Newcome(m, k, Q), NEW t, t = s \o pg
    PROVE  Longer(pg, in, k, s, Q, t)
  <1>1. PICK n, i0 : n = Len(pg) /\ i0 = InitPages
    OBVIOUS
  <1>2. /\ pg \in Seq(Page) /\ n \in Nat /\ n >= i0 /\ IsInjective(pg) /\ in = 1..i0
        /\ \A j \in 1..i0 : pg[n - i0 + j] = PageList[j]
        /\ \A p \in Page : p \notin ToSet(pg) => m[p] = <<>>
    BY <1>1 DEF PagesAt
  <1>3. i0 \in Nat /\ i0 # 0
    BY <1>1, MemAssumption
  <1>4. /\ s \in [1..i0 -> Page \ ToSet(pg)] /\ (\A i, j \in 1..i0 : s[i] = s[j] => i = j)
    BY <1>1 DEF Chosen, IsInjective
  <1>5. s \in Seq(Page) /\ Len(s) = i0
    BY <1>3, <1>4
  <1>6. t \in Seq(Page) /\ Len(t) = i0 + n /\ \A i \in 1..(i0 + n) : t[i] = IF i <= i0 THEN s[i] ELSE pg[i - i0]
    <2>1. /\ t \in Seq(Page) /\ Len(t) = Len(s) + Len(pg)
          /\ \A i \in 1 .. Len(s) + Len(pg) : t[i] = IF i <= Len(s) THEN s[i] ELSE pg[i - Len(s)]
      BY <1>2, <1>5, ConcatProperties
    <2>2. QED
      BY <1>1, <1>5, <2>1
  <1>7. ToSet(pg) = { pg[i] : i \in 1..n } /\ ToSet(t) = { t[i] : i \in 1..(i0 + n) }
    <2>1. DOMAIN pg = 1..n /\ DOMAIN t = 1..(i0 + n)
      BY <1>1, <1>2, <1>6
    <2>2. ToSet(pg) = { pg[i] : i \in DOMAIN pg } /\ ToSet(t) = { t[i] : i \in DOMAIN t }
      BY DEF ToSet
    <2>3. QED
      BY <2>1, <2>2
  <1>8. ASSUME NEW i \in 1..n PROVE i + i0 \in 1..(i0 + n) /\ t[i + i0] = pg[i]
    BY <1>2, <1>3, <1>6
  <1>9. ASSUME NEW i \in 1..i0 PROVE i \in 1..(i0 + n) /\ t[i] = s[i]
    BY <1>2, <1>3, <1>6
  <1>10. ASSUME NEW i \in 1..(i0 + n)
         PROVE  (i \in 1..i0 /\ t[i] = s[i]) \/ (i - i0 \in 1..n /\ t[i] = pg[i - i0])
    BY <1>2, <1>3, <1>6
  <1>11. ToSet(t) = ToSet(pg) \cup Q
    <2>1. ToSet(t) \subseteq ToSet(pg) \cup Q
      BY <1>1, <1>7, <1>10, ZenonT(40)
    <2>2. ToSet(pg) \subseteq ToSet(t)
      BY <1>7, <1>8
    <2>3. Q \subseteq ToSet(t)
      BY <1>1, <1>7, <1>9
    <2>4. QED
      BY <2>1, <2>2, <2>3
  <1>12. IsInjective(t)
    <2>1. DOMAIN t = 1..(i0 + n) /\ DOMAIN pg = 1..n
      BY <1>1, <1>2, <1>6
    <2>2. \A i, j \in 1..n : pg[i] = pg[j] => i = j
      BY <1>2, <2>1 DEF IsInjective
    <2>3. \A i \in 1..i0, j \in 1..n : s[i] # pg[j]
      BY <1>4, <1>7
    <2>4. ASSUME NEW i \in 1..(i0 + n), NEW j \in 1..(i0 + n), t[i] = t[j] PROVE i = j
      <3>1. CASE i \in 1..i0 /\ t[i] = s[i]
        BY <1>4, <1>10, <2>3, <2>4, <3>1
      <3>2. CASE i - i0 \in 1..n /\ t[i] = pg[i - i0]
        <4>1. j - i0 \in 1..n /\ t[j] = pg[j - i0]
          BY <1>10, <2>3, <2>4, <3>2
        <4>2. i - i0 = j - i0
          BY <2>2, <2>4, <3>2, <4>1
        <4>3. QED
          BY <1>3, <4>2
      <3>3. QED
        BY <1>10, <3>1, <3>2
    <2>5. QED
      BY <2>1, <2>4 DEF IsInjective
  <1>13. ASSUME NEW j \in 1..i0 PROVE t[(i0 + n) - i0 + j] = PageList[j]
    <2>1. PICK d \in Int : d = n - i0 + j
      BY <1>2, <1>3
    <2>2. d \in 1..n /\ (i0 + n) - i0 + j = d + i0
      BY <1>2, <1>3, <2>1
    <2>3. t[d + i0] = pg[d]
      BY <1>8, <2>2
    <2>4. QED
      BY <1>2, <2>1, <2>2, <2>3
  <1>14. DOMAIN k = Page /\ \A p \in Page : p \notin ToSet(t) => k[p] = <<>>
    <2>1. DOMAIN k = Page /\ \A p \in Page : p \notin Q => k[p] = m[p]
      BY DEF Newcome
    <2>2. QED
      BY <1>2, <1>11, <2>1
  <1>15. t # <<>> /\ Len(t) >= i0
    BY <1>2, <1>3, <1>6
  <1>16. PagesAt(t, in, k)
    BY <1>1, <1>2, <1>6, <1>12, <1>13, <1>14, <1>15 DEF PagesAt
  <1>17. Len(t) = Len(pg) + InitPages
    BY <1>1, <1>2, <1>3, <1>6
  <1>18. QED
    BY <1>11, <1>16, <1>17 DEF Longer

(* A new page has a block for every request that is not a large one. *)
LEMMA GrowFit ==
    ASSUME NEW U, U \subseteq Page, NEW k, GoodPages(U, k), NEW C, Listing(C, Free(U, k), k),
           NEW q \in U, Blank(q, k[q]), q # 1, NEW a \in Nat, a <= 4032
    PROVE  Fits(k, C, BigClass, a) # {}
  <1>1. Idle(U, k, q)
    BY BlankView
  <1>2. PICK x : x = FreeOf(q)
    OBVIOUS
  <1>3. x \in Addr /\ x \in Free(U, k) /\ SizeAt(k, x) = 4096 - Body(q) /\ getindex(SizeAt(k, x)) = BigClass
    BY <1>1, <1>2 DEF Idle
  <1>4. Body(q) = 64
    BY DEF Body, HeadOf
  <1>5. SizeAt(k, x) >= a
    BY <1>3, <1>4
  <1>6. BigClass \in Class
    BY DEF BigClass, Class
  <1>7. Contains(C[BigClass], x)
    BY <1>3, <1>6 DEF Listing, In
  <1>8. PICK j \in 1..Len(C[BigClass]) : C[BigClass][j] = x
    BY <1>7 DEF Contains
  <1>9. C[BigClass] \in Seq(Addr)
    BY <1>6 DEF Listing, ListsOK
  <1>10. j \in DOMAIN C[BigClass]
    BY <1>8, <1>9
  <1>11. QED
    BY <1>5, <1>8, <1>10 DEF Fits

Extended(n, k, C, b, r, h) ==
    /\ pages' = NewPages \o pages
    /\ psize' = psize + 4096 * InitPages /\ allsize' = allsize + 4096 * InitPages
    /\ b = find_fit(k, C, BigClass, Asize(n)) /\ r = Place(k, C, b, Asize(n))
    /\ h = [at |-> b, n |-> n]
    /\ mem' = r.m /\ block' = r.B /\ msize' = msize + r.took
    /\ live' = live \cup {h}
    /\ pused' = pused + (64 * InitPages) + r.took
    /\ init' = init /\ large' = large

(* The step, by its parts. *)
LEMMA ExtendedParts ==
    ASSUME NEW n, malloc_extended(n), Chosen(NewPages, ToSet(pages))
    PROVE  \E k, C, b, r, h, Q :
             /\ Q = { NewPages[i] : i \in 1..InitPages } /\ Newcome(mem, k, Q)
             /\ Fronted(block, C, NewLines(NewPages)) /\ Extended(n, k, C, b, r, h)
  <1>1. PICK s : s = NewPages
    OBVIOUS
  <1>2. DOMAIN s = 1..InitPages
    BY <1>1 DEF Chosen
  <1>3. PICK Q : Q = { s[i] : i \in 1..InitPages }
    OBVIOUS
  <1>4. ToSet(s) = Q
    BY <1>2, <1>3 DEF ToSet
  <1>5. PICK k : k = [p \in Page |-> IF p \in Q THEN NewPage(PageHead) ELSE mem[p]]
    OBVIOUS
  <1>6. PICK C : C = [block EXCEPT ![BigClass] = NewLines(s) \o @]
    OBVIOUS
  <1>7. PICK b : b = find_fit(k, C, BigClass, Asize(n))
    OBVIOUS
  <1>8. PICK r : r = Place(k, C, b, Asize(n))
    OBVIOUS
  <1>9. PICK h : h = [at |-> b, n |-> n]
    OBVIOUS
  <1>10. k = [p \in Page |-> IF p \in ToSet(NewPages) THEN NewPage(PageHead) ELSE mem[p]]
    BY <1>1, <1>4, <1>5
  <1>11. C = [block EXCEPT ![7] = [i \in 1..InitPages |-> <<NewPages[i], DSIZE + PageHead>>] \o @]
    BY <1>1, <1>6 DEF BigClass, NewLines
  <1>12. b = find_fit(k, C, 7, Asize(n))
    BY <1>7 DEF BigClass
  <1>13. /\ pages' = NewPages \o pages
         /\ psize' = psize + PAGESIZE * InitPages /\ allsize' = allsize + PAGESIZE * InitPages
         /\ HandOut(k, C, b, n)
         /\ pused' = pused + InitPages * (DSIZE + PageHead) + Place(k, C, b, Asize(n)).took
         /\ init' = init /\ large' = large
    <2> HIDE DEF PAGESIZE, DSIZE, PageHead
    <2>1. QED
      BY <1>10, <1>11, <1>12 DEF malloc_extended
  <1>14. mem' = r.m /\ block' = r.B /\ msize' = msize + r.took /\ live' = live \cup {h}
    BY <1>8, <1>9, <1>13 DEF HandOut
  <1>15. InitPages * (DSIZE + PageHead) = 64 * InitPages
    BY MemAssumption
  <1>16. Extended(n, k, C, b, r, h)
    BY <1>7, <1>8, <1>9, <1>13, <1>14, <1>15 DEF Extended
  <1>17. Newcome(mem, k, Q) /\ Fronted(block, C, NewLines(NewPages))
    BY <1>1, <1>5, <1>6 DEF Newcome, Fronted
  <1>18. QED
    BY <1>1, <1>3, <1>16, <1>17

(* gfs_mem_malloc of a pool that has to grow. *)
LEMMA ExtendedSane ==
    ASSUME Sane(pages, init, mem, block, large, live, psize, allsize, pused, msize),
           NEW n \in Size, malloc_extended(n)
    PROVE  Sane(pages, init, mem, block, large, live, psize, allsize, pused, msize)'
  <1>1. /\ PagesAt(pages, init, mem) /\ ToSet(pages) \subseteq Page /\ DOMAIN mem = Page /\ Len(pages) \in Nat
        /\ Ledger(ToSet(pages), mem, block, large, live, psize, allsize, pused, msize, Len(pages))
    BY SaneOpen
  <1>2. n \in Nat /\ n <= 3072 /\ pages # <<>> /\ Len(pages) + InitPages <= MaxPages
    BY MemAssumption DEF malloc_extended, May, MIN_LARGE_SIZE
  <1>3. Chosen(NewPages, ToSet(pages))
    BY <1>1, <1>2, NewOnes
  <1>4. PICK k, C, b, r, h, Q :
             /\ Q = { NewPages[i] : i \in 1..InitPages } /\ Newcome(mem, k, Q)
             /\ Fronted(block, C, NewLines(NewPages)) /\ Extended(n, k, C, b, r, h)
    BY <1>3, ExtendedParts
  <1>5. PICK s, P, U, a, t : s = NewPages /\ P = ToSet(pages) /\ U = P \cup Q /\ a = Asize(n) /\ t = s \o pages
    OBVIOUS
  <1>6. HasFirst(P)
    BY <1>1, <1>2, <1>5, FirstThere
  <1>7. PICK ps, as, n2 : ps = psize' /\ as = allsize' /\ n2 = Len(pages')
    OBVIOUS
  <1>8. /\ psize = 4096 * Len(pages) /\ pused \in Int
    <2>1. PICK w, l, v : /\ Entry(psize, allsize, pused, msize, Len(pages), w, l, v)
                         /\ w \in Int /\ l \in Int /\ v \in Int
      BY <1>1, LedgerOpen
    <2>2. QED
      BY <1>1, <2>1 DEF Entry
  <1>9. PICK pu \in Int : pu = pused + 64 * InitPages
    BY <1>8, MemAssumption
  <1>10. Longer(pages, init, k, s, Q, t)
    <2>1. PagesAt(pages, init, mem) /\ pages # <<>> /\ Chosen(s, ToSet(pages)) /\ Newcome(mem, k, Q)
          /\ Q = { s[i] : i \in 1..InitPages } /\ t = s \o pages
      BY <1>1, <1>2, <1>3, <1>4, <1>5
    <2>2. QED
      BY <2>1, PagesGrow
  <1>11. PagesAt(t, init, k) /\ ToSet(t) = U /\ Len(t) = Len(pages) + InitPages /\ pages' = t
    BY <1>4, <1>5, <1>10 DEF Longer, Extended
  <1>12. More(psize, allsize, pused, Len(pages), ps, as, pu, n2)
    BY <1>4, <1>7, <1>9, <1>11 DEF More, Extended
  <1>13. Ledger(U, k, C, large, live, ps, as, pu, msize, n2)
    <2>1. Ledger(P, mem, block, large, live, psize, allsize, pused, msize, Len(pages)) /\ Len(pages) \in Nat
          /\ Chosen(s, P) /\ Newcome(mem, k, Q) /\ Q = { s[i] : i \in 1..InitPages }
          /\ Fronted(block, C, NewLines(s))
      BY <1>1, <1>3, <1>4, <1>5
    <2>2. Ledger(P \cup Q, k, C, large, live, ps, as, pu, msize, n2)
      BY <1>6, <1>12, <2>1, LedgerGrow
    <2>3. QED
      BY <1>5, <2>2
  <1>14. n2 \in Nat
    BY <1>1, <1>7, <1>11, MemAssumption
  <1>15. SoundAt(U, k, C, large, live, ps, as, pu, msize, n2)
    BY <1>13, SoundClose
  <1>16. GoodPages(U, k) /\ Listing(C, Free(U, k), k) /\ U \subseteq Page /\ DOMAIN k = Page
    <2>1. GoodPages(U, k) /\ Listing(C, Free(U, k), k)
      BY <1>15 DEF SoundAt, SoundPool
    <2>2. U \subseteq Page /\ DOMAIN k = Page
      BY <1>11, PageSet
    <2>3. QED
      BY <2>1, <2>2
  <1>17. a \in Nat /\ a <= 4032
    BY <1>2, <1>5, AsizeRoom
  <1>18. Fits(k, C, BigClass, a) # {}
    <2>1. PICK q : q = s[1]
      OBVIOUS
    <2>2. 1 \in 1..InitPages
      BY MemAssumption
    <2>3. q \in Q /\ q \in Page /\ q \notin P /\ Q \subseteq Page /\ \A z \in Q : z \notin P
      BY <1>3, <1>4, <1>5, <2>1, <2>2 DEF Chosen
    <2>4. q # 1 /\ 1 \notin Q /\ q \in U
      BY <1>5, <1>6, <2>3 DEF HasFirst
    <2>5. Blank(q, k[q])
      BY <1>4, <2>3, <2>4, NewcomeBlank
    <2>6. QED
      BY <1>16, <1>17, <2>4, <2>5, GrowFit
  <1>19. b \in Free(U, k) /\ SizeAt(k, b) >= a
    <2>1. BigClass \in Class
      BY DEF BigClass, Class
    <2>2. b = find_fit(k, C, BigClass, a)
      BY <1>4, <1>5 DEF Extended
    <2>3. QED
      BY <1>16, <1>18, <2>1, <2>2, FitFree
  <1>20. Ledger(U, r.m, r.B, large, live \cup {h}, ps, as, pu + r.took, msize + r.took, n2)
    <2>1. r = Place(k, C, b, a) /\ h = [at |-> b, n |-> n]
      BY <1>4, <1>5 DEF Extended
    <2>2. QED
      BY <1>5, <1>13, <1>14, <1>19, <2>1, LedgerTake
  <1>21. SoundAt(U, r.m, r.B, large, live \cup {h}, ps, as, pu + r.took, msize + r.took, n2)
    BY <1>20, SoundClose
  <1>22. SoundAt(ToSet(pages'), mem', block', large', live', psize', allsize', pused', msize', Len(pages'))
    <2>1. /\ mem' = r.m /\ block' = r.B /\ msize' = msize + r.took /\ live' = live \cup {h}
          /\ pused' = (pused + (64 * InitPages)) + r.took /\ large' = large
      BY <1>4 DEF Extended
    <2>2. pused' = pu + r.took
      BY <1>9, <2>1
    <2>3. ToSet(pages') = U
      BY <1>11
    <2>4. QED
      BY <1>7, <1>21, <2>1, <2>2, <2>3
  <1>23. PagesAt(pages', init', mem')
    <2>1. DOMAIN r.m = Page /\ \A q \in Page : q # b[1] => r.m[q] = k[q]
      <3>1. r = Place(k, C, b, a)
        BY <1>4, <1>5 DEF Extended
      <3>2. QED
        BY <1>16, <3>1, PlaceElse
    <2>2. b[1] \in ToSet(t)
      BY <1>11, <1>19 DEF Free
    <2>3. PagesAt(t, init, r.m)
      BY <1>11, <2>1, <2>2, PagesSame
    <2>4. QED
      BY <1>4, <1>11, <2>3 DEF Extended
  <1>24. QED
    BY <1>22, <1>23 DEF Sane

Marking(m, x, c, L) == c = Hd(m[x[1]], x[2]).size /\ L = PutBlk(m[x[1]], x[2], c, FALSE)
Joining(m, B, x, L, k, C) ==
    LET r == Merged(L, x[2]) IN
    /\ k = [m EXCEPT ![x[1]] = Whole(r.M, r.at, r.size)]
    /\ C = Insert(Unlinked(B, x[1], L, x[2]), getindex(r.size), <<x[1], r.at>>)

(* gfs_mem_free gives a block back, and only that one. *)
LEMMA GiveBlock ==
    ASSUME NEW P, NEW m, NEW B, NEW w, Pool(P, m, B, w), NEW x \in Used(P, m),
           NEW c, NEW L, Marking(m, x, c, L), NEW k, NEW C, Joining(m, B, x, L, k, C)
    PROVE  /\ GaveBack(P, m, k, C, x, w, c) /\ c = SizeAt(m, x) /\ c \in Nat
           /\ Allowed(B, x[1], m[x[1]], L, x[2])
  <1>1. P \subseteq Page /\ GoodPages(P, m)
    BY DEF Pool
  <1>2. PICK p, b : p = x[1] /\ b = x[2]
    OBVIOUS
  <1>2a. PICK M : M = m[p]
    OBVIOUS
  <1>3. c = Hd(M, b).size /\ L = PutBlk(M, b, c, FALSE)
    BY <1>2, <1>2a DEF Marking
  <1>4. PICK E, e, pv, at, en : Spot(P, m, x, p, b, M, E, e, c, pv, at, en, L)
    BY <1>1, <1>2, <1>2a, <1>3, UsedSpot
  <1>5. PICK r : r = Merged(L, b)
    OBVIOUS
  <1>6. /\ k = [m EXCEPT ![p] = Whole(r.M, r.at, r.size)]
        /\ C = Insert(Unlinked(B, p, L, b), getindex(r.size), <<p, r.at>>)
    BY <1>2, <1>5 DEF Joining
  <1>7. GaveBack(P, m, k, C, x, w, c)
    BY <1>4, <1>5, <1>6, FreeSpot
  <1>8. Allowed(B, p, M, L, b)
    BY <1>4, FreeAllowed
  <1>9. c = SizeAt(m, x) /\ c \in Nat
    <2>1. Sits(P, m, x, p, b, M, E, e, c)
      BY <1>4 DEF Spot
    <2>2. QED
      BY <2>1 DEF Sits
  <1>10. QED
    BY <1>2, <1>2a, <1>7, <1>8, <1>9

(* In the books. *)
LEMMA LedgerGive ==
    ASSUME NEW P, NEW m, NEW B, NEW L, NEW lv, NEW ps, NEW as, NEW pu, NEW ms, NEW n,
           Ledger(P, m, B, L, lv, ps, as, pu, ms, n), NEW h \in lv, h.at[1] # 0,
           NEW c, NEW N, Marking(m, h.at, c, N), NEW k, NEW C, Joining(m, B, h.at, N, k, C),
           NEW pu2, pu2 = pu - c, NEW ms2, ms2 = ms - c, n \in Nat
    PROVE  /\ Ledger(P, k, C, L, lv \ {h}, ps, as, pu2, ms2, n)
           /\ Allowed(B, h.at[1], m[h.at[1]], N, h.at[2])
  <1>1. PICK w, l, v : /\ Sums3(m, B, P, L, lv, w, l, v) /\ Keeps(P, m, L, lv)
                       /\ Entry(ps, as, pu, ms, n, w, l, v) /\ w \in Int /\ l \in Int /\ v \in Int
    BY LedgerOpen
  <1>2. Sums3(m, B, P, L, lv, w, l, v) /\ Keeps(P, m, L, lv) /\ Pool(P, m, B, w)
    BY <1>1 DEF Sums3
  <1>3. PICK x, U : x = h.at /\ U = lv \ {h}
    OBVIOUS
  <1>4. x \in Used(P, m)
    BY <1>2, <1>3 DEF Keeps, HoldsAt
  <1>5. /\ GaveBack(P, m, k, C, x, w, c) /\ c = SizeAt(m, x) /\ c \in Nat
        /\ Allowed(B, x[1], m[x[1]], N, x[2])
    <2>1. Marking(m, x, c, N) /\ Joining(m, B, x, N, k, C)
      BY <1>3
    <2>2. QED
      BY <1>2, <1>4, <2>1, GiveBlock
  <1>6. Sums3(k, C, P, L, lv \ {h}, w + c, l, v - c) /\ Keeps(P, k, L, lv \ {h})
    <2>1. c = SizeAt(m, h.at) /\ GaveBack(P, m, k, C, h.at, w, c)
      BY <1>3, <1>5
    <2>2. QED
      BY <1>2, <2>1, BookGive
  <1>7. PICK z \in Int : z = w + c
    BY <1>1, <1>5
  <1>8. PICK y \in Int : y = v - c
    BY <1>1, <1>5
  <1>9. Sums3(k, C, P, L, U, z, l, y) /\ Keeps(P, k, L, U)
    BY <1>3, <1>6, <1>7, <1>8
  <1>10. Entry(ps, as, pu2, ms2, n, z, l, y)
    <2>1. ps = 4096 * n /\ as = ps + l /\ pu = ps + (l - w) /\ ms = v
      BY <1>1 DEF Entry
    <2>2. pu2 = ps + (l - z) /\ ms2 = y
      BY <1>1, <1>5, <1>7, <1>8, <2>1
    <2>3. QED
      BY <2>1, <2>2 DEF Entry
  <1>11. Ledger(P, k, C, L, U, ps, as, pu2, ms2, n)
    BY <1>9, <1>10, LedgerBy
  <1>12. QED
    BY <1>3, <1>5, <1>11

(* gfs_mem_free of a block of the pool. *)
LEMMA FreeSane ==
    ASSUME Sane(pages, init, mem, block, large, live, psize, allsize, pused, msize), stale = {},
           NEW x, mem_free(x)
    PROVE  Sane(pages, init, mem, block, large, live, psize, allsize, pused, msize)'
  <1>1. /\ PagesAt(pages, init, mem) /\ ToSet(pages) \subseteq Page /\ DOMAIN mem = Page /\ Len(pages) \in Nat
        /\ Ledger(ToSet(pages), mem, block, large, live, psize, allsize, pused, msize, Len(pages))
    BY SaneOpen
  <1>2. x \in live /\ x.at[1] # 0 /\ Freed(x.at[1], x.at[2]) /\ live' = live \ {x}
        /\ pages' = pages /\ init' = init /\ large' = large /\ psize' = psize /\ allsize' = allsize
    BY DEF mem_free
  <1>3. PICK c : c = Hd(mem[x.at[1]], x.at[2]).size
    OBVIOUS
  <1>4. PICK N : N = PutBlk(mem[x.at[1]], x.at[2], c, FALSE)
    OBVIOUS
  <1>5. Marking(mem, x.at, c, N)
    BY <1>3, <1>4 DEF Marking
  <1>6. c = mem[x.at[1]][x.at[2] - WSIZE].size
    BY <1>3 DEF Hd
  <1>7. Joining(mem, block, x.at, N, mem', block') /\ pused' = pused - c /\ msize' = msize - c
    BY <1>2, <1>4, <1>6 DEF Joining, Freed
  <1>8. PICK k, C, pu2, ms2 : k = mem' /\ C = block' /\ pu2 = pused' /\ ms2 = msize'
    OBVIOUS
  <1>9. Ledger(ToSet(pages), k, C, large, live \ {x}, psize, allsize, pu2, ms2, Len(pages))
    <2>1. Joining(mem, block, x.at, N, k, C) /\ pu2 = pused - c /\ ms2 = msize - c
      BY <1>7, <1>8
    <2>2. QED
      BY <1>1, <1>2, <1>5, <2>1, LedgerGive
  <1>10. SoundAt(ToSet(pages), k, C, large, live \ {x}, psize, allsize, pu2, ms2, Len(pages))
    BY <1>9, SoundClose
  <1>11. SoundAt(ToSet(pages'), mem', block', large', live', psize', allsize', pused', msize', Len(pages'))
    BY <1>2, <1>8, <1>10
  <1>12. PagesAt(pages', init', mem')
    <2>1. \E O : mem' = [mem EXCEPT ![x.at[1]] = O]
      BY <1>7 DEF Joining
    <2>2. DOMAIN mem' = Page /\ \A q \in Page : q # x.at[1] => mem'[q] = mem[q]
      BY <1>1, <2>1
    <2>3. x.at[1] \in ToSet(pages)
      <3>1. PICK w, l, v : Keeps(ToSet(pages), mem, large, live)
        BY <1>1, LedgerOpen
      <3>2. x.at \in Used(ToSet(pages), mem)
        BY <1>2, <3>1 DEF Keeps, HoldsAt
      <3>3. QED
        BY <3>2 DEF Used
    <2>4. PagesAt(pages, init, mem')
      BY <1>1, <2>2, <2>3, PagesSame
    <2>5. QED
      BY <1>2, <2>4
  <1>13. QED
    BY <1>11, <1>12 DEF Sane

(* gfs_mem_free finds nothing wrong in a sound pool. *)
LEMMA NoAstray ==
    ASSUME Sane(pages, init, mem, block, large, live, psize, allsize, pused, msize),
           NEW x, free_astray(x)
    PROVE  FALSE
  <1>1. /\ Len(pages) \in Nat
        /\ Ledger(ToSet(pages), mem, block, large, live, psize, allsize, pused, msize, Len(pages))
    BY SaneOpen
  <1>2. x \in live
    BY DEF free_astray
  <1>3. PICK p, b : p = x.at[1] /\ b = x.at[2]
    OBVIOUS
  <1>4. CASE p = 0
    <2>1. b \notin DOMAIN large
      BY <1>3, <1>4 DEF free_astray
    <2>2. Keeps(ToSet(pages), mem, large, live)
      BY <1>1, LedgerOpen
    <2>3. QED
      BY <1>2, <1>3, <1>4, <2>1, <2>2 DEF Keeps, LargeOK
  <1>5. CASE p # 0
    <2>1. ~(Tagged(mem[p], b) /\ Intact(mem[p], b) /\ Known(p, b))
      BY <1>3, <1>5 DEF free_astray
    <2>2. PICK c : c = Hd(mem[x.at[1]], x.at[2]).size
      OBVIOUS
    <2>3. PICK N : N = PutBlk(mem[x.at[1]], x.at[2], c, FALSE)
      OBVIOUS
    <2>4. Marking(mem, x.at, c, N)
      BY <2>2, <2>3 DEF Marking
    <2>5. PICK k, C : Joining(mem, block, x.at, N, k, C)
      BY DEF Joining
    <2>6. PICK pu2, ms2 : pu2 = pused - c /\ ms2 = msize - c
      OBVIOUS
    <2>7. Allowed(block, x.at[1], mem[x.at[1]], N, x.at[2])
      BY <1>1, <1>2, <1>3, <1>5, <2>4, <2>5, <2>6, LedgerGive
    <2>8. Allowed(block, p, mem[p], N, b)
      BY <1>3, <2>7
    <2>9. N = PutBlk(mem[p], b, mem[p][b - WSIZE].size, FALSE)
      BY <1>3, <2>2, <2>3 DEF Hd
    <2>10. QED
      BY <2>1, <2>8, <2>9 DEF Allowed, Known
  <1>6. QED
    BY <1>4, <1>5

(* There is always an id for one more large block. *)
LEMMA LargeFree ==
    ASSUME LiveOK(live), LargeOK(large, live), Cardinality(live) < MaxLive
    PROVE  /\ Min(1..MaxLive \ DOMAIN large) \in 1..MaxLive
           /\ Min(1..MaxLive \ DOMAIN large) \notin DOMAIN large
  <1>1. PICK S, D : S = 1..MaxLive /\ D = DOMAIN large
    OBVIOUS
  <1>2. S \subseteq Nat /\ IsFiniteSet(S) /\ Cardinality(S) = MaxLive
    BY <1>1, FS_Interval, MemAssumption
  <1>3. IsFiniteSet(live) /\ Cardinality(live) \in Nat
    BY FS_CardinalityType DEF LiveOK
  <1>4. ASSUME S \subseteq D PROVE FALSE
    <2>1. \A i \in S : \E x \in live : x.at = <<0, i>>
      BY <1>1, <1>4 DEF LargeOK
    <2>2. PICK f : f = [i \in S |-> CHOOSE x \in live : x.at = <<0, i>>]
      OBVIOUS
    <2>3. \A i \in S : f[i] \in live /\ f[i].at = <<0, i>>
      BY <2>1, <2>2
    <2>4. f \in [S -> live]
      BY <2>2, <2>3
    <2>5. IsInjective(f)
      <3>1. ASSUME NEW i \in S, NEW j \in S, f[i] = f[j] PROVE i = j
        <4>1. <<0, i>> = <<0, j>>
          BY <2>3, <3>1
        <4>2. QED
          BY <4>1
      <3>2. QED
        BY <2>4, <3>1 DEF IsInjective
    <2>6. f \in Injection(S, live)
      BY <2>4, <2>5 DEF Injection
    <2>7. Cardinality(S) <= Cardinality(live)
      BY <1>3, <2>6, FS_Injection
    <2>8. QED
      BY <1>2, <1>3, <2>7, MemAssumption
  <1>5. S \ D # {} /\ S \ D \subseteq Nat
    BY <1>2, <1>4
  <1>6. Min(S \ D) \in S \ D
    BY <1>5, MinOf
  <1>7. QED
    BY <1>1, <1>6

(* gfs_mem_malloc of a large block. *)
LEMMA LargeSane ==
    ASSUME Sane(pages, init, mem, block, large, live, psize, allsize, pused, msize),
           NEW n \in Size, malloc_large(n)
    PROVE  Sane(pages, init, mem, block, large, live, psize, allsize, pused, msize)'
  <1>1. /\ PagesAt(pages, init, mem) /\ Len(pages) \in Nat
        /\ Ledger(ToSet(pages), mem, block, large, live, psize, allsize, pused, msize, Len(pages))
    BY SaneOpen
  <1>2. PICK P, N : P = ToSet(pages) /\ N = Len(pages)
    OBVIOUS
  <1>3. PICK w, l, v : /\ Sums3(mem, block, P, large, live, w, l, v) /\ Keeps(P, mem, large, live)
                       /\ Entry(psize, allsize, pused, msize, N, w, l, v) /\ w \in Int /\ l \in Int /\ v \in Int
    BY <1>1, <1>2, LedgerOpen
  <1>4. Cardinality(live) < MaxLive /\ n \in Nat
    BY MemAssumption DEF malloc_large, May
  <1>5. PICK id : id = Min(1..MaxLive \ DOMAIN large)
    OBVIOUS
  <1>6. id \in 1..MaxLive /\ id \notin DOMAIN large
    <2>1. LiveOK(live) /\ LargeOK(large, live)
      BY <1>3 DEF Keeps
    <2>2. QED
      BY <1>4, <1>5, <2>1, LargeFree
  <1>7. PICK z \in Nat : z = LargeSize(n)
    <2>1. Align(n) \in Nat
      BY <1>4, Rounded
    <2>2. LargeSize(n) \in Nat
      BY <2>1 DEF LargeSize, LargeHead
    <2>3. QED
      BY <2>2
  <1>8. PICK K, h : K = Write(large, id, z) /\ h = [at |-> <<0, id>>, n |-> n]
    OBVIOUS
  <1>9. Sums3(mem, block, P, K, live \cup {h}, w, l + z, v + z) /\ Keeps(P, mem, K, live \cup {h})
    <2>1. Sums3(mem, block, P, large, live, w, l, v) /\ Keeps(P, mem, large, live)
      BY <1>3
    <2>2. QED
      BY <1>6, <1>8, <2>1, BookLarge
  <1>10. /\ large' = K /\ live' = live \cup {h}
         /\ pused' = pused + z /\ msize' = msize + z /\ allsize' = allsize + z
         /\ pages' = pages /\ init' = init /\ mem' = mem /\ block' = block /\ psize' = psize
    BY <1>5, <1>7, <1>8 DEF malloc_large
  <1>11. PICK U, l2, v2, as, pu, ms : /\ U = live \cup {h} /\ l2 = l + z /\ v2 = v + z
                                      /\ as = allsize' /\ pu = pused' /\ ms = msize'
    OBVIOUS
  <1>12. Entry(psize, as, pu, ms, N, w, l2, v2)
    <2>1. psize = 4096 * N /\ allsize = psize + l /\ pused = psize + (l - w) /\ msize = v /\ N \in Nat
      BY <1>1, <1>2, <1>3 DEF Entry
    <2>2. as = psize + l2 /\ pu = psize + (l2 - w) /\ ms = v2
      BY <1>3, <1>10, <1>11, <2>1
    <2>3. QED
      BY <2>1, <2>2 DEF Entry
  <1>13. Ledger(P, mem, block, K, U, psize, as, pu, ms, N)
    <2>1. Sums3(mem, block, P, K, U, w, l2, v2) /\ Keeps(P, mem, K, U)
      BY <1>9, <1>11
    <2>2. QED
      BY <1>12, <2>1, LedgerBy
  <1>14. SoundAt(P, mem, block, K, U, psize, as, pu, ms, N)
    BY <1>13, SoundClose
  <1>15. SoundAt(ToSet(pages'), mem', block', large', live', psize', allsize', pused', msize', Len(pages'))
    BY <1>2, <1>10, <1>11, <1>14
  <1>16. PagesAt(pages', init', mem')
    BY <1>1, <1>10
  <1>17. QED
    BY <1>15, <1>16 DEF Sane

(* gfs_mem_free of one. *)
LEMMA UnlargeSane ==
    ASSUME Sane(pages, init, mem, block, large, live, psize, allsize, pused, msize),
           NEW x, free_large(x)
    PROVE  Sane(pages, init, mem, block, large, live, psize, allsize, pused, msize)'
  <1>1. /\ PagesAt(pages, init, mem) /\ Len(pages) \in Nat
        /\ Ledger(ToSet(pages), mem, block, large, live, psize, allsize, pused, msize, Len(pages))
    BY SaneOpen
  <1>2. PICK P, N : P = ToSet(pages) /\ N = Len(pages)
    OBVIOUS
  <1>3. PICK w, l, v : /\ Sums3(mem, block, P, large, live, w, l, v) /\ Keeps(P, mem, large, live)
                       /\ Entry(psize, allsize, pused, msize, N, w, l, v) /\ w \in Int /\ l \in Int /\ v \in Int
    BY <1>1, <1>2, LedgerOpen
  <1>4. x \in live /\ x.at[1] = 0
    BY DEF free_large
  <1>5. PICK id, z : id = x.at[2] /\ z = large[id]
    OBVIOUS
  <1>6. PICK K, U : K = [i \in DOMAIN large \ {id} |-> large[i]] /\ U = live \ {x}
    OBVIOUS
  <1>7. /\ Sums3(mem, block, P, K, live \ {x}, w, l - z, v - z) /\ Keeps(P, mem, K, live \ {x})
        /\ z \in Nat
    <2>1. Sums3(mem, block, P, large, live, w, l, v) /\ Keeps(P, mem, large, live)
      BY <1>3
    <2>2. K = [i \in DOMAIN large \ {id} |-> large[i]]
      BY <1>6
    <2>3. QED
      BY <1>4, <1>5, <2>1, <2>2, BookUnlarge, ZenonT(40)
  <1>8. /\ large' = K /\ live' = U
        /\ pused' = pused - z /\ msize' = msize - z /\ allsize' = allsize - z
        /\ pages' = pages /\ init' = init /\ mem' = mem /\ block' = block /\ psize' = psize
    BY <1>5, <1>6 DEF free_large
  <1>9. PICK l2, v2, as, pu, ms : /\ l2 = l - z /\ v2 = v - z
                                  /\ as = allsize' /\ pu = pused' /\ ms = msize'
    OBVIOUS
  <1>12. Entry(psize, as, pu, ms, N, w, l2, v2)
    <2>1. psize = 4096 * N /\ allsize = psize + l /\ pused = psize + (l - w) /\ msize = v /\ N \in Nat
      BY <1>1, <1>2, <1>3 DEF Entry
    <2>2. as = psize + l2 /\ pu = psize + (l2 - w) /\ ms = v2
      BY <1>3, <1>7, <1>8, <1>9, <2>1
    <2>3. QED
      BY <2>1, <2>2 DEF Entry
  <1>13. Ledger(P, mem, block, K, U, psize, as, pu, ms, N)
    <2>1. Sums3(mem, block, P, K, U, w, l2, v2) /\ Keeps(P, mem, K, U)
      BY <1>6, <1>7, <1>9
    <2>2. QED
      BY <1>12, <2>1, LedgerBy
  <1>14. SoundAt(P, mem, block, K, U, psize, as, pu, ms, N)
    BY <1>13, SoundClose
  <1>15. SoundAt(ToSet(pages'), mem', block', large', live', psize', allsize', pused', msize', Len(pages'))
    BY <1>2, <1>8, <1>9, <1>14
  <1>16. PagesAt(pages', init', mem')
    BY <1>1, <1>8
  <1>17. QED
    BY <1>15, <1>16 DEF Sane

------------------------------------------------------------------------------
(* Pools that begin or end. *)

(* The list gfs_mem_pool_create makes. *)
LEMMA PageListOK ==
    /\ PageList \in Seq(Page) /\ Len(PageList) = InitPages /\ ToSet(PageList) = Firsts
    /\ PageList # <<>> /\ IsInjective(PageList)
    /\ PageList \in [1..InitPages -> Page] /\ Firsts = { PageList[i] : i \in 1..InitPages }
    /\ \A i, j \in 1..InitPages : PageList[i] = PageList[j] => i = j
  <1>1. PICK n \in Nat : n = InitPages /\ n # 0 /\ n <= MaxPages /\ MaxPages \in Nat
    BY MemAssumption
  <1>2. PICK s : s = PageList
    OBVIOUS
  <1>3. DOMAIN s = 1..n /\ \A k \in 1..n : s[k] = n + 1 - k
    BY <1>1, <1>2 DEF PageList
  <1>4. ASSUME NEW k \in 1..n PROVE n + 1 - k \in 1..n /\ n + 1 - k \in Page /\ n + 1 - (n + 1 - k) = k
    BY <1>1 DEF Page
  <1>5. s \in [1..n -> Page] /\ \A i, j \in 1..n : s[i] = s[j] => i = j
    <2>1. s = [k \in 1..n |-> n + 1 - k]
      BY <1>1, <1>2 DEF PageList
    <2>2. \A i, j \in 1..n : n + 1 - i = n + 1 - j => i = j
      BY <1>1
    <2>3. QED
      BY <1>3, <1>4, <2>1, <2>2
  <1>6. s \in Seq(Page) /\ Len(s) = n
    BY <1>1, <1>5
  <1>7. Firsts = { s[i] : i \in 1..n }
    <2>1. Firsts = 1..n
      BY <1>1 DEF Firsts
    <2>2. \A k \in 1..n : s[n + 1 - k] = k
      BY <1>3, <1>4
    <2>3. \A k \in 1..n : s[k] \in 1..n
      BY <1>3, <1>4
    <2>4. QED
      BY <1>4, <2>1, <2>2, <2>3
  <1>8. ToSet(s) = { s[i] : i \in 1..n }
    BY <1>3 DEF ToSet
  <1>9. s # <<>> /\ IsInjective(s)
    BY <1>1, <1>3, <1>5, <1>6 DEF IsInjective
  <1>10. QED
    BY <1>1, <1>2, <1>5, <1>6, <1>7, <1>8, <1>9

(* Nothing handed out. *)
LEMMA NoneHeld ==
    ASSUME NEW P, NEW m
    PROVE  /\ Keeps(P, m, <<>>, {}) /\ Sum(<<>>, DOMAIN <<>>, 0) /\ Sum(TakenBy(m, <<>>, {}), {}, 0)
  <1>1. PICK L, O : L = <<>> /\ O = {}
    OBVIOUS
  <1>2. DOMAIN L = {} /\ L \in [DOMAIN L -> Nat] /\ L \in [DOMAIN L -> Int]
    BY <1>1
  <1>3. IsFiniteSet(O)
    BY <1>1, FS_EmptySet
  <1>4. LiveOK(O)
    BY <1>1, <1>3 DEF LiveOK
  <1>5. LargeOK(L, O)
    BY <1>1, <1>2 DEF LargeOK
  <1>6. Keeps(P, m, L, O)
    BY <1>1, <1>4, <1>5 DEF Keeps
  <1>7. \A f : f \in [{} -> Int] => Sum(f, {}, 0)
    BY SumNone
  <1>8. Sum(L, DOMAIN L, 0)
    BY <1>2, <1>7
  <1>9. PICK g : g = TakenBy(m, L, O)
    OBVIOUS
  <1>10. g \in [{} -> Int]
    BY <1>1, <1>9 DEF TakenBy
  <1>11. Sum(g, {}, 0)
    BY <1>7, <1>10
  <1>12. QED
    BY <1>1, <1>6, <1>8, <1>9, <1>11

Begun(k, C) ==
    /\ DOMAIN k = Page /\ (\A q \in Firsts : Blank(q, k[q]))
    /\ (\A p \in Page : p \notin Firsts => k[p] = <<>>)
    /\ \E u : Lines(u, Spots(Firsts)) /\ C = [i \in Class |-> IF i = BigClass THEN u ELSE <<>>]

(* A pool of blank pages is sound. *)
LEMMA BegunSane ==
    ASSUME NEW k, NEW C, Begun(k, C), NEW as, as = 4096 * InitPages, NEW ps, ps = 4096 * InitPages,
           NEW ms, ms = 0
    PROVE  Sane(PageList, 1..InitPages, k, C, <<>>, {}, ps, as, FreshUsed, ms)
  <1>1. DOMAIN k = Page /\ (\A q \in Firsts : Blank(q, k[q])) /\ \A p \in Page : p \notin Firsts => k[p] = <<>>
    BY DEF Begun
  <1>2. PICK u : Lines(u, Spots(Firsts)) /\ C = [i \in Class |-> IF i = BigClass THEN u ELSE <<>>]
    BY DEF Begun
  <1>3. Pool(Firsts, k, C, Begin)
    BY <1>1, <1>2, FirstPool
  <1>4. PICK L, lv, z : L = <<>> /\ lv = {} /\ z = 0
    OBVIOUS
  <1>5. Keeps(Firsts, k, L, lv) /\ Sum(L, DOMAIN L, z) /\ Sum(TakenBy(k, L, lv), lv, z)
    BY <1>4, NoneHeld
  <1>6. Sums3(k, C, Firsts, L, lv, Begin, z, z)
    BY <1>3, <1>5 DEF Sums3
  <1>7. PICK n, pu, w : n = InitPages /\ pu = FreshUsed /\ w = Begin
    OBVIOUS
  <1>8. Entry(ps, as, pu, ms, n, w, z, z)
    <2>1. n \in Nat
      BY <1>7, MemAssumption
    <2>2. w = 4032 * (n - 1) + 3808
      BY <1>7 DEF Begin
    <2>3. pu = 288 + (n - 1) * 64
      BY <1>7 DEF FreshUsed
    <2>4. ps = 4096 * n /\ as = ps + z /\ pu = ps + (z - w) /\ ms = z
      BY <1>4, <1>7, <2>1, <2>2, <2>3
    <2>5. QED
      BY <2>4 DEF Entry
  <1>9. Ledger(Firsts, k, C, L, lv, ps, as, pu, ms, n)
    <2>1. Sums3(k, C, Firsts, L, lv, w, z, z)
      BY <1>6, <1>7
    <2>2. Keeps(Firsts, k, L, lv)
      BY <1>5
    <2>3. QED
      BY <1>8, <2>1, <2>2, LedgerBy
  <1>10. SoundAt(Firsts, k, C, L, lv, ps, as, pu, ms, n)
    BY <1>9, SoundClose
  <1>11. PagesAt(PageList, 1..InitPages, k)
    <2>1. PICK s : s = PageList
      OBVIOUS
    <2>2. s \in Seq(Page) /\ Len(s) = InitPages /\ ToSet(s) = Firsts /\ s # <<>> /\ IsInjective(s)
      BY <2>1, PageListOK
    <2>3. InitPages \in Nat
      BY MemAssumption
    <2>4. \A j \in 1..InitPages : InitPages - InitPages + j = j
      BY <2>3
    <2>5. Len(s) >= InitPages /\ \A j \in 1..InitPages : s[Len(s) - InitPages + j] = PageList[j]
      BY <2>1, <2>2, <2>3, <2>4
    <2>6. \A p \in Page : p \notin ToSet(s) => k[p] = <<>>
      BY <1>1, <2>2
    <2>7. PagesAt(s, 1..InitPages, k)
      BY <1>1, <2>2, <2>5, <2>6 DEF PagesAt
    <2>8. QED
      BY <2>1, <2>7
  <1>12. SoundAt(ToSet(PageList), k, C, L, lv, ps, as, pu, ms, Len(PageList))
    BY <1>7, <1>10, PageListOK
  <1>13. QED
    BY <1>4, <1>7, <1>11, <1>12 DEF Sane

(* The pool of gfs_mem_pool_create is one. *)
LEMMA FreshBegun == Begun(FreshMem, FreshLists)
  <1>1. PICK k, C : k = FreshMem /\ C = FreshLists
    OBVIOUS
  <1>2. k = [p \in Page |-> IF p \in Firsts THEN NewPage(HeadOf(p)) ELSE <<>>]
    BY <1>1 DEF FreshMem, Firsts
  <1>3. Firsts \subseteq Page
    BY MemAssumption DEF Firsts, Page
  <1>4. ASSUME NEW q \in Firsts PROVE Blank(q, k[q])
    <2>1. k[q] = NewPage(HeadOf(q))
      BY <1>2, <1>3
    <2>2. QED
      BY <2>1, FreshPage
  <1>5. PICK u : u = [i \in 1..InitPages |-> FreeOf(PageList[i])]
    OBVIOUS
  <1>6. C = [i \in Class |-> IF i = BigClass THEN u ELSE <<>>]
    BY <1>1, <1>5 DEF FreshLists, Class, BigClass
  <1>7. Lines(u, Spots(Firsts))
    <2>1. PICK s, n : s = PageList /\ n = InitPages
      OBVIOUS
    <2>2. /\ n \in Nat /\ s \in [1..n -> Page] /\ Firsts = { s[i] : i \in 1..n }
          /\ \A i, j \in 1..n : s[i] = s[j] => i = j
      BY <2>1, MemAssumption, PageListOK
    <2>3. u = [i \in 1..n |-> FreeOf(s[i])]
      BY <1>5, <2>1
    <2>4. QED
      BY <2>2, <2>3, LinesOf
  <1>8. DOMAIN k = Page /\ \A p \in Page : p \notin Firsts => k[p] = <<>>
    BY <1>2
  <1>9. QED
    BY <1>1, <1>4, <1>6, <1>7, <1>8 DEF Begun

(* Pages that were added are in front of the first ones. *)
LEMMA KeptIs ==
    ASSUME PagesAt(pages, init, mem), pages # <<>>
    PROVE  Kept = PageList /\ Added = Len(pages) - InitPages
  <1>1. PICK n, s, i0 : n = Len(pages) /\ s = pages /\ i0 = InitPages
    OBVIOUS
  <1>2. /\ s \in Seq(Page) /\ n \in Nat /\ n >= i0 /\ init = 1..i0 /\ i0 \in Nat /\ i0 # 0
        /\ \A j \in 1..i0 : s[n - i0 + j] = PageList[j]
    BY <1>1, MemAssumption DEF PagesAt
  <1>3. DOMAIN s = 1..n /\ Len(s) = n /\ \A i, j \in 1..n : s[i] = s[j] => i = j
    BY <1>1, <1>2 DEF PagesAt, IsInjective
  <1>4. \A j \in 1..i0 : PageList[j] = i0 + 1 - j
    BY <1>1 DEF PageList
  <1>5. ASSUME NEW k \in 1..n PROVE s[k] \notin init <=> k \in 1..(n - i0)
    <2>1. CASE k \in 1..(n - i0)
      <3>1. ASSUME s[k] \in init PROVE FALSE
        <4>1. PICK j \in Int : j = i0 + 1 - s[k]
          BY <1>2, <3>1
        <4>2. j \in 1..i0 /\ i0 + 1 - j = s[k]
          BY <1>2, <3>1, <4>1
        <4>3. s[n - i0 + j] = s[k]
          BY <1>2, <1>4, <4>2
        <4>4. n - i0 + j \in 1..n
          BY <1>2, <4>2
        <4>5. n - i0 + j = k
          BY <1>3, <4>3, <4>4
        <4>6. QED
          BY <1>2, <2>1, <4>2, <4>5
      <3>2. QED
        BY <2>1, <3>1
    <2>2. CASE k \notin 1..(n - i0)
      <3>1. PICK j \in Int : j = k - (n - i0)
        BY <1>2
      <3>2. j \in 1..i0 /\ n - i0 + j = k
        BY <1>2, <2>2, <3>1
      <3>3. s[k] = i0 + 1 - j
        BY <1>2, <1>4, <3>2
      <3>4. s[k] \in init
        BY <1>2, <3>2, <3>3
      <3>5. QED
        BY <2>2, <3>4
    <2>3. QED
      BY <2>1, <2>2
  <1>6. { k \in DOMAIN pages : pages[k] \notin init } = 1..(n - i0)
    <2>1. { k \in 1..n : s[k] \notin init } = 1..(n - i0)
      <3>1. 1..(n - i0) \subseteq 1..n
        BY <1>2
      <3>2. QED
        BY <1>5, <3>1
    <2>2. QED
      BY <1>1, <1>3, <2>1
  <1>7. Cardinality(1..(n - i0)) = n - i0
    <2>1. PICK d \in Nat : d = n - i0
      BY <1>2
    <2>2. Cardinality(1..d) = d
      BY <2>1, FS_Interval
    <2>3. QED
      BY <2>1, <2>2
  <1>8. Added = n - i0
    BY <1>6, <1>7 DEF Added
  <1>9. Kept = SubSeq(s, (n - i0) + 1, n)
    BY <1>1, <1>8 DEF Kept
  <1>10. PICK d \in Nat : d = n - i0 /\ n = d + i0
    BY <1>2
  <1>11. PICK t : t = SubSeq(s, d + 1, n)
    OBVIOUS
  <1>12. t = [i \in 1..i0 |-> s[i + d]]
    <2>1. t = [i \in 1..(n - (d + 1) + 1) |-> s[i + (d + 1) - 1]]
      BY <1>2, <1>3, <1>10, <1>11
    <2>2. n - (d + 1) + 1 = i0 /\ \A i \in 1..i0 : i + (d + 1) - 1 = i + d
      BY <1>2, <1>10
    <2>3. QED
      BY <2>1, <2>2
  <1>13. \A i \in 1..i0 : s[i + d] = PageList[i]
    BY <1>2, <1>10
  <1>14. PageList = [i \in 1..i0 |-> PageList[i]]
    BY <1>1 DEF PageList
  <1>15. t = PageList
    BY <1>12, <1>13, <1>14
  <1>16. QED
    BY <1>1, <1>8, <1>9, <1>10, <1>11, <1>15

Firm(m) == \A p \in Firsts : \E E : CutBy(m[p], E) /\ Sealed(p, m[p], E)

(* The lists of a pool whose pages were put back in the other order. *)
LEMMA TurnedLines ==
    ASSUME NEW u, u = Reverse([i \in DOMAIN PageList |-> FreeOf(PageList[i])])
    PROVE  Lines(u, Spots(Firsts))
  <1>1. PICK s, n : s = PageList /\ n = InitPages
    OBVIOUS
  <1>2. /\ n \in Nat /\ s \in [1..n -> Page] /\ Firsts = { s[i] : i \in 1..n }
        /\ \A i, j \in 1..n : s[i] = s[j] => i = j
    BY <1>1, MemAssumption, PageListOK
  <1>3. PICK v : v = [i \in 1..n |-> FreeOf(s[i])]
    OBVIOUS
  <1>4. u = Reverse(v)
    <2>1. DOMAIN s = 1..n
      BY <1>2
    <2>2. QED
      BY <1>1, <1>3, <2>1
  <1>5. v \in [1..n -> Addr]
    BY <1>2, <1>3, FreeAddr
  <1>6. Len(v) = n
    BY <1>2, <1>5
  <1>7. ASSUME NEW i \in 1..n PROVE (n - i) + 1 \in 1..n /\ (n - ((n - i) + 1)) + 1 = i
    BY <1>2
  <1>8. PICK t : t = [i \in 1..n |-> s[(n - i) + 1]]
    OBVIOUS
  <1>9. t \in [1..n -> Page]
    BY <1>2, <1>7, <1>8
  <1>10. ASSUME NEW i \in 1..n, NEW j \in 1..n, t[i] = t[j] PROVE i = j
    <2>1. (n - i) + 1 = (n - j) + 1
      BY <1>2, <1>7, <1>8, <1>10
    <2>2. QED
      BY <1>2, <2>1
  <1>11. Firsts = { t[i] : i \in 1..n }
    <2>1. \A i \in 1..n : t[(n - i) + 1] = s[i]
      BY <1>7, <1>8
    <2>2. \A i \in 1..n : t[i] = s[(n - i) + 1]
      BY <1>8
    <2>3. ASSUME NEW x \in Firsts PROVE \E i \in 1..n : x = t[i]
      <3>1. PICK k \in 1..n : x = s[k]
        BY <1>2, <2>3
      <3>2. (n - k) + 1 \in 1..n /\ t[(n - k) + 1] = s[k]
        BY <1>7, <2>1
      <3>3. QED
        BY ONLY <3>1, <3>2, ZenonT(40)
    <2>4. ASSUME NEW i \in 1..n PROVE t[i] \in Firsts
      BY <1>2, <1>7, <2>2
    <2>5. QED
      BY <2>3, <2>4
  <1>12. u = [i \in 1..n |-> FreeOf(t[i])]
    <2>1. u = [i \in 1..n |-> v[(n - i) + 1]]
      BY <1>4, <1>6 DEF Reverse
    <2>2. \A i \in 1..n : v[(n - i) + 1] = FreeOf(t[i])
      BY <1>3, <1>7, <1>8
    <2>3. QED
      BY <2>1, <2>2
  <1>13. QED
    BY <1>2, <1>9, <1>10, <1>11, <1>12, LinesOf

(* A page that is emptied. *)
LEMMA EmptiedBlank ==
    ASSUME NEW p, NEW E, CutBy(mem[p], E), Sealed(p, mem[p], E), NEW N, N = EmptyPage(p, TRUE)
    PROVE  Blank(p, N)
  <1>1. PICK M : M = mem[p]
    OBVIOUS
  <1>2. PICK f : f = Body(p)
    OBVIOUS
  <1>3. f \in Nat /\ f <= 288
    BY <1>2, ThreeSpaced
  <1>4. PICK n \in Nat : n = 4096 - f
    BY <1>3
  <1>5. Span(f, n, High)
    BY <1>3, <1>4 DEF Span, High
  <1>6. PICK K : K = PutBlk(M, f, n, FALSE)
    OBVIOUS
  <1>7. N = Whole(K, f, n)
    BY <1>1, <1>2, <1>4, <1>6 DEF EmptyPage, Body
  <1>8. CutBy(M, E) /\ Sealed(p, M, E)
    BY <1>1
  <1>9. QED
    BY <1>2, <1>5, <1>6, <1>7, <1>8, BlankPage

(* gfs_mem_pool_reset leaves what gfs_mem_pool_create makes. *)
LEMMA ResetBegun ==
    ASSUME PagesAt(pages, init, mem), pages # <<>>, Firm(mem), stale' = {}, ResetPages
    PROVE  Begun(mem', block') /\ pages' = PageList /\ init' = 1..InitPages
  <1>1. Kept = PageList /\ init = Firsts
    BY KeptIs DEF PagesAt, Firsts
  <1>2. mem' = [p \in Page |-> IF p \in Firsts THEN EmptyPage(p, TRUE) ELSE <<>>]
    BY <1>1 DEF ResetPages
  <1>3. Firsts \subseteq Page
    BY MemAssumption DEF Firsts, Page
  <1>4. ASSUME NEW q \in Firsts PROVE Blank(q, mem'[q])
    <2>1. mem'[q] = EmptyPage(q, TRUE)
      BY <1>2, <1>3
    <2>2. PICK E : CutBy(mem[q], E) /\ Sealed(q, mem[q], E)
      BY DEF Firm
    <2>3. QED
      BY <2>1, <2>2, EmptiedBlank
  <1>5. DOMAIN mem' = Page /\ \A p \in Page : p \notin Firsts => mem'[p] = <<>>
    BY <1>2
  <1>6. PICK u : u = Reverse([i \in DOMAIN PageList |-> FreeOf(PageList[i])])
    OBVIOUS
  <1>7. Lines(u, Spots(Firsts))
    BY <1>6, TurnedLines
  <1>8. block' = [i \in Class |-> IF i = BigClass THEN u ELSE <<>>]
    <2>1. block' = [i \in 0..7 |-> IF i # 7 THEN <<>> ELSE u]
      BY <1>1, <1>6 DEF ResetPages
    <2>2. QED
      BY <2>1 DEF Class, BigClass
  <1>9. Begun(mem', block')
    BY <1>4, <1>5, <1>7, <1>8 DEF Begun
  <1>10. QED
    BY <1>1, <1>9 DEF ResetPages, Firsts

(* The pages of a sound pool have the heads they began with. *)
LEMMA SaneFirm ==
    ASSUME NEW pg, NEW in, NEW m, NEW B, NEW L, NEW lv, NEW ps, NEW as, NEW pu, NEW ms,
           Sane(pg, in, m, B, L, lv, ps, as, pu, ms), pg # <<>>
    PROVE  Firm(m) /\ Firsts \subseteq ToSet(pg)
  <1>1. PagesAt(pg, in, m) /\ GoodPages(ToSet(pg), m)
    BY SaneOpen
  <1>2. PICK n, i0 : n = Len(pg) /\ i0 = InitPages
    OBVIOUS
  <1>3. /\ pg \in Seq(Page) /\ n \in Nat /\ n >= i0 /\ i0 \in Nat
        /\ \A k \in 1..i0 : pg[n - i0 + k] = PageList[k]
    BY <1>1, <1>2, MemAssumption DEF PagesAt
  <1>4. ToSet(pg) = { pg[i] : i \in 1..n }
    BY <1>2, <1>3 DEF ToSet
  <1>5. ASSUME NEW q \in Firsts PROVE q \in ToSet(pg)
    <2>1. PICK j \in 1..i0 : q = PageList[j]
      BY <1>2, PageListOK
    <2>2. n - i0 + j \in 1..n
      BY <1>3
    <2>3. QED
      BY <1>3, <1>4, <2>1, <2>2
  <1>6. ASSUME NEW q \in Firsts PROVE \E E : CutBy(m[q], E) /\ Sealed(q, m[q], E)
    <2>1. Good(q, m[q], Edges(m[q]))
      BY <1>1, <1>5 DEF GoodPages
    <2>2. QED
      BY <2>1 DEF Good
  <1>7. QED
    BY <1>5, <1>6 DEF Firm

(* What goes back. *)
LEMMA SaneBytes ==
    ASSUME NEW pg, NEW in, NEW m, NEW B, NEW L, NEW lv, NEW ps, NEW as, NEW pu, NEW ms,
           Sane(pg, in, m, B, L, lv, ps, as, pu, ms)
    PROVE  as = 4096 * Len(pg) + Bytes(L) /\ Bytes(L) \in Int /\ Len(pg) \in Nat
  <1>1. /\ Ledger(ToSet(pg), m, B, L, lv, ps, as, pu, ms, Len(pg)) /\ Len(pg) \in Nat
    BY SaneOpen
  <1>2. PICK P, n : P = ToSet(pg) /\ n = Len(pg)
    OBVIOUS
  <1>3. PICK w, l, v : Sums3(m, B, P, L, lv, w, l, v) /\ Entry(ps, as, pu, ms, n, w, l, v)
    BY <1>1, <1>2, LedgerOpen
  <1>4. Bytes(L) = l /\ l \in Int
    BY <1>3 DEF Sums3, Sum
  <1>5. QED
    BY <1>1, <1>2, <1>3, <1>4 DEF Entry

(* gfs_mem_pool_reset of a sound pool. *)
LEMMA ResetSane ==
    ASSUME Sane(pages, init, mem, block, large, live, psize, allsize, pused, msize),
           pages # <<>>, ResetPages, live' = {}, stale' = {}
    PROVE  Sane(pages, init, mem, block, large, live, psize, allsize, pused, msize)'
  <1>1. PagesAt(pages, init, mem) /\ Firm(mem)
    BY SaneOpen, SaneFirm
  <1>2. Begun(mem', block') /\ pages' = PageList /\ init' = 1..InitPages
    BY <1>1, ResetBegun
  <1>3. /\ large' = <<>> /\ psize' = InitPages * PAGESIZE /\ pused' = FreshUsed /\ msize' = 0
        /\ allsize' = allsize - Bytes(large) - PAGESIZE * Added
    BY DEF ResetPages
  <1>4. Added = Len(pages) - InitPages /\ InitPages \in Nat
    BY <1>1, KeptIs, MemAssumption
  <1>5. allsize = 4096 * Len(pages) + Bytes(large) /\ Bytes(large) \in Int /\ Len(pages) \in Nat
    BY SaneBytes
  <1>6. PICK as, ps, ms, k, C : as = allsize' /\ ps = psize' /\ ms = msize' /\ k = mem' /\ C = block'
    OBVIOUS
  <1>7. as = 4096 * InitPages /\ ps = 4096 * InitPages /\ ms = 0
    BY <1>3, <1>4, <1>5, <1>6
  <1>8. Sane(PageList, 1..InitPages, k, C, <<>>, {}, ps, as, FreshUsed, ms)
    <2>1. Begun(k, C)
      BY <1>2, <1>6
    <2>2. QED
      BY <1>7, <2>1, BegunSane
  <1>9. QED
    BY <1>2, <1>3, <1>6, <1>8

(* No pool at all. *)
LEMMA NoneSane ==
    ASSUME NEW k, k = [p \in Page |-> <<>>], NEW z, z = 0
    PROVE  Sane(<<>>, {}, k, Empty, <<>>, {}, z, z, z, z)
  <1>1. PICK O, L, pg : O = {} /\ L = <<>> /\ pg = <<>>
    OBVIOUS
  <1>2. DOMAIN k = Page /\ \A p \in Page : k[p] = <<>>
    OBVIOUS
  <1>3. Pool(O, k, Empty, z)
    BY <1>1, <1>2, NoPool
  <1>4. Keeps(O, k, L, O) /\ Sum(L, DOMAIN L, z) /\ Sum(TakenBy(k, L, O), O, z)
    BY <1>1, NoneHeld
  <1>5. Sums3(k, Empty, O, L, O, z, z, z)
    BY <1>3, <1>4 DEF Sums3
  <1>6. Entry(z, z, z, z, z, z, z, z)
    BY DEF Entry
  <1>7. Ledger(O, k, Empty, L, O, z, z, z, z, z)
    BY <1>4, <1>5, <1>6, LedgerBy
  <1>8. SoundAt(O, k, Empty, L, O, z, z, z, z, z)
    BY <1>7, SoundClose
  <1>9. ToSet(pg) = O /\ Len(pg) = z
    BY <1>1 DEF ToSet
  <1>10. PagesAt(pg, O, k)
    BY <1>1, <1>2 DEF PagesAt, IsInjective
  <1>11. Sane(pg, O, k, Empty, L, O, z, z, z, z)
    BY <1>8, <1>9, <1>10 DEF Sane
  <1>12. QED
    BY <1>1, <1>11

(* gfs_mem_pool_destory gives all back. *)
LEMMA DestoryBytes ==
    ASSUME Sane(pages, init, mem, block, large, live, psize, allsize, pused, msize),
           pool_destory
    PROVE  allsize' = 0
  <1>1. allsize' = allsize - Bytes(large) - PAGESIZE * Len(pages)
    BY DEF pool_destory
  <1>2. allsize = 4096 * Len(pages) + Bytes(large) /\ Bytes(large) \in Int /\ Len(pages) \in Nat
    BY SaneBytes
  <1>3. QED
    BY <1>1, <1>2

(* The pool is gone. *)
LEMMA DestorySane ==
    ASSUME Sane(pages, init, mem, block, large, live, psize, allsize, pused, msize),
           pool_destory
    PROVE  Sane(pages, init, mem, block, large, live, psize, allsize, pused, msize)'
  <1>1. allsize' = 0
    BY DestoryBytes
  <1>2. /\ pages' = <<>> /\ init' = {} /\ mem' = [p \in Page |-> <<>>]
        /\ block' = Empty /\ large' = <<>> /\ psize' = 0 /\ pused' = 0 /\ msize' = 0 /\ live' = {}
    BY DEF pool_destory, Empty, Class
  <1>3. PICK k, z : k = mem' /\ z = 0
    OBVIOUS
  <1>4. Sane(<<>>, {}, k, Empty, <<>>, {}, z, z, z, z)
    BY <1>2, <1>3, NoneSane
  <1>5. QED
    BY <1>1, <1>2, <1>3, <1>4

(* A new pool. *)
LEMMA CreateSane ==
    ASSUME Sane(pages, init, mem, block, large, live, psize, allsize, pused, msize),
           live = {}, pool_create
    PROVE  Sane(pages, init, mem, block, large, live, psize, allsize, pused, msize)'
  <1>1. /\ pages = <<>> /\ pages' = PageList /\ init' = 1..InitPages
        /\ mem' = FreshMem /\ block' = FreshLists /\ large' = <<>>
        /\ psize' = PAGESIZE * InitPages /\ pused' = FreshUsed /\ msize' = 0
        /\ allsize' = allsize + PAGESIZE * InitPages /\ live' = {}
    BY DEF pool_create
  <1>2. allsize = 0
    <2>1. allsize = 4096 * Len(pages) + Bytes(large) /\ Len(pages) = 0
      BY <1>1, SaneBytes
    <2>2. Bytes(large) = 0
      <3>1. Ledger(ToSet(pages), mem, block, large, live, psize, allsize, pused, msize, Len(pages))
        BY SaneOpen
      <3>2. Keeps(ToSet(pages), mem, large, live)
        BY <3>1, LedgerOpen
      <3>3. DOMAIN large = {} /\ large \in [DOMAIN large -> Nat]
        BY <3>2 DEF Keeps, LargeOK
      <3>4. large \in [{} -> Int]
        BY <3>3
      <3>5. QED
        BY <3>4, BytesEmpty
    <2>3. QED
      BY <2>1, <2>2
  <1>3. PICK k, C, as, ps, ms : k = mem' /\ C = block' /\ as = allsize' /\ ps = psize' /\ ms = msize'
    OBVIOUS
  <1>4. Begun(k, C)
    BY <1>1, <1>3, FreshBegun
  <1>5. as = 4096 * InitPages /\ ps = 4096 * InitPages /\ ms = 0
    BY <1>1, <1>2, <1>3, MemAssumption
  <1>6. Sane(PageList, 1..InitPages, k, C, <<>>, {}, ps, as, FreshUsed, ms)
    BY <1>4, <1>5, BegunSane
  <1>7. QED
    BY <1>1, <1>3, <1>6

(* The pool of a worker that starts. *)
LEMMA InitSane ==
    ASSUME MemInit
    PROVE  Sane(pages, init, mem, block, large, live, psize, allsize, pused, msize)
  <1>1. /\ pages = PageList /\ init = 1..InitPages
        /\ mem = FreshMem /\ block = FreshLists /\ large = <<>>
        /\ psize = 4096 * InitPages /\ pused = FreshUsed /\ msize = 0
        /\ allsize = 4096 * InitPages /\ live = {}
    BY DEF MemInit
  <1>2. Begun(mem, block)
    BY <1>1, FreshBegun
  <1>3. Sane(PageList, 1..InitPages, mem, block, <<>>, {}, psize, allsize, FreshUsed, msize)
    BY <1>1, <1>2, BegunSane
  <1>4. QED
    BY <1>1, <1>3

(* ... and of one that is started again. *)
LEMMA RestartSane ==
    ASSUME worker_restart
    PROVE  Sane(pages, init, mem, block, large, live, psize, allsize, pused, msize)'
  <1>1. /\ pages' = PageList /\ init' = 1..InitPages
        /\ mem' = FreshMem /\ block' = FreshLists /\ large' = <<>>
        /\ psize' = 4096 * InitPages /\ pused' = FreshUsed /\ msize' = 0
        /\ allsize' = 4096 * InitPages /\ live' = {}
    BY DEF worker_restart
  <1>2. PICK k, C, as, ps, ms : k = mem' /\ C = block' /\ as = allsize' /\ ps = psize' /\ ms = msize'
    OBVIOUS
  <1>3. Begun(k, C)
    BY <1>1, <1>2, FreshBegun
  <1>4. as = 4096 * InitPages /\ ps = 4096 * InitPages /\ ms = 0
    BY <1>1, <1>2
  <1>5. Sane(PageList, 1..InitPages, k, C, <<>>, {}, ps, as, FreshUsed, ms)
    BY <1>3, <1>4, BegunSane
  <1>6. QED
    BY <1>1, <1>2, <1>5

------------------------------------------------------------------------------
(* A pool that was reset under a request. *)

Changed(E, h, k, at, s) == k \in [E -> Nat] /\ k[at] = s /\ \A c \in E : c # at => k[c] = h[c]

(* What a block that is merged is: last is the one in front of the edge t, *)
(* at the one that grows up to there.                                      *)
Grows(E, D, f, h, W, A, at, t, last, s, V, C) ==
    /\ at \in D /\ t \in E /\ last \in W \cup A /\ last # f /\ last + h[last] = t
    /\ s \in Nat /\ 48 <= s /\ at \in W \cup A
    /\ V \subseteq W \cup {at} /\ C \subseteq A /\ V \cap C \subseteq {f}
    /\ (at = f => 4144 <= f + s) /\ (at # f => at + s = t)
    /\ \A e \in C : at # f => at + h[at] # e
    /\ last \in V \cup C => last = at

(* Merging keeps it so. *)
LEMMA CoreMerge ==
    ASSUME NEW E, NEW D, NEW f, Ground(E, D, f), NEW h, NEW g, NEW W, NEW A, Core(E, D, f, h, g, W, A),
           NEW at, NEW t, NEW last, NEW s, NEW V, NEW C, Grows(E, D, f, h, W, A, at, t, last, s, V, C),
           NEW k, Changed(E, h, k, at, s), NEW l, Changed(E, g, l, t, s)
    PROVE  Core(E, D, f, k, l, V, C)
  <1>1. /\ \A e \in E : e \in Nat /\ e <= 4096
        /\ D \subseteq E /\ f \in D /\ \A d \in D : f <= d
    BY DEF Ground
  <1>2. /\ h \in [E -> Nat] /\ g \in [E -> Nat]
        /\ W \subseteq D /\ A \subseteq D /\ W \cap A \subseteq {f}
        /\ (\A b \in D : 48 <= h[b]) /\ 4096 <= f + h[f]
        /\ \A b \in D : b + h[b] \in E \/ 4144 <= b + h[b]
    BY DEF Core, Sound48, Lands
  <1>3. Backs(D, f, h, g, A) /\ Foots(E, f, h, g, W) /\ Ends(f, h, W, A)
    BY DEF Core
  <1>4. /\ at \in D /\ t \in E /\ last \in W \cup A /\ last # f /\ last + h[last] = t
        /\ s \in Nat /\ 48 <= s /\ at \in W \cup A
        /\ V \subseteq W \cup {at} /\ C \subseteq A /\ V \cap C \subseteq {f}
        /\ (at = f => 4144 <= f + s) /\ (at # f => at + s = t)
        /\ (\A e \in C : at # f => at + h[at] # e)
        /\ (last \in V \cup C => last = at)
    BY DEF Grows
  <1>5. /\ k \in [E -> Nat] /\ k[at] = s /\ (\A c \in E : c # at => k[c] = h[c])
        /\ l \in [E -> Nat] /\ l[t] = s /\ \A c \in E : c # t => l[c] = g[c]
    BY DEF Changed
  <1>6. V \subseteq D /\ C \subseteq D
    BY <1>2, <1>4
  <1>7. Sound48(D, k)
    <2>1. ASSUME NEW b \in D PROVE 48 <= k[b]
      BY <1>1, <1>2, <1>4, <1>5
    <2>2. QED
      BY <2>1 DEF Sound48
  <1>8. Lands(E, D, k)
    <2>1. ASSUME NEW b \in D PROVE b + k[b] \in E \/ 4144 <= b + k[b]
      BY <1>1, <1>2, <1>4, <1>5
    <2>2. QED
      BY <2>1 DEF Lands
  <1>9. 4096 <= f + k[f]
    <2>1. CASE at = f
      BY <1>1, <1>4, <1>5, <2>1
    <2>2. CASE at # f
      BY <1>1, <1>2, <1>5, <2>2
    <2>3. QED
      BY <2>1, <2>2
  <1>10. ASSUME NEW c \in (V \cup C), c # f, c # at, c + h[c] = t PROVE FALSE
    <2>1. c # last /\ c \in W \cup A
      BY <1>4, <1>10
    <2>2. 4096 < c + h[c]
      BY <1>3, <1>4, <1>10, <2>1 DEF Ends
    <2>3. QED
      BY <1>1, <1>4, <1>10, <2>2
  <1>11. Backs(D, f, k, l, C)
    <2>1. ASSUME NEW e \in C, NEW c \in D, e # f, c # f, c = e - l[e] PROVE c + k[c] = e
      <3>1. CASE e = t
        <4>1. c = t - s
          BY <1>5, <2>1, <3>1
        <4>2. at # f
          <5>1. ASSUME at = f PROVE FALSE
            <6>1. f <= c /\ t <= 4096 /\ t \in Nat /\ c \in Nat /\ f \in Nat
              BY <1>1, <1>4
            <6>2. QED
              BY <1>4, <4>1, <5>1, <6>1
          <5>2. QED
            BY <5>1
        <4>3. at + s = t /\ at \in Nat /\ s \in Nat
          BY <1>1, <1>4, <4>2
        <4>4. c = at
          BY <4>1, <4>3
        <4>5. QED
          BY <1>5, <3>1, <4>3, <4>4
      <3>2. CASE e # t
        <4>1. e \in A /\ e \in E /\ l[e] = g[e]
          BY <1>1, <1>2, <1>4, <1>5, <3>2
        <4>2. c + h[c] = e
          BY <1>3, <2>1, <4>1 DEF Backs
        <4>3. c # at
          BY <1>4, <2>1, <4>2
        <4>4. QED
          BY <1>1, <1>5, <4>2, <4>3
      <3>3. QED
        BY <3>1, <3>2
    <2>2. QED
      BY <2>1 DEF Backs
  <1>12. Foots(E, f, k, l, V)
    <2>1. ASSUME NEW b \in V, NEW e \in E, b # f, e = b + k[b] PROVE l[e] = k[b]
      <3>1. CASE b = at
        BY <1>4, <1>5, <2>1, <3>1
      <3>2. CASE b # at
        <4>1. b \in W /\ b \in E /\ k[b] = h[b]
          BY <1>1, <1>4, <1>5, <1>6, <3>2
        <4>2. e # t
          BY <1>10, <2>1, <3>2, <4>1
        <4>3. g[e] = h[b]
          BY <1>3, <2>1, <4>1 DEF Foots
        <4>4. QED
          BY <1>5, <4>1, <4>2, <4>3
      <3>3. QED
        BY <3>1, <3>2
    <2>2. QED
      BY <2>1 DEF Foots
  <1>13. Ends(f, k, V, C)
    <2>1. ASSUME NEW c \in V \cup C, c # f, c # at, at # f PROVE c + k[c] # at + k[at]
      <3>1. k[c] = h[c]
        BY <1>1, <1>5, <1>6, <2>1
      <3>2. QED
        BY <1>4, <1>5, <1>10, <2>1, <3>1
    <2>2. ASSUME NEW b \in V \cup C, NEW c \in V \cup C, b # f, c # f, b # c, b + k[b] = c + k[c]
          PROVE  4096 < b + k[b]
      <3>1. b # at /\ c # at
        BY <2>1, <2>2
      <3>2. k[b] = h[b] /\ k[c] = h[c]
        BY <1>1, <1>5, <1>6, <3>1
      <3>3. b \in W \cup A /\ c \in W \cup A
        BY <1>4, <3>1
      <3>4. QED
        BY <1>3, <2>2, <3>2, <3>3 DEF Ends
    <2>3. QED
      BY <2>2 DEF Ends
  <1>14. QED
    BY <1>4, <1>5, <1>6, <1>7, <1>8, <1>9, <1>11, <1>12, <1>13 DEF Core

(* So does giving back a block that is not merged. *)
LEMMA CoreSame ==
    ASSUME NEW E, NEW D, NEW f, NEW h, NEW g, NEW W, NEW A, Core(E, D, f, h, g, W, A),
           NEW V, V \subseteq W \cup A, NEW C, C \subseteq A, V \cap C \subseteq {f},
           \A b \in V : \A e \in E : b \notin W /\ e = b + h[b] => g[e] = h[b]
    PROVE  Core(E, D, f, h, g, V, C)
  <1>1. V \subseteq D /\ C \subseteq D
    BY DEF Core
  <1>2. Backs(D, f, h, g, C)
    BY DEF Core, Backs
  <1>3. Foots(E, f, h, g, V)
    BY DEF Core, Foots
  <1>4. Ends(f, h, V, C)
    <2>1. \A b \in V \cup C : b \in W \cup A
      OBVIOUS
    <2>2. QED
      BY <2>1 DEF Core, Ends
  <1>5. QED
    BY <1>1, <1>2, <1>3, <1>4 DEF Core

Middle(E, D) == \A d : d \in D <=> d \in E /\ d # 16 /\ d # 4096

(* Such a page. *)
LEMMA AstrayFacts ==
    ASSUME NEW p, NEW M, NEW E, NEW W, NEW A, Astray(p, M, E, W, A),
           NEW f, f = Body(p), NEW D, D = Inner(E)
    PROVE  /\ Ground(E, D, f) /\ Middle(E, D) /\ CutBy(M, E) /\ Sealed(p, M, E)
           /\ Core(E, D, f, HeadSizes(M, E), FootSizes(M, E), W, A)
  <1>1. CutBy(M, E) /\ Sealed(p, M, E) /\ Core(E, D, f, HeadSizes(M, E), FootSizes(M, E), W, A)
    BY DEF Astray
  <1>2. /\ (\A z \in E : z \in Nat /\ 16 <= z /\ z <= 4096)
    BY <1>1, CutWords
  <1>3. /\ f \in Nat /\ f >= 64 /\ f <= 288 /\ f \in E /\ \A e \in E : e = 16 \/ f <= e
    BY <1>1, HeadFirst
  <1>4. Middle(E, D)
    BY DEF Middle, Inner
  <1>5. D \subseteq E /\ f \in D /\ \A d \in D : f <= d
    <2>1. f # 16 /\ f # 4096
      BY <1>3
    <2>2. f \in D
      BY <1>3, <1>4, <2>1 DEF Middle
    <2>3. D \subseteq E
      BY <1>4 DEF Middle
    <2>4. ASSUME NEW d \in D PROVE f <= d
      <3>1. d \in E /\ d # 16
        BY <1>4 DEF Middle
      <3>2. QED
        BY <1>3, <3>1
    <2>5. QED
      BY <2>2, <2>3, <2>4
  <1>6. Ground(E, D, f)
    BY <1>2, <1>5 DEF Ground
  <1>7. QED
    BY <1>1, <1>4, <1>6

Rewrote(N, L, E, a, x, t) ==
    /\ N \in [Words(E) -> Tag] /\ Hd(N, a) = t /\ Ft(N, x) = t
    /\ \A d \in E : (d # a => Hd(N, d) = Hd(L, d)) /\ (d # x => Ft(N, d) = Ft(L, d))

(* A header and a footer are written. *)
LEMMA TwoWords ==
    ASSUME NEW E, Spaced(E), NEW L \in [Words(E) -> Tag], NEW a \in E, NEW x \in E, NEW t \in Tag,
           NEW N, N = Write(Write(L, x - 16, t), a - 8, t)
    PROVE  Rewrote(N, L, E, a, x, t)
  <1>1. /\ (\A z \in E : z \in Nat /\ 16 <= z /\ z <= 4096)
        /\ (\A y, z \in E : y < z => y + 48 <= z)
        /\ \A e \in E : e - 8 \in Words(E) /\ e - 16 \in Words(E)
    BY SpacedEdges
  <1>2. PICK w, h, g : w = Words(E) /\ h = a - 8 /\ g = x - 16
    OBVIOUS
  <1>3. h \in w /\ g \in w
    BY <1>1, <1>2
  <1>4. PICK K : K = Write(L, g, t)
    OBVIOUS
  <1>5. K \in [w \cup {g} -> Tag] /\ K[g] = t /\ \A y \in w : y # g => K[y] = L[y]
    <2>1. L \in [w -> Tag] /\ t \in Tag
      BY <1>2
    <2>2. PICK X : X = Tag
      OBVIOUS
    <2>3. L \in [w -> X] /\ t \in X
      BY <2>1, <2>2
    <2>4. K \in [w \cup {g} -> X] /\ K[g] = t /\ \A y \in w : y # g => K[y] = L[y]
      BY ONLY <1>4, <2>3 DEF Write
    <2>5. QED
      BY <2>2, <2>4
  <1>6. w \cup {g} = w
    BY <1>3
  <1>7. K \in [w -> Tag]
    BY <1>5, <1>6
  <1>8. N = Write(K, h, t)
    BY <1>2, <1>4
  <1>9. N \in [w \cup {h} -> Tag] /\ N[h] = t /\ \A y \in w : y # h => N[y] = K[y]
    <2>1. PICK X : X = Tag
      OBVIOUS
    <2>2. K \in [w -> X] /\ t \in X
      BY <1>7, <2>1
    <2>3. N \in [w \cup {h} -> X] /\ N[h] = t /\ \A y \in w : y # h => N[y] = K[y]
      BY ONLY <1>8, <2>2 DEF Write
    <2>4. QED
      BY <2>1, <2>3
  <1>10. w \cup {h} = w
    BY <1>3
  <1>11. N \in [w -> Tag]
    BY <1>9, <1>10
  <1>12. \A d \in E : d - 16 # h /\ d - 8 # g
    BY <1>1, <1>2
  <1>13. \A d \in E : (d # a => d - 8 # h) /\ (d # x => d - 16 # g) /\ d - 8 \in w /\ d - 16 \in w
    BY <1>1, <1>2
  <1>14. g # h
    BY <1>2, <1>12
  <1>15. Hd(N, a) = t /\ Ft(N, x) = t
    BY <1>2, <1>3, <1>5, <1>9, <1>14 DEF Hd, Ft
  <1>16. ASSUME NEW d \in E PROVE (d # a => Hd(N, d) = Hd(L, d)) /\ (d # x => Ft(N, d) = Ft(L, d))
    BY <1>5, <1>9, <1>12, <1>13 DEF Hd, Ft
  <1>17. QED
    BY <1>2, <1>11, <1>15, <1>16 DEF Rewrote

(* ... and nothing of the page around them. *)
LEMMA RewroteSealed ==
    ASSUME NEW p, NEW L, NEW E, CutBy(L, E), Sealed(p, L, E), NEW N, NEW a, NEW x, NEW t,
           Rewrote(N, L, E, a, x, t), a # 16, a # 4096, x # 16, x # Body(p)
    PROVE  CutBy(N, E) /\ Sealed(p, N, E)
  <1>1. CutBy(N, E)
    BY DEF CutBy, Rewrote
  <1>2. /\ Adj(E, Low, Body(p)) /\ Ft(L, Low) = Outer /\ Hd(L, High) = Outer
        /\ Hd(L, Low) = HeadTag(p) /\ Ft(L, Body(p)) = HeadTag(p)
    BY SealedBy
  <1>3. Low \in E /\ High \in E /\ Body(p) \in E /\ a # Low /\ a # High /\ x # Low
    BY <1>2, CutWords DEF Low, High, Adj
  <1>4. /\ Ft(N, Low) = Outer /\ Hd(N, High) = Outer
        /\ Hd(N, Low) = HeadTag(p) /\ Ft(N, Body(p)) = HeadTag(p)
    BY <1>2, <1>3 DEF Rewrote
  <1>5. QED
    BY <1>1, <1>2, <1>4, SealedBy

(* The sizes they leave. *)
LEMMA RewroteSizes ==
    ASSUME NEW L, NEW E, CutBy(L, E), NEW N, CutBy(N, E), NEW a \in E, NEW x \in E, NEW t,
           Rewrote(N, L, E, a, x, t), NEW s, s = t.size
    PROVE  /\ Changed(E, HeadSizes(L, E), HeadSizes(N, E), a, s)
           /\ Changed(E, FootSizes(L, E), FootSizes(N, E), x, s)
  <1>1. \A e \in E : Hd(N, e) \in Tag /\ Ft(N, e) \in Tag
    BY CutWords
  <1>2. \A e \in E : Hd(N, e).size \in Nat /\ Ft(N, e).size \in Nat
    BY <1>1, TagParts
  <1>3. HeadSizes(N, E) \in [E -> Nat] /\ FootSizes(N, E) \in [E -> Nat]
    BY <1>2 DEF HeadSizes, FootSizes
  <1>4. HeadSizes(N, E)[a] = s /\ FootSizes(N, E)[x] = s
    BY DEF HeadSizes, FootSizes, Rewrote
  <1>5. ASSUME NEW c \in E
        PROVE  /\ c # a => HeadSizes(N, E)[c] = HeadSizes(L, E)[c]
               /\ c # x => FootSizes(N, E)[c] = FootSizes(L, E)[c]
    BY DEF HeadSizes, FootSizes, Rewrote
  <1>6. QED
    BY <1>3, <1>4, <1>5 DEF Changed

(* Merging keeps the page as it must be. *)
LEMMA AstrayMerge ==
    ASSUME NEW p, NEW L, NEW E, NEW W, NEW A, Astray(p, L, E, W, A),
           NEW N, NEW at, NEW x, NEW last, NEW t, NEW V, NEW C, Rewrote(N, L, E, at, x, t),
           Grows(E, Inner(E), Body(p), HeadSizes(L, E), W, A, at, x, last, t.size, V, C)
    PROVE  Astray(p, N, E, V, C)
  <1>1. PICK f, D, h, g, s : /\ f = Body(p) /\ D = Inner(E) /\ h = HeadSizes(L, E) /\ g = FootSizes(L, E)
                             /\ s = t.size
    OBVIOUS
  <1>2. /\ Ground(E, D, f) /\ Middle(E, D) /\ CutBy(L, E) /\ Sealed(p, L, E)
        /\ Core(E, D, f, h, g, W, A)
    BY <1>1, AstrayFacts
  <1>3. Grows(E, D, f, h, W, A, at, x, last, s, V, C)
    BY <1>1
  <1>4. at \in D /\ x \in E /\ last \in W \cup A /\ last + h[last] = x
    BY <1>3 DEF Grows
  <1>5. last \in D /\ h \in [E -> Nat] /\ 48 <= h[last]
    BY <1>2, <1>4 DEF Core, Sound48
  <1>6. /\ at \in E /\ at # 16 /\ at # 4096 /\ last \in Nat /\ f <= last /\ f \in Nat /\ h[last] \in Nat
    BY <1>2, <1>4, <1>5 DEF Ground, Middle
  <1>7. 16 <= f
    BY <1>1, ThreeSpaced
  <1>8. x # 16 /\ x # f
    BY <1>4, <1>5, <1>6, <1>7
  <1>9. CutBy(N, E) /\ Sealed(p, N, E)
    BY <1>1, <1>2, <1>6, <1>8, RewroteSealed
  <1>10. PICK k, l : k = HeadSizes(N, E) /\ l = FootSizes(N, E)
    OBVIOUS
  <1>11. Changed(E, h, k, at, s) /\ Changed(E, g, l, x, s)
    BY <1>1, <1>2, <1>4, <1>6, <1>9, <1>10, RewroteSizes
  <1>12. Core(E, D, f, k, l, V, C)
    BY <1>2, <1>3, <1>11, CoreMerge
  <1>13. QED
    BY <1>1, <1>9, <1>10, <1>12 DEF Astray

------------------------------------------------------------------------------
(* gfs_mem_free of a block of such a page. *)

(* A free block behind it ... *)
LEMMA GrowNext ==
    ASSUME NEW E, NEW D, NEW f, Ground(E, D, f), Middle(E, D), NEW h, NEW g, NEW W, NEW A,
           Core(E, D, f, h, g, W, A), NEW b \in A, NEW nx, nx = b + h[b], nx \in W,
           NEW x \in E, x = nx + h[nx], NEW s, s = h[b] + h[nx],
           NEW V, V \subseteq W \cup {b}, nx \notin V, NEW C, C \subseteq A, b \notin C
    PROVE  Grows(E, D, f, h, W, A, b, x, nx, s, V, C)
  <1>1. /\ (\A e \in E : e \in Nat /\ e <= 4096)
        /\ D \subseteq E /\ f \in D /\ \A d \in D : f <= d
    BY DEF Ground
  <1>2. /\ h \in [E -> Nat] /\ g \in [E -> Nat]
        /\ W \subseteq D /\ A \subseteq D /\ W \cap A \subseteq {f}
        /\ (\A d \in D : 48 <= h[d]) /\ 4096 <= f + h[f]
    BY DEF Core, Sound48
  <1>3. b \in D /\ b \in E /\ b \in Nat /\ nx \in D /\ nx \in E /\ nx \in Nat /\ nx <= 4096
    BY <1>1, <1>2
  <1>4. nx # 4096
    BY <1>3 DEF Middle
  <1>5. h[b] \in Nat /\ h[nx] \in Nat /\ 48 <= h[b] /\ 48 <= h[nx] /\ f \in Nat /\ f <= b
    BY <1>1, <1>2, <1>3
  <1>6. b # f
    BY <1>2, <1>3, <1>4, <1>5
  <1>7. nx # f /\ nx # b
    BY <1>3, <1>5
  <1>8. nx \notin A
    BY <1>2, <1>7
  <1>9. s \in Nat /\ 48 <= s /\ b + s = x
    BY <1>3, <1>5
  <1>10. V \cap C \subseteq {f}
    BY <1>2
  <1>11. \A e \in C : b + h[b] # e
    BY <1>8
  <1>12. QED
    BY <1>3, <1>6, <1>7, <1>8, <1>9, <1>10, <1>11 DEF Grows

(* ... in front of it ... *)
LEMMA GrowPrev ==
    ASSUME NEW E, NEW D, NEW f, Ground(E, D, f), NEW h, NEW g, NEW W, NEW A,
           Core(E, D, f, h, g, W, A), NEW b \in A, b # f, NEW nx \in E, nx = b + h[b],
           NEW pv \in W, pv = b - g[b], NEW s, s = h[b] + h[pv],
           NEW V, V \subseteq W \cup {pv}, NEW C, C \subseteq A, b \notin C
    PROVE  Grows(E, D, f, h, W, A, pv, nx, b, s, V, C)
  <1>1. /\ (\A e \in E : e \in Nat /\ e <= 4096)
        /\ D \subseteq E /\ f \in D /\ \A d \in D : f <= d
    BY DEF Ground
  <1>2. /\ h \in [E -> Nat] /\ g \in [E -> Nat]
        /\ W \subseteq D /\ A \subseteq D /\ W \cap A \subseteq {f}
        /\ (\A d \in D : 48 <= h[d]) /\ 4096 <= f + h[f] /\ Backs(D, f, h, g, A)
    BY DEF Core, Sound48
  <1>3. b \in D /\ b \in E /\ b \in Nat /\ pv \in D /\ pv \in E /\ pv \in Nat
    BY <1>1, <1>2
  <1>4. h[b] \in Nat /\ h[pv] \in Nat /\ 48 <= h[b] /\ 48 <= h[pv] /\ f \in Nat
    BY <1>1, <1>2, <1>3
  <1>5. pv # f => pv + h[pv] = b
    BY <1>2, <1>3 DEF Backs
  <1>6. s \in Nat /\ 48 <= s
    BY <1>4
  <1>7. pv = f => 4144 <= f + s
    BY <1>2, <1>4
  <1>8. pv # f => pv + s = nx
    BY <1>3, <1>4, <1>5
  <1>9. V \cap C \subseteq {f} /\ V \subseteq W
    BY <1>2
  <1>10. \A e \in C : pv # f => pv + h[pv] # e
    BY <1>5
  <1>11. b \notin W
    BY <1>2
  <1>12. b \notin V \cup C
    BY <1>9, <1>11
  <1>13. QED
    BY <1>3, <1>6, <1>7, <1>8, <1>9, <1>10, <1>12 DEF Grows

(* ... and on both sides. *)
LEMMA GrowBoth ==
    ASSUME NEW E, NEW D, NEW f, Ground(E, D, f), NEW h, NEW g, NEW W, NEW A,
           Core(E, D, f, h, g, W, A), NEW b \in A, b # f, NEW nx, nx = b + h[b], nx \in W,
           NEW x \in E, x = nx + h[nx], NEW pv \in W, pv = b - g[b],
           NEW s, s = h[b] + h[pv] + g[x],
           NEW V, V \subseteq W \cup {pv}, nx \notin V, NEW C, C \subseteq A, b \notin C
    PROVE  Grows(E, D, f, h, W, A, pv, x, nx, s, V, C)
  <1>1. /\ (\A e \in E : e \in Nat /\ e <= 4096)
        /\ D \subseteq E /\ f \in D /\ \A d \in D : f <= d
    BY DEF Ground
  <1>2. /\ h \in [E -> Nat] /\ g \in [E -> Nat]
        /\ W \subseteq D /\ A \subseteq D /\ W \cap A \subseteq {f}
        /\ (\A d \in D : 48 <= h[d]) /\ 4096 <= f + h[f] /\ Backs(D, f, h, g, A)
        /\ Foots(E, f, h, g, W)
    BY DEF Core, Sound48
  <1>3. b \in D /\ b \in E /\ b \in Nat /\ pv \in D /\ pv \in E /\ pv \in Nat
        /\ nx \in D /\ nx \in E /\ nx \in Nat
    BY <1>1, <1>2
  <1>4. /\ h[b] \in Nat /\ h[pv] \in Nat /\ 48 <= h[b] /\ 48 <= h[pv] /\ f \in Nat /\ f <= b
        /\ h[nx] \in Nat
    BY <1>1, <1>2, <1>3
  <1>5. pv # f => pv + h[pv] = b
    BY <1>2, <1>3 DEF Backs
  <1>6. nx # f
    BY <1>3, <1>4
  <1>7. g[x] = h[nx]
    BY <1>2, <1>6 DEF Foots
  <1>8. s \in Nat /\ 48 <= s
    BY <1>4, <1>7
  <1>9. pv = f => 4144 <= f + s
    BY <1>2, <1>4, <1>7
  <1>10. pv # f => pv + s = x
    BY <1>3, <1>4, <1>5, <1>7
  <1>11. V \cap C \subseteq {f}
    BY <1>2
  <1>12. \A e \in C : pv # f => pv + h[pv] # e
    BY <1>5
  <1>13. nx \notin A
    BY <1>2, <1>6
  <1>14. nx \notin V \cup C
    BY <1>13
  <1>15. QED
    BY <1>3, <1>6, <1>8, <1>9, <1>10, <1>11, <1>12, <1>14 DEF Grows

(* A footer word is at an edge, as sizes end at one or beyond the page. *)
LEMMA FootEdge ==
    ASSUME NEW M, NEW E, CutBy(M, E), NEW x \in Nat, x \in E \/ 4144 <= x, x - 16 \in Words(E)
    PROVE  x \in E
  <1>1. \A z \in E : z \in Nat /\ z <= 4096
    BY CutWords
  <1>2. Spaced(E)
    BY CutWords
  <1>3. PICK y : y = x - 16
    OBVIOUS
  <1>4. y \in Nat /\ (y + 8 \in E \/ y + 16 \in E)
    BY <1>2, <1>3, SpacedEdges
  <1>5. y + 16 = x /\ y + 8 = x - 8
    BY <1>3
  <1>6. CASE y + 16 \in E
    BY <1>5, <1>6
  <1>7. CASE y + 8 \in E
    BY <1>1, <1>5, <1>7
  <1>8. QED
    BY <1>4, <1>6, <1>7

(* What gfs_mem_free has found and written before it looks around. *)
Ready(p, L, E, W, A, b, nx) ==
    /\ Astray(p, L, E, W, A) /\ b \in A /\ nx \in E
    /\ HeadSizes(L, E)[b] = nx - b /\ FootSizes(L, E)[nx] = nx - b

Marks(M, b, own, L) == own = Hd(M, b).size /\ L = PutBlk(M, b, own, FALSE)

(* Its two words are written. *)
LEMMA MarksWrite ==
    ASSUME NEW M, NEW E, CutBy(M, E), NEW b, NEW nx, Ordered(E, b, nx), NEW own \in Nat,
           Span(b, own, nx), NEW L, Marks(M, b, own, L)
    PROVE  Marked(L, M, E, b, nx)
  <1>1. L = PutBlk(M, b, own, FALSE)
    BY DEF Marks
  <1>2. QED
    BY <1>1, MarkPage

(* They say the same size. *)
LEMMA MarkedRewrote ==
    ASSUME NEW L, NEW M, NEW E, NEW b, NEW nx, Marked(L, M, E, b, nx), NEW own \in Nat, own = nx - b
    PROVE  \E t : Rewrote(L, M, E, b, nx, t) /\ t.size = own
  <1>1. PICK t : t = T(own, FALSE)
    OBVIOUS
  <1>2. t.size = own
    BY <1>1, TagOf
  <1>3. Rewrote(L, M, E, b, nx, t)
    BY <1>1 DEF Marked, Rewrote
  <1>4. QED
    BY <1>2, <1>3

(* It frees a block whose words agree. *)
LEMMA StaleMark ==
    ASSUME NEW p, NEW M, NEW E, NEW W, NEW A, Astray(p, M, E, W, A), NEW b \in A,
           Tagged(M, b), Intact(M, b), NEW own, NEW L, Marks(M, b, own, L)
    PROVE  \E nx : Ready(p, L, E, W, A, b, nx)
  <1>1. PICK f, D, h, g : f = Body(p) /\ D = Inner(E) /\ h = HeadSizes(M, E) /\ g = FootSizes(M, E)
    OBVIOUS
  <1>2. /\ Ground(E, D, f) /\ Middle(E, D) /\ CutBy(M, E) /\ Sealed(p, M, E)
        /\ Core(E, D, f, h, g, W, A)
    BY <1>1, AstrayFacts
  <1>3. b \in D /\ h \in [E -> Nat] /\ 48 <= h[b] /\ (b + h[b] \in E \/ 4144 <= b + h[b])
    BY <1>2 DEF Core, Sound48, Lands
  <1>4. b \in E /\ b \in Nat /\ f \in Nat /\ f <= b /\ b # 16 /\ b # 4096
    BY <1>2, <1>3 DEF Ground, Middle
  <1>5. h[b] = own
    BY <1>1, <1>4 DEF HeadSizes, Marks
  <1>6. PICK nx \in Nat : nx = b + own
    BY <1>3, <1>4, <1>5
  <1>7. own \in Nat /\ 48 <= own /\ (nx \in E \/ 4144 <= nx)
    BY <1>3, <1>4, <1>5, <1>6
  <1>8. M \in [Words(E) -> Tag]
    BY <1>2, CutWords
  <1>9. Ftr(M, b) = nx - 16
    BY <1>4, <1>6, <1>7 DEF Ftr, Hd, Marks
  <1>10. nx - 16 \in Words(E)
    BY <1>8, <1>9 DEF Tagged
  <1>11. nx \in E
    BY <1>2, <1>7, <1>10, FootEdge
  <1>12. Hd(M, b) = Ft(M, nx)
    BY <1>9 DEF Intact, Hd, Ft
  <1>13. Ordered(E, b, nx) /\ Span(b, own, nx)
    BY <1>4, <1>6, <1>7, <1>11 DEF Ordered, Span
  <1>14. Marked(L, M, E, b, nx)
    BY <1>2, <1>7, <1>13, MarksWrite
  <1>16. nx - b = own
    BY <1>4, <1>6, <1>7
  <1>17. PICK t : Rewrote(L, M, E, b, nx, t) /\ t.size = own
    BY <1>7, <1>14, <1>16, MarkedRewrote
  <1>19. nx # 16 /\ nx # Body(p)
    <2>1. 16 <= f
      BY <1>1, ThreeSpaced
    <2>2. nx # 16 /\ nx # f
      BY <1>4, <1>6, <1>7, <2>1
    <2>3. QED
      BY <1>1, <2>2
  <1>20. CutBy(L, E) /\ Sealed(p, L, E)
    BY <1>2, <1>4, <1>17, <1>19, RewroteSealed
  <1>21. /\ Changed(E, HeadSizes(M, E), HeadSizes(L, E), b, own)
         /\ Changed(E, FootSizes(M, E), FootSizes(L, E), nx, own)
    BY <1>2, <1>4, <1>11, <1>17, <1>20, RewroteSizes
  <1>22. g[nx] = own /\ g \in [E -> Nat]
    BY <1>1, <1>2, <1>11, <1>12 DEF FootSizes, Core, Marks
  <1>23. HeadSizes(L, E) = h /\ FootSizes(L, E) = g
    <2>1. PICK k, l : k = HeadSizes(L, E) /\ l = FootSizes(L, E)
      OBVIOUS
    <2>2. Changed(E, h, k, b, own) /\ Changed(E, g, l, nx, own)
      BY <1>1, <1>21, <2>1
    <2>3. k = h
      BY <1>3, <1>5, <2>2 DEF Changed
    <2>4. l = g
      BY <1>22, <2>2 DEF Changed
    <2>5. QED
      BY <2>1, <2>3, <2>4
  <1>24. Core(E, Inner(E), Body(p), HeadSizes(L, E), FootSizes(L, E), W, A)
    BY <1>1, <1>2, <1>23
  <1>25. Astray(p, L, E, W, A)
    BY <1>20, <1>24 DEF Astray
  <1>26. HeadSizes(L, E)[b] = nx - b /\ FootSizes(L, E)[nx] = nx - b
    BY <1>5, <1>16, <1>22, <1>23
  <1>27. Ready(p, L, E, W, A, b, nx)
    BY <1>11, <1>25, <1>26 DEF Ready
  <1>28. QED
    BY <1>27

(* A block that has no free neighbour. *)
LEMMA AstraySame ==
    ASSUME NEW p, NEW L, NEW E, NEW W, NEW A, NEW b, NEW nx, Ready(p, L, E, W, A, b, nx),
           NEW N, NEW t, Rewrote(N, L, E, b, nx, t), t.size = nx - b,
           NEW V, V \subseteq W \cup {b}, NEW C, C \subseteq A, b \notin C
    PROVE  Astray(p, N, E, V, C)
  <1>0. Astray(p, L, E, W, A) /\ b \in A /\ nx \in E
    BY DEF Ready
  <1>1. PICK f, D, h, g : /\ f = Body(p) /\ D = Inner(E) /\ h = HeadSizes(L, E) /\ g = FootSizes(L, E)
    OBVIOUS
  <1>2. /\ Ground(E, D, f) /\ Middle(E, D) /\ CutBy(L, E) /\ Sealed(p, L, E)
        /\ Core(E, D, f, h, g, W, A)
    BY <1>0, <1>1, AstrayFacts
  <1>3. PICK s : s = nx - b
    OBVIOUS
  <1>4. h[b] = s /\ g[nx] = s /\ t.size = s
    BY <1>1, <1>3 DEF Ready
  <1>5. b \in D /\ h \in [E -> Nat] /\ g \in [E -> Nat] /\ 48 <= h[b]
    BY <1>0, <1>2 DEF Core, Sound48
  <1>6. b \in E /\ b # 16 /\ b # 4096 /\ b \in Nat /\ f <= b /\ f \in Nat /\ nx \in Nat
    BY <1>0, <1>2, <1>5 DEF Ground, Middle
  <1>7. 16 <= f
    BY <1>1, ThreeSpaced
  <1>8. nx # 16 /\ nx # f
    BY <1>3, <1>4, <1>5, <1>6, <1>7
  <1>9. CutBy(N, E) /\ Sealed(p, N, E)
    BY <1>1, <1>2, <1>6, <1>8, RewroteSealed
  <1>10. PICK k, l : k = HeadSizes(N, E) /\ l = FootSizes(N, E)
    OBVIOUS
  <1>11. Changed(E, h, k, b, s) /\ Changed(E, g, l, nx, s)
    BY <1>0, <1>1, <1>2, <1>4, <1>6, <1>9, <1>10, RewroteSizes
  <1>12. k = h
    BY <1>4, <1>5, <1>11 DEF Changed
  <1>13. l = g
    BY <1>4, <1>5, <1>11 DEF Changed
  <1>14. V \subseteq W \cup A /\ V \cap C \subseteq {f}
    BY <1>0, <1>2 DEF Core
  <1>15. ASSUME NEW c \in V, NEW e \in E, c \notin W, e = c + h[c] PROVE g[e] = h[c]
    <2>1. c = b
      BY <1>15
    <2>2. e = nx
      BY <1>3, <1>4, <1>6, <1>15, <2>1
    <2>3. QED
      BY <1>4, <2>1, <2>2
  <1>16. Core(E, D, f, h, g, V, C)
    BY <1>2, <1>14, <1>15, CoreSame
  <1>17. QED
    BY <1>1, <1>9, <1>10, <1>12, <1>13, <1>16 DEF Astray

(* What gfs_mem_coalesce writes: a header at one edge, a footer at another. *)
Shape(L, r, at, x, s) ==
    /\ r.at = at /\ r.size = s
    /\ \E t \in Tag : t.size = s /\ r.M = Write(Write(L, x - 16, t), at - 8, t)

(* That is what Merged gives. *)
LEMMA MergedForm ==
    ASSUME NEW L, NEW b, NEW r, r = Merged(L, b), NEW pv, pv = PrevBlk(L, b),
           NEW nx, nx = NextBlk(L, b), NEW at, at = IF PrevFree(L, b) THEN pv ELSE b,
           NEW last \in Nat, last = IF NextFree(L, b) THEN nx ELSE b,
           NEW s \in Nat, s = Total(L, b), NEW c \in Nat, c = Hd(L, last).size,
           NEW x, x = last + c
    PROVE  Shape(L, r, at, x, s)
  <1>1. PICK t : t = T(s, FALSE)
    OBVIOUS
  <1>2. t \in Tag /\ t.size = s
    BY <1>1, TagOf
  <1>3. Ftr(L, last) = x - 16
    BY DEF Ftr, Hd
  <1>4. r.at = at /\ r.size = t.size /\ r.M = Write(Write(L, Ftr(L, last), t), at - 8, t)
    BY <1>1 DEF Merged
  <1>5. QED
    BY <1>2, <1>3, <1>4 DEF Shape

(* How many bytes that makes. *)
LEMMA TotalIs ==
    ASSUME NEW L, NEW b, NEW own \in Nat, own = Hd(L, b).size, NEW pv, pv = PrevBlk(L, b),
           NEW nx \in Nat, nx = NextBlk(L, b), NEW s, s = Total(L, b), NEW c, c = Hd(L, pv).size
    PROVE  /\ ~PrevFree(L, b) /\ ~NextFree(L, b) => s = own
           /\ ~PrevFree(L, b) /\ NextFree(L, b) => s = own + Hd(L, nx).size
           /\ PrevFree(L, b) /\ ~NextFree(L, b) /\ c \in Nat => s = own + c
           /\ PrevFree(L, b) /\ NextFree(L, b) /\ c \in Nat => s = own + c + L[Ftr(L, nx)].size
  <1>1. s = own + (IF PrevFree(L, b) THEN c ELSE 0) + (IF NextFree(L, b) THEN NextSize(L, b) ELSE 0)
    BY DEF Total, Hd
  <1>2. NextSize(L, b) = IF PrevFree(L, b) THEN L[Ftr(L, nx)].size ELSE Hd(L, nx).size
    BY DEF NextSize, Hd
  <1>3. QED
    BY <1>1, <1>2

(* What a free neighbour is: a block of a list of the page. *)
Listed(L, E, W, b) ==
    /\ Reads(L, b)
    /\ PrevFree(L, b) => PrevBlk(L, b) \in W
    /\ NextFree(L, b) => NextBlk(L, b) \in W

(* Where the words around a block of the request lead. *)
LEMMA StaleAround ==
    ASSUME NEW p, NEW L, NEW E, NEW W, NEW A, NEW b, NEW nx, Ready(p, L, E, W, A, b, nx),
           Listed(L, E, W, b), NEW f, f = Body(p), NEW D, D = Inner(E),
           NEW h, h = HeadSizes(L, E), NEW g, g = FootSizes(L, E)
    PROVE  /\ NextBlk(L, b) = nx /\ PrevBlk(L, b) = b - g[b] /\ nx = b + h[b]
           /\ Hd(L, b).size = h[b] /\ b \in Nat /\ nx \in Nat /\ h[b] \in Nat
           /\ (PrevFree(L, b) => b # f)
           /\ NextFree(L, b) => /\ nx \in W /\ nx + h[nx] \in E /\ Hd(L, nx).size = h[nx] /\ h[nx] \in Nat
                                /\ Ftr(L, nx) = (nx + h[nx]) - 16
  <1>1. /\ Ground(E, D, f) /\ Middle(E, D) /\ CutBy(L, E) /\ Sealed(p, L, E)
        /\ Core(E, D, f, h, g, W, A) /\ b \in A /\ nx \in E
    BY AstrayFacts DEF Ready
  <1>2. b \in D /\ b \in E /\ b \in Nat /\ nx \in Nat /\ D \subseteq E /\ W \subseteq D
    BY <1>1 DEF Ground, Core
  <1>3. h \in [E -> Nat] /\ g \in [E -> Nat]
    BY <1>1 DEF Core
  <1>4. h[b] \in Nat /\ g[b] \in Nat /\ h[b] = nx - b
    BY <1>2, <1>3 DEF Ready
  <1>5. (\A e \in E : h[e] = Hd(L, e).size /\ g[e] = Ft(L, e).size)
    BY DEF HeadSizes, FootSizes
  <1>6. nx = b + h[b]
    BY <1>2, <1>4
  <1>7. NextBlk(L, b) = nx /\ PrevBlk(L, b) = b - g[b]
    BY <1>2, <1>5, <1>6 DEF NextBlk, PrevBlk, Hd, Ft
  <1>8. ASSUME PrevFree(L, b), b = f PROVE FALSE
    <2>1. Ft(L, f) = HeadTag(p)
      BY <1>1, SealedBy
    <2>2. HeadTag(p).size = HeadOf(p)
      BY HeadBytes, TagOf DEF HeadTag
    <2>3. g[f] = f - 16 /\ f \in Nat
      BY <1>2, <1>5, <1>8, <2>1, <2>2, ThreeSpaced
    <2>4. b - g[b] = 16
      BY <1>8, <2>3
    <2>5. b - g[b] \in D
      BY <1>2, <1>7, <1>8 DEF Listed
    <2>6. QED
      BY <1>1, <2>4, <2>5 DEF Middle
  <1>9. ASSUME NextFree(L, b)
        PROVE  /\ nx \in W /\ nx + h[nx] \in E /\ Hd(L, nx).size = h[nx] /\ h[nx] \in Nat
               /\ Ftr(L, nx) = (nx + h[nx]) - 16
    <2>1. nx \in W /\ nx \in D
      BY <1>2, <1>7, <1>9 DEF Listed
    <2>2. Hd(L, nx).size = h[nx] /\ h[nx] \in Nat
      BY <1>1, <1>3, <1>5
    <2>3. PICK x \in Nat : x = nx + h[nx]
      BY <1>2, <2>2
    <2>4. Ftr(L, nx) = x - 16
      BY <1>2, <2>2, <2>3 DEF Ftr, Hd
    <2>5. Ftr(L, nx) \in DOMAIN L
      BY <1>7, <1>9 DEF Listed, Reads, NextFree
    <2>6. L \in [Words(E) -> Tag]
      BY <1>1, CutWords
    <2>7. x - 16 \in Words(E)
      BY <2>4, <2>5, <2>6
    <2>8. x \in E \/ 4144 <= x
      BY <1>1, <2>1, <2>3 DEF Core, Lands
    <2>9. x \in E
      BY <1>1, <2>7, <2>8, FootEdge
    <2>10. QED
      BY <2>1, <2>2, <2>3, <2>4, <2>9
  <1>10. QED
    BY <1>2, <1>4, <1>5, <1>6, <1>7, <1>8, <1>9

(* It grows, and its words are written. *)
LEMMA ShapeAstray ==
    ASSUME NEW p, NEW L, NEW E, NEW W, NEW A, Astray(p, L, E, W, A),
           NEW r, NEW at, NEW x, NEW s, Shape(L, r, at, x, s), NEW last, NEW V, NEW C,
           Grows(E, Inner(E), Body(p), HeadSizes(L, E), W, A, at, x, last, s, V, C)
    PROVE  Astray(p, r.M, E, V, C)
  <1>1. PICK t \in Tag : t.size = s /\ r.M = Write(Write(L, x - 16, t), at - 8, t)
    BY DEF Shape
  <1>2. CutBy(L, E) /\ Ground(E, Inner(E), Body(p))
    BY AstrayFacts
  <1>3. Spaced(E) /\ L \in [Words(E) -> Tag]
    BY <1>2, CutWords
  <1>4. at \in E /\ x \in E
    BY <1>2 DEF Grows, Ground
  <1>5. PICK N : N = r.M
    OBVIOUS
  <1>6. N = Write(Write(L, x - 16, t), at - 8, t)
    BY <1>1, <1>5
  <1>7. Rewrote(N, L, E, at, x, t)
    BY <1>3, <1>4, <1>6, TwoWords
  <1>8. Grows(E, Inner(E), Body(p), HeadSizes(L, E), W, A, at, x, last, t.size, V, C)
    BY <1>1
  <1>9. Astray(p, N, E, V, C)
    BY <1>7, <1>8, AstrayMerge
  <1>10. QED
    BY <1>5, <1>9

(* The page once gfs_mem_coalesce is done. *)
LEMMA StaleMerged ==
    ASSUME NEW p, NEW L, NEW E, NEW W, NEW A, NEW b, NEW nx, Ready(p, L, E, W, A, b, nx),
           Listed(L, E, W, b), NEW r, r = Merged(L, b),
           NEW at, at = IF PrevFree(L, b) THEN PrevBlk(L, b) ELSE b,
           NEW V, V \subseteq W \cup {at}, NextFree(L, b) => nx \notin V,
           NEW C, C \subseteq A, b \notin C
    PROVE  /\ Astray(p, r.M, E, V, C) /\ r.at = at /\ at \in Inner(E) /\ NextBlk(L, b) = nx
           /\ (NextFree(L, b) => nx \in W /\ nx # Body(p))
           /\ (b # Body(p) => b \notin W) /\ at # nx
  <1>1. PICK f, D, h, g : /\ f = Body(p) /\ D = Inner(E) /\ h = HeadSizes(L, E) /\ g = FootSizes(L, E)
    OBVIOUS
  <1>2. /\ Ground(E, D, f) /\ Middle(E, D) /\ CutBy(L, E)
        /\ Core(E, D, f, h, g, W, A) /\ b \in A /\ nx \in E /\ Astray(p, L, E, W, A)
    BY <1>1, AstrayFacts DEF Ready
  <1>3. /\ NextBlk(L, b) = nx /\ PrevBlk(L, b) = b - g[b] /\ nx = b + h[b]
        /\ Hd(L, b).size = h[b] /\ b \in Nat /\ nx \in Nat /\ h[b] \in Nat
        /\ (PrevFree(L, b) => b # f)
        /\ NextFree(L, b) => /\ nx \in W /\ nx + h[nx] \in E /\ Hd(L, nx).size = h[nx] /\ h[nx] \in Nat
                             /\ Ftr(L, nx) = (nx + h[nx]) - 16
    BY <1>1, StaleAround
  <1>4. PICK pv, own, s : pv = PrevBlk(L, b) /\ own = h[b] /\ s = Total(L, b)
    OBVIOUS
  <1>5. PICK c : c = Hd(L, pv).size
    OBVIOUS
  <1>6. /\ ~PrevFree(L, b) /\ ~NextFree(L, b) => s = own
        /\ ~PrevFree(L, b) /\ NextFree(L, b) => s = own + Hd(L, nx).size
        /\ PrevFree(L, b) /\ ~NextFree(L, b) /\ c \in Nat => s = own + c
        /\ PrevFree(L, b) /\ NextFree(L, b) /\ c \in Nat => s = own + c + L[Ftr(L, nx)].size
    BY <1>3, <1>4, <1>5, TotalIs
  <1>7. W \subseteq D /\ A \subseteq D /\ D \subseteq E /\ h \in [E -> Nat] /\ g \in [E -> Nat]
    BY <1>2 DEF Core, Ground
  <1>8. PrevFree(L, b) => pv \in W /\ pv \in E /\ c = h[pv] /\ h[pv] \in Nat /\ pv = b - g[b]
    <2>1. ASSUME PrevFree(L, b) PROVE pv \in W
      BY <1>4, <2>1 DEF Listed
    <2>2. \A e \in E : h[e] = Hd(L, e).size
      BY <1>1 DEF HeadSizes
    <2>3. QED
      BY <1>3, <1>4, <1>5, <1>7, <2>1, <2>2
  <1>9. at = (IF PrevFree(L, b) THEN pv ELSE b) /\ at \in D
    BY <1>2, <1>4, <1>7, <1>8
  <1>10. NextFree(L, b) => nx # f
    BY <1>2, <1>3, <1>7 DEF Ground, Core, Sound48
  <1>11. b # f => b \notin W
    BY <1>2 DEF Core
  <1>12. at # nx
    <2>1. 48 <= h[b] /\ b \in E
      BY <1>2, <1>7 DEF Core, Sound48
    <2>2. g[b] \in Nat
      BY <1>7, <2>1
    <2>3. at = b \/ at = b - g[b]
      BY <1>8, <1>9
    <2>4. QED
      BY <1>3, <2>1, <2>2, <2>3
  <1>13. Astray(p, r.M, E, V, C) /\ r.at = at
    <2>1. CASE ~PrevFree(L, b) /\ ~NextFree(L, b)
      <3>1. s = own /\ s \in Nat /\ at = b
        BY <1>3, <1>4, <1>6, <1>9, <2>1
      <3>2. PICK last : last = b
        OBVIOUS
      <3>3. last = (IF NextFree(L, b) THEN nx ELSE b) /\ last \in Nat /\ own = Hd(L, last).size
        BY <1>3, <1>4, <2>1, <3>2
      <3>4. own \in Nat /\ nx = last + own
        BY <1>3, <1>4, <3>2
      <3>5. Shape(L, r, at, nx, s)
        BY <1>3, <1>4, <1>9, <3>1, <3>3, <3>4, MergedForm
      <3>6. PICK t \in Tag : t.size = s /\ r.M = Write(Write(L, nx - 16, t), b - 8, t)
        BY <3>1, <3>5 DEF Shape
      <3>7. PICK N : N = r.M
        OBVIOUS
      <3>8. Spaced(E) /\ L \in [Words(E) -> Tag] /\ b \in E
        BY <1>2, <1>7, CutWords
      <3>9. N = Write(Write(L, nx - 16, t), b - 8, t)
        BY <3>6, <3>7
      <3>10. Rewrote(N, L, E, b, nx, t)
        BY <1>2, <3>8, <3>9, TwoWords
      <3>11. t.size = nx - b
        BY <1>3, <1>4, <3>1, <3>6
      <3>12. V \subseteq W \cup {b}
        BY <3>1
      <3>13. Astray(p, N, E, V, C)
        BY <3>10, <3>11, <3>12, AstraySame
      <3>14. QED
        BY <3>5, <3>7, <3>13 DEF Shape
    <2>2. CASE ~PrevFree(L, b) /\ NextFree(L, b)
      <3>1. s = h[b] + h[nx] /\ s \in Nat /\ at = b
        BY <1>3, <1>4, <1>6, <1>9, <2>2
      <3>2. PICK z : z = h[nx]
        OBVIOUS
      <3>3. nx = (IF NextFree(L, b) THEN nx ELSE b) /\ z = Hd(L, nx).size /\ z \in Nat
        BY <1>3, <2>2, <3>2
      <3>4. PICK x : x = nx + z
        OBVIOUS
      <3>5. Shape(L, r, at, x, s)
        BY <1>3, <1>4, <1>9, <3>1, <3>3, <3>4, MergedForm
      <3>6. x \in E /\ nx \in W /\ x = nx + h[nx]
        BY <1>3, <2>2, <3>2, <3>4
      <3>7. V \subseteq W \cup {b} /\ nx \notin V
        BY <2>2, <3>1
      <3>8. Grows(E, D, f, h, W, A, b, x, nx, s, V, C)
        BY <1>2, <1>3, <3>1, <3>6, <3>7, GrowNext
      <3>9. Grows(E, Inner(E), Body(p), HeadSizes(L, E), W, A, at, x, nx, s, V, C)
        BY <1>1, <3>1, <3>8
      <3>10. Astray(p, r.M, E, V, C)
        BY <1>2, <3>5, <3>9, ShapeAstray
      <3>11. QED
        BY <3>5, <3>10 DEF Shape
    <2>3. CASE PrevFree(L, b) /\ ~NextFree(L, b)
      <3>1. s = h[b] + h[pv] /\ s \in Nat /\ at = pv /\ pv \in W /\ b # f
        BY <1>3, <1>4, <1>6, <1>8, <1>9, <2>3
      <3>2. PICK last : last = b
        OBVIOUS
      <3>3. last = (IF NextFree(L, b) THEN nx ELSE b) /\ last \in Nat /\ own = Hd(L, last).size
        BY <1>3, <1>4, <2>3, <3>2
      <3>4. own \in Nat /\ nx = last + own
        BY <1>3, <1>4, <3>2
      <3>5. Shape(L, r, at, nx, s)
        BY <1>3, <1>4, <1>9, <3>1, <3>3, <3>4, MergedForm
      <3>6. pv = b - g[b] /\ V \subseteq W \cup {pv}
        BY <1>8, <2>3, <3>1
      <3>7. Grows(E, D, f, h, W, A, pv, nx, b, s, V, C)
        BY <1>2, <1>3, <3>1, <3>6, GrowPrev
      <3>8. Grows(E, Inner(E), Body(p), HeadSizes(L, E), W, A, at, nx, b, s, V, C)
        BY <1>1, <3>1, <3>7
      <3>9. Astray(p, r.M, E, V, C)
        BY <1>2, <3>5, <3>8, ShapeAstray
      <3>10. QED
        BY <3>5, <3>9 DEF Shape
    <2>4. CASE PrevFree(L, b) /\ NextFree(L, b)
      <3>1. PICK x : x = nx + h[nx]
        OBVIOUS
      <3>2. x \in E /\ nx \in W /\ Ftr(L, nx) = x - 16
        BY <1>3, <2>4, <3>1
      <3>3. L[Ftr(L, nx)].size = g[x] /\ g[x] \in Nat
        BY <1>1, <1>7, <3>2 DEF FootSizes, Ft
      <3>4. s = h[b] + h[pv] + g[x] /\ s \in Nat /\ at = pv /\ pv \in W /\ b # f
        BY <1>3, <1>4, <1>6, <1>8, <1>9, <2>4, <3>3
      <3>5. PICK z : z = h[nx]
        OBVIOUS
      <3>6. nx = (IF NextFree(L, b) THEN nx ELSE b) /\ z = Hd(L, nx).size /\ z \in Nat /\ x = nx + z
        BY <1>3, <2>4, <3>1, <3>5
      <3>7. Shape(L, r, at, x, s)
        BY <1>3, <1>4, <1>9, <3>4, <3>6, MergedForm
      <3>8. pv = b - g[b] /\ V \subseteq W \cup {pv} /\ nx \notin V
        BY <1>8, <2>4, <3>4
      <3>9. Grows(E, D, f, h, W, A, pv, x, nx, s, V, C)
        BY <1>2, <1>3, <3>1, <3>2, <3>4, <3>8, GrowBoth
      <3>10. Grows(E, Inner(E), Body(p), HeadSizes(L, E), W, A, at, x, nx, s, V, C)
        BY <1>1, <3>4, <3>9
      <3>11. Astray(p, r.M, E, V, C)
        BY <1>2, <3>7, <3>10, ShapeAstray
      <3>12. QED
        BY <3>7, <3>11 DEF Shape
    <2>5. QED
      BY <2>1, <2>2, <2>3, <2>4
  <1>14. QED
    BY <1>1, <1>3, <1>9, <1>10, <1>11, <1>13, <1>12

------------------------------------------------------------------------------
(* Lists of a pool that was reset under a request. *)

Strewn(B) ==
    /\ ListsOK(B)
    /\ \A x \in Addr : \A i \in Class : In(B, i, x) =>
         x[1] \in Firsts /\ (x # FreeOf(x[1]) => Once(B, x))
Fewer(N, B) ==
    /\ ListsOK(N)
    /\ \A i \in Class : \A x : In(N, i, x) => In(B, i, x)
    /\ \A x : Once(B, x) => Once(N, x)

(* Taking out blocks adds none and doubles none. *)
LEMMA UnlinkFewer ==
    ASSUME NEW B, ListsOK(B), NEW y, NEW N, N = Unlink(B, y)
    PROVE  Fewer(N, B) /\ (Once(B, y) => \A i \in Class : ~In(N, i, y))
  <1>1. Without(N, B, y)
    BY UnlinkLists
  <1>2. ASSUME NEW i \in Class, NEW x, In(N, i, x) PROVE In(B, i, x)
    BY <1>1, <1>2 DEF Without
  <1>3. QED
    BY <1>1, <1>2 DEF Without, Fewer

(* ... so twice. *)
LEMMA FewerTwice ==
    ASSUME NEW B, NEW N, NEW U, Fewer(N, B), Fewer(U, N)
    PROVE  Fewer(U, B)
  BY DEF Fewer

(* ... nor does taking out none. *)
LEMMA FewerSame ==
    ASSUME NEW B, ListsOK(B)
    PROVE  Fewer(B, B)
  BY DEF Fewer

(* Only the first block of a page can be in the lists twice. *)
LEMMA StrewnOnce ==
    ASSUME NEW B, Strewn(B), NEW x \in Addr, x # FreeOf(x[1])
    PROVE  Once(B, x)
  <1>1. CASE \E i \in Class : In(B, i, x)
    BY <1>1 DEF Strewn
  <1>2. CASE ~\E i \in Class : In(B, i, x)
    <2>1. ASSUME NEW i \in Class PROVE Single(B[i], x)
      <3>1. ~Contains(B[i], x) /\ B[i] \in Seq(Addr)
        BY <1>2 DEF Strewn, ListsOK, In
      <3>2. \A j \in 1..Len(B[i]) : B[i][j] # x
        BY <3>1 DEF Contains
      <3>3. QED
        BY <3>2 DEF Single
    <2>2. QED
      BY <1>2, <2>1 DEF Once
  <1>3. QED
    BY <1>1, <1>2

(* Where the first block of a page is. *)
LEMMA FirstBlock ==
    ASSUME NEW p \in Page, NEW c \in Offset
    PROVE  /\ <<p, c>> \in Addr /\ <<p, c>>[1] = p
           /\ <<p, c>> = FreeOf(p) <=> c = Body(p)
  BY AddrParts DEF FreeOf, Body

(* Both neighbours out, the block they make in. *)
Relist(B, p, b, pv, nx, at, pf, nf, c, K) ==
    LET N == IF nf THEN Unlink(B, <<p, nx>>) ELSE B
        U == IF pf THEN Unlink(N, <<p, pv>>) ELSE N
    IN  K = Insert(U, c, <<p, at>>)
Fits1(B, p, b, pv, nx, at, pf, nf) ==
    /\ at = (IF pf THEN pv ELSE b) /\ at # nx
    /\ (nf => nx # Body(p)) /\ (b # Body(p) => b \notin On(p, B))

(* Lists that the neighbours have left. *)
LEMMA RelistParts ==
    ASSUME NEW B, Strewn(B), NEW p \in Page, NEW b, NEW pv, NEW nx \in Offset, NEW at \in Offset,
           NEW pf, NEW nf, Fits1(B, p, b, pv, nx, at, pf, nf), NEW c,
           NEW K, Relist(B, p, b, pv, nx, at, pf, nf, c, K)
    PROVE  \E U : /\ Fewer(U, B) /\ K = Insert(U, c, <<p, at>>)
                  /\ (nf => \A i \in Class : ~In(U, i, <<p, nx>>))
                  /\ at # Body(p) => \A i \in Class : ~In(U, i, <<p, at>>)
  <1>1. PICK N, U : /\ N = (IF nf THEN Unlink(B, <<p, nx>>) ELSE B)
                    /\ U = (IF pf THEN Unlink(N, <<p, pv>>) ELSE N)
                    /\ K = Insert(U, c, <<p, at>>)
    BY DEF Relist
  <1>2. PICK x, y : x = <<p, nx>> /\ y = <<p, at>>
    OBVIOUS
  <1>3. x \in Addr /\ y \in Addr /\ (nx # Body(p) => x # FreeOf(x[1])) /\ (at # Body(p) => y # FreeOf(y[1]))
    BY <1>2, FirstBlock
  <1>4. ListsOK(B)
    BY DEF Strewn
  <1>5. Fewer(N, B) /\ (nf => \A i \in Class : ~In(N, i, x))
    <2>1. CASE nf
      <3>1. N = Unlink(B, x)
        BY <1>1, <1>2, <2>1
      <3>2. Once(B, x)
        BY <1>3, <2>1, StrewnOnce DEF Fits1
      <3>3. QED
        BY <1>4, <3>1, <3>2, UnlinkFewer
    <2>2. CASE ~nf
      <3>1. N = B
        BY <1>1, <2>2
      <3>2. QED
        BY <1>4, <2>2, <3>1, FewerSame
    <2>3. QED
      BY <2>1, <2>2
  <1>6. ListsOK(N)
    BY <1>5 DEF Fewer
  <1>7. Fewer(U, N) /\ (at # Body(p) => \A i \in Class : ~In(U, i, y))
    <2>1. CASE pf
      <3>1. U = Unlink(N, y)
        BY <1>1, <1>2, <2>1 DEF Fits1
      <3>2. at # Body(p) => Once(N, y)
        BY <1>3, <1>5, StrewnOnce DEF Fewer
      <3>3. QED
        BY <1>6, <3>1, <3>2, UnlinkFewer
    <2>2. CASE ~pf
      <3>1. U = N /\ at = b
        BY <1>1, <2>2 DEF Fits1
      <3>2. Fewer(N, N)
        BY <1>6, FewerSame
      <3>3. ASSUME at # Body(p), NEW i \in Class, In(N, i, y) PROVE FALSE
        <4>1. In(B, i, y)
          BY <1>5, <3>3 DEF Fewer
        <4>2. at \in On(p, B)
          BY <1>2, <4>1 DEF On
        <4>3. QED
          BY <3>1, <3>3, <4>2 DEF Fits1
      <3>4. QED
        BY <3>1, <3>2, <3>3
    <2>3. QED
      BY <2>1, <2>2
  <1>8. Fewer(U, B)
    BY <1>5, <1>7, FewerTwice
  <1>9. nf => \A i \in Class : ~In(U, i, x)
    BY <1>5, <1>7 DEF Fewer
  <1>10. QED
    BY <1>1, <1>2, <1>7, <1>8, <1>9

(* So the lists stay as they must be. *)
LEMMA RelistStrewn ==
    ASSUME NEW B, Strewn(B), NEW p \in Page, p \in Firsts,
           NEW b, NEW pv, NEW nx \in Offset, NEW at \in Offset,
           NEW pf, NEW nf, Fits1(B, p, b, pv, nx, at, pf, nf), NEW c \in Class,
           NEW K, Relist(B, p, b, pv, nx, at, pf, nf, c, K)
    PROVE  /\ Strewn(K) /\ On(p, K) \subseteq On(p, B) \cup {at}
           /\ (nf => nx \notin On(p, K))
           /\ \A q : q # p => On(q, K) \subseteq On(q, B)
  <1>1. PICK U : /\ Fewer(U, B) /\ K = Insert(U, c, <<p, at>>)
                 /\ (nf => \A i \in Class : ~In(U, i, <<p, nx>>))
                 /\ at # Body(p) => \A i \in Class : ~In(U, i, <<p, at>>)
    BY RelistParts
  <1>2. PICK y : y = <<p, at>>
    OBVIOUS
  <1>3. /\ y \in Addr /\ y[1] = p /\ (y # FreeOf(y[1]) => at # Body(p)) /\ y[2] = at
    BY <1>2, FirstBlock, AddrParts
  <1>4. ListsOK(U) /\ K = Insert(U, c, y)
    BY <1>1, <1>2 DEF Fewer
  <1>5. With(K, U, c, y)
    BY <1>3, <1>4, InsertLists
  <1>6. ASSUME NEW x, NEW i \in Class, In(K, i, x) PROVE x = y \/ In(B, i, x)
    BY <1>1, <1>5, <1>6 DEF With, Fewer
  <1>7. ASSUME NEW x \in Addr, NEW i \in Class, In(K, i, x)
        PROVE  x[1] \in Firsts /\ (x # FreeOf(x[1]) => Once(K, x))
    <2>1. CASE x = y
      <3>1. x # FreeOf(x[1]) => \A j \in Class : ~In(U, j, y)
        BY <1>1, <1>2, <1>3, <2>1
      <3>2. QED
        BY <1>3, <1>5, <2>1, <3>1 DEF With
    <2>2. CASE x # y
      <3>1. In(B, i, x)
        BY <1>6, <1>7, <2>2
      <3>2. x[1] \in Firsts /\ (x # FreeOf(x[1]) => Once(B, x))
        BY <3>1 DEF Strewn
      <3>3. Once(B, x) => Once(K, x)
        BY <1>1, <1>5, <2>2 DEF With, Fewer
      <3>4. QED
        BY <3>2, <3>3
    <2>3. QED
      BY <2>1, <2>2
  <1>8. Strewn(K)
    BY <1>5, <1>7 DEF Strewn, With
  <1>9. ASSUME NEW z \in On(p, K) PROVE z \in On(p, B) \cup {at}
    <2>1. PICK i \in Class : In(K, i, <<p, z>>)
      BY DEF On
    <2>2. z \in Offset
      BY DEF On
    <2>3. <<p, z>> = y \/ In(B, i, <<p, z>>)
      BY <1>6, <2>1
    <2>4. QED
      BY <1>2, <2>2, <2>3 DEF On
  <1>10. ASSUME nf, nx \in On(p, K) PROVE FALSE
    <2>1. PICK i \in Class : In(K, i, <<p, nx>>)
      BY <1>10 DEF On
    <2>2. <<p, nx>> # y
      BY <1>2 DEF Fits1
    <2>3. In(U, i, <<p, nx>>)
      BY <1>5, <2>1, <2>2 DEF With
    <2>4. QED
      BY <1>1, <1>10, <2>3
  <1>11. ASSUME NEW q, q # p, NEW z \in On(q, K) PROVE z \in On(q, B)
    <2>1. PICK i \in Class : In(K, i, <<q, z>>)
      BY DEF On
    <2>2. z \in Offset
      BY DEF On
    <2>3. <<q, z>> # y
      BY <1>2, <1>11
    <2>4. In(B, i, <<q, z>>)
      BY <1>6, <2>1, <2>3
    <2>5. QED
      BY <2>2, <2>4 DEF On
  <1>12. QED
    BY <1>8, <1>9, <1>10, <1>11

------------------------------------------------------------------------------
(* gfs_mem_free in such a pool. *)

Scattered(m, B, lv) ==
    /\ LiveOK(lv) /\ Strewn(B)
    /\ \A p \in Firsts : Astray(p, m[p], Edges(m[p]), On(p, B), Of(p, lv))

(* Blocks that leave the lists or the request do no harm. *)
LEMMA AstrayLess ==
    ASSUME NEW p, NEW M, NEW E, NEW W, NEW A, Astray(p, M, E, W, A),
           NEW V, V \subseteq W, NEW C, C \subseteq A
    PROVE  Astray(p, M, E, V, C)
  <1>1. PICK f, D, h, g : /\ f = Body(p) /\ D = Inner(E) /\ h = HeadSizes(M, E) /\ g = FootSizes(M, E)
    OBVIOUS
  <1>2. CutBy(M, E) /\ Sealed(p, M, E) /\ Core(E, D, f, h, g, W, A)
    BY <1>1, AstrayFacts
  <1>3. V \subseteq W \cup A /\ V \cap C \subseteq {f}
    BY <1>2 DEF Core
  <1>4. Core(E, D, f, h, g, V, C)
    BY <1>2, <1>3, CoreSame
  <1>5. QED
    BY <1>1, <1>2, <1>4 DEF Astray

(* A block in a list of the pool is in one of its page. *)
LEMMA InListsOn ==
    ASSUME NEW B, ListsOK(B), NEW p, NEW z, InLists(B, <<p, z>>)
    PROVE  z \in On(p, B)
  <1>1. PICK y : y = <<p, z>>
    OBVIOUS
  <1>2. PICK i \in Class : In(B, i, y)
    BY <1>1 DEF InLists, In, Class
  <1>3. B[i] \in Seq(Addr) /\ Contains(B[i], y)
    BY <1>2 DEF ListsOK, In
  <1>4. PICK j \in 1..Len(B[i]) : B[i][j] = y
    BY <1>3 DEF Contains
  <1>5. y \in Addr
    BY <1>3, <1>4
  <1>6. y[2] \in Offset /\ y[2] = z
    BY <1>1, <1>5, AddrParts
  <1>7. QED
    BY <1>1, <1>2, <1>6 DEF On

(* What the request still has. *)
LEMMA OfLess ==
    ASSUME NEW lv, LiveOK(lv), NEW x \in lv, NEW p, NEW b, x.at = <<p, b>>
    PROVE  /\ LiveOK(lv \ {x}) /\ b \notin Of(p, lv \ {x})
           /\ \A q : Of(q, lv \ {x}) \subseteq Of(q, lv)
  <1>1. IsFiniteSet(lv \ {x})
    BY FS_Subset DEF LiveOK
  <1>2. LiveOK(lv \ {x})
    BY <1>1 DEF LiveOK
  <1>3. ASSUME b \in Of(p, lv \ {x}) PROVE FALSE
    <2>1. PICK y \in lv \ {x} : y.at = <<p, b>>
      BY <1>3 DEF Of
    <2>2. QED
      BY <2>1 DEF LiveOK
  <1>4. \A q : Of(q, lv \ {x}) \subseteq Of(q, lv)
    BY DEF Of
  <1>5. QED
    BY <1>2, <1>3, <1>4

(* What gfs_mem_free does with a block it accepts. *)
Accepts(M, B, p, b, L) ==
    /\ Tagged(M, b) /\ Intact(M, b) /\ Reads(L, b)
    /\ PrevFree(L, b) => InLists(B, <<p, PrevBlk(L, b)>>)
    /\ NextFree(L, b) => InLists(B, <<p, NextBlk(L, b)>>)
Puts(B, p, b, L, r, K) ==
    /\ r = Merged(L, b)
    /\ K = Insert(Unlinked(B, p, L, b), getindex(r.size), <<p, r.at>>)

(* gfs_mem_coalesce changes the lists in that way. *)
LEMMA PutsRelist ==
    ASSUME NEW B, NEW p, NEW b, NEW L, NEW r, NEW K, Puts(B, p, b, L, r, K),
           NEW at, r.at = at, NEW nx, NextBlk(L, b) = nx, NEW pv, PrevBlk(L, b) = pv,
           NEW pf, pf = PrevFree(L, b), NEW nf, nf = NextFree(L, b),
           NEW c, c = getindex(r.size)
    PROVE  Relist(B, p, b, pv, nx, at, pf, nf, c, K)
  BY DEF Puts, Relist, Unlinked

At(x, p, b) == x.at = <<p, b>>
Turns(m, k, p, r) == k[p] = r.M /\ \A q \in Firsts : q # p => k[q] = m[q]

(* The pool afterwards. *)
LEMMA StaleOne ==
    ASSUME NEW m, NEW B, NEW lv, Scattered(m, B, lv), NEW p \in Page, p \in Firsts,
           NEW x \in lv, NEW b \in Offset, At(x, p, b),
           NEW own, NEW L, Marks(m[p], b, own, L), Accepts(m[p], B, p, b, L),
           NEW r, NEW K, Puts(B, p, b, L, r, K),
           NEW k, Turns(m, k, p, r)
    PROVE  Scattered(k, K, lv \ {x})
  <1>1. PICK M, E, W, A : M = m[p] /\ E = Edges(m[p]) /\ W = On(p, B) /\ A = Of(p, lv)
    OBVIOUS
  <1>2. Astray(p, M, E, W, A) /\ Strewn(B) /\ LiveOK(lv) /\ ListsOK(B)
    BY <1>1 DEF Scattered, Strewn
  <1>3. b \in A
    BY <1>1 DEF Of, At
  <1>4. Marks(M, b, own, L) /\ Tagged(M, b) /\ Intact(M, b)
    BY <1>1 DEF Accepts
  <1>5. PICK nx : Ready(p, L, E, W, A, b, nx)
    BY <1>2, <1>3, <1>4, StaleMark
  <1>6. Listed(L, E, W, b)
    <2>1. PrevFree(L, b) => PrevBlk(L, b) \in W
      BY <1>1, <1>2, InListsOn DEF Accepts
    <2>2. NextFree(L, b) => NextBlk(L, b) \in W
      BY <1>1, <1>2, InListsOn DEF Accepts
    <2>3. QED
      BY <2>1, <2>2 DEF Listed, Accepts
  <1>7. PICK at : at = IF PrevFree(L, b) THEN PrevBlk(L, b) ELSE b
    OBVIOUS
  <1>8. r = Merged(L, b)
    BY DEF Puts
  <1>9. PICK C : C = Of(p, lv \ {x})
    OBVIOUS
  <1>10. C \subseteq A /\ b \notin C /\ LiveOK(lv \ {x}) /\ \A q : Of(q, lv \ {x}) \subseteq Of(q, lv)
    BY <1>1, <1>2, <1>9, OfLess DEF At
  <1>11. /\ r.at = at /\ at \in Inner(E) /\ NextBlk(L, b) = nx
         /\ (NextFree(L, b) => nx \in W /\ nx # Body(p))
         /\ (b # Body(p) => b \notin W) /\ at # nx
    <2>1. PICK Z : Z = {}
      OBVIOUS
    <2>2. Z \subseteq W \cup {at} /\ (NextFree(L, b) => nx \notin Z)
      BY <2>1
    <2>3. QED
      BY <1>5, <1>6, <1>7, <1>8, <1>10, <2>2, StaleMerged
  <1>12. at \in Offset /\ nx \in Offset
    <2>1. nx \in E /\ at \in E /\ CutBy(M, E)
      <3>1. nx \in E
        BY <1>5 DEF Ready
      <3>2. at \in E
        BY <1>11 DEF Inner
      <3>3. CutBy(M, E)
        BY <1>2 DEF Astray
      <3>4. QED
        BY <3>1, <3>2, <3>3
    <2>2. nx \in Nat /\ nx <= 4096 /\ at \in Nat /\ at <= 4096
      BY <2>1, CutWords
    <2>3. QED
      BY <2>2, Offsets
  <1>13. PICK pv, pf, nf, c : pv = PrevBlk(L, b) /\ pf = PrevFree(L, b) /\ nf = NextFree(L, b) /\ c = getindex(r.size)
    OBVIOUS
  <1>14. c \in Class
    BY <1>13, IndexClass
  <1>15. Relist(B, p, b, pv, nx, at, pf, nf, c, K)
    BY <1>11, <1>13, PutsRelist
  <1>16. Fits1(B, p, b, pv, nx, at, pf, nf)
    BY <1>1, <1>7, <1>11, <1>13 DEF Fits1
  <1>17. /\ Strewn(K) /\ On(p, K) \subseteq On(p, B) \cup {at}
         /\ (nf => nx \notin On(p, K))
         /\ \A q : q # p => On(q, K) \subseteq On(q, B)
    BY <1>2, <1>12, <1>14, <1>15, <1>16, RelistStrewn, SMTT(40)
  <1>18. PICK V : V = On(p, K)
    OBVIOUS
  <1>19. V \subseteq W \cup {at} /\ (NextFree(L, b) => nx \notin V)
    BY <1>1, <1>13, <1>17, <1>18
  <1>20. Astray(p, r.M, E, V, C)
    <2>1. C \subseteq A /\ b \notin C
      BY <1>10
    <2>2. QED
      BY ONLY <1>5, <1>6, <1>7, <1>8, <1>19, <2>1, StaleMerged
  <1>21. Astray(p, k[p], Edges(k[p]), On(p, K), Of(p, lv \ {x}))
    <2>1. CutBy(r.M, E)
      BY <1>20 DEF Astray
    <2>2. Edges(r.M) = E
      BY <2>1, EdgesOf
    <2>3. QED
      BY <1>9, <1>18, <1>20, <2>2 DEF Turns
  <1>22. ASSUME NEW q \in Firsts, q # p
         PROVE  Astray(q, k[q], Edges(k[q]), On(q, K), Of(q, lv \ {x}))
    <2>1. Astray(q, m[q], Edges(m[q]), On(q, B), Of(q, lv))
      BY DEF Scattered
    <2>2. k[q] = m[q] /\ On(q, K) \subseteq On(q, B) /\ Of(q, lv \ {x}) \subseteq Of(q, lv)
      BY <1>10, <1>17, <1>22 DEF Turns
    <2>3. QED
      BY <2>1, <2>2, AstrayLess
  <1>23. QED
    BY <1>10, <1>17, <1>21, <1>22 DEF Scattered

(* The invariant of such a pool, of its variables. *)
Still ==
    /\ pages = PageList /\ large = <<>>
    /\ psize = 4096 * InitPages /\ allsize = psize /\ pused \in Int /\ msize \in Int

(* It is what was stated first. *)
LEMMA StaleIs == StaleInv <=> Still /\ Scattered(mem, block, live)
  BY DEF StaleInv, Still, Scattered, Strewn, Firsts

(* So are the pages. *)
LEMMA PagesIs == PagesOK <=> PagesAt(pages, init, mem)
  BY DEF PagesOK, PagesAt

(* Where a pointer that passes the test of gfs_mem_free points. *)
LEMMA StalePlace ==
    ASSUME PagesAt(pages, init, mem), pages = PageList, Scattered(mem, block, live),
           NEW x \in live, NEW p, p = x.at[1], NEW b, b = x.at[2], p # 0, Tagged(mem[p], b)
    PROVE  /\ p \in Page /\ p \in Firsts /\ b \in Offset /\ x.at = <<p, b>>
           /\ mem[p][b - 8].size \in Nat
  <1>1. p \in Page /\ b \in Nat /\ x.at = <<p, b>>
    BY HandedParts DEF Scattered, LiveOK
  <1>2. b - 8 \in DOMAIN mem[p]
    BY DEF Tagged
  <1>3. p \in Firsts
    <2>1. ASSUME p \notin Firsts PROVE FALSE
      <3>1. p \notin ToSet(pages)
        BY <2>1, PageListOK
      <3>2. mem[p] = <<>>
        BY <1>1, <3>1 DEF PagesAt
      <3>3. QED
        BY <1>2, <3>2
    <2>2. QED
      BY <2>1
  <1>4. PICK M, E : M = mem[p] /\ CutBy(M, E)
    BY <1>3 DEF Scattered, Astray
  <1>5. /\ (\A z \in E : z \in Nat /\ z <= 4096) /\ Spaced(E) /\ M \in [Words(E) -> Tag]
    BY <1>4, CutWords
  <1>6. PICK y : y = b - 8
    OBVIOUS
  <1>7. y \in Words(E)
    BY <1>2, <1>4, <1>5, <1>6
  <1>8. y \in Nat /\ (y + 8 \in E \/ y + 16 \in E)
    BY <1>5, <1>7, SpacedEdges
  <1>9. b <= 4096
    BY <1>1, <1>5, <1>6, <1>8
  <1>10. b \in Offset
    BY <1>1, <1>9, Offsets
  <1>11. M[y] \in Tag
    BY <1>5, <1>7
  <1>12. M[y].size \in Nat
    BY <1>11, TagParts
  <1>13. QED
    BY <1>1, <1>3, <1>4, <1>6, <1>10, <1>12

(* gfs_mem_free of a stale block that still looks like one. *)
LEMMA StaleFree ==
    ASSUME PagesAt(pages, init, mem), Still, Scattered(mem, block, live), stale # {},
           NEW x, mem_free(x)
    PROVE  PagesAt(pages, init, mem)' /\ Still' /\ Scattered(mem, block, live)'
  <1>1. PICK p, b : p = x.at[1] /\ b = x.at[2]
    OBVIOUS
  <1>2. /\ x \in live /\ p # 0 /\ Tagged(mem[p], b) /\ Intact(mem[p], b) /\ Known(p, b) /\ Freed(p, b)
        /\ live' = live \ {x}
        /\ pages' = pages /\ init' = init /\ large' = large /\ psize' = psize /\ allsize' = allsize
    BY <1>1 DEF mem_free
  <1>3. /\ p \in Page /\ p \in Firsts /\ b \in Offset /\ x.at = <<p, b>>
        /\ mem[p][b - 8].size \in Nat
    BY <1>1, <1>2, StalePlace DEF Still
  <1>4. PICK own : own = mem[p][b - WSIZE].size
    OBVIOUS
  <1>5. PICK L : L = PutBlk(mem[p], b, own, FALSE)
    OBVIOUS
  <1>6. PICK r : r = Merged(L, b)
    OBVIOUS
  <1>7. PICK k, K : k = mem' /\ K = block'
    OBVIOUS
  <1>8. /\ k = [mem EXCEPT ![p] = r.M] /\ pused' = pused - own /\ msize' = msize - own
        /\ K = Insert(Unlinked(block, p, L, b), getindex(r.size), <<p, r.at>>)
    BY <1>2, <1>4, <1>5, <1>6, <1>7 DEF Freed
  <1>9. Marks(mem[p], b, own, L)
    BY <1>4, <1>5 DEF Marks, Hd
  <1>10. Accepts(mem[p], block, p, b, L)
    BY <1>2, <1>4, <1>5 DEF Accepts, Known
  <1>11. Puts(block, p, b, L, r, K)
    BY <1>6, <1>8 DEF Puts
  <1>12. DOMAIN mem = Page
    BY DEF PagesAt
  <1>13. k[p] = r.M /\ DOMAIN k = Page /\ \A q \in Page : q # p => k[q] = mem[q]
    BY <1>3, <1>8, <1>12
  <1>14. Firsts \subseteq Page
    BY MemAssumption DEF Firsts, Page
  <1>15. \A q \in Firsts : q # p => k[q] = mem[q]
    BY <1>13, <1>14
  <1>16. Scattered(k, K, live \ {x})
    <2>1. PICK m, B, lv : m = mem /\ B = block /\ lv = live
      OBVIOUS
    <2>2. Scattered(m, B, lv) /\ x \in lv
      BY <1>2, <2>1
    <2>3. p \in Page /\ p \in Firsts /\ b \in Offset /\ At(x, p, b)
      BY <1>3 DEF At
    <2>4. Marks(m[p], b, own, L) /\ Accepts(m[p], B, p, b, L) /\ Puts(B, p, b, L, r, K)
      BY <1>9, <1>10, <1>11, <2>1
    <2>5. Turns(m, k, p, r)
      BY <1>13, <1>15, <2>1 DEF Turns
    <2>6. Scattered(k, K, lv \ {x})
      BY ONLY <2>2, <2>3, <2>4, <2>5, StaleOne
    <2>7. QED
      BY <2>1, <2>6
  <1>17. PagesAt(pages, init, k)
    <2>1. p \in ToSet(pages)
      BY <1>3, PageListOK DEF Still
    <2>2. QED
      BY <1>13, <2>1, PagesSame
  <1>18. pused' \in Int /\ msize' \in Int
    BY <1>3, <1>4, <1>8 DEF Still
  <1>19. Still'
    BY <1>2, <1>18 DEF Still
  <1>20. QED
    BY <1>2, <1>7, <1>16, <1>17, <1>19

(* gfs_mem_pool_reset once the request has given all back. *)
LEMMA StaleReset ==
    ASSUME PagesAt(pages, init, mem), Still, Scattered(mem, block, live),
           ResetPages, live' = {}, stale' = {}
    PROVE  Sane(pages, init, mem, block, large, live, psize, allsize, pused, msize)'
  <1>1. Firm(mem)
    BY DEF Scattered, Astray, Firm
  <1>2. pages # <<>> /\ Len(pages) = InitPages
    BY PageListOK DEF Still
  <1>3. Begun(mem', block') /\ pages' = PageList /\ init' = 1..InitPages
    BY <1>1, <1>2, ResetBegun
  <1>4. /\ large' = <<>> /\ psize' = InitPages * PAGESIZE /\ pused' = FreshUsed /\ msize' = 0
        /\ allsize' = allsize - Bytes(large) - PAGESIZE * Added
    BY DEF ResetPages
  <1>5. InitPages \in Nat /\ Added = 0
    BY <1>2, KeptIs, MemAssumption
  <1>6. Bytes(large) = 0
    <2>1. large = <<>>
      BY DEF Still
    <2>2. large \in [{} -> Int]
      BY <2>1
    <2>3. QED
      BY <2>2, BytesEmpty
  <1>7. allsize = 4096 * InitPages
    BY DEF Still
  <1>8. PICK as, ps, ms, k, C : as = allsize' /\ ps = psize' /\ ms = msize' /\ k = mem' /\ C = block'
    OBVIOUS
  <1>9. as = 4096 * InitPages /\ ps = 4096 * InitPages /\ ms = 0
    BY <1>4, <1>5, <1>6, <1>7, <1>8
  <1>10. Begun(k, C)
    BY <1>3, <1>8
  <1>11. Sane(PageList, 1..InitPages, k, C, <<>>, {}, ps, as, FreshUsed, ms)
    BY <1>9, <1>10, BegunSane
  <1>12. QED
    BY <1>3, <1>4, <1>8, <1>11

------------------------------------------------------------------------------
(* gfs_net_close inside a request. *)

Spans(E, h, g) == \A b, e : Adj(E, b, e) => h[b] = e - b /\ g[e] = e - b

(* The sizes of a page whose first block was made to claim all of it. *)
LEMMA ResetCore ==
    ASSUME NEW E, Spaced(E), NEW D, NEW f, Ground(E, D, f), Middle(E, D),
           NEW x, NEW y, x \in [E -> Nat], y \in [E -> Nat], Spans(E, x, y),
           NEW n \in Nat, n = 4096 - f, 48 <= n, NEW top, top = 4096,
           NEW h, NEW g, Changed(E, x, h, f, n), Changed(E, y, g, top, n),
           NEW W, W \subseteq {f}, NEW A, A \subseteq D
    PROVE  Core(E, D, f, h, g, W, A)
  <1>1. /\ (\A e \in E : e \in Nat /\ 16 <= e /\ e <= 4096) /\ (\A a, b \in E : a < b => a + 48 <= b)
    BY SpacedEdges
  <1>2. D \subseteq E /\ f \in D /\ \A d \in D : f <= d
    BY DEF Ground
  <1>3. /\ h \in [E -> Nat] /\ h[f] = n /\ (\A c \in E : c # f => h[c] = x[c])
        /\ g \in [E -> Nat] /\ \A c \in E : c # top => g[c] = y[c]
    BY DEF Changed
  <1>4. ASSUME NEW b \in D, b # f
        PROVE  \E e \in E : Adj(E, b, e) /\ e = b + h[b] /\ b + 48 <= e
    <2>1. b \in E /\ b # 4096
      BY <1>2 DEF Middle
    <2>2. Lower(E, b)
      BY <1>1, <2>1 DEF Lower
    <2>3. PICK e \in E : Adj(E, b, e)
      BY <2>2, Behind
    <2>4. h[b] = e - b
      BY <1>3, <1>4, <2>1, <2>3 DEF Spans
    <2>5. b < e
      BY <2>3 DEF Adj
    <2>6. e = b + h[b] /\ b + 48 <= e
      BY <1>1, <2>1, <2>4, <2>5
    <2>7. QED
      BY <2>3, <2>6
  <1>5. f \in Nat /\ f + h[f] = 4096
    BY <1>1, <1>2, <1>3
  <1>6. Sound48(D, h)
    <2>1. ASSUME NEW b \in D PROVE 48 <= h[b]
      <3>1. CASE b = f
        BY <1>3, <3>1
      <3>2. CASE b # f
        <4>1. PICK e \in E : e = b + h[b] /\ b + 48 <= e
          BY <1>4, <3>2
        <4>2. b \in Nat /\ h[b] \in Nat
          BY <1>1, <1>2, <1>3
        <4>3. QED
          BY <4>1, <4>2
      <3>3. QED
        BY <3>1, <3>2
    <2>2. QED
      BY <2>1 DEF Sound48
  <1>7. Lands(E, D, h)
    <2>1. ASSUME NEW b \in D PROVE b + h[b] \in E
      <3>1. CASE b = f
        BY <1>5, <3>1, SpacedEdges
      <3>2. CASE b # f
        BY <1>4, <3>2
      <3>3. QED
        BY <3>1, <3>2
    <2>2. QED
      BY <2>1 DEF Lands
  <1>8. Backs(D, f, h, g, A)
    <2>1. ASSUME NEW e \in A, NEW c \in D, e # f, c # f, c = e - g[e] PROVE c + h[c] = e
      <3>1. e \in E /\ e # 16 /\ e # 4096
        BY <1>2 DEF Middle
      <3>2. Upper(E, e)
        BY <1>1, <3>1 DEF Upper
      <3>3. PICK d \in E : Adj(E, d, e)
        BY <3>2, Before
      <3>4. g[e] = e - d
        BY <1>3, <3>1, <3>3 DEF Spans
      <3>5. c = d
        BY <1>1, <2>1, <3>1, <3>4
      <3>6. h[c] = e - c
        BY <1>2, <1>3, <2>1, <3>3, <3>5 DEF Spans
      <3>7. QED
        BY <1>1, <1>2, <3>1, <3>6
    <2>2. QED
      BY <2>1 DEF Backs
  <1>9. Foots(E, f, h, g, W)
    BY DEF Foots
  <1>10. Ends(f, h, W, A)
    <2>1. ASSUME NEW b \in W \cup A, NEW c \in W \cup A, b # f, c # f, b # c, b + h[b] = c + h[c] PROVE FALSE
      <3>1. b \in D /\ c \in D
        BY <2>1
      <3>2. PICK e \in E : Adj(E, b, e) /\ e = b + h[b]
        BY <1>4, <2>1, <3>1
      <3>3. PICK d \in E : Adj(E, c, d) /\ d = c + h[c]
        BY <1>4, <2>1, <3>1
      <3>4. e = d
        BY <2>1, <3>2, <3>3
      <3>5. QED
        BY <2>1, <3>2, <3>3, <3>4, AdjOne
    <2>2. QED
      BY <2>1 DEF Ends
  <1>11. W \subseteq D /\ W \cap A \subseteq {f} /\ 4096 <= f + h[f]
    BY <1>2, <1>5
  <1>12. QED
    BY <1>3, <1>6, <1>7, <1>8, <1>9, <1>10, <1>11 DEF Core

Claims(M, p, N) == N = PutBlk(M, Body(p), 4096 - Body(p), FALSE)

(* Such a page. *)
LEMMA ResetAstray ==
    ASSUME NEW p, NEW M, NEW E, Good(p, M, E), NEW N, Claims(M, p, N),
           NEW W, W \subseteq {Body(p)}, NEW A, A \subseteq Inner(E)
    PROVE  Astray(p, N, E, W, A)
  <1>1. PICK f, D, top : f = Body(p) /\ D = Inner(E) /\ top = 4096
    OBVIOUS
  <1>2. CutBy(M, E) /\ Sealed(p, M, E) /\ Spaced(E)
    BY GoodPage
  <1>3. /\ f \in Nat /\ f >= 64 /\ f <= 288 /\ f \in E /\ \A e \in E : e = 16 \/ f <= e
    BY <1>1, <1>2, HeadFirst
  <1>4. /\ (\A e \in E : e \in Nat /\ e <= 4096) /\ top \in E
    BY <1>1, <1>2, CutWords
  <1>5. Middle(E, D)
    BY <1>1 DEF Middle, Inner
  <1>6. Ground(E, D, f)
    <2>1. f # 16 /\ f # 4096
      BY <1>3
    <2>2. f \in D
      BY <1>3, <1>5, <2>1 DEF Middle
    <2>3. D \subseteq E
      BY <1>5 DEF Middle
    <2>4. ASSUME NEW d \in D PROVE f <= d
      <3>1. d \in E /\ d # 16
        BY <1>5 DEF Middle
      <3>2. QED
        BY <1>3, <3>1
    <2>5. QED
      BY <1>4, <2>2, <2>3, <2>4 DEF Ground
  <1>7. PICK n \in Nat : n = 4096 - f
    BY <1>3
  <1>8. 48 <= n /\ Ordered(E, f, top) /\ Span(f, n, top) /\ n = top - f
    BY <1>1, <1>3, <1>4, <1>7 DEF Ordered, Span
  <1>9. N = PutBlk(M, f, n, FALSE)
    BY <1>1, <1>7 DEF Claims
  <1>10. Marked(N, M, E, f, top)
    BY ONLY <1>2, <1>8, <1>9, n \in Nat, MarkPage
  <1>11. PICK t : Rewrote(N, M, E, f, top, t) /\ t.size = n
    BY <1>8, <1>10, MarkedRewrote
  <1>12. f # 16 /\ f # 4096 /\ top # 16 /\ top # f
    BY <1>1, <1>3
  <1>13. CutBy(N, E) /\ Sealed(p, N, E)
    BY <1>1, <1>2, <1>11, <1>12, RewroteSealed
  <1>14. PICK x, y, h, g : /\ x = HeadSizes(M, E) /\ y = FootSizes(M, E)
                           /\ h = HeadSizes(N, E) /\ g = FootSizes(N, E)
    OBVIOUS
  <1>15. Changed(E, x, h, f, n) /\ Changed(E, y, g, top, n)
    BY <1>2, <1>3, <1>4, <1>11, <1>13, <1>14, RewroteSizes
  <1>16. x \in [E -> Nat] /\ y \in [E -> Nat]
    <2>1. \A e \in E : Hd(M, e) \in Tag /\ Ft(M, e) \in Tag
      BY <1>2, CutWords
    <2>2. \A e \in E : Hd(M, e).size \in Nat /\ Ft(M, e).size \in Nat
      BY <2>1, TagParts
    <2>3. QED
      BY <1>14, <2>2 DEF HeadSizes, FootSizes
  <1>17. Spans(E, x, y)
    <2>1. ASSUME NEW b, NEW e, Adj(E, b, e) PROVE x[b] = e - b /\ y[e] = e - b
      <3>1. b \in E /\ e \in E
        BY <2>1 DEF Adj
      <3>2. Block(M, b, e)
        BY <2>1, <3>1, GoodPage
      <3>3. Hd(M, b).size = e - b /\ Ft(M, e) = Hd(M, b)
        BY <3>2 DEF Block
      <3>4. QED
        BY <1>14, <3>1, <3>3 DEF HeadSizes, FootSizes
    <2>2. QED
      BY <2>1 DEF Spans
  <1>18. W \subseteq {f} /\ A \subseteq D
    BY <1>1
  <1>19. Core(E, D, f, h, g, W, A)
    BY <1>1, <1>2, <1>5, <1>6, <1>7, <1>8, <1>15, <1>16, <1>17, <1>18, ResetCore
  <1>20. QED
    BY <1>1, <1>13, <1>14, <1>19 DEF Astray

(* A page of a sound pool, emptied under a request. *)
LEMMA EmptiedClaims ==
    ASSUME NEW p, NEW N, N = EmptyPage(p, FALSE)
    PROVE  Claims(mem[p], p, N)
  BY DEF EmptyPage, Claims, Body

(* The lists then hold the first blocks only. *)
LEMMA FirstsStrewn ==
    ASSUME NEW u, Lines(u, Spots(Firsts)), NEW C, C = [i \in Class |-> IF i = BigClass THEN u ELSE <<>>]
    PROVE  Strewn(C) /\ \A p \in Firsts : On(p, C) \subseteq {Body(p)}
  <1>1. u \in Seq(Addr) /\ (\A x : Contains(u, x) => x \in Spots(Firsts))
    BY DEF Lines
  <1>2. ListsOK(C)
    BY <1>1 DEF ListsOK
  <1>3. ASSUME NEW i \in Class, NEW x, In(C, i, x) PROVE x \in Spots(Firsts)
    <2>1. CASE i = BigClass
      BY <1>1, <1>3, <2>1 DEF In
    <2>2. CASE i # BigClass
      <3>1. Contains(<<>>, x)
        BY <1>3, <2>2 DEF In
      <3>2. QED
        BY <3>1 DEF Contains
    <2>3. QED
      BY <2>1, <2>2
  <1>4. Firsts \subseteq Page
    BY MemAssumption DEF Firsts, Page
  <1>5. ASSUME NEW x \in Spots(Firsts) PROVE x[1] \in Firsts /\ x = FreeOf(x[1])
    <2>1. PICK q \in Firsts : x = FreeOf(q)
      BY DEF Spots
    <2>2. x[1] = q
      BY <1>4, <2>1, FreeAddr
    <2>3. QED
      BY <2>1, <2>2
  <1>6. Strewn(C)
    <2>1. ASSUME NEW x \in Addr, NEW i \in Class, In(C, i, x)
          PROVE  x[1] \in Firsts /\ (x # FreeOf(x[1]) => Once(C, x))
      <3>1. x \in Spots(Firsts)
        BY <1>3, <2>1
      <3>2. QED
        BY <1>5, <3>1
    <2>2. QED
      BY <1>2, <2>1 DEF Strewn
  <1>7. ASSUME NEW p \in Firsts, NEW z \in On(p, C) PROVE z = Body(p)
    <2>1. PICK i \in Class : In(C, i, <<p, z>>)
      BY DEF On
    <2>2. <<p, z>> \in Spots(Firsts) /\ z \in Offset
      BY <1>3, <2>1 DEF On
    <2>3. PICK y : y = <<p, z>>
      OBVIOUS
    <2>4. y = FreeOf(y[1]) /\ y[1] = p
      BY <1>5, <2>2, <2>3
    <2>5. QED
      BY <1>4, <2>2, <2>3, <2>4, FirstBlock
  <1>8. QED
    BY <1>6, <1>7

(* What a request has of a page: blocks behind its head. *)
LEMMA OfInner ==
    ASSUME NEW P, P \subseteq Page, NEW m, GoodPages(P, m), NEW L, NEW lv, Keeps(P, m, L, lv), NEW p \in P
    PROVE  Of(p, lv) \subseteq Inner(Edges(m[p]))
  <1>1. Apart(P, m, L, lv)
    BY ApartIs
  <1>2. ASSUME NEW b \in Of(p, lv) PROVE b \in Inner(Edges(m[p]))
    <2>1. PICK x \in lv : x.at = <<p, b>>
      BY DEF Of
    <2>2. x.at[1] = p /\ x.at[2] = b /\ p # 0
      BY <2>1 DEF Page
    <2>3. b \in Starts(m[p]) \ {DSIZE}
      BY <1>1, <2>2 DEF Apart, Holds
    <2>4. CutBy(m[p], Edges(m[p]))
      BY DEF GoodPages, Good
    <2>5. Starts(m[p]) = Edges(m[p]) \ {PAGESIZE}
      BY <2>4, EdgesOf
    <2>6. QED
      BY <2>3, <2>5 DEF Inner
  <1>3. QED
    BY <1>2

(* gfs_net_close inside a request leaves such a pool. *)
LEMMA ResetStale ==
    ASSUME Sane(pages, init, mem, block, large, live, psize, allsize, pused, msize),
           pages # <<>>, stale' # {}, ResetPages, live' = live
    PROVE  PagesAt(pages, init, mem)' /\ Still' /\ Scattered(mem, block, live)'
  <1>1. /\ PagesAt(pages, init, mem) /\ ToSet(pages) \subseteq Page
        /\ Ledger(ToSet(pages), mem, block, large, live, psize, allsize, pused, msize, Len(pages))
        /\ GoodPages(ToSet(pages), mem) /\ Firsts \subseteq ToSet(pages)
    BY SaneOpen, SaneFirm
  <1>2. Keeps(ToSet(pages), mem, large, live)
    BY <1>1, LedgerOpen
  <1>3. Kept = PageList /\ init = Firsts /\ Added = Len(pages) - InitPages
    BY <1>1, KeptIs DEF PagesAt, Firsts
  <1>4. PICK k, C : k = mem' /\ C = block'
    OBVIOUS
  <1>5. k = [p \in Page |-> IF p \in Firsts THEN EmptyPage(p, FALSE) ELSE <<>>]
    BY <1>3, <1>4 DEF ResetPages
  <1>6. Firsts \subseteq Page
    BY MemAssumption DEF Firsts, Page
  <1>7. PICK u : u = Reverse([i \in DOMAIN PageList |-> FreeOf(PageList[i])])
    OBVIOUS
  <1>8. Lines(u, Spots(Firsts))
    BY <1>7, TurnedLines
  <1>9. C = [i \in Class |-> IF i = BigClass THEN u ELSE <<>>]
    <2>1. C = [i \in 0..7 |-> IF i # 7 THEN <<>> ELSE u]
      BY <1>3, <1>4, <1>7 DEF ResetPages
    <2>2. QED
      BY <2>1 DEF Class, BigClass
  <1>10. Strewn(C) /\ \A p \in Firsts : On(p, C) \subseteq {Body(p)}
    BY <1>8, <1>9, FirstsStrewn
  <1>11. ASSUME NEW p \in Firsts PROVE Astray(p, k[p], Edges(k[p]), On(p, C), Of(p, live))
    <2>1. PICK M, E, N, W, A : /\ M = mem[p] /\ E = Edges(mem[p]) /\ N = k[p]
                               /\ W = On(p, C) /\ A = Of(p, live)
      OBVIOUS
    <2>2. N = EmptyPage(p, FALSE)
      BY <1>5, <1>6, <2>1
    <2>3. Claims(M, p, N)
      BY <2>1, <2>2, EmptiedClaims
    <2>4. p \in ToSet(pages)
      BY <1>1
    <2>5. Good(p, M, E)
      BY <1>1, <2>1, <2>4 DEF GoodPages
    <2>6. A \subseteq Inner(E)
      BY <1>1, <1>2, <2>1, <2>4, OfInner
    <2>7. W \subseteq {Body(p)}
      BY <1>10, <2>1
    <2>8. Astray(p, N, E, W, A)
      BY <2>3, <2>5, <2>6, <2>7, ResetAstray
    <2>9. CutBy(N, E)
      BY <2>8 DEF Astray
    <2>10. Edges(N) = E
      BY <2>9, EdgesOf
    <2>11. QED
      BY <2>1, <2>8, <2>10
  <1>12. LiveOK(live)
    BY <1>2 DEF Keeps
  <1>13. Scattered(k, C, live)
    BY <1>10, <1>11, <1>12 DEF Scattered
  <1>14. DOMAIN k = Page /\ \A p \in Page : p \notin Firsts => k[p] = <<>>
    BY <1>5
  <1>15. PagesAt(PageList, Firsts, k)
    <2>1. PICK s : s = PageList
      OBVIOUS
    <2>2. s \in Seq(Page) /\ Len(s) = InitPages /\ ToSet(s) = Firsts /\ s # <<>> /\ IsInjective(s)
      BY <2>1, PageListOK
    <2>3. InitPages \in Nat
      BY MemAssumption
    <2>4. \A j \in 1..InitPages : InitPages - InitPages + j = j
      BY <2>3
    <2>5. Len(s) >= InitPages /\ \A j \in 1..InitPages : s[Len(s) - InitPages + j] = PageList[j]
      BY <2>1, <2>2, <2>3, <2>4
    <2>6. \A p \in Page : p \notin ToSet(s) => k[p] = <<>>
      BY <1>14, <2>2
    <2>7. PagesAt(s, 1..InitPages, k)
      BY <1>14, <2>2, <2>5, <2>6 DEF PagesAt
    <2>8. QED
      BY <2>1, <2>7 DEF Firsts
  <1>16. pages' = PageList /\ init' = Firsts
    BY <1>3 DEF ResetPages
  <1>17. Still'
    <2>1. /\ large' = <<>> /\ psize' = InitPages * PAGESIZE /\ pused' = FreshUsed /\ msize' = 0
          /\ allsize' = allsize - Bytes(large) - PAGESIZE * Added
      BY DEF ResetPages
    <2>2. InitPages \in Nat
      BY MemAssumption
    <2>3. allsize = 4096 * Len(pages) + Bytes(large) /\ Bytes(large) \in Int /\ Len(pages) \in Nat
      BY SaneBytes
    <2>4. allsize' = 4096 * InitPages /\ psize' = 4096 * InitPages
      BY <1>3, <2>1, <2>2, <2>3
    <2>5. pused' \in Int /\ msize' \in Int
      BY <2>1, <2>2 DEF FreshUsed
    <2>6. QED
      BY <1>16, <2>1, <2>4, <2>5 DEF Still
  <1>18. QED
    BY <1>4, <1>13, <1>15, <1>16, <1>17

------------------------------------------------------------------------------
(* The invariant of the pool, step by step. *)

Steady ==
    /\ Sane(pages, init, mem, block, large, live, psize, allsize, pused, msize)
    /\ stale = {} /\ fate = "ok" /\ (pages = <<>> => live = {})
Shaken ==
    /\ PagesAt(pages, init, mem) /\ Still /\ Scattered(mem, block, live)
    /\ stale # {} /\ fate \in {"ok", "exit", "undefined"} /\ \A x \in stale : x.n \in Size

(* One of the two, at all times. *)
LEMMA MemInvIs == MemInv <=> Steady \/ Shaken
  <1>1. CASE stale = {}
    <2>1. ~Shaken
      BY <1>1 DEF Shaken
    <2>2. MemInv <=> PagesOK /\ (pages = <<>> => live = {}) /\ SoundInv /\ fate = "ok"
      BY <1>1 DEF MemInv
    <2>3. PagesOK /\ SoundInv <=> Sane(pages, init, mem, block, large, live, psize, allsize, pused, msize)
      BY SaneIs
    <2>4. QED
      BY <1>1, <2>1, <2>2, <2>3 DEF Steady
  <1>2. CASE stale # {}
    <2>1. ~Steady
      BY <1>2 DEF Steady
    <2>2. Still => pages # <<>>
      BY PageListOK DEF Still
    <2>3. MemInv <=> /\ PagesOK /\ (pages = <<>> => live = {}) /\ fate \in {"ok", "exit", "undefined"}
                     /\ StaleInv /\ \A x \in stale : x.n \in Size
      BY <1>2 DEF MemInv
    <2>4. QED
      BY <1>2, <2>1, <2>2, <2>3, StaleIs, PagesIs DEF Shaken
  <1>3. QED
    BY <1>1, <1>2

(* A worker begins with a sound pool. *)
LEMMA InitSteady ==
    ASSUME MemInit PROVE Steady
  <1>1. stale = {} /\ fate = "ok" /\ live = {}
    BY DEF MemInit
  <1>2. QED
    BY <1>1, InitSane DEF Steady

(* gfs_mem_malloc ... *)
LEMMA MallocStep ==
    ASSUME Steady, NEW n \in Size, mem_malloc(n)
    PROVE  Steady'
  <1>1. pages # <<>> /\ pages' = pages /\ stale' = stale /\ fate' = fate
    BY DEF mem_malloc, May
  <1>2. QED
    BY <1>1, MallocSane DEF Steady

(* ... that extends the pool ... *)
LEMMA ExtendedStep ==
    ASSUME Steady, NEW n \in Size, malloc_extended(n)
    PROVE  Steady'
  <1>1. /\ pages # <<>> /\ pages' = NewPages \o pages /\ stale' = stale /\ fate' = fate
        /\ Len(pages) + InitPages <= MaxPages
    BY DEF malloc_extended, May
  <1>2. PagesAt(pages, init, mem)
    BY SaneOpen DEF Steady
  <1>3. Chosen(NewPages, ToSet(pages))
    BY <1>1, <1>2, NewOnes
  <1>4. PICK s, t : s = NewPages /\ t = pages'
    OBVIOUS
  <1>5. s \in [1..InitPages -> Page] /\ InitPages \in Nat
    BY <1>3, <1>4, MemAssumption DEF Chosen
  <1>6. s \in Seq(Page) /\ pages \in Seq(Page) /\ t = s \o pages
    <2>1. s \in Seq(Page)
      BY <1>5
    <2>2. pages \in Seq(Page)
      BY <1>2 DEF PagesAt
    <2>3. QED
      BY <1>1, <1>4, <2>1, <2>2
  <1>7. Len(t) = Len(s) + Len(pages) /\ Len(s) \in Nat /\ Len(pages) \in Nat /\ Len(pages) # 0
    BY <1>1, <1>6
  <1>8. t # <<>>
    BY <1>7
  <1>9. QED
    BY <1>1, <1>4, <1>8, ExtendedSane DEF Steady

(* ... or takes a large block. *)
LEMMA LargeStep ==
    ASSUME Steady, NEW n \in Size, malloc_large(n)
    PROVE  Steady'
  <1>1. pages # <<>> /\ pages' = pages /\ stale' = stale /\ fate' = fate
    BY DEF malloc_large, May
  <1>2. QED
    BY <1>1, LargeSane DEF Steady

(* gfs_mem_free, before ... *)
LEMMA FreeStep ==
    ASSUME Steady, NEW x, mem_free(x)
    PROVE  Steady'
  <1>1. pages' = pages /\ stale' = stale /\ fate' = fate /\ live' = live \ {x}
    BY DEF mem_free
  <1>2. QED
    BY <1>1, FreeSane DEF Steady

(* A large block is given back. *)
LEMMA UnlargeStep ==
    ASSUME Steady, NEW x, free_large(x)
    PROVE  Steady'
  <1>1. pages' = pages /\ stale' = stale /\ fate' = fate /\ live' = live \ {x}
    BY DEF free_large
  <1>2. QED
    BY <1>1, UnlargeSane DEF Steady

(* ... and after a close inside a request. *)
LEMMA FreeShaken ==
    ASSUME Shaken, NEW x, mem_free(x)
    PROVE  Shaken'
  <1>1. stale' = stale /\ fate' = fate
    BY DEF mem_free
  <1>2. PagesAt(pages, init, mem)' /\ Still' /\ Scattered(mem, block, live)'
    BY StaleFree DEF Shaken
  <1>3. QED
    BY <1>1, <1>2 DEF Shaken

(* The large blocks are gone with the reset. *)
LEMMA UnlargeShaken ==
    ASSUME Shaken, NEW x, free_large(x)
    PROVE  FALSE
  <1>1. x.at[2] \in DOMAIN large
    BY DEF free_large
  <1>2. large = <<>>
    BY DEF Shaken, Still
  <1>3. QED
    BY <1>1, <1>2

(* What gfs_mem_free does not accept changes no pool. *)
LEMMA AstrayShaken ==
    ASSUME Shaken, NEW x, free_astray(x)
    PROVE  Shaken'
  <1>1. /\ pages' = pages /\ init' = init /\ mem' = mem /\ block' = block /\ large' = large
        /\ psize' = psize /\ pused' = pused /\ msize' = msize /\ allsize' = allsize
        /\ live' = live /\ stale' = stale
    BY DEF free_astray, pool
  <1>2. fate' = "exit" \/ fate' = "undefined"
    BY DEF free_astray
  <1>3. PagesAt(pages, init, mem)' /\ Still' /\ Scattered(mem, block, live)'
    BY <1>1 DEF Shaken, Still
  <1>4. QED
    BY <1>1, <1>2, <1>3 DEF Shaken

(* gfs_mem_pool_reset between requests ... *)
LEMMA ResetStep ==
    ASSUME Steady \/ Shaken, fate = "ok", pool_reset
    PROVE  Steady'
  <1>1. pages # <<>> /\ live' = {} /\ stale' = {} /\ ResetPages
    BY DEF pool_reset
  <1>2. Sane(pages, init, mem, block, large, live, psize, allsize, pused, msize)'
    <2>1. CASE Steady
      BY <1>1, <2>1, ResetSane DEF Steady
    <2>2. CASE Shaken
      BY <1>1, <2>2, StaleReset DEF Shaken
    <2>3. QED
      BY <2>1, <2>2
  <1>3. fate' = fate
    BY <1>1 DEF ResetPages
  <1>4. fate' = "ok"
    BY <1>3
  <1>5. QED
    BY <1>1, <1>2, <1>4 DEF Steady

(* ... and inside one. *)
LEMMA InsideStep ==
    ASSUME Steady, reset_inside
    PROVE  Shaken'
  <1>1. pages # <<>> /\ live # {} /\ stale' = live /\ live' = live /\ ResetPages
    BY DEF reset_inside
  <1>2. stale' # {}
    BY <1>1
  <1>3. PagesAt(pages, init, mem)' /\ Still' /\ Scattered(mem, block, live)'
    BY <1>1, <1>2, ResetStale DEF Steady
  <1>4. fate' = "ok"
    BY <1>1 DEF ResetPages, Steady
  <1>5. \A x \in live : x \in Handed
    <2>1. Scattered(mem, block, live)' /\ live' = live
      BY <1>1, <1>3
    <2>2. LiveOK(live)
      BY <2>1 DEF Scattered
    <2>3. QED
      BY <2>2 DEF LiveOK
  <1>6. \A x \in stale' : x.n \in Size
    BY <1>1, <1>5, HandedParts
  <1>7. QED
    BY <1>2, <1>3, <1>4, <1>6 DEF Shaken

(* gfs_mem_pool_destory. *)
LEMMA DestoryStep ==
    ASSUME Steady, pool_destory
    PROVE  Steady'
  <1>1. live' = {} /\ stale' = stale /\ fate' = fate
    BY DEF pool_destory
  <1>2. QED
    BY <1>1, DestorySane DEF Steady

(* gfs_mem_pool_create. *)
LEMMA CreateStep ==
    ASSUME Steady, pool_create
    PROVE  Steady'
  <1>1. pages = <<>> /\ live' = live /\ stale' = stale /\ fate' = fate
    BY DEF pool_create
  <1>2. QED
    BY <1>1, CreateSane DEF Steady

(* A worker that is started again. *)
LEMMA RestartStep ==
    ASSUME worker_restart
    PROVE  Steady'
  <1>1. live' = {} /\ stale' = {} /\ fate' = "ok"
    BY DEF worker_restart
  <1>2. QED
    BY <1>1, RestartSane DEF Steady

(* Every step keeps the invariant. *)
LEMMA MemStep ==
    ASSUME MemInv, [Next]_vars
    PROVE  MemInv'
  <1>1. Steady \/ Shaken
    BY MemInvIs
  <1>2. Shaken => stale # {}
    BY DEF Shaken
  <1>3. ASSUME NEW n \in Size, mem_malloc(n) PROVE Steady'
    <2>1. stale = {}
      BY <1>3 DEF mem_malloc, May
    <2>2. QED
      BY <1>1, <1>2, <1>3, <2>1, MallocStep
  <1>4. ASSUME NEW n \in Size, malloc_extended(n) PROVE Steady'
    <2>1. stale = {}
      BY <1>4 DEF malloc_extended, May
    <2>2. QED
      BY <1>1, <1>2, <1>4, <2>1, ExtendedStep
  <1>5. ASSUME NEW n \in Size, malloc_large(n) PROVE Steady'
    <2>1. stale = {}
      BY <1>5 DEF malloc_large, May
    <2>2. QED
      BY <1>1, <1>2, <1>5, <2>1, LargeStep
  <1>6. ASSUME NEW x, mem_free(x) PROVE Steady' \/ Shaken'
    BY <1>1, <1>6, FreeStep, FreeShaken
  <1>7. ASSUME NEW x, free_large(x) PROVE Steady' \/ Shaken'
    BY <1>1, <1>7, UnlargeStep, UnlargeShaken
  <1>8. ASSUME NEW x, free_astray(x) PROVE Steady' \/ Shaken'
    <2>1. CASE Steady
      BY <1>8, <2>1, NoAstray DEF Steady
    <2>2. CASE Shaken
      BY <1>8, <2>2, AstrayShaken
    <2>3. QED
      BY <1>1, <2>1, <2>2
  <1>9. ASSUME fate = "ok", pool_reset PROVE Steady'
    BY <1>1, <1>9, ResetStep
  <1>10. ASSUME reset_inside PROVE Shaken'
    <2>1. stale = {}
      BY <1>10 DEF reset_inside
    <2>2. QED
      BY <1>1, <1>2, <1>10, <2>1, InsideStep
  <1>11. ASSUME pool_destory PROVE Steady'
    <2>1. stale = {}
      BY <1>11 DEF pool_destory
    <2>2. QED
      BY <1>1, <1>2, <1>11, <2>1, DestoryStep
  <1>12. ASSUME pool_create PROVE Steady'
    <2>1. pages = <<>>
      BY <1>12 DEF pool_create
    <2>2. ~Shaken
      BY <2>1, PageListOK DEF Shaken, Still
    <2>3. QED
      BY <1>1, <1>12, <2>2, CreateStep
  <1>13. ASSUME worker_restart PROVE Steady'
    BY <1>13, RestartStep
  <1>14. ASSUME UNCHANGED vars PROVE Steady' \/ Shaken'
    <2>1. /\ pages' = pages /\ init' = init /\ mem' = mem /\ block' = block /\ large' = large
          /\ psize' = psize /\ pused' = pused /\ msize' = msize /\ allsize' = allsize
          /\ live' = live /\ stale' = stale /\ fate' = fate
      BY <1>14 DEF vars, pool
    <2>2. Steady => Steady'
      BY <2>1 DEF Steady
    <2>3. Shaken => Shaken'
      BY <2>1 DEF Shaken, Still
    <2>4. QED
      BY <1>1, <2>2, <2>3
  <1>15. Steady' \/ Shaken'
    BY <1>3, <1>4, <1>5, <1>6, <1>7, <1>8, <1>9, <1>10, <1>11, <1>12, <1>13, <1>14 DEF Next
  <1>16. MemInv' <=> Steady' \/ Shaken'
    BY MemInvIs, PTL
  <1>17. QED
    BY <1>15, <1>16

------------------------------------------------------------------------------
(* What the invariant says of the properties. *)

(* Tags differ in a shaken pool only. *)
LEMMA InvCrossed ==
    ASSUME MemInv PROVE NeverCrossed
  BY DEF MemInv, NeverCrossed

(* Blocks that are handed out are apart. *)
LEMMA InvApart ==
    ASSUME MemInv PROVE LiveApart
  <1>1. SUFFICES ASSUME stale = {} PROVE
          \A x \in live :
            /\ \A y \in live : x # y => x.at # y.at
            /\ x.at[1] # 0 =>
                 /\ x.at[2] \in Starts(mem[x.at[1]]) \ {DSIZE}
                 /\ mem[x.at[1]][x.at[2] - WSIZE].used
                 /\ x.n <= SizeAt(mem, x.at) - WSIZE - DSIZE
    BY DEF LiveApart, Sound
  <1>2. Apart(ToSet(pages), mem, large, live)
    BY <1>1 DEF MemInv, SoundInv, SoundPool
  <1>3. ASSUME NEW x \in live, NEW y \in live, x # y PROVE x.at # y.at
    BY <1>2, <1>3 DEF Apart, LiveOK
  <1>4. ASSUME NEW x \in live, x.at[1] # 0
        PROVE  /\ x.at[2] \in Starts(mem[x.at[1]]) \ {DSIZE}
               /\ mem[x.at[1]][x.at[2] - WSIZE].used
               /\ x.n <= SizeAt(mem, x.at) - WSIZE - DSIZE
    <2>1. Holds(ToSet(pages), mem, x)
      BY <1>2 DEF Apart
    <2>2. QED
      BY <1>4, <2>1 DEF Holds, Hd, SizeAt
  <1>5. QED
    BY <1>3, <1>4

(* An element of a list, and what it says of it. *)
LEMMA ListElement ==
    ASSUME NEW B, NEW S, NEW m, Listing(B, S, m), NEW i \in Class, NEW j \in DOMAIN B[i]
    PROVE  /\ B[i][j] \in Addr /\ In(B, i, B[i][j]) /\ B[i][j] \in S
           /\ getindex(SizeAt(m, B[i][j])) = i /\ Once(B, B[i][j])
           /\ B[i] \in Seq(Addr) /\ j \in 1..Len(B[i])
  <1>1. B[i] \in Seq(Addr)
    BY DEF Listing, ListsOK
  <1>2. j \in 1..Len(B[i])
    BY <1>1
  <1>3. B[i][j] \in Addr
    BY <1>1, <1>2
  <1>4. In(B, i, B[i][j])
    BY <1>2 DEF In, Contains
  <1>5. QED
    BY <1>1, <1>2, <1>3, <1>4 DEF Listing

(* Parts of the invariant that are needed below. *)
LEMMA SoundParts ==
    ASSUME MemInv, stale = {}, NEW P, P = ToSet(pages)
    PROVE  /\ P \subseteq Page /\ GoodPages(P, mem) /\ Listing(block, Free(P, mem), mem)
           /\ Sane(pages, init, mem, block, large, live, psize, allsize, pused, msize)
  <1>1. PagesOK /\ SoundInv
    BY DEF MemInv
  <1>2. Sane(pages, init, mem, block, large, live, psize, allsize, pused, msize)
    BY <1>1, SaneIs
  <1>3. QED
    BY <1>2, SaneOpen

(* The lists are exact. *)
LEMMA InvLists ==
    ASSUME MemInv PROVE ListsExact
  <1>1. SUFFICES ASSUME stale = {} PROVE
        /\ \A p \in ToSet(pages) : \A b \in Starts(mem[p]) :
             ~mem[p][b - WSIZE].used => InLists(block, <<p, b>>)
        /\ \A i \in Class : \A k \in DOMAIN block[i] :
             /\ block[i][k][1] \in ToSet(pages) /\ block[i][k][2] \in Starts(mem[block[i][k][1]])
             /\ ~mem[block[i][k][1]][block[i][k][2] - WSIZE].used
             /\ getindex(SizeAt(mem, block[i][k])) = i
        /\ \A i, j \in Class : \A k \in DOMAIN block[i], l \in DOMAIN block[j] :
             block[i][k] = block[j][l] => i = j /\ k = l
    BY DEF ListsExact, Sound, Class
  <1>2. PICK P, S : P = ToSet(pages) /\ S = Free(P, mem)
    OBVIOUS
  <1>3. P \subseteq Page /\ GoodPages(P, mem) /\ Listing(block, S, mem)
    BY <1>1, <1>2, SoundParts
  <1>4. ASSUME NEW p \in P, NEW b \in Starts(mem[p]), ~mem[p][b - WSIZE].used
        PROVE  InLists(block, <<p, b>>)
    <2>1. CutBy(mem[p], Edges(mem[p]))
      BY <1>3 DEF GoodPages, Good
    <2>2. b \in Edges(mem[p])
      BY DEF Edges
    <2>3. b \in Nat /\ b <= 4096
      BY <2>1, <2>2, CutWords
    <2>4. b \in Offset
      BY <2>3, Offsets
    <2>5. PICK y : y = <<p, b>>
      OBVIOUS
    <2>6. y \in Addr /\ y[1] = p /\ y[2] = b
      BY <1>3, <2>4, <2>5, AddrParts
    <2>7. y \in S
      BY <1>2, <1>4, <2>6 DEF Free, Hd
    <2>8. PICK i \in Class : i = getindex(SizeAt(mem, y))
      BY IndexClass
    <2>9. In(block, i, y)
      BY <1>3, <2>6, <2>7, <2>8 DEF Listing
    <2>10. QED
      BY <2>5, <2>9 DEF InLists, In, Class
  <1>5. ASSUME NEW i \in Class, NEW k \in DOMAIN block[i]
        PROVE  /\ block[i][k][1] \in P /\ block[i][k][2] \in Starts(mem[block[i][k][1]])
               /\ ~mem[block[i][k][1]][block[i][k][2] - WSIZE].used
               /\ getindex(SizeAt(mem, block[i][k])) = i
    <2>1. block[i][k] \in S /\ getindex(SizeAt(mem, block[i][k])) = i
      BY <1>3, ListElement
    <2>2. QED
      BY <1>2, <2>1 DEF Free, Hd
  <1>6. ASSUME NEW i \in Class, NEW j \in Class, NEW k \in DOMAIN block[i], NEW l \in DOMAIN block[j],
               block[i][k] = block[j][l]
        PROVE  i = j /\ k = l
    <2>1. PICK x : x = block[i][k]
      OBVIOUS
    <2>2. In(block, i, x) /\ Once(block, x) /\ k \in 1..Len(block[i])
      BY <1>3, <2>1, ListElement
    <2>3. In(block, j, x) /\ l \in 1..Len(block[j]) /\ block[j][l] = x
      BY <1>3, <1>6, <2>1, ListElement
    <2>4. i = j
      BY <2>2, <2>3 DEF Once
    <2>5. Single(block[i], x)
      BY <2>2 DEF Once
    <2>6. QED
      BY <2>1, <2>2, <2>3, <2>4, <2>5 DEF Single
  <1>7. QED
    BY <1>2, <1>4, <1>5, <1>6

(* The words of a page. *)
LEMMA PageWords ==
    ASSUME NEW M, NEW E, CutBy(M, E), NEW a \in DOMAIN M
    PROVE  a \in Offset /\ M[a] \in Tag
  <1>1. /\ (\A z \in E : z \in Nat /\ z <= 4096) /\ Spaced(E) /\ M \in [Words(E) -> Tag]
    BY CutWords
  <1>2. a \in Words(E)
    BY <1>1
  <1>3. a \in Nat /\ (a + 8 \in E \/ a + 16 \in E)
    BY <1>1, <1>2, SpacedEdges
  <1>4. a <= 4096
    BY <1>1, <1>3
  <1>5. a \in Offset
    BY <1>3, <1>4, Offsets
  <1>6. QED
    BY <1>1, <1>2, <1>5

(* The types, in the words of the proofs. *)
LEMMA TypeBy ==
    ASSUME pages \in Seq(Page), init \subseteq Page,
           \A p \in Page : \A a \in DOMAIN mem[p] : a \in Offset /\ mem[p][a] \in Tag,
           ListsOK(block), DOMAIN large \subseteq 1..MaxLive,
           psize \in Int, pused \in Int, msize \in Int, allsize \in Int,
           \A x \in live : x \in Handed, \A x \in stale : x.n \in Size,
           fate \in {"ok", "exit", "undefined"}
    PROVE  MemTypeOK
  <1>1. \A p \in Page : \A a \in DOMAIN mem[p] : a \in 0..PAGESIZE /\ mem[p][a] \in Tag
    BY DEF Offset
  <1>2. ASSUME NEW i \in Class, NEW j \in DOMAIN block[i] PROVE block[i][j] \in Page \X Nat
    <2>1. block[i] \in Seq(Addr)
      BY DEF ListsOK
    <2>2. block[i][j] \in Addr
      BY <2>1
    <2>3. PICK x : x = block[i][j]
      OBVIOUS
    <2>4. x[1] \in Page /\ x[2] \in Nat /\ x = <<x[1], x[2]>>
      BY <2>2, <2>3, AddrParts, Offsets
    <2>5. x \in Page \X Nat
      BY <2>4
    <2>6. QED
      BY <2>3, <2>5
  <1>3. \A i \in 0..7 : \A j \in DOMAIN block[i] : block[i][j] \in Page \X Nat
    BY <1>2 DEF Class
  <1>4. DOMAIN block = 0..7
    BY DEF ListsOK, Class
  <1>5. {psize, pused, msize, allsize} \subseteq Int
    OBVIOUS
  <1>6. \A x \in live \cup stale : x.n \in Size
    BY HandedParts
  <1>7. QED
    BY <1>1, <1>3, <1>4, <1>5, <1>6 DEF MemTypeOK

(* Every variable has its type. *)
LEMMA InvType ==
    ASSUME MemInv PROVE MemTypeOK
  <1>1. Steady \/ Shaken
    BY MemInvIs
  <1>2. CASE Steady
    <2>1. /\ PagesAt(pages, init, mem) /\ Len(pages) \in Nat
          /\ Ledger(ToSet(pages), mem, block, large, live, psize, allsize, pused, msize, Len(pages))
          /\ GoodPages(ToSet(pages), mem) /\ Listing(block, Free(ToSet(pages), mem), mem)
      BY <1>2, SaneOpen DEF Steady
    <2>2. PICK w, l, v : /\ Keeps(ToSet(pages), mem, large, live) /\ w \in Int /\ l \in Int /\ v \in Int
                         /\ Entry(psize, allsize, pused, msize, Len(pages), w, l, v)
      BY <2>1, LedgerOpen
    <2>3. psize \in Int /\ pused \in Int /\ msize \in Int /\ allsize \in Int
      BY <2>1, <2>2 DEF Entry
    <2>4. ASSUME NEW p \in Page, NEW a \in DOMAIN mem[p] PROVE a \in Offset /\ mem[p][a] \in Tag
      <3>1. CASE p \in ToSet(pages)
        <4>1. CutBy(mem[p], Edges(mem[p]))
          BY <2>1, <3>1 DEF GoodPages, Good
        <4>2. QED
          BY <4>1, PageWords
      <3>2. CASE p \notin ToSet(pages)
        <4>1. mem[p] = <<>>
          BY <2>1, <3>2 DEF PagesAt
        <4>2. QED
          BY <4>1
      <3>3. QED
        BY <3>1, <3>2
    <2>5. pages \in Seq(Page) /\ init \subseteq Page
      <3>1. Firsts \subseteq Page
        BY MemAssumption DEF Firsts, Page
      <3>2. QED
        BY <2>1, <3>1 DEF PagesAt, Firsts
    <2>6. ListsOK(block) /\ DOMAIN large \subseteq 1..MaxLive /\ \A x \in live : x \in Handed
      BY <2>1, <2>2 DEF Listing, Keeps, LargeOK, LiveOK
    <2>7. fate = "ok" /\ stale = {}
      BY <1>2 DEF Steady
    <2>8. QED
      BY <2>3, <2>4, <2>5, <2>6, <2>7, TypeBy
  <1>3. CASE Shaken
    <2>1. PagesAt(pages, init, mem) /\ Still /\ Scattered(mem, block, live)
      BY <1>3 DEF Shaken
    <2>2. pages = PageList /\ pages # <<>> /\ ToSet(pages) = Firsts
      BY <2>1, PageListOK DEF Still
    <2>3. psize \in Int /\ pused \in Int /\ msize \in Int /\ allsize \in Int
      BY <2>1, MemAssumption DEF Still
    <2>4. ASSUME NEW p \in Page, NEW a \in DOMAIN mem[p] PROVE a \in Offset /\ mem[p][a] \in Tag
      <3>1. CASE p \in Firsts
        <4>1. CutBy(mem[p], Edges(mem[p]))
          BY <2>1, <3>1 DEF Scattered, Astray
        <4>2. QED
          BY <4>1, PageWords
      <3>2. CASE p \notin Firsts
        <4>1. mem[p] = <<>>
          BY <2>1, <2>2, <3>2 DEF PagesAt
        <4>2. QED
          BY <4>1
      <3>3. QED
        BY <3>1, <3>2
    <2>5. pages \in Seq(Page) /\ init \subseteq Page
      <3>1. Firsts \subseteq Page
        BY MemAssumption DEF Firsts, Page
      <3>2. QED
        BY <2>1, <3>1 DEF PagesAt, Firsts
    <2>6. ListsOK(block) /\ \A x \in live : x \in Handed
      BY <2>1 DEF Scattered, Strewn, LiveOK
    <2>7. DOMAIN large \subseteq 1..MaxLive
      BY <2>1 DEF Still
    <2>8. fate \in {"ok", "exit", "undefined"} /\ \A x \in stale : x.n \in Size
      BY <1>3 DEF Shaken
    <2>9. QED
      BY <2>3, <2>4, <2>5, <2>6, <2>7, <2>8, TypeBy
  <1>4. QED
    BY <1>1, <1>2, <1>3

(* The lists are all the free blocks. *)
LEMMA ListsUnion ==
    ASSUME NEW B, NEW S, NEW m, Listing(B, S, m), S \subseteq Addr
    PROVE  UNION { ToSet(B[i]) : i \in Class } = S
  <1>1. ASSUME NEW i \in Class, NEW x \in ToSet(B[i]) PROVE x \in S
    <2>1. PICK j \in DOMAIN B[i] : x = B[i][j]
      BY DEF ToSet
    <2>2. QED
      BY <2>1, ListElement
  <1>2. ASSUME NEW x \in S PROVE \E i \in Class : x \in ToSet(B[i])
    <2>1. PICK i \in Class : i = getindex(SizeAt(m, x))
      BY IndexClass
    <2>2. In(B, i, x) /\ B[i] \in Seq(Addr)
      BY <2>1 DEF Listing, ListsOK
    <2>3. PICK j \in 1..Len(B[i]) : B[i][j] = x
      BY <2>2 DEF In, Contains
    <2>4. x \in ToSet(B[i])
      BY <2>2, <2>3 DEF ToSet
    <2>5. QED
      BY <2>4
  <1>3. QED
    BY <1>1, <1>2

(* The counters are what the pool has taken. *)
LEMMA InvAccounted ==
    ASSUME MemInv PROVE Accounted
  <1>1. SUFFICES ASSUME stale = {} PROVE
        /\ psize = PAGESIZE * Len(pages)
        /\ allsize = psize + Bytes(large)
        /\ pused = psize + Bytes(large)
                   - Bytes([b \in UNION { ToSet(block[i]) : i \in Class } |-> SizeAt(mem, b)])
        /\ msize = Bytes([x \in live |-> Taken(x)])
    BY DEF Accounted, Sound, Class
  <1>2. PICK P, S : P = ToSet(pages) /\ S = Free(P, mem)
    OBVIOUS
  <1>3. Listing(block, S, mem)
    BY <1>1, <1>2, SoundParts
  <1>4. S \subseteq Addr
    BY <1>2 DEF Free
  <1>5. UNION { ToSet(block[i]) : i \in Class } = S
    BY <1>3, <1>4, ListsUnion
  <1>6. /\ psize = PAGESIZE * Len(pages) /\ allsize = psize + Bytes(large)
        /\ pused = psize + Bytes(large) - FreeBytes(P, mem)
        /\ msize = LiveBytes(mem, large, live)
    BY <1>1, <1>2 DEF MemInv, SoundInv
  <1>7. FreeBytes(P, mem) = Bytes([b \in S |-> SizeAt(mem, b)])
    BY <1>2 DEF FreeBytes
  <1>8. LiveBytes(mem, large, live) = Bytes([x \in live |-> Taken(x)])
    BY DEF LiveBytes, TakenIn, Taken
  <1>9. QED
    BY <1>5, <1>6, <1>7, <1>8

(* A block of a page of a sound pool. *)
LEMMA BlockTiles ==
    ASSUME NEW p, NEW M, Good(p, M, Edges(M)), NEW S, S = Starts(M), NEW b \in S
    PROVE  /\ Tagged(M, b) /\ Intact(M, b) /\ M[b - WSIZE].size >= BLOCK_MIN
           /\ NextBlk(M, b) \in S \cup {PAGESIZE}
           /\ (\A c \in S : c <= b \/ NextBlk(M, b) <= c)
           /\ NextBlk(M, b) \in S => M[b - WSIZE].used \/ M[NextBlk(M, b) - WSIZE].used
  <1>1. PICK E : E = Edges(M)
    OBVIOUS
  <1>2. /\ CutBy(M, E) /\ Spaced(E) /\ M \in [Words(E) -> Tag]
        /\ (\A z \in E : z \in Nat /\ 16 <= z /\ z <= 4096)
        /\ (\A x \in E : x - 8 \in Words(E) /\ x - 16 \in Words(E))
        /\ \A a, e \in E : Adj(E, a, e) => Block(M, a, e)
    BY <1>1, GoodPage
  <1>3. \A c : c \in S <=> c \in E /\ c # 4096
    BY <1>1, <1>2, EdgesOf
  <1>4. b \in E /\ Lower(E, b)
    BY <1>2, <1>3 DEF Lower
  <1>5. PICK e \in E : Adj(E, b, e)
    BY <1>2, <1>4, Behind
  <1>6. Block(M, b, e)
    BY <1>2, <1>4, <1>5
  <1>7. /\ b \in Nat /\ e \in Nat /\ b + 48 <= e /\ Hd(M, b).size = e - b /\ Ft(M, e) = Hd(M, b)
        /\ NextBlk(M, b) = e /\ Ftr(M, b) = e - 16 /\ (Hd(M, b).used \/ Hd(M, e).used)
    BY <1>2, <1>5, <1>6, BlockWords
  <1>8. Tagged(M, b)
    BY <1>2, <1>4, <1>7 DEF Tagged
  <1>9. Intact(M, b)
    BY <1>7 DEF Intact, Hd, Ft
  <1>10. M[b - 8].size >= 48
    BY <1>7 DEF Hd
  <1>11. e \in S \cup {4096}
    BY <1>3
  <1>12. \A c \in S : c <= b \/ e <= c
    BY <1>3, <1>5 DEF Adj
  <1>13. M[b - 8].used \/ M[e - 8].used
    BY <1>7 DEF Hd
  <1>14. NextBlk(M, b) = e
    BY <1>7
  <1>15. Tagged(M, b) /\ Intact(M, b) /\ M[b - WSIZE].size >= BLOCK_MIN
    BY <1>8, <1>9, <1>10
  <1>16. e \in S => M[b - WSIZE].used \/ M[e - WSIZE].used
    BY <1>13
  <1>17. e \in S \cup {PAGESIZE}
    BY <1>11
  <1>18. QED
    BY <1>12, <1>14, <1>15, <1>16, <1>17

(* The pages are tiled. *)
LEMMA InvTiled ==
    ASSUME MemInv PROVE Tiled
  <1>1. ASSUME stale = {}, NEW p \in ToSet(pages), NEW M, M = mem[p], NEW S, S = Starts(M)
        PROVE  DSIZE \in S /\ Good(p, M, Edges(M))
    <2>1. Good(p, M, Edges(M))
      BY <1>1, SoundParts DEF GoodPages
    <2>2. CutBy(M, Edges(M))
      BY <2>1 DEF Good
    <2>3. S = Edges(M) \ {PAGESIZE} /\ 16 \in Edges(M)
      BY <1>1, <2>2, EdgesOf, CutWords
    <2>4. QED
      BY <2>1, <2>3
  <1>2. ASSUME stale = {}, NEW p \in ToSet(pages)
        PROVE  LET M == mem[p]
                   S == Starts(M)
               IN  /\ DSIZE \in S
                   /\ \A b \in S :
                        /\ Tagged(M, b) /\ Intact(M, b) /\ M[b - WSIZE].size >= BLOCK_MIN
                        /\ NextBlk(M, b) \in S \cup {PAGESIZE}
                        /\ \A c \in S : c <= b \/ NextBlk(M, b) <= c
                        /\ NextBlk(M, b) \in S =>
                             M[b - WSIZE].used \/ M[NextBlk(M, b) - WSIZE].used
    <2>1. PICK M, S : M = mem[p] /\ S = Starts(M)
      OBVIOUS
    <2>2. DSIZE \in S /\ Good(p, M, Edges(M))
      BY <1>1, <1>2, <2>1
    <2>3. ASSUME NEW b \in S
          PROVE  /\ Tagged(M, b) /\ Intact(M, b) /\ M[b - WSIZE].size >= BLOCK_MIN
                 /\ NextBlk(M, b) \in S \cup {PAGESIZE}
                 /\ (\A c \in S : c <= b \/ NextBlk(M, b) <= c)
                 /\ NextBlk(M, b) \in S => M[b - WSIZE].used \/ M[NextBlk(M, b) - WSIZE].used
      BY <2>1, <2>2, BlockTiles
    <2>4. QED
      BY <2>1, <2>2, <2>3
  <1>3. QED
    BY <1>2, InvType, InvAccounted DEF Tiled, Sound

------------------------------------------------------------------------------
(* The invariant holds whatever is asked for, given back and reset. *)
THEOREM MemInvariance == MemSpec => []MemInv
  <1>1. MemInit => MemInv
    BY InitSteady, MemInvIs
  <1>2. MemInv /\ [Next]_vars => MemInv'
    BY MemStep
  <1>3. QED
    BY <1>1, <1>2, PTL DEF MemSpec

(* gfs_mem_place, gfs_mem_coalesce and gfs_mem_pool_reset keep every page   *)
(* cut into blocks that fill it, whose header and footer agree and no two   *)
(* free ones of which are neighbours, for every number of pages and every   *)
(* set of sizes; and the counters of the pool are what it has taken.        *)
THEOREM AlwaysTiled == MemSpec => []Tiled
  <1>1. MemInv => Tiled
    BY InvTiled
  <1>2. QED
    BY <1>1, MemInvariance, PTL

(* The lists of free blocks hold each of them once, in the class            *)
(* gfs_mem_getindex gives its size, and nothing else.                       *)
THEOREM ListsAlwaysExact == MemSpec => []ListsExact
  <1>1. MemInv => ListsExact
    BY InvLists
  <1>2. QED
    BY <1>1, MemInvariance, PTL

(* No two blocks gfs_mem_malloc has handed out are the same, and each has   *)
(* room behind the pool pointer for what was asked for.                     *)
THEOREM LiveAlwaysApart == MemSpec => []LiveApart
  <1>1. MemInv => LiveApart
    BY InvApart
  <1>2. QED
    BY <1>1, MemInvariance, PTL

(* Tags that gfs_mem_free finds different, and words it follows that are no *)
(* tags, are the work of a request whose connection was closed inside it.   *)
THEOREM NeverCrossedElse == MemSpec => []NeverCrossed
  <1>1. MemInv => NeverCrossed
    BY InvCrossed
  <1>2. QED
    BY <1>1, MemInvariance, PTL
=============================================================================
