-------------------------------- MODULE NsMem --------------------------------
(***************************************************************************)
(* The memory pool of the name service (core/gfs_mem.c).  Each connection  *)
(* has one; its requests are built in it and gfs_net_close resets it.      *)
(*                                                                         *)
(* A page is cut into blocks with a header word in front and a footer word *)
(* at the end, both size and flag ("tags").  mem[p] holds the tags of page *)
(* p by their offset.  A pointer to a block is <<page, offset>>, offset of *)
(* the byte behind the header.  What callers write is not kept.            *)
(*                                                                         *)
(* Words inside a block are forgotten as soon as it is one block, except   *)
(* while a request still has pointers into a pool that was reset (stale).  *)
(* What a pool damaged by such a request hands out next is not followed.   *)
(***************************************************************************)
EXTENDS Integers, Sequences, FiniteSets, SequencesExt, FiniteSetsExt

CONSTANTS
    InitPages,    \* argument of gfs_mem_pool_create, 10 in the code
    Size,         \* sizes that are asked for
    MaxLive,      \* blocks handed out at a time
    MaxPages      \* pages at a time

ASSUME MemAssumption ==
    /\ InitPages \in Nat \ {0} /\ MaxPages \in Nat /\ MaxLive \in Nat
    /\ InitPages <= MaxPages
    /\ Size \subseteq Nat \ {0} /\ IsFiniteSet(Size)

VARIABLES
    pages,        \* pool->page: ids of pages, from the head of the list
    init,         \* pages of gfs_mem_pool_create, tagged INITIAL
    mem,          \* tags of each page
    block,        \* pool->block[0..7]: lists of free blocks
    large,        \* pool->large: sizes by id
    psize, pused, msize,   \* pool->size, ->used, ->msize
    allsize,      \* gfs_mem_allsize
    live,         \* blocks handed out: address, bytes asked for
    stale,        \* auxiliary: those a request had when its pool was reset
    fate          \* "ok", "exit" (gfs_mem_free saw different tags),
                  \* "undefined" (it followed a word that is no tag)

pool == <<pages, init, mem, block, large, psize, pused, msize>>
vars == <<pool, allsize, live, stale, fate>>

WSIZE == 8
DSIZE == 16
BLOCK_MIN == 3 * DSIZE
PAGESIZE == 4096
MIN_LARGE_SIZE == 3072
PageHead == 32 + DSIZE           \* gfs_mem_page_t and its tags
PoolHead == 32 + 224 + DSIZE     \* gfs_mem_page_t, gfs_mem_pool_t, tags
LargeHead == 32 + DSIZE          \* gfs_mem_large_t, header, pool pointer

Page == 1..MaxPages
Tag == [size : Nat, used : BOOLEAN]
T(n, u) == [size |-> n, used |-> u]
Align(n) == 8 * ((n + 7) \div 8)

------------------------------------------------------------------------------
(* Memory as the macros see it; M is the tags of one page. *)

NextBlk(M, bp) == bp + M[bp - WSIZE].size
PrevBlk(M, bp) == bp - M[bp - DSIZE].size
Ftr(M, bp) == bp + M[bp - WSIZE].size - DSIZE

(* PUT of a word, and of both words of a block. *)
Write(M, a, t) == [x \in DOMAIN M \cup {a} |-> IF x = a THEN t ELSE M[x]]
PutBlk(M, bp, n, u) == Write(Write(M, bp + n - DSIZE, T(n, u)), bp - WSIZE, T(n, u))

(* A page with its two outer tags and a first block of n bytes behind which *)
(* the rest is free.                                                        *)
NewPage(n) ==
    LET M == [a \in {0, PAGESIZE - WSIZE} |-> T(0, TRUE)]
    IN  PutBlk(PutBlk(M, DSIZE, n, TRUE), DSIZE + n, PAGESIZE - DSIZE - n, FALSE)

(* Where the blocks of a page start: behind a footer and a header. *)
Starts(M) ==
    { a + WSIZE : a \in { a \in DOMAIN M : a - WSIZE \in DOMAIN M /\ a + WSIZE < PAGESIZE } }

(* The words of the page once the n bytes from bp on are one block. *)
Whole(M, bp, n) ==
    [a \in { a \in DOMAIN M : a <= bp - WSIZE \/ a >= bp + n - DSIZE } |-> M[a]]

(* Classes up to 32, 64, ..., 2048 bytes, and the rest. *)
Limit == <<32, 64, 128, 256, 512, 1024, 2048>>
getindex(n) == Cardinality({ i \in 1..7 : Limit[i] < n })

Insert(B, i, b) == [B EXCEPT ![i] = <<b>> \o @]
Unlink(B, b) == [i \in 0..7 |-> RemoveFirst(B[i], b)]
InLists(B, b) == \E i \in 0..7 : Contains(B[i], b)

------------------------------------------------------------------------------
(* gfs_mem_pool_create: the pool lives in the first page, which stays at   *)
(* the end of the list.                                                    *)
HeadOf(p) == IF p = 1 THEN PoolHead ELSE PageHead
FreeOf(p) == <<p, DSIZE + HeadOf(p)>>
PageList == [k \in 1..InitPages |-> InitPages + 1 - k]
FreshMem == [p \in Page |-> IF p \in 1..InitPages THEN NewPage(HeadOf(p)) ELSE <<>>]
FreshLists == [i \in 0..7 |-> IF i = 7 THEN [k \in 1..InitPages |-> FreeOf(PageList[k])]
                              ELSE <<>>]
FreshUsed == (PoolHead + DSIZE) + (InitPages - 1) * (PageHead + DSIZE)

MemInit ==
    /\ pages = PageList /\ init = 1..InitPages
    /\ mem = FreshMem /\ block = FreshLists /\ large = <<>>
    /\ psize = PAGESIZE * InitPages /\ pused = FreshUsed /\ msize = 0
    /\ allsize = PAGESIZE * InitPages
    /\ live = {} /\ stale = {} /\ fate = "ok"

pool_create ==
    /\ pages = <<>>
    /\ pages' = PageList /\ init' = 1..InitPages
    /\ mem' = FreshMem /\ block' = FreshLists /\ large' = <<>>
    /\ psize' = PAGESIZE * InitPages /\ pused' = FreshUsed /\ msize' = 0
    /\ allsize' = allsize + PAGESIZE * InitPages
    /\ UNCHANGED <<live, stale, fate>>

------------------------------------------------------------------------------
(* gfs_mem_malloc *)

AsizeTight(n) == IF n <= DSIZE THEN BLOCK_MIN ELSE Align(n) + DSIZE

(* Bytes of the block: the tags, the pool pointer and what was asked for. *)
Asize(n) == IF n <= DSIZE THEN BLOCK_MIN ELSE Align(n) + 2 * DSIZE

(* The first class all of whose blocks are large enough, or the last. *)
FirstClass(a) ==
    LET i == getindex(a) IN IF a > 2^(i + 4) /\ i < 7 THEN i + 1 ELSE i

SizeAt(m, b) == m[b[1]][b[2] - WSIZE].size
Fits(m, B, i, a) == { k \in DOMAIN B[i] : SizeAt(m, B[i][k]) >= a }
find_fit(m, B, i, a) == B[i][Min(Fits(m, B, i, a))]

PlaceAlways(m, B, b, a) ==
    LET c == SizeAt(m, b)
        rest == <<b[1], b[2] + a>>
        M == PutBlk(m[b[1]], b[2], a, TRUE)
    IN  [m |-> [m EXCEPT ![b[1]] = PutBlk(M, rest[2], c - a, FALSE)],
         B |-> Insert(Unlink(B, b), getindex(c - a), rest), took |-> a]

(* gfs_mem_place: block b is taken; what is left becomes a free block if   *)
(* it is not too small for one.                                            *)
Place(m, B, b, a) ==
    LET c == SizeAt(m, b)
        rest == <<b[1], b[2] + a>>
        M == PutBlk(m[b[1]], b[2], a, TRUE)
    IN  IF c - a >= BLOCK_MIN
        THEN [m |-> [m EXCEPT ![b[1]] = PutBlk(M, rest[2], c - a, FALSE)],
              B |-> Insert(Unlink(B, b), getindex(c - a), rest), took |-> a]
        ELSE [m |-> [m EXCEPT ![b[1]] = PutBlk(@, b[2], c, TRUE)],
              B |-> Unlink(B, b), took |-> c]

HandOut(m, B, b, n) ==
    LET r == Place(m, B, b, Asize(n)) IN
    /\ mem' = r.m /\ block' = r.B
    /\ msize' = msize + r.took
    /\ live' = live \cup {[at |-> b, n |-> n]}

May == pages # <<>> /\ stale = {} /\ Cardinality(live) < MaxLive

(* The smallest class with a block that fits. *)
Classes(n) == { i \in FirstClass(Asize(n))..7 : Fits(mem, block, i, Asize(n)) # {} }

mem_malloc(n) ==
    /\ May /\ n <= MIN_LARGE_SIZE /\ Classes(n) # {}
    /\ LET b == find_fit(mem, block, Min(Classes(n)), Asize(n)) IN
       /\ HandOut(mem, block, b, n)
       /\ pused' = pused + Place(mem, block, b, Asize(n)).took
    /\ UNCHANGED <<pages, init, large, psize, allsize, stale, fate>>

(* gfs_mem_extend_pool: as many pages again as the pool was created with.  *)
(* The new block is taken from the last class.                             *)
NewPages == CHOOSE s \in [1..InitPages -> Page \ ToSet(pages)] : IsInjective(s)

malloc_extended(n) ==
    /\ May /\ n <= MIN_LARGE_SIZE /\ Classes(n) = {}
    /\ Len(pages) + InitPages <= MaxPages
    /\ LET new == NewPages
           m == [p \in Page |-> IF p \in ToSet(new) THEN NewPage(PageHead) ELSE mem[p]]
           B == [block EXCEPT ![7] =
                   [k \in 1..InitPages |-> <<new[k], DSIZE + PageHead>>] \o @]
           b == find_fit(m, B, 7, Asize(n))
       IN  /\ pages' = new \o pages
           /\ psize' = psize + PAGESIZE * InitPages
           /\ allsize' = allsize + PAGESIZE * InitPages
           /\ HandOut(m, B, b, n)
           /\ pused' = pused + InitPages * (DSIZE + PageHead) + Place(m, B, b, Asize(n)).took
    /\ UNCHANGED <<init, large, stale, fate>>

(* A block of its own from malloc. *)
LargeSize(n) == Align(n) + LargeHead

malloc_large(n) ==
    /\ May /\ n > MIN_LARGE_SIZE
    /\ LET id == Min(1..MaxLive \ DOMAIN large) IN
       /\ large' = Write(large, id, LargeSize(n))
       /\ live' = live \cup {[at |-> <<0, id>>, n |-> n]}
    /\ pused' = pused + LargeSize(n) /\ msize' = msize + LargeSize(n)
    /\ allsize' = allsize + LargeSize(n)
    /\ UNCHANGED <<pages, init, mem, block, psize, stale, fate>>

------------------------------------------------------------------------------
(* gfs_mem_free *)

(* gfs_mem_coalesce of block bp, which is free already in M.  Neighbours   *)
(* are found through the tags next to it.                                  *)
Reads(M, bp) ==
    LET p == PrevBlk(M, bp)
        nx == NextBlk(M, bp)
    IN  /\ {bp - DSIZE, p - WSIZE, nx - WSIZE} \subseteq DOMAIN M
        /\ Ftr(M, p) \in DOMAIN M
        /\ M[nx - WSIZE].used \/ Ftr(M, nx) \in DOMAIN M

PrevFree(M, bp) == ~M[Ftr(M, PrevBlk(M, bp))].used
NextFree(M, bp) == ~M[NextBlk(M, bp) - WSIZE].used

(* The size of the next block: with a free block in front its footer is    *)
(* read, otherwise its header.                                             *)
NextSize(M, bp) ==
    LET nx == NextBlk(M, bp)
    IN  IF PrevFree(M, bp) THEN M[Ftr(M, nx)].size ELSE M[nx - WSIZE].size

Total(M, bp) ==
    M[bp - WSIZE].size
    + (IF PrevFree(M, bp) THEN M[PrevBlk(M, bp) - WSIZE].size ELSE 0)
    + (IF NextFree(M, bp) THEN NextSize(M, bp) ELSE 0)

MergedOwnFooter(M, bp) ==
    LET at == IF PrevFree(M, bp) THEN PrevBlk(M, bp) ELSE bp
        t == T(Total(M, bp), FALSE)
    IN  [at |-> at, size |-> t.size, M |-> Write(Write(M, Ftr(M, bp), t), at - WSIZE, t)]

(* The block they make: its start, size, and the page. *)
Merged(M, bp) ==
    LET at == IF PrevFree(M, bp) THEN PrevBlk(M, bp) ELSE bp
        last == IF NextFree(M, bp) THEN NextBlk(M, bp) ELSE bp
        t == T(Total(M, bp), FALSE)
    IN  [at |-> at, size |-> t.size, M |-> Write(Write(M, Ftr(M, last), t), at - WSIZE, t)]

(* The free neighbours are taken out of their lists, the next one first. *)
StillLinked(B, p, M, bp) == B
Unlinked(B, p, M, bp) ==
    LET N == IF NextFree(M, bp) THEN Unlink(B, <<p, NextBlk(M, bp)>>) ELSE B
    IN  IF PrevFree(M, bp) THEN Unlink(N, <<p, PrevBlk(M, bp)>>) ELSE N

(* Header and footer must agree; it is the only test of a pointer. *)
Tagged(M, bp) == bp - WSIZE \in DOMAIN M /\ Ftr(M, bp) \in DOMAIN M
Intact(M, bp) == M[bp - WSIZE] = M[Ftr(M, bp)]

Freed(p, bp) ==
    LET own == mem[p][bp - WSIZE].size
        M == PutBlk(mem[p], bp, own, FALSE)
        r == Merged(M, bp)
    IN  /\ mem' = [mem EXCEPT ![p] = IF stale = {} THEN Whole(r.M, r.at, r.size) ELSE r.M]
        /\ block' = Insert(Unlinked(block, p, M, bp), getindex(r.size), <<p, r.at>>)
        /\ pused' = pused - own /\ msize' = msize - own

(* Neighbours that are in no list have links nobody knows. *)
Known(p, bp) ==
    LET M == PutBlk(mem[p], bp, mem[p][bp - WSIZE].size, FALSE)
    IN  /\ Reads(M, bp)
        /\ PrevFree(M, bp) => InLists(block, <<p, PrevBlk(M, bp)>>)
        /\ NextFree(M, bp) => InLists(block, <<p, NextBlk(M, bp)>>)

mem_free(x) ==
    LET p == x.at[1]
        bp == x.at[2] IN
    /\ x \in live /\ p # 0
    /\ Tagged(mem[p], bp) /\ Intact(mem[p], bp) /\ Known(p, bp)
    /\ Freed(p, bp)
    /\ live' = live \ {x}
    /\ UNCHANGED <<pages, init, large, psize, allsize, stale, fate>>

free_large(x) ==
    LET id == x.at[2] IN
    /\ x \in live /\ x.at[1] = 0 /\ id \in DOMAIN large
    /\ pused' = pused - large[id] /\ msize' = msize - large[id]
    /\ allsize' = allsize - large[id]
    /\ large' = [k \in DOMAIN large \ {id} |-> large[k]]
    /\ live' = live \ {x}
    /\ UNCHANGED <<pages, init, mem, block, psize, stale, fate>>

(* What it does with a pointer into a pool that was reset meanwhile. *)
free_astray(x) ==
    LET p == x.at[1]
        bp == x.at[2] IN
    /\ x \in live
    /\ fate' = IF p # 0 /\ Tagged(mem[p], bp) /\ ~Intact(mem[p], bp) THEN "exit"
               ELSE "undefined"
    /\ IF p = 0 THEN bp \notin DOMAIN large
       ELSE ~(Tagged(mem[p], bp) /\ Intact(mem[p], bp) /\ Known(p, bp))
    /\ UNCHANGED <<pool, allsize, live, stale>>

------------------------------------------------------------------------------
(* gfs_mem_pool_reset: pages of gfs_mem_pool_create become empty, others   *)
(* and large blocks are given back.                                        *)
Bytes(f) == MapThenSumSet(LAMBDA k : f[k], DOMAIN f)

(* Pages that were added are all in front of those the pool began with. *)
Added == Cardinality({ k \in DOMAIN pages : pages[k] \notin init })
Kept == SubSeq(pages, Added + 1, Len(pages))

(* The block behind the head of the page becomes free up to its end. *)
EmptyPage(p, forget) ==
    LET at == DSIZE + HeadOf(p)
        M == PutBlk(mem[p], at, PAGESIZE - at, FALSE)
    IN  IF forget THEN Whole(M, at, PAGESIZE - at) ELSE M

ResetPages ==
    /\ pages' = Kept
    /\ mem' = [p \in Page |-> IF p \in init THEN EmptyPage(p, stale' = {}) ELSE <<>>]
    /\ block' = [i \in 0..7 |-> IF i # 7 THEN <<>>
                                ELSE Reverse([k \in DOMAIN Kept |-> FreeOf(Kept[k])])]
    /\ large' = <<>>
    /\ psize' = InitPages * PAGESIZE /\ pused' = FreshUsed /\ msize' = 0
    /\ allsize' = allsize - Bytes(large) - PAGESIZE * Added
    /\ UNCHANGED <<init, fate>>

(* gfs_net_close between two requests: nobody looks at old blocks again. *)
pool_reset ==
    /\ pages # <<>> /\ (stale = {} \/ live = {})
    /\ live' = {} /\ stale' = {}
    /\ ResetPages

(* gfs_net_close inside a request: the answer cannot be sent, so that      *)
(* gfs_handle_tcp_send closes the connection; gfs_busi_destory frees what  *)
(* the request has afterwards.                                             *)
reset_inside ==
    /\ pages # <<>> /\ live # {} /\ stale = {}
    /\ stale' = live /\ UNCHANGED live
    /\ ResetPages

(* gfs_mem_pool_destory *)
pool_destory ==
    /\ pages # <<>> /\ stale = {}
    /\ pages' = <<>> /\ init' = {} /\ mem' = [p \in Page |-> <<>>]
    /\ block' = [i \in 0..7 |-> <<>>] /\ large' = <<>>
    /\ psize' = 0 /\ pused' = 0 /\ msize' = 0
    /\ allsize' = allsize - Bytes(large) - PAGESIZE * Len(pages)
    /\ live' = {}
    /\ UNCHANGED <<stale, fate>>

(* The worker is gone and its parent forks another one. *)
worker_restart ==
    /\ fate # "ok"
    /\ pages' = PageList /\ init' = 1..InitPages
    /\ mem' = FreshMem /\ block' = FreshLists /\ large' = <<>>
    /\ psize' = PAGESIZE * InitPages /\ pused' = FreshUsed /\ msize' = 0
    /\ allsize' = PAGESIZE * InitPages
    /\ live' = {} /\ stale' = {} /\ fate' = "ok"

Next ==
    \/ /\ fate = "ok"
       /\ \/ \E n \in Size : mem_malloc(n) \/ malloc_extended(n) \/ malloc_large(n)
          \/ \E x \in live : mem_free(x) \/ free_large(x) \/ free_astray(x)
          \/ pool_reset \/ reset_inside \/ pool_destory \/ pool_create
    \/ worker_restart

MemSpec == MemInit /\ [][Next]_vars

------------------------------------------------------------------------------
MemTypeOK ==
    /\ pages \in Seq(Page) /\ init \subseteq Page
    /\ \A p \in Page : \A a \in DOMAIN mem[p] : a \in 0..PAGESIZE /\ mem[p][a] \in Tag
    /\ \A i \in 0..7 : \A k \in DOMAIN block[i] : block[i][k] \in Page \X Nat
    /\ DOMAIN block = 0..7 /\ DOMAIN large \subseteq 1..MaxLive
    /\ {psize, pused, msize, allsize} \subseteq Int
    /\ \A x \in live \cup stale : x.n \in Size
    /\ fate \in {"ok", "exit", "undefined"}

Sound == stale = {}

(* The counters are what the pool really has taken and given out, and all  *)
(* of it goes back with the pool.                                          *)
Taken(x) == IF x.at[1] = 0 THEN large[x.at[2]] ELSE SizeAt(mem, x.at)
Accounted ==
    Sound =>
        /\ psize = PAGESIZE * Len(pages)
        /\ allsize = psize + Bytes(large)
        /\ pused = psize + Bytes(large)
                   - Bytes([b \in UNION { ToSet(block[i]) : i \in 0..7 } |-> SizeAt(mem, b)])
        /\ msize = Bytes([x \in live |-> Taken(x)])

(* The blocks of every page fill it without gap or overlap, header and     *)
(* footer of each agree, and no two neighbours are both free, whatever is  *)
(* split and merged in whichever order; the counters of the pool agree.    *)
Tiled ==
    /\ MemTypeOK
    /\ Accounted
    /\ Sound => \A p \in ToSet(pages) :
        LET M == mem[p]
            S == Starts(M)
        IN  /\ DSIZE \in S
            /\ \A b \in S :
                 /\ Tagged(M, b) /\ Intact(M, b) /\ M[b - WSIZE].size >= BLOCK_MIN
                 /\ NextBlk(M, b) \in S \cup {PAGESIZE}
                 /\ \A c \in S : c <= b \/ NextBlk(M, b) <= c
                 /\ NextBlk(M, b) \in S =>
                       M[b - WSIZE].used \/ M[NextBlk(M, b) - WSIZE].used

(* The lists hold every free block once, in the class of its size: none is *)
(* lost and none can be given out twice.                                   *)
ListsExact ==
    Sound =>
        /\ \A p \in ToSet(pages) : \A b \in Starts(mem[p]) :
             ~mem[p][b - WSIZE].used => InLists(block, <<p, b>>)
        /\ \A i \in 0..7 : \A k \in DOMAIN block[i] :
             LET b == block[i][k] IN
             /\ b[1] \in ToSet(pages) /\ b[2] \in Starts(mem[b[1]])
             /\ ~mem[b[1]][b[2] - WSIZE].used
             /\ getindex(SizeAt(mem, b)) = i
        /\ \A i, j \in 0..7 : \A k \in DOMAIN block[i], l \in DOMAIN block[j] :
             block[i][k] = block[j][l] => i = j /\ k = l

(* A block that was handed out is one block, of nobody else, and large     *)
(* enough behind its pool pointer for what was asked for.                  *)
LiveApart ==
    Sound => \A x \in live :
        /\ \A y \in live : x # y => x.at # y.at
        /\ x.at[1] # 0 =>
             /\ x.at[2] \in Starts(mem[x.at[1]]) \ {DSIZE}
             /\ mem[x.at[1]][x.at[2] - WSIZE].used
             /\ x.n <= SizeAt(mem, x.at) - WSIZE - DSIZE

(* gfs_mem_free never meets a block whose header and footer differ, nor a  *)
(* word that is no tag, unless the connection was closed inside a request. *)
NeverCrossed == fate # "ok" => stale # {}
=============================================================================
