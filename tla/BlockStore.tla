----------------------------- MODULE BlockStore -----------------------------
(***************************************************************************)
(* The block store of a data server: BlockFileManager (diskmanager/src/    *)
(* blockfile_manager.cpp), which puts logic blocks <fileid, chunkid> into  *)
(* preallocated block files, and what it leaves on disk: the head of every *)
(* block file, two copies of the bitmap of used files and the super block. *)
(*                                                                         *)
(* Every operation holds rw_lock_, so operations do not interleave; but    *)
(* each is several writes, any of them can fail, and the process can die   *)
(* between two of them or inside one.  A step below is one write.          *)
(* The build has EXTEND_SUPPORT 0: a logic block is one block file.        *)
(***************************************************************************)
EXTENDS Integers, FiniteSets

CONSTANTS Block,    \* logic blocks <fileid, chunkid>
          NoBlock,  \* the head of a block file that was only formatted
          N,        \* super_block_.main_block_count_
          MaxCrash, \* bound: crashes of the process
          MaxFail,  \* bound: writes that fail
          MaxPower  \* bound: power failures

ASSUME StoreAssumption == N \in Nat \ {0} /\ NoBlock \notin Block

Phys == 1 .. N

VARIABLES prefix,   \* BlockPrefix at the head of each block file
          heads,    \* heads a power failure may leave (nothing syncs them)
          bits,     \* the two copies of the normal bitmap on disk (O_SYNC)
          dcount,   \* used_(extend_)block_count_ in the super block on disk
          bitmap,   \* normal_bit_map_
          logic,    \* logic_blocks_: block file of each block, 0 if none
          compact,  \* compact_logic_blocks_
          physical, \* keys of physcial_blocks_
          count,    \* used_(extend_)block_count_ in super_block_
          step,     \* the write that comes next, "idle" or "down"
          op,       \* the operation under way: its block and block file
          acked,    \* auxiliary: what callers were told of each block, the
                    \* block file of a new block, -1 of a deleted one, else 0
          used      \* faults so far (bounded by MaxCrash, MaxFail, MaxPower)

diskVars == <<prefix, heads, bits, dcount>>
memVars == <<bitmap, logic, compact, physical, count>>
storeVars == <<diskVars, memVars, step, op, acked, used>>

Step == {"down", "load", "idle", "newBitmap", "newSuper", "undoBitmap",
         "undoSuper", "delBitmap", "delSuper"}

NoOp == [block |-> NoBlock, phys |-> 1, counted |-> FALSE]

None == [b \in Block |-> 0]

(* One more fault of kind k. *)
Spend(k, max) == used[k] < max /\ used' = [used EXCEPT ![k] = @ + 1]

(* A write_bit_map that fails or is cut off has written none, the first or *)
(* both copies of a bitmap of B.                                           *)
Torn(B) == {bits} \cup {<<b, bits[2]>> : b \in B} \cup {<<b, b>> : b \in B}

(* write_bit_map of bitmap b, ignoring its result. *)
WriteBits(b) ==
    \/ bits' = <<b, b>> /\ UNCHANGED used
    \/ bits' \in Torn({b}) /\ Spend("fail", MaxFail)

-----------------------------------------------------------------------------
(* A formatted disk (format_block_file_system) before the first start. *)
StoreInit ==
    /\ prefix = [p \in Phys |-> NoBlock]
    /\ heads = [p \in Phys |-> {NoBlock}]
    /\ bits = <<{}, {}>>
    /\ dcount = [main |-> 0, ext |-> 0]
    /\ bitmap = {} /\ logic = None /\ compact = None /\ physical = {}
    /\ count = [main |-> 0, ext |-> 0]
    /\ step = "down" /\ op = NoOp
    /\ acked = None
    /\ used = [crash |-> 0, fail |-> 0, power |-> 0]

-----------------------------------------------------------------------------
(* Slips the properties below must notice; no action uses them. *)

(* load_block_file runs one block file too far. *)
Loaded_TooFar ==
    /\ step = "load"
    /\ step' = IF op.phys > N THEN "idle" ELSE "load"
    /\ op' = IF op.phys > N THEN NoOp ELSE [op EXCEPT !.phys = @ + 1]

(* load_block_file leaves out the last block file. *)
Loaded_Short ==
    /\ step = "load"
    /\ step' = IF op.phys >= N - 1 THEN "idle" ELSE "load"
    /\ op' = IF op.phys >= N - 1 THEN NoOp ELSE [op EXCEPT !.phys = @ + 1]

(* del_block forgets to count. *)
DelBitmap_NoCount ==
    /\ step = "delBitmap"
    /\ bits' = <<bitmap, bitmap>>
    /\ step' = "delSuper"
    /\ UNCHANGED <<prefix, heads, dcount, memVars, op, acked, used>>

(* find_avail_block takes the first block file, whatever its bit. *)
Avail_First(p) == p = 1

(* The roll-back forgets the bit in memory. *)
UndoBitmap_KeepBit ==
    /\ step = "undoBitmap"
    /\ WriteBits(bitmap \ {op.phys})
    /\ count' = [count EXCEPT !.ext = IF op.counted THEN @ - 1 ELSE @]
    /\ step' = IF op.counted THEN "undoSuper" ELSE "idle"
    /\ UNCHANGED <<prefix, heads, dcount, bitmap, logic, compact, physical,
                   op, acked>>

-----------------------------------------------------------------------------
(* new_block.  A block that exists, or a full disk, changes nothing.       *)

(* find_avail_block: the first block file whose bit is clear.              *)
Avail(p) ==
    /\ p \in Phys
    /\ p \notin bitmap
    /\ \A q \in 1 .. p - 1 : q \in bitmap

(* The head is written first, then the bit is set in memory. *)
NewBlock(b, p) ==
    /\ step = "idle"
    /\ logic[b] = 0
    /\ Avail(p)
    /\ prefix' = [prefix EXCEPT ![p] = b]
    /\ heads' = [heads EXCEPT ![p] = @ \cup {b}]
    /\ bitmap' = bitmap \cup {p}
    /\ op' = [block |-> b, phys |-> p, counted |-> FALSE]
    /\ step' = "newBitmap"
    /\ acked' = [acked EXCEPT ![b] = 0]
    /\ UNCHANGED <<bits, dcount, logic, compact, physical, count, used>>

(* dump_block_prefix fails, perhaps after it wrote the head. *)
NewBlockFails(b, p) ==
    /\ step = "idle"
    /\ logic[b] = 0
    /\ Avail(p)
    /\ Spend("fail", MaxFail)
    /\ \/ UNCHANGED <<prefix, heads>>
       \/ /\ prefix' = [prefix EXCEPT ![p] = b]
          /\ heads' = [heads EXCEPT ![p] = @ \cup {b}]
    /\ acked' = [acked EXCEPT ![b] = 0]
    /\ UNCHANGED <<bits, dcount, memVars, step, op>>

NewBitmap ==
    /\ step = "newBitmap"
    /\ bits' = <<bitmap, bitmap>>
    /\ count' = [count EXCEPT !.main = @ + 1]
    /\ step' = "newSuper"
    /\ UNCHANGED <<prefix, heads, dcount, bitmap, logic, compact, physical,
                   op, acked, used>>

NewBitmapFails ==
    /\ step = "newBitmap"
    /\ Spend("fail", MaxFail)
    /\ bits' \in Torn({bitmap})
    /\ step' = "undoBitmap"
    /\ UNCHANGED <<prefix, heads, dcount, memVars, op, acked>>

(* The super block is on disk (flush_file has nothing to do on a file      *)
(* opened with O_SYNC); the block enters the maps and the call succeeds.   *)
NewSuper ==
    /\ step = "newSuper"
    /\ dcount' = count
    /\ logic' = [logic EXCEPT ![op.block] = op.phys]
    /\ physical' = physical \cup {op.phys}
    /\ acked' = [acked EXCEPT ![op.block] = op.phys]
    /\ step' = "idle" /\ op' = NoOp
    /\ UNCHANGED <<prefix, heads, bits, bitmap, compact, count, used>>

NewSuperFails ==
    /\ step = "newSuper"
    /\ Spend("fail", MaxFail)
    /\ dcount' \in {dcount, count}
    /\ op' = [op EXCEPT !.counted = TRUE]
    /\ step' = "undoBitmap"
    /\ UNCHANGED <<prefix, heads, bits, memVars, acked>>

(* rollback_superblock, which takes back the other counter.  Its writes    *)
(* may fail too, nobody looks.                                             *)
UndoBitmap ==
    /\ step = "undoBitmap"
    /\ bitmap' = bitmap \ {op.phys}
    /\ WriteBits(bitmap')
    /\ count' = [count EXCEPT !.ext = IF op.counted THEN @ - 1 ELSE @]
    /\ step' = IF op.counted THEN "undoSuper" ELSE "idle"
    /\ UNCHANGED <<prefix, heads, dcount, logic, compact, physical, op, acked>>

UndoSuper ==
    /\ step = "undoSuper"
    /\ \/ dcount' = count /\ UNCHANGED used
       \/ UNCHANGED dcount /\ Spend("fail", MaxFail)
    /\ step' = "idle"
    /\ UNCHANGED <<prefix, heads, bits, memVars, op, acked>>

-----------------------------------------------------------------------------
(* del_block.  The head on disk stays (delete_block_file clears the copy   *)
(* in memory); a bitmap that cannot be written does not bring the block    *)
(* back, and DSMessageProcess reports the deletion whatever the result.    *)

DelBlock(b) ==
    /\ step = "idle"
    /\ logic[b] # 0
    /\ physical' = physical \ {logic[b]}
    /\ bitmap' = bitmap \ {logic[b]}
    /\ logic' = [logic EXCEPT ![b] = 0]
    /\ op' = [block |-> b, phys |-> logic[b], counted |-> FALSE]
    /\ step' = "delBitmap"
    /\ acked' = [acked EXCEPT ![b] = 0]
    /\ UNCHANGED <<diskVars, compact, count, used>>

DelBitmap ==
    /\ step = "delBitmap"
    /\ bits' = <<bitmap, bitmap>>
    /\ count' = [count EXCEPT !.main = @ - 1]
    /\ step' = "delSuper"
    /\ UNCHANGED <<prefix, heads, dcount, bitmap, logic, compact, physical,
                   op, acked, used>>

Deleted ==
    /\ acked' = [acked EXCEPT ![op.block] = -1]
    /\ step' = "idle" /\ op' = NoOp

DelBitmapFails ==
    /\ step = "delBitmap"
    /\ Spend("fail", MaxFail)
    /\ bits' \in Torn({bitmap})
    /\ Deleted
    /\ UNCHANGED <<prefix, heads, dcount, memVars>>

DelSuper ==
    /\ step = "delSuper"
    /\ \/ dcount' = count /\ UNCHANGED used
       \/ UNCHANGED dcount /\ Spend("fail", MaxFail)
    /\ Deleted
    /\ UNCHANGED <<prefix, heads, bits, memVars>>

-----------------------------------------------------------------------------
(* bootstrap: load_super_blk, then load_block_file, one block file a step. *)

(* Two copies of the bitmap that differ keep the server from starting.     *)
Bootstrap ==
    /\ step = "down"
    /\ bits[1] = bits[2]
    /\ bitmap' = bits[1]
    /\ count' = dcount
    /\ op' = NoOp
    /\ step' = "load"
    /\ UNCHANGED <<diskVars, logic, compact, physical, acked, used>>

Loaded ==
    /\ step = "load"
    /\ step' = IF op.phys = N THEN "idle" ELSE "load"
    /\ op' = IF op.phys = N THEN NoOp ELSE [op EXCEPT !.phys = @ + 1]

LoadFree ==
    /\ Loaded
    /\ op.phys \notin bitmap
    /\ UNCHANGED <<diskVars, memVars, acked, used>>

(* A used block file without head: its bit is cleared. *)
LoadEmpty ==
    /\ Loaded
    /\ op.phys \in bitmap
    /\ prefix[op.phys] = NoBlock
    /\ bitmap' = bitmap \ {op.phys}
    /\ WriteBits(bitmap')
    /\ UNCHANGED <<prefix, heads, dcount, logic, compact, physical, count, acked>>

LoadMain(b) ==
    /\ Loaded
    /\ op.phys \in bitmap
    /\ prefix[op.phys] = b
    /\ logic[b] = 0
    /\ logic' = [logic EXCEPT ![b] = op.phys]
    /\ physical' = physical \cup {op.phys}
    /\ UNCHANGED <<diskVars, bitmap, compact, count, acked, used>>

(* A second block file for the same block goes to the compact map. *)
LoadTwin(b) ==
    /\ Loaded
    /\ op.phys \in bitmap
    /\ prefix[op.phys] = b
    /\ logic[b] # 0
    /\ compact[b] = 0
    /\ compact' = [compact EXCEPT ![b] = op.phys]
    /\ physical' = physical \cup {op.phys}
    /\ UNCHANGED <<diskVars, bitmap, logic, count, acked, used>>

(* With a third one the second is deleted first (del_block). *)
Triplet(b) ==
    /\ op.phys \in bitmap
    /\ prefix[op.phys] = b
    /\ logic[b] # 0
    /\ compact[b] # 0

LoadTriplet(b) ==
    /\ Loaded
    /\ Triplet(b)
    /\ bitmap' = bitmap \ {compact[b]}
    /\ bits' = <<bitmap', bitmap'>>
    /\ count' = [count EXCEPT !.main = @ - 1]
    /\ dcount' = count'
    /\ compact' = [compact EXCEPT ![b] = op.phys]
    /\ physical' = (physical \ {compact[b]}) \cup {op.phys}
    /\ UNCHANGED <<prefix, heads, logic, acked, used>>

-----------------------------------------------------------------------------
(* The process ends and its memory is gone.                                *)
Forget ==
    /\ bitmap' = {} /\ logic' = None /\ compact' = None /\ physical' = {}
    /\ count' = [main |-> 0, ext |-> 0]
    /\ step' = "down" /\ op' = NoOp
    /\ UNCHANGED acked

(* The bitmap that is being written. *)
Pending ==
    CASE step \in {"newBitmap", "delBitmap"} -> {bitmap}
      [] step = "undoBitmap" -> {bitmap \ {op.phys}}
      [] step = "load" /\ op.phys \in bitmap /\ prefix[op.phys] = NoBlock
           -> {bitmap \ {op.phys}}
      [] step = "load" /\ \E b \in Block : Triplet(b)
           -> {bitmap \ {compact[b]} : b \in {c \in Block : Triplet(c)}}
      [] OTHER -> {}

CutOff ==
    /\ step # "down"
    /\ bits' \in Torn(Pending)
    /\ dcount' \in {dcount} \cup IF step \in {"newSuper", "undoSuper", "delSuper"}
                                 THEN {count} ELSE {}
    /\ Forget

(* The process dies, by a signal, an exit, or a load_block_file that gave  *)
(* up; what it wrote stays.                                                *)
Crash ==
    /\ Spend("crash", MaxCrash)
    /\ CutOff
    /\ UNCHANGED <<prefix, heads>>

(* The machine dies: heads that were not written back are lost. *)
PowerLoss ==
    /\ Spend("power", MaxPower)
    /\ CutOff
    /\ prefix' \in [Phys -> Block \cup {NoBlock}]
    /\ \A p \in Phys : prefix'[p] \in heads[p]
    /\ heads' = [p \in Phys |-> {prefix'[p]}]

-----------------------------------------------------------------------------
Write ==
    \/ \E b \in Block, p \in Phys : NewBlock(b, p)
    \/ NewBitmap \/ NewSuper
    \/ \E b \in Block : DelBlock(b)
    \/ DelBitmap \/ DelSuper

Load ==
    \/ Bootstrap \/ LoadFree \/ LoadEmpty
    \/ \E b \in Block : LoadMain(b) \/ LoadTwin(b) \/ LoadTriplet(b)

Fails ==
    \/ \E b \in Block, p \in Phys : NewBlockFails(b, p)
    \/ NewBitmapFails \/ NewSuperFails \/ UndoBitmap \/ UndoSuper
    \/ DelBitmapFails

StoreNext == Write \/ Load \/ Fails \/ Crash \/ PowerLoss

StoreSpec == StoreInit /\ [][StoreNext]_storeVars

-----------------------------------------------------------------------------
(* Types; block files are numbered from 1. *)
StoreTypeOK ==
    /\ prefix \in [Phys -> Block \cup {NoBlock}]
    /\ heads \in [Phys -> SUBSET (Block \cup {NoBlock})]
    /\ bits \in (SUBSET Phys) \X (SUBSET Phys)
    /\ dcount \in [main : Int, ext : Int]
    /\ bitmap \subseteq Phys
    /\ logic \in [Block -> 0 .. N]
    /\ compact \in [Block -> 0 .. N]
    /\ physical \subseteq Phys
    /\ count \in [main : Int, ext : Int]
    /\ step \in Step
    /\ op \in [block : Block \cup {NoBlock}, phys : Phys, counted : BOOLEAN]
    /\ acked \in [Block -> -1 .. N]
    /\ used \in [{"crash", "fail", "power"} -> Nat]

(* The block files that some logic block owns. *)
Owned == {p \in Phys : \E b \in Block : logic[b] = p \/ compact[b] = p}

(* No block file has two owners, because its head names its owner. *)
HeadsNameOwners ==
    \A b \in Block :
        /\ logic[b] # 0 => prefix[logic[b]] = b
        /\ compact[b] # 0 => prefix[compact[b]] = b /\ compact[b] # logic[b]

(* While nobody holds the lock, bitmap, physical map and logic maps tell   *)
(* the same story, whatever crashes, failed writes and power failures the  *)
(* store went through: a set bit is a block file that exactly one logic    *)
(* block owns and whose head names that block.  new_block and del_block    *)
(* assert(false) otherwise ("bitmap and physical blocks conflict").        *)
MapsAgree ==
    step = "idle" =>
        /\ bitmap = physical
        /\ physical = Owned
        /\ HeadsNameOwners

(* What a caller was told stays true over restarts: a block that new_block *)
(* created is found in the same block file, and one that was deleted does  *)
(* not come back, until the next call about it.                            *)
Acknowledged ==
    step \notin {"down", "load"} =>
        \A b \in Block : /\ acked[b] > 0 => logic[b] = acked[b]
                         /\ acked[b] = -1 => logic[b] = 0

(* used_block_count_, from which the space reported to the name service is *)
(* computed, is the number of used block files up to one for every crash:  *)
(* bitmap and super block are two writes and bootstrap does not compare    *)
(* them.                                                                   *)
CountDrift ==
    step = "idle" => LET drift == count.main - Cardinality(physical)
                     IN  drift =< used["crash"] /\ -drift =< used["crash"]

-----------------------------------------------------------------------------
(* The inductive invariant behind MapsAgree: the maps agree at every step  *)
(* of every operation, up to the block file that is being worked on.       *)
StoreInv ==
    /\ StoreTypeOK
    /\ physical = Owned
    /\ HeadsNameOwners
    /\ step = "down" => physical = {}
    /\ step = "load" => physical = {p \in bitmap : p < op.phys}
    /\ step \in {"idle", "undoSuper", "delBitmap", "delSuper"} => bitmap = physical
    /\ step \in {"newBitmap", "newSuper", "undoBitmap"} =>
         /\ op.phys \notin physical
         /\ bitmap = physical \cup {op.phys}
         /\ op.block \in Block
         /\ logic[op.block] = 0
         /\ prefix[op.phys] = op.block
    /\ step \in {"delBitmap", "delSuper"} => op.block \in Block

(* Each copy of the bitmap on disk selects block files of different        *)
(* blocks, all that were acknowledged and none of the deleted ones.        *)
DiskSound(S) ==
    /\ \A p \in S : prefix[p] # NoBlock
    /\ \A p, q \in S : prefix[p] = prefix[q] => p = q
    /\ \A b \in Block : acked[b] > 0 => acked[b] \in S /\ prefix[acked[b]] = b
    /\ \A b \in Block : acked[b] = -1 => \A p \in S : prefix[p] # b

(* The inductive invariant behind Acknowledged, without failing writes and *)
(* power failures: between two writes the disk is at most one block behind *)
(* the memory, and that block is one nobody was told about.                *)
DurableInv ==
    /\ StoreInv
    /\ DiskSound(bits[1])
    /\ DiskSound(bits[2])
    /\ compact = None
    /\ step \notin {"undoBitmap", "undoSuper"}
    /\ step # "down" => bits[1] = bits[2]
    /\ step \in {"idle", "newBitmap", "delSuper"} => bits[1] = physical
    /\ step \in {"load", "newSuper"} => bits[1] = bitmap
    /\ step = "delBitmap" =>
         /\ bits[1] = physical \cup {op.phys}
         /\ prefix[op.phys] = op.block
    /\ step \in {"delBitmap", "delSuper"} => logic[op.block] = 0
    /\ step \notin {"down", "load", "idle"} => acked[op.block] = 0

-----------------------------------------------------------------------------
(* The store as its callers see it: a block is stored from the moment its   *)
(* bit is in the first copy of the bitmap on disk.                          *)
Stored == {prefix[p] : p \in bits[1]}

Phase == CASE step = "newBitmap" -> "new"
           [] step = "newSuper" -> "newDone"
           [] step = "delBitmap" -> "del"
           [] step = "delSuper" -> "delDone"
           [] step \in {"down", "load"} -> "down"
           [] OTHER -> "idle"

Called == IF Phase \in {"down", "idle"} THEN NoBlock ELSE op.block

Told == [b \in Block |-> IF acked[b] > 0 THEN "there"
                         ELSE IF acked[b] = -1 THEN "gone" ELSE "unknown"]

Promise == INSTANCE DurableBlocks
             WITH stored <- Stored, phase <- Phase, block <- Called, told <- Told

(* While no write fails, the store keeps the promise of DurableBlocks: each *)
(* new_block and del_block takes effect at once, wherever the process dies  *)
(* between its writes or inside one, and a restart changes nothing.         *)
StoreKeepsPromise == Promise!Spec
=============================================================================
