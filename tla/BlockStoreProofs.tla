-------------------------- MODULE BlockStoreProofs --------------------------
(***************************************************************************)
(* Proofs about BlockStore for any set of blocks, any number of block      *)
(* files and any number of faults.                                         *)
(***************************************************************************)
EXTENDS BlockStore, FiniteSetTheorems, TLAPS

(* What write_bit_map may leave on disk is a pair of bitmaps. *)
LEMMA TornType ==
    ASSUME StoreTypeOK, NEW B \in SUBSET SUBSET Phys, NEW t \in Torn(B)
    PROVE  t \in (SUBSET Phys) \X (SUBSET Phys)
  BY DEF StoreTypeOK, Torn

(* A fault is counted and leaves the type of the counters alone. *)
LEMMA SpendType ==
    ASSUME StoreTypeOK, NEW k \in {"crash", "fail", "power"}, NEW max,
           Spend(k, max)
    PROVE  used' \in [{"crash", "fail", "power"} -> Nat]
  BY DEF StoreTypeOK, Spend

(* The bitmaps under way are bitmaps. *)
LEMMA PendingType ==
    ASSUME StoreTypeOK PROVE Pending \in SUBSET SUBSET Phys
  BY DEF StoreTypeOK, Pending, Step

(* WriteBits, whether it fails or not. *)
LEMMA WriteBitsType ==
    ASSUME StoreTypeOK, NEW b \in SUBSET Phys, WriteBits(b)
    PROVE  /\ bits' \in (SUBSET Phys) \X (SUBSET Phys)
           /\ used' \in [{"crash", "fail", "power"} -> Nat]
  <1>1. CASE bits' = <<b, b>> /\ UNCHANGED used
    BY <1>1 DEF StoreTypeOK
  <1>2. CASE bits' \in Torn({b}) /\ Spend("fail", MaxFail)
    BY <1>2, TornType, SpendType
  <1>3. QED
    BY <1>1, <1>2 DEF WriteBits

(* Numbers of block files in the maps and in acked. *)
LEMMA PhysRange ==
    /\ Phys \subseteq 0 .. N
    /\ Phys \subseteq -1 .. N
    /\ 0 \in 0 .. N /\ 0 \in -1 .. N /\ -1 \in -1 .. N
    /\ 0 \notin Phys
  BY StoreAssumption DEF Phys

(* A map entry that is not 0 is the number of a block file. *)
LEMMA EntryRange ==
    ASSUME StoreTypeOK, NEW c \in Block
    PROVE  /\ logic[c] # 0 => logic[c] \in Phys
           /\ compact[c] # 0 => compact[c] \in Phys
           /\ acked[c] > 0 => acked[c] \in Phys
  <1>1. /\ logic[c] \in 0 .. N /\ compact[c] \in 0 .. N /\ acked[c] \in -1 .. N
    BY DEF StoreTypeOK
  <1>2. /\ \A x \in 0 .. N : x # 0 => x \in Phys
        /\ \A x \in -1 .. N : x > 0 => x \in Phys
    BY StoreAssumption DEF Phys
  <1>3. QED
    BY <1>1, <1>2

(* The initial state. *)
LEMMA InitStore == StoreInit => StoreInv
  BY StoreAssumption
  DEF StoreInit, StoreInv, StoreTypeOK, Owned, HeadsNameOwners, None, NoOp,
      Phys, Step

(* Every step keeps the types. *)
LEMMA TypeStep ==
    ASSUME StoreTypeOK, StoreNext PROVE StoreTypeOK'
  <1> USE StoreAssumption, PhysRange
  <1>0. NoOp \in [block : Block \cup {NoBlock}, phys : Phys, counted : BOOLEAN]
    BY DEF NoOp, Phys
  <1>1. ASSUME NEW b \in Block, NEW p \in Phys, NewBlock(b, p)
        PROVE  StoreTypeOK'
    BY <1>1 DEF NewBlock, StoreTypeOK, Step
  <1>2. ASSUME NEW b \in Block, NEW p \in Phys, NewBlockFails(b, p)
        PROVE  StoreTypeOK'
    BY <1>2, SpendType DEF NewBlockFails, StoreTypeOK, Step, memVars
  <1>3. CASE NewBitmap
    BY <1>3 DEF NewBitmap, StoreTypeOK, Step
  <1>4. CASE NewBitmapFails
    <2>1. bits' \in (SUBSET Phys) \X (SUBSET Phys)
      BY <1>4, TornType DEF NewBitmapFails, StoreTypeOK
    <2>2. QED
      BY <1>4, <2>1, SpendType DEF NewBitmapFails, StoreTypeOK, Step, memVars
  <1>5. CASE NewSuper
    BY <1>0, <1>5 DEF NewSuper, StoreTypeOK, Step
  <1>6. CASE NewSuperFails
    BY <1>6, SpendType DEF NewSuperFails, StoreTypeOK, Step, memVars
  <1>7. CASE UndoBitmap
    <2>1. bitmap' \in SUBSET Phys
      BY <1>7 DEF UndoBitmap, StoreTypeOK
    <2>2. /\ bits' \in (SUBSET Phys) \X (SUBSET Phys)
          /\ used' \in [{"crash", "fail", "power"} -> Nat]
      BY <1>7, <2>1, WriteBitsType DEF UndoBitmap
    <2>3. QED
      BY <1>7, <2>1, <2>2 DEF UndoBitmap, StoreTypeOK, Step
  <1>8. CASE UndoSuper
    BY <1>8, SpendType DEF UndoSuper, StoreTypeOK, Step, memVars
  <1>9. ASSUME NEW b \in Block, DelBlock(b) PROVE StoreTypeOK'
    <2>1. logic[b] \in Phys
      BY <1>9 DEF DelBlock, StoreTypeOK, Phys
    <2>2. QED
      BY <1>9, <2>1 DEF DelBlock, StoreTypeOK, Step, diskVars
  <1>10. CASE DelBitmap
    BY <1>10 DEF DelBitmap, StoreTypeOK, Step
  <1>11. CASE DelBitmapFails
    <2>1. bits' \in (SUBSET Phys) \X (SUBSET Phys)
      BY <1>11, TornType DEF DelBitmapFails, StoreTypeOK
    <2>2. QED
      BY <1>0, <1>11, <2>1, SpendType
      DEF DelBitmapFails, Deleted, StoreTypeOK, Step, memVars
  <1>12. CASE DelSuper
    BY <1>0, <1>12, SpendType DEF DelSuper, Deleted, StoreTypeOK, Step, memVars
  <1>13. CASE Bootstrap
    BY <1>0, <1>13 DEF Bootstrap, StoreTypeOK, Step, diskVars
  <1>14. ASSUME Loaded
         PROVE  /\ step' \in Step
                /\ op' \in [block : Block \cup {NoBlock}, phys : Phys,
                            counted : BOOLEAN]
    <2>1. CASE op.phys = N
      BY <1>0, <1>14, <2>1 DEF Loaded, Step
    <2>2. CASE op.phys # N
      <3>1. op.phys + 1 \in Phys
        BY <2>2 DEF StoreTypeOK, Phys
      <3>2. QED
        BY <1>14, <2>2, <3>1 DEF Loaded, StoreTypeOK, Step
    <2>3. QED
      BY <2>1, <2>2
  <1>15. CASE LoadFree
    BY <1>14, <1>15 DEF LoadFree, StoreTypeOK, diskVars, memVars
  <1>16. CASE LoadEmpty
    <2>1. bitmap' \in SUBSET Phys
      BY <1>16 DEF LoadEmpty, StoreTypeOK
    <2>2. /\ bits' \in (SUBSET Phys) \X (SUBSET Phys)
          /\ used' \in [{"crash", "fail", "power"} -> Nat]
      BY <1>16, <2>1, WriteBitsType DEF LoadEmpty
    <2>3. QED
      BY <1>14, <1>16, <2>1, <2>2 DEF LoadEmpty, StoreTypeOK
  <1>17. ASSUME NEW b \in Block, LoadMain(b) PROVE StoreTypeOK'
    BY <1>14, <1>17 DEF LoadMain, StoreTypeOK, diskVars
  <1>18. ASSUME NEW b \in Block, LoadTwin(b) PROVE StoreTypeOK'
    BY <1>14, <1>18 DEF LoadTwin, StoreTypeOK, diskVars
  <1>19. ASSUME NEW b \in Block, LoadTriplet(b) PROVE StoreTypeOK'
    BY <1>14, <1>19 DEF LoadTriplet, StoreTypeOK
  <1>20. ASSUME CutOff
         PROVE  /\ bits' \in (SUBSET Phys) \X (SUBSET Phys)
                /\ dcount' \in [main : Int, ext : Int]
                /\ bitmap' = {} /\ logic' = None /\ compact' = None
                /\ physical' = {} /\ count' = [main |-> 0, ext |-> 0]
                /\ step' = "down" /\ op' = NoOp /\ acked' = acked
    <2>1. bits' \in (SUBSET Phys) \X (SUBSET Phys)
      BY <1>20, PendingType, TornType DEF CutOff
    <2>2. dcount' \in {dcount, count}
      BY <1>20 DEF CutOff
    <2>3. QED
      BY <1>20, <2>1, <2>2 DEF CutOff, Forget, StoreTypeOK
  <1>21. None \in [Block -> 0 .. N]
    BY DEF None
  <1>22. CASE Crash
    BY <1>0, <1>20, <1>21, <1>22, SpendType DEF Crash, StoreTypeOK, Step
  <1>23. CASE PowerLoss
    BY <1>0, <1>20, <1>21, <1>23, SpendType DEF PowerLoss, StoreTypeOK, Step
  <1>24. QED
    BY <1>1, <1>2, <1>3, <1>4, <1>5, <1>6, <1>7, <1>8, <1>9, <1>10, <1>11,
       <1>12, <1>13, <1>15, <1>16, <1>17, <1>18, <1>19, <1>22, <1>23
    DEF StoreNext, Write, Load, Fails

(* What a step of load_block_file does to the scanned part P of a set of   *)
(* block files: it becomes the part before the next file, or all of it.    *)
LEMMA LoadedStep ==
    ASSUME StoreTypeOK, Loaded,
           NEW S, S \subseteq Phys, NEW P,
           P = {p \in S : p =< op.phys}
    PROVE  /\ step' \in {"load", "idle"}
           /\ step' = "load" => P = {p \in S : p < op'.phys}
           /\ step' = "idle" => P = S
  <1>1. op.phys \in 1 .. N /\ N \in Nat
    BY StoreAssumption DEF StoreTypeOK, Phys
  <1>2. CASE op.phys = N
    BY <1>1, <1>2 DEF Loaded, Phys
  <1>3. CASE op.phys # N
    <2>1. step' = "load" /\ op'.phys = op.phys + 1
      BY <1>3 DEF Loaded, StoreTypeOK
    <2>2. \A p \in Phys : p =< op.phys <=> p < op'.phys
      BY <1>1, <2>1 DEF Phys
    <2>3. QED
      BY <2>1, <2>2
  <1>4. QED
    BY <1>2, <1>3

(* Every step keeps the maps in agreement. *)
LEMMA StoreStep ==
    ASSUME StoreInv, StoreNext PROVE StoreInv'
  <1> USE StoreAssumption, PhysRange
  <1>0. StoreTypeOK /\ StoreTypeOK'
    BY TypeStep DEF StoreInv
  <1>1. ASSUME NEW b \in Block, NEW p \in Phys, NewBlock(b, p)
        PROVE  StoreInv'
    <2>1. p \notin physical
      BY <1>1 DEF NewBlock, Avail, StoreInv
    <2>2. \A c \in Block : logic[c] # p /\ compact[c] # p
      BY <2>1 DEF StoreInv, Owned
    <2>3. HeadsNameOwners'
      BY <1>0, <1>1, <2>2 DEF NewBlock, StoreInv, HeadsNameOwners, StoreTypeOK
    <2>4. QED
      BY <1>0, <1>1, <2>1, <2>3 DEF NewBlock, StoreInv, Owned, StoreTypeOK
  <1>2. ASSUME NEW b \in Block, NEW p \in Phys, NewBlockFails(b, p)
        PROVE  StoreInv'
    <2>1. p \notin physical
      BY <1>2 DEF NewBlockFails, Avail, StoreInv
    <2>2. \A c \in Block : logic[c] # p /\ compact[c] # p
      BY <2>1 DEF StoreInv, Owned
    <2>3. HeadsNameOwners'
      <3>1. UNCHANGED <<logic, compact>>
        BY <1>2 DEF NewBlockFails, memVars
      <3>2. \A q \in Phys : q # p => prefix'[q] = prefix[q]
        BY <1>0, <1>2 DEF NewBlockFails, StoreTypeOK
      <3>3. \A c \in Block : /\ logic[c] # 0 => logic[c] \in Phys
                             /\ compact[c] # 0 => compact[c] \in Phys
        BY <1>0, EntryRange
      <3>4. QED
        <4>1. HeadsNameOwners
          BY DEF StoreInv
        <4>2. ASSUME NEW c \in Block
              PROVE  /\ logic[c] # 0 => prefix'[logic[c]] = c
                     /\ compact[c] # 0 => /\ prefix'[compact[c]] = c
                                          /\ compact[c] # logic[c]
          BY <2>2, <3>2, <3>3, <4>1 DEF HeadsNameOwners
        <4>3. QED
          BY <3>1, <4>2 DEF HeadsNameOwners
    <2>4. QED
      BY <1>0, <1>2, <2>3 DEF NewBlockFails, StoreInv, Owned, memVars
  <1>3. CASE NewBitmap
    BY <1>0, <1>3 DEF NewBitmap, StoreInv, Owned, HeadsNameOwners
  <1>4. CASE NewBitmapFails
    BY <1>0, <1>4 DEF NewBitmapFails, StoreInv, Owned, HeadsNameOwners, memVars
  <1>5. CASE NewSuper
    <2>1. /\ op.block \in Block /\ op.phys \in Phys
          /\ op.phys \notin physical /\ logic[op.block] = 0
          /\ prefix[op.phys] = op.block
          /\ bitmap = physical \cup {op.phys}
      BY <1>0, <1>5 DEF NewSuper, StoreInv, StoreTypeOK
    <2>2. \A c \in Block : logic[c] # op.phys /\ compact[c] # op.phys
      BY <2>1 DEF StoreInv, Owned
    <2>3. logic' = [logic EXCEPT ![op.block] = op.phys] /\ UNCHANGED <<compact, prefix>>
      BY <1>5 DEF NewSuper
    <2>4. HeadsNameOwners'
      BY <1>0, <2>1, <2>2, <2>3 DEF StoreInv, HeadsNameOwners, StoreTypeOK
    <2>5. Owned' = Owned \cup {op.phys}
      BY <1>0, <2>1, <2>3 DEF Owned, StoreTypeOK
    <2>6. QED
      BY <1>0, <1>5, <2>1, <2>4, <2>5 DEF NewSuper, StoreInv
  <1>6. CASE NewSuperFails
    BY <1>0, <1>6
    DEF NewSuperFails, StoreInv, Owned, HeadsNameOwners, memVars, StoreTypeOK
  <1>7. CASE UndoBitmap
    BY <1>0, <1>7 DEF UndoBitmap, StoreInv, Owned, HeadsNameOwners
  <1>8. CASE UndoSuper
    BY <1>0, <1>8 DEF UndoSuper, StoreInv, Owned, HeadsNameOwners, memVars
  <1>9. ASSUME NEW b \in Block, DelBlock(b) PROVE StoreInv'
    <2>1. logic[b] \in Phys
      BY <1>0, <1>9 DEF DelBlock, StoreTypeOK, Phys
    <2>2. logic' = [logic EXCEPT ![b] = 0] /\ UNCHANGED <<compact, prefix>>
      BY <1>9 DEF DelBlock, diskVars
    <2>3. HeadsNameOwners'
      BY <1>0, <2>2 DEF StoreInv, HeadsNameOwners, StoreTypeOK
    <2>4. \A c \in Block : (logic[c] = logic[b] => c = b) /\ compact[c] # logic[b]
      BY <1>0, <2>1 DEF StoreInv, HeadsNameOwners, StoreTypeOK
    <2>5. Owned' = Owned \ {logic[b]}
      BY <1>0, <2>1, <2>2, <2>4 DEF Owned, StoreTypeOK
    <2>6. QED
      BY <1>0, <1>9, <2>3, <2>5 DEF DelBlock, StoreInv
  <1>10. CASE DelBitmap
    BY <1>0, <1>10 DEF DelBitmap, StoreInv, Owned, HeadsNameOwners
  <1>11. CASE DelBitmapFails
    BY <1>0, <1>11
    DEF DelBitmapFails, Deleted, StoreInv, Owned, HeadsNameOwners, memVars
  <1>12. CASE DelSuper
    BY <1>0, <1>12
    DEF DelSuper, Deleted, StoreInv, Owned, HeadsNameOwners, memVars
  <1>13. CASE Bootstrap
    <2>1. {p \in bitmap' : p < op'.phys} = {}
      BY <1>0, <1>13 DEF Bootstrap, NoOp, StoreTypeOK, Phys
    <2>2. QED
      BY <1>0, <1>13, <2>1
      DEF Bootstrap, StoreInv, Owned, HeadsNameOwners, diskVars
  <1>14. ASSUME Loaded
         PROVE  /\ physical = {p \in bitmap : p < op.phys}
                /\ op.phys \in Phys /\ op.phys \notin physical
                /\ physical \subseteq bitmap
                /\ \A p \in bitmap : p =< op.phys <=> p \in physical \/ p = op.phys
    <2>1. physical = {p \in bitmap : p < op.phys} /\ op.phys \in Phys
      BY <1>0, <1>14 DEF Loaded, StoreInv, StoreTypeOK
    <2>2. \A p \in Phys : /\ p =< op.phys <=> p < op.phys \/ p = op.phys
                          /\ ~(p < p)
      BY <2>1 DEF Phys
    <2>3. bitmap \subseteq Phys
      BY <1>0 DEF StoreTypeOK
    <2>4. QED
      BY <2>1, <2>2, <2>3
  <1>15. CASE LoadFree
    <2>1. physical = {p \in bitmap : p =< op.phys}
      BY <1>0, <1>14, <1>15 DEF LoadFree, StoreTypeOK
    <2>2. Loaded /\ UNCHANGED <<bitmap, physical, logic, compact, prefix>>
      BY <1>15 DEF LoadFree, diskVars, memVars
    <2>3. /\ step' \in {"load", "idle"}
          /\ step' = "load" => physical = {p \in bitmap : p < op'.phys}
          /\ step' = "idle" => physical = bitmap
      BY <1>0, <2>1, <2>2, LoadedStep DEF StoreTypeOK
    <2>4. QED
      BY <1>0, <2>2, <2>3 DEF StoreInv, Owned, HeadsNameOwners
  <1>16. CASE LoadEmpty
    <2>1. Loaded /\ bitmap' = bitmap \ {op.phys}
          /\ UNCHANGED <<physical, logic, compact, prefix>>
      BY <1>16 DEF LoadEmpty
    <2>2. physical = {p \in bitmap' : p =< op.phys}
      BY <1>0, <1>14, <2>1 DEF StoreTypeOK
    <2>3. /\ step' \in {"load", "idle"}
          /\ step' = "load" => physical = {p \in bitmap' : p < op'.phys}
          /\ step' = "idle" => physical = bitmap'
      BY <1>0, <2>1, <2>2, LoadedStep DEF StoreTypeOK
    <2>4. QED
      BY <1>0, <2>1, <2>3 DEF StoreInv, Owned, HeadsNameOwners
  <1>17. ASSUME NEW b \in Block, LoadMain(b) PROVE StoreInv'
    <2>1. /\ Loaded /\ op.phys \in bitmap /\ prefix[op.phys] = b /\ logic[b] = 0
          /\ logic' = [logic EXCEPT ![b] = op.phys]
          /\ physical' = physical \cup {op.phys}
          /\ UNCHANGED <<bitmap, compact, prefix>>
      BY <1>17 DEF LoadMain, diskVars
    <2>2. physical' = {p \in bitmap : p =< op.phys}
      <3>1. /\ physical \subseteq bitmap
            /\ \A p \in bitmap : p =< op.phys <=> p \in physical \/ p = op.phys
        BY <1>14, <2>1
      <3>2. op.phys \in bitmap /\ physical' = physical \cup {op.phys}
        BY <2>1
      <3>3. QED
        BY <3>1, <3>2
    <2>3. /\ step' \in {"load", "idle"}
          /\ step' = "load" => physical' = {p \in bitmap : p < op'.phys}
          /\ step' = "idle" => physical' = bitmap
      BY <1>0, <2>1, <2>2, LoadedStep DEF StoreTypeOK
    <2>4. \A c \in Block : logic[c] # op.phys /\ compact[c] # op.phys
      BY <1>14, <2>1 DEF StoreInv, Owned
    <2>5. HeadsNameOwners'
      BY <1>0, <1>14, <2>1, <2>4 DEF StoreInv, HeadsNameOwners, StoreTypeOK
    <2>6. Owned' = Owned \cup {op.phys}
      BY <1>0, <1>14, <2>1 DEF Owned, StoreTypeOK
    <2>7. QED
      BY <1>0, <2>1, <2>3, <2>5, <2>6 DEF StoreInv
  <1>18. ASSUME NEW b \in Block, LoadTwin(b) PROVE StoreInv'
    <2>1. /\ Loaded /\ op.phys \in bitmap /\ prefix[op.phys] = b /\ compact[b] = 0
          /\ compact' = [compact EXCEPT ![b] = op.phys]
          /\ physical' = physical \cup {op.phys}
          /\ UNCHANGED <<bitmap, logic, prefix>>
      BY <1>18 DEF LoadTwin, diskVars
    <2>2. physical' = {p \in bitmap : p =< op.phys}
      <3>1. /\ physical \subseteq bitmap
            /\ \A p \in bitmap : p =< op.phys <=> p \in physical \/ p = op.phys
        BY <1>14, <2>1
      <3>2. op.phys \in bitmap /\ physical' = physical \cup {op.phys}
        BY <2>1
      <3>3. QED
        BY <3>1, <3>2
    <2>3. /\ step' \in {"load", "idle"}
          /\ step' = "load" => physical' = {p \in bitmap : p < op'.phys}
          /\ step' = "idle" => physical' = bitmap
      BY <1>0, <2>1, <2>2, LoadedStep DEF StoreTypeOK
    <2>4. \A c \in Block : logic[c] # op.phys /\ compact[c] # op.phys
      BY <1>14, <2>1 DEF StoreInv, Owned
    <2>5. HeadsNameOwners'
      BY <1>0, <1>14, <2>1, <2>4 DEF StoreInv, HeadsNameOwners, StoreTypeOK
    <2>6. Owned' = Owned \cup {op.phys}
      BY <1>0, <1>14, <2>1 DEF Owned, StoreTypeOK
    <2>7. QED
      BY <1>0, <2>1, <2>3, <2>5, <2>6 DEF StoreInv
  <1>19. ASSUME NEW b \in Block, LoadTriplet(b) PROVE StoreInv'
    <2>1. /\ Loaded /\ op.phys \in bitmap /\ prefix[op.phys] = b /\ compact[b] # 0
          /\ compact' = [compact EXCEPT ![b] = op.phys]
          /\ bitmap' = bitmap \ {compact[b]}
          /\ physical' = (physical \ {compact[b]}) \cup {op.phys}
          /\ UNCHANGED <<logic, prefix>>
      BY <1>19 DEF LoadTriplet, Triplet
    <2>2. \A c \in Block : logic[c] # op.phys /\ compact[c] # op.phys
      BY <1>14, <2>1 DEF StoreInv, Owned
    <2>3. physical' = {p \in bitmap' : p =< op.phys}
      <3>1. /\ physical \subseteq bitmap
            /\ \A p \in bitmap : p =< op.phys <=> p \in physical \/ p = op.phys
        BY <1>14, <2>1
      <3>2. /\ op.phys \in bitmap /\ op.phys # compact[b]
            /\ bitmap' = bitmap \ {compact[b]}
            /\ physical' = (physical \ {compact[b]}) \cup {op.phys}
        BY <2>1, <2>2
      <3>3. QED
        BY <3>1, <3>2
    <2>4. /\ step' \in {"load", "idle"}
          /\ step' = "load" => physical' = {p \in bitmap' : p < op'.phys}
          /\ step' = "idle" => physical' = bitmap'
      BY <1>0, <2>1, <2>3, LoadedStep DEF StoreTypeOK
    <2>5. HeadsNameOwners'
      BY <1>0, <1>14, <2>1, <2>2 DEF StoreInv, HeadsNameOwners, StoreTypeOK
    <2>6. \A c \in Block : (compact[c] = compact[b] => c = b) /\ logic[c] # compact[b]
      BY <1>0, <2>1 DEF StoreInv, HeadsNameOwners, StoreTypeOK
    <2>7. Owned' = (Owned \ {compact[b]}) \cup {op.phys}
      BY <1>0, <1>14, <2>1, <2>2, <2>6 DEF Owned, StoreTypeOK
    <2>8. QED
      BY <1>0, <2>1, <2>4, <2>5, <2>7 DEF StoreInv
  <1>20. ASSUME CutOff PROVE StoreInv'
    BY <1>0, <1>20 DEF CutOff, Forget, None, StoreInv, Owned, HeadsNameOwners
  <1>21. QED
    BY <1>1, <1>2, <1>3, <1>4, <1>5, <1>6, <1>7, <1>8, <1>9, <1>10, <1>11,
       <1>12, <1>13, <1>15, <1>16, <1>17, <1>18, <1>19, <1>20
    DEF StoreNext, Write, Load, Fails, Crash, PowerLoss

(* StoreInv is an invariant. *)
THEOREM StoreInvariance == StoreSpec => []StoreInv
  <1>1. StoreInit => StoreInv
    BY InitStore
  <1>2. StoreInv /\ [StoreNext]_storeVars => StoreInv'
    <2>1. ASSUME StoreInv, UNCHANGED storeVars PROVE StoreInv'
      BY <2>1
      DEF storeVars, diskVars, memVars, StoreInv, StoreTypeOK, Owned,
          HeadsNameOwners
    <2>2. QED
      BY <2>1, StoreStep
  <1>3. QED
    BY <1>1, <1>2, PTL DEF StoreSpec

(* Bitmap, physical map, logic maps and heads agree whenever no operation  *)
(* of BlockFileManager is under way, for any number of blocks, block files *)
(* and faults.                                                             *)
THEOREM MapsAlwaysAgree == StoreSpec => []MapsAgree
  <1>1. StoreInv => MapsAgree
    BY DEF StoreInv, MapsAgree
  <1>2. QED
    BY <1>1, StoreInvariance, PTL

-----------------------------------------------------------------------------
(* Durability, when writes do not fail and the machine keeps its power.    *)

(* Then the only fault is a crash of the process. *)
LEMMA NoFault ==
    ASSUME StoreTypeOK, MaxFail = 0, MaxPower = 0
    PROVE  ~Spend("fail", MaxFail) /\ ~Spend("power", MaxPower)
  <1>1. used["fail"] \in Nat /\ used["power"] \in Nat
    BY DEF StoreTypeOK
  <1>2. ~(used["fail"] < 0) /\ ~(used["power"] < 0)
    BY <1>1
  <1>3. QED
    BY <1>2 DEF Spend

(* A used block file belongs to the one logic block its head names. *)
LEMMA OwnerOf ==
    ASSUME DurableInv, NEW p \in physical
    PROVE  prefix[p] \in Block /\ logic[prefix[p]] = p
  <1>1. PICK b \in Block : logic[b] = p \/ compact[b] = p
    BY DEF DurableInv, StoreInv, Owned
  <1>2. p \in Phys
    BY DEF DurableInv, StoreInv, StoreTypeOK
  <1>3. compact[b] = 0
    BY DEF DurableInv, None
  <1>4. logic[b] = p /\ p # 0
    BY <1>1, <1>2, <1>3, PhysRange
  <1>5. QED
    BY <1>4 DEF DurableInv, StoreInv, HeadsNameOwners

(* A block in the map has its block file in the physical map. *)
LEMMA FileOf ==
    ASSUME DurableInv, NEW b \in Block, logic[b] # 0
    PROVE  logic[b] \in physical /\ prefix[logic[b]] = b
  BY EntryRange DEF DurableInv, StoreInv, HeadsNameOwners, Owned

(* What was acknowledged is in the maps. *)
LEMMA DurableAcknowledged == DurableInv => Acknowledged
  <1> SUFFICES ASSUME DurableInv, step \notin {"down", "load"}, NEW b \in Block
               PROVE  /\ acked[b] > 0 => logic[b] = acked[b]
                      /\ acked[b] = -1 => logic[b] = 0
    BY DEF Acknowledged
  <1>0. /\ StoreInv /\ StoreTypeOK
        /\ DiskSound(bits[1])
        /\ step \in {"idle", "newBitmap", "newSuper", "delBitmap", "delSuper"}
    BY DEF DurableInv, StoreInv, StoreTypeOK, Step
  <1>1. /\ physical \subseteq bits[1]
        /\ \A p \in bits[1] : \/ p \in physical
                               \/ /\ p = op.phys
                                  /\ prefix[p] = op.block
                                  /\ acked[op.block] = 0
    BY <1>0 DEF DurableInv, StoreInv
  <1>2. ASSUME acked[b] > 0 PROVE logic[b] = acked[b]
    <2>1. acked[b] \in bits[1] /\ prefix[acked[b]] = b
      BY <1>0, <1>2 DEF DiskSound
    <2>2. ~(acked[b] = 0)
      BY <1>2
    <2>3. acked[b] \in physical
      BY <1>1, <2>1, <2>2
    <2>4. QED
      BY <2>1, <2>3, OwnerOf
  <1>3. ASSUME acked[b] = -1, logic[b] # 0 PROVE FALSE
    <2>1. \A p \in bits[1] : prefix[p] # b
      BY <1>0, <1>3 DEF DiskSound
    <2>2. QED
      BY <1>1, <1>3, <2>1, FileOf
  <1>4. QED
    BY <1>2, <1>3

(* The bitmap a write puts on disk, in part or as a whole, is as sound as  *)
(* the one it replaces: it adds the block file of a block nobody was told  *)
(* about, or drops one.                                                    *)
LEMMA PendingSound ==
    ASSUME DurableInv, NEW B \in Pending PROVE DiskSound(B)
  <1>0. StoreInv /\ StoreTypeOK /\ DiskSound(bits[1]) /\ bits[1] \subseteq Phys
    BY DEF DurableInv, StoreInv, StoreTypeOK
  <1>1. CASE step = "newBitmap"
    <2>1. /\ B = bits[1] \cup {op.phys}
          /\ op.block \in Block
          /\ prefix[op.phys] = op.block
          /\ acked[op.block] = 0
          /\ logic[op.block] = 0
          /\ bits[1] = physical
      BY <1>1 DEF Pending, DurableInv, StoreInv
    <2>2. op.block # NoBlock
      BY <2>1, StoreAssumption
    <2>3. 0 \notin physical
      BY <1>0, PhysRange DEF StoreTypeOK
    <2>4. \A q \in bits[1] : prefix[q] # op.block
      BY <2>1, <2>3, OwnerOf
    <2>5. 0 # -1
      OBVIOUS
    <2>6. QED
      BY <1>0, <2>1, <2>2, <2>4, <2>5 DEF DiskSound
  <1>2. CASE step = "delBitmap"
    <2>1. /\ B = physical
          /\ bits[1] = physical \cup {op.phys}
          /\ op.block \in Block
          /\ prefix[op.phys] = op.block
          /\ acked[op.block] = 0
      BY <1>2 DEF Pending, DurableInv, StoreInv
    <2>2. ~(0 > 0)
      OBVIOUS
    <2>3. \A b \in Block : acked[b] > 0 => acked[b] # op.phys
      BY <1>0, <2>1, <2>2 DEF DiskSound
    <2>4. QED
      BY <1>0, <2>1, <2>3 DEF DiskSound
  <1>3. CASE step \notin {"newBitmap", "delBitmap"}
    <2>1. step # "undoBitmap"
      BY DEF DurableInv
    <2>2. ~(step = "load" /\ op.phys \in bitmap /\ prefix[op.phys] = NoBlock)
      BY <1>0 DEF DurableInv, DiskSound
    <2>3. ~(\E b \in Block : Triplet(b))
      BY DEF DurableInv, None, Triplet
    <2>4. QED
      BY <1>3, <2>1, <2>2, <2>3 DEF Pending
  <1>4. QED
    BY <1>1, <1>2, <1>3

(* A disk that is sound holds no second block file of a block. *)
LEMMA NoTwin ==
    ASSUME DurableInv, NEW b \in Block
    PROVE  ~LoadTwin(b) /\ ~LoadTriplet(b)
  <1>0. StoreInv /\ StoreTypeOK
    BY DEF DurableInv, StoreInv
  <1>1. ASSUME LoadTwin(b) PROVE FALSE
    <2>1. /\ op.phys \in bitmap /\ prefix[op.phys] = b /\ logic[b] # 0
          /\ step = "load"
      BY <1>1 DEF LoadTwin, Loaded
    <2>2. /\ logic[b] \in physical /\ prefix[logic[b]] = b
      BY <2>1, FileOf
    <2>3. /\ physical = {p \in bitmap : p < op.phys} /\ DiskSound(bitmap)
      BY <1>0, <2>1 DEF DurableInv, StoreInv
    <2>4. logic[b] = op.phys
      BY <2>1, <2>2, <2>3 DEF DiskSound
    <2>5. logic[b] < op.phys /\ op.phys \in Int
      BY <1>0, <2>2, <2>3 DEF StoreTypeOK, Phys
    <2>6. QED
      BY <2>4, <2>5
  <1>2. ASSUME LoadTriplet(b) PROVE FALSE
    BY <1>2 DEF LoadTriplet, Triplet, DurableInv, None
  <1>3. QED
    BY <1>1, <1>2

(* Every step keeps disk and memory within one unacknowledged block. *)
LEMMA DurableStep ==
    ASSUME MaxFail = 0, MaxPower = 0, DurableInv, StoreNext PROVE DurableInv'
  <1> USE StoreAssumption, PhysRange
  <1>0. /\ StoreInv /\ StoreInv' /\ StoreTypeOK /\ StoreTypeOK'
        /\ DiskSound(bits[1]) /\ DiskSound(bits[2])
        /\ compact = None
    BY StoreStep DEF DurableInv, StoreInv
  <1>n. ~Spend("fail", MaxFail) /\ ~Spend("power", MaxPower)
    BY <1>0, NoFault
  <1>1. ASSUME NEW b \in Block, NEW p \in Phys, NewBlock(b, p)
        PROVE  DurableInv'
    <2>1. /\ bits[1] = physical /\ bits[2] = bits[1] /\ bits' = bits
          /\ p \notin bits[1]
      BY <1>0, <1>1 DEF NewBlock, Avail, DurableInv, StoreInv
    <2>2. \A q \in bits[1] : prefix'[q] = prefix[q]
      BY <1>0, <1>1, <2>1 DEF NewBlock, StoreTypeOK
    <2>3. /\ acked'[b] = 0 /\ ~(0 > 0) /\ 0 # -1
          /\ \A c \in Block : c # b => acked'[c] = acked[c]
      BY <1>0, <1>1 DEF NewBlock, StoreTypeOK
    <2>4. DiskSound(bits[1])' /\ DiskSound(bits[2])'
      BY <1>0, <2>1, <2>2, <2>3 DEF DiskSound
    <2>5. QED
      BY <1>0, <1>1, <2>1, <2>3, <2>4 DEF NewBlock, DurableInv
  <1>2. ASSUME NEW b \in Block, NEW p \in Phys, NewBlockFails(b, p)
        PROVE  DurableInv'
    BY <1>2, <1>n DEF NewBlockFails
  <1>3. CASE NewBitmap
    <2>1. bits' = <<bitmap, bitmap>> /\ bitmap \in Pending
          /\ UNCHANGED <<prefix, acked>>
      BY <1>3 DEF NewBitmap, Pending
    <2>2. DiskSound(bitmap)
      BY <2>1, PendingSound
    <2>3. DiskSound(bits[1])' /\ DiskSound(bits[2])'
      BY <2>1, <2>2 DEF DiskSound
    <2>4. QED
      BY <1>0, <1>3, <2>1, <2>3 DEF NewBitmap, DurableInv
  <1>4. CASE NewBitmapFails
    BY <1>4, <1>n DEF NewBitmapFails
  <1>5. CASE NewSuper
    <2>1. /\ op.block \in Block /\ op.phys \in bits[1]
          /\ prefix[op.phys] = op.block
          /\ bits[2] = bits[1] /\ UNCHANGED <<bits, prefix, compact>>
      BY <1>5 DEF NewSuper, DurableInv, StoreInv
    <2>2. /\ acked'[op.block] = op.phys
          /\ \A c \in Block : c # op.block => acked'[c] = acked[c]
          /\ op.phys # -1
      BY <1>0, <1>5, <2>1 DEF NewSuper, StoreTypeOK, Phys
    <2>3. DiskSound(bits[1])' /\ DiskSound(bits[2])'
      BY <1>0, <2>1, <2>2 DEF DiskSound
    <2>4. bits'[1] = physical'
      BY <1>0, <1>5 DEF NewSuper, DurableInv, StoreInv
    <2>5. QED
      BY <1>0, <1>5, <2>1, <2>3, <2>4 DEF NewSuper, DurableInv
  <1>6. CASE NewSuperFails
    BY <1>6, <1>n DEF NewSuperFails
  <1>7. CASE UndoBitmap \/ UndoSuper
    BY <1>7 DEF UndoBitmap, UndoSuper, DurableInv
  <1>8. ASSUME NEW b \in Block, DelBlock(b) PROVE DurableInv'
    <2>1. /\ bits[1] = physical /\ bits[2] = bits[1]
          /\ UNCHANGED <<bits, prefix, compact>>
          /\ op'.block = b /\ op'.phys = logic[b]
      BY <1>8 DEF DelBlock, DurableInv, diskVars
    <2>2. /\ acked'[b] = 0 /\ ~(0 > 0) /\ 0 # -1
          /\ \A c \in Block : c # b => acked'[c] = acked[c]
      BY <1>0, <1>8 DEF DelBlock, StoreTypeOK
    <2>3. DiskSound(bits[1])' /\ DiskSound(bits[2])'
      BY <1>0, <2>1, <2>2 DEF DiskSound
    <2>4. logic[b] \in physical /\ prefix[logic[b]] = b
      BY <1>8, FileOf DEF DelBlock
    <2>5. logic'[b] = 0
      BY <1>0, <1>8 DEF DelBlock, StoreTypeOK
    <2>6. QED
      BY <1>0, <1>8, <2>1, <2>2, <2>3, <2>4, <2>5 DEF DelBlock, DurableInv
  <1>9. CASE DelBitmap
    <2>1. bits' = <<bitmap, bitmap>> /\ bitmap \in Pending
          /\ UNCHANGED <<prefix, acked>>
      BY <1>9 DEF DelBitmap, Pending
    <2>2. DiskSound(bitmap)
      BY <2>1, PendingSound
    <2>3. DiskSound(bits[1])' /\ DiskSound(bits[2])'
      BY <2>1, <2>2 DEF DiskSound
    <2>4. bits'[1] = physical'
      BY <1>0, <1>9 DEF DelBitmap, StoreInv
    <2>5. QED
      BY <1>0, <1>9, <2>1, <2>3, <2>4 DEF DelBitmap, DurableInv
  <1>10. CASE DelBitmapFails
    BY <1>10, <1>n DEF DelBitmapFails
  <1>11. CASE DelSuper
    <2>1. /\ op.block \in Block /\ logic[op.block] = 0
          /\ bits[1] = physical /\ bits[2] = bits[1]
          /\ UNCHANGED <<bits, prefix, compact, physical>>
          /\ step' = "idle"
      BY <1>11 DEF DelSuper, Deleted, DurableInv, StoreInv, memVars
    <2>2. /\ acked'[op.block] = -1 /\ ~(-1 > 0)
          /\ \A c \in Block : c # op.block => acked'[c] = acked[c]
      BY <1>0, <1>11, <2>1 DEF DelSuper, Deleted, StoreTypeOK
    <2>3. 0 \notin physical
      BY <1>0 DEF StoreTypeOK
    <2>4. \A q \in bits[1] : prefix[q] # op.block
      BY <2>1, <2>3, OwnerOf
    <2>5. DiskSound(bits[1])' /\ DiskSound(bits[2])'
      BY <1>0, <2>1, <2>2, <2>4 DEF DiskSound
    <2>6. QED
      BY <1>0, <2>1, <2>5 DEF DurableInv
  <1>12. CASE Bootstrap
    <2>1. DiskSound(bits[1])' /\ DiskSound(bits[2])'
      BY <1>0, <1>12 DEF Bootstrap, DiskSound, diskVars
    <2>2. QED
      BY <1>0, <1>12, <2>1 DEF Bootstrap, DurableInv, diskVars
  <1>13. ASSUME Loaded, UNCHANGED <<bits, prefix, acked, bitmap, compact>>
         PROVE  DurableInv'
    <2>1. DiskSound(bits[1])' /\ DiskSound(bits[2])'
      BY <1>0, <1>13 DEF DiskSound
    <2>2. /\ step = "load" /\ step' \in {"load", "idle"}
          /\ bits[1] = bitmap /\ bits[2] = bits[1]
      BY <1>13 DEF Loaded, DurableInv
    <2>3. step' = "idle" => bits'[1] = physical'
      BY <1>0, <1>13, <2>2 DEF StoreInv
    <2>4. QED
      BY <1>0, <1>13, <2>1, <2>2, <2>3 DEF DurableInv
  <1>14. CASE LoadFree
    BY <1>13, <1>14 DEF LoadFree, diskVars, memVars
  <1>15. CASE LoadEmpty
    BY <1>0, <1>15 DEF LoadEmpty, Loaded, DurableInv, DiskSound
  <1>16. ASSUME NEW b \in Block, LoadMain(b) PROVE DurableInv'
    BY <1>13, <1>16 DEF LoadMain, diskVars
  <1>17. ASSUME NEW b \in Block, LoadTwin(b) \/ LoadTriplet(b) PROVE FALSE
    BY <1>17, NoTwin
  <1>18. CASE Crash
    <2>1. /\ bits' \in Torn(Pending) /\ UNCHANGED <<prefix, acked>>
          /\ step' = "down" /\ compact' = None
      BY <1>18 DEF Crash, CutOff, Forget
    <2>2. \A B \in Pending : DiskSound(B)
      BY PendingSound
    <2>3. DiskSound(bits'[1]) /\ DiskSound(bits'[2])
      BY <1>0, <2>1, <2>2 DEF Torn
    <2>4. DiskSound(bits[1])' /\ DiskSound(bits[2])'
      BY <2>1, <2>3 DEF DiskSound
    <2>5. QED
      BY <1>0, <2>1, <2>4 DEF DurableInv
  <1>19. CASE PowerLoss
    BY <1>19, <1>n DEF PowerLoss
  <1>20. QED
    BY <1>1, <1>2, <1>3, <1>4, <1>5, <1>6, <1>7, <1>8, <1>9, <1>10, <1>11,
       <1>12, <1>14, <1>15, <1>16, <1>17, <1>18, <1>19
    DEF StoreNext, Write, Load, Fails

(* The durability invariant holds in every reachable state. *)
THEOREM DurableInvariance ==
    ASSUME MaxFail = 0, MaxPower = 0 PROVE StoreSpec => []DurableInv
  <1>1. StoreInit => DurableInv
    BY InitStore DEF StoreInit, DurableInv, DiskSound, None
  <1>2. DurableInv /\ [StoreNext]_storeVars => DurableInv'
    <2>1. ASSUME DurableInv, UNCHANGED storeVars PROVE DurableInv'
      BY <2>1
      DEF storeVars, diskVars, memVars, DurableInv, StoreInv, StoreTypeOK,
          Owned, HeadsNameOwners, DiskSound
    <2>2. QED
      BY <2>1, DurableStep
  <1>3. QED
    BY <1>1, <1>2, PTL DEF StoreSpec

(* A data server whose writes succeed keeps its word over any number of    *)
(* crashes of the process, inside or between the writes of new_block,      *)
(* del_block and bootstrap: what it acknowledged is there after a restart  *)
(* and what it deleted does not come back.                                 *)
THEOREM AckSurvives ==
    ASSUME MaxFail = 0, MaxPower = 0 PROVE StoreSpec => []Acknowledged
  <1>1. DurableInv => Acknowledged
    BY DurableAcknowledged
  <1>2. StoreSpec => []DurableInv
    BY DurableInvariance
  <1>3. QED
    BY <1>1, <1>2, PTL

(* The maps, the bitmaps and the counters keep their types in every        *)
(* reachable state, whatever faults there are.                             *)
THEOREM StoreTypes == StoreSpec => []StoreTypeOK
  <1>1. StoreInv => StoreTypeOK
    BY DEF StoreInv
  <1>2. QED
    BY <1>1, StoreInvariance, PTL
-----------------------------------------------------------------------------
(* The counter of used block files, under the same assumptions.            *)

(* A counter that is the number of bits in the first copy of the bitmap on *)
(* disk, up to one for every crash.                                        *)
Tallies(n) ==
    /\ n - Cardinality(bits[1]) =< used["crash"]
    /\ Cardinality(bits[1]) - n =< used["crash"]

(* The inductive invariant behind CountDrift: while the process lives, the *)
(* counter in memory tallies, and the one on disk is it, or one off when   *)
(* the bitmap is written and the super block is not; while it is down, the *)
(* counter on disk tallies.                                                *)
DriftInv ==
    /\ DurableInv
    /\ step = "down" => Tallies(dcount.main)
    /\ step # "down" => /\ Tallies(count.main)
                        /\ dcount.main - count.main \in {-1, 0, 1}
    /\ step \notin {"down", "newSuper", "delSuper"} => dcount.main = count.main

(* A bitmap has a size, which one block file changes by one. *)
LEMMA BitmapSize ==
    ASSUME NEW S \in SUBSET Phys
    PROVE  /\ Cardinality(S) \in Nat
           /\ \A p : p \notin S => Cardinality(S \cup {p}) = Cardinality(S) + 1
  <1>1. IsFiniteSet(Phys)
    BY StoreAssumption, FS_Interval DEF Phys
  <1>2. IsFiniteSet(S)
    BY <1>1, FS_Subset
  <1>3. Cardinality(S) \in Nat
    BY <1>2, FS_CardinalityType
  <1>4. ASSUME NEW p, p \notin S
        PROVE  Cardinality(S \cup {p}) = Cardinality(S) + 1
    BY <1>2, <1>4, FS_AddElement
  <1>5. QED
    BY <1>3, <1>4

(* What the counters are made of. *)
LEMMA DriftTypes ==
    ASSUME StoreTypeOK
    PROVE  /\ count.main \in Int /\ dcount.main \in Int
           /\ used["crash"] \in Nat
           /\ bits[1] \in SUBSET Phys /\ Cardinality(bits[1]) \in Nat
  <1>1. bits[1] \in SUBSET Phys
    BY DEF StoreTypeOK
  <1>2. QED
    BY <1>1, BitmapSize DEF StoreTypeOK

(* The bitmap that new_block or del_block is writing differs from the one  *)
(* on disk by the block file it works on, so that its write changes the    *)
(* number of bits by one.                                                  *)
LEMMA PendingSize ==
    ASSUME DurableInv
    PROVE  /\ step = "newBitmap" =>
                 /\ Pending = {bitmap}
                 /\ Cardinality(bitmap) = Cardinality(bits[1]) + 1
           /\ step = "delBitmap" =>
                 /\ Pending = {bitmap}
                 /\ Cardinality(bitmap) = Cardinality(bits[1]) - 1
           /\ step \notin {"newBitmap", "delBitmap"} => Pending = {}
  <1>0. /\ StoreInv /\ StoreTypeOK /\ DiskSound(bits[1])
        /\ physical \in SUBSET Phys
    BY DEF DurableInv, StoreInv, StoreTypeOK
  <1>1. CASE step = "newBitmap"
    <2>1. /\ bits[1] = physical /\ op.phys \notin physical
          /\ bitmap = physical \cup {op.phys}
      BY <1>0, <1>1 DEF DurableInv, StoreInv
    <2>2. QED
      BY <1>0, <1>1, <2>1, BitmapSize DEF Pending
  <1>2. CASE step = "delBitmap"
    <2>1. /\ bits[1] = physical \cup {op.phys} /\ bitmap = physical
          /\ prefix[op.phys] = op.block
          /\ op.block \in Block /\ logic[op.block] = 0
      BY <1>0, <1>2 DEF DurableInv, StoreInv
    <2>2. op.phys \notin physical
      <3>1. 0 \notin physical
        BY <1>0, PhysRange
      <3>2. QED
        BY <2>1, <3>1, OwnerOf
    <2>3. Cardinality(bits[1]) = Cardinality(bitmap) + 1
      BY <1>0, <2>1, <2>2, BitmapSize
    <2>4. Cardinality(bitmap) \in Nat
      BY <1>0, <2>1, BitmapSize
    <2>5. QED
      BY <1>2, <2>3, <2>4 DEF Pending
  <1>3. CASE step \notin {"newBitmap", "delBitmap"}
    <2>1. step # "undoBitmap"
      BY DEF DurableInv
    <2>2. ~(step = "load" /\ op.phys \in bitmap /\ prefix[op.phys] = NoBlock)
      BY <1>0 DEF DurableInv, DiskSound
    <2>3. ~(\E b \in Block : Triplet(b))
      BY DEF DurableInv, None, Triplet
    <2>4. QED
      BY <1>3, <2>1, <2>2, <2>3 DEF Pending
  <1>4. QED
    BY <1>1, <1>2, <1>3

(* Every step keeps the counters within one of the bitmap for every crash. *)
LEMMA DriftStep ==
    ASSUME MaxFail = 0, MaxPower = 0, DriftInv, StoreNext PROVE DriftInv'
  <1>0. /\ DurableInv /\ DurableInv'
        /\ StoreInv /\ StoreInv' /\ StoreTypeOK /\ StoreTypeOK'
    BY DurableStep DEF DriftInv, DurableInv, StoreInv
  <1>n. ~Spend("fail", MaxFail) /\ ~Spend("power", MaxPower)
    BY <1>0, NoFault
  <1>t. /\ count.main \in Int /\ dcount.main \in Int
        /\ used["crash"] \in Nat /\ Cardinality(bits[1]) \in Nat
    BY <1>0, DriftTypes
  <1>1. ASSUME UNCHANGED <<bits, dcount, count, used>>,
               step # "down", step' # "down",
               step \notin {"newSuper", "delSuper"}
        PROVE  DriftInv'
    BY <1>0, <1>1 DEF DriftInv, Tallies
  <1>2. ASSUME NEW b \in Block, NEW p \in Phys, NewBlock(b, p)
        PROVE  DriftInv'
    BY <1>1, <1>2 DEF NewBlock
  <1>3. CASE NewBitmap
    <2>1. /\ step = "newBitmap" /\ step' = "newSuper"
          /\ bits'[1] = bitmap /\ UNCHANGED <<dcount, used>>
          /\ count'.main = count.main + 1
      BY <1>0, <1>3 DEF NewBitmap, StoreTypeOK
    <2>2. Cardinality(bits'[1]) = Cardinality(bits[1]) + 1
      BY <1>0, <2>1, PendingSize
    <2>3. Tallies(count.main) /\ dcount.main = count.main
      BY <2>1 DEF DriftInv
    <2>4. Tallies(count.main)'
      BY <1>t, <2>1, <2>2, <2>3 DEF Tallies
    <2>5. dcount'.main - count'.main = -1
      BY <1>t, <2>1, <2>3
    <2>6. QED
      BY <1>0, <2>1, <2>4, <2>5 DEF DriftInv
  <1>4. CASE NewSuper
    <2>1. /\ step = "newSuper" /\ step' = "idle" /\ dcount' = count
          /\ UNCHANGED <<bits, count, used>>
      BY <1>4 DEF NewSuper
    <2>2. Tallies(count.main)'
      BY <2>1 DEF DriftInv, Tallies
    <2>3. dcount'.main = count'.main /\ dcount'.main - count'.main = 0
      BY <1>t, <2>1
    <2>4. QED
      BY <1>0, <2>1, <2>2, <2>3 DEF DriftInv
  <1>5. ASSUME NEW b \in Block, DelBlock(b) PROVE DriftInv'
    BY <1>1, <1>5 DEF DelBlock, diskVars
  <1>6. CASE DelBitmap
    <2>1. /\ step = "delBitmap" /\ step' = "delSuper"
          /\ bits'[1] = bitmap /\ UNCHANGED <<dcount, used>>
          /\ count'.main = count.main - 1
      BY <1>0, <1>6 DEF DelBitmap, StoreTypeOK
    <2>2. Cardinality(bits'[1]) = Cardinality(bits[1]) - 1
      BY <1>0, <2>1, PendingSize
    <2>3. Tallies(count.main) /\ dcount.main = count.main
      BY <2>1 DEF DriftInv
    <2>4. Tallies(count.main)'
      BY <1>t, <2>1, <2>2, <2>3 DEF Tallies
    <2>5. dcount'.main - count'.main = 1
      BY <1>t, <2>1, <2>3
    <2>6. QED
      BY <1>0, <2>1, <2>4, <2>5 DEF DriftInv
  <1>7. CASE DelSuper
    <2>1. /\ step = "delSuper" /\ step' = "idle" /\ dcount' = count
          /\ UNCHANGED <<bits, count, used>>
      BY <1>7, <1>n DEF DelSuper, Deleted, memVars
    <2>2. Tallies(count.main)'
      BY <2>1 DEF DriftInv, Tallies
    <2>3. dcount'.main = count'.main /\ dcount'.main - count'.main = 0
      BY <1>t, <2>1
    <2>4. QED
      BY <1>0, <2>1, <2>2, <2>3 DEF DriftInv
  <1>8. CASE Bootstrap
    <2>1. /\ step = "down" /\ step' = "load" /\ count' = dcount
          /\ UNCHANGED <<bits, dcount, used>>
      BY <1>8 DEF Bootstrap, diskVars
    <2>2. Tallies(count.main)'
      BY <2>1 DEF DriftInv, Tallies
    <2>3. dcount'.main = count'.main /\ dcount'.main - count'.main = 0
      BY <1>t, <2>1
    <2>4. QED
      BY <1>0, <2>1, <2>2, <2>3 DEF DriftInv
  <1>9. ASSUME Loaded PROVE step = "load" /\ step' \in {"load", "idle"}
    BY <1>9 DEF Loaded
  <1>10. CASE LoadFree
    BY <1>1, <1>9, <1>10 DEF LoadFree, diskVars, memVars
  <1>11. ASSUME NEW b \in Block, LoadMain(b) PROVE DriftInv'
    BY <1>1, <1>9, <1>11 DEF LoadMain, diskVars
  <1>12. CASE LoadEmpty
    BY <1>0, <1>12 DEF LoadEmpty, Loaded, DurableInv, DiskSound
  <1>13. ASSUME NEW b \in Block, LoadTwin(b) \/ LoadTriplet(b) PROVE FALSE
    BY <1>0, <1>13, NoTwin
  <1>14. CASE Crash
    <2>1. /\ used["crash"]' = used["crash"] + 1 /\ step' = "down"
          /\ step # "down" /\ bits' \in Torn(Pending)
      BY <1>0, <1>14 DEF Crash, CutOff, Forget, Spend, StoreTypeOK
    <2>2. /\ dcount' \in {dcount, count}
          /\ step \notin {"newSuper", "delSuper"} => dcount' = dcount
      BY <1>0, <1>14 DEF Crash, CutOff, DurableInv
    <2>3. bits'[1] = bits[1] \/ bits'[1] \in Pending
      BY <2>1 DEF Torn
    <2>4. Tallies(count.main)
      BY <2>1 DEF DriftInv
    <2>5. CASE step \in {"newBitmap", "delBitmap"}
      <3>1. Cardinality(bits'[1]) - Cardinality(bits[1]) \in {-1, 0, 1}
        BY <1>0, <1>t, <2>3, <2>5, PendingSize
      <3>2. Cardinality(bits'[1]) \in Nat
        <4>1. bits'[1] \in SUBSET Phys
          BY <1>0 DEF StoreTypeOK
        <4>2. QED
          BY <4>1, BitmapSize
      <3>3. dcount'.main = count.main
        BY <2>2, <2>5 DEF DriftInv
      <3>4. Tallies(dcount.main)'
        BY <1>t, <2>1, <2>4, <3>1, <3>2, <3>3 DEF Tallies
      <3>5. QED
        BY <1>0, <2>1, <3>4 DEF DriftInv
    <2>6. CASE step \notin {"newBitmap", "delBitmap"}
      <3>1. bits'[1] = bits[1]
        BY <1>0, <2>3, <2>6, PendingSize
      <3>2. dcount'.main - count.main \in {-1, 0, 1} /\ dcount'.main \in Int
        BY <1>t, <2>1, <2>2 DEF DriftInv
      <3>3. Tallies(dcount.main)'
        BY <1>t, <2>1, <2>4, <3>1, <3>2 DEF Tallies
      <3>4. QED
        BY <1>0, <2>1, <3>3 DEF DriftInv
    <2>7. QED
      BY <2>5, <2>6
  <1>15. ASSUME Fails \/ PowerLoss PROVE FALSE
    BY <1>0, <1>15, <1>n
    DEF Fails, NewBlockFails, NewBitmapFails, NewSuperFails, UndoBitmap,
        UndoSuper, DelBitmapFails, PowerLoss, DurableInv
  <1>16. QED
    BY <1>2, <1>3, <1>4, <1>5, <1>6, <1>7, <1>8, <1>10, <1>11, <1>12, <1>13,
       <1>14, <1>15
    DEF StoreNext, Write, Load

(* A counter drifts by at most one for every crash of the process, however *)
(* many blocks, block files and operations there are: bootstrap neither    *)
(* repairs the difference that a crash between write_bit_map and the super *)
(* block left behind nor adds to it.                                       *)
THEOREM DriftBounded ==
    ASSUME MaxFail = 0, MaxPower = 0 PROVE StoreSpec => []CountDrift
  <1>1. StoreInit => DriftInv
    <2>1. ASSUME StoreInit PROVE DurableInv
      BY <2>1, InitStore DEF StoreInit, DurableInv, DiskSound, None
    <2>2. ASSUME StoreInit PROVE step = "down" /\ Tallies(dcount.main)
      BY <2>2, FS_EmptySet DEF StoreInit, Tallies
    <2>3. QED
      BY <2>1, <2>2 DEF DriftInv
  <1>2. DriftInv /\ [StoreNext]_storeVars => DriftInv'
    <2>1. ASSUME DriftInv, UNCHANGED storeVars PROVE DriftInv'
      BY <2>1
      DEF storeVars, diskVars, memVars, DriftInv, Tallies, DurableInv,
          StoreInv, StoreTypeOK, Owned, HeadsNameOwners, DiskSound
    <2>2. QED
      BY <2>1, DriftStep
  <1>3. DriftInv => CountDrift
    <2>1. ASSUME DriftInv, step = "idle"
          PROVE  /\ count.main - Cardinality(physical) =< used["crash"]
                 /\ -(count.main - Cardinality(physical)) =< used["crash"]
      <3>1. StoreTypeOK /\ bits[1] = physical /\ Tallies(count.main)
        BY <2>1 DEF DriftInv, DurableInv, StoreInv
      <3>2. QED
        BY <3>1, DriftTypes DEF Tallies
    <2>2. QED
      BY <2>1 DEF CountDrift
  <1>4. QED
    BY <1>1, <1>2, <1>3, PTL DEF StoreSpec

-----------------------------------------------------------------------------
(* The block store implements DurableBlocks while no write fails, for any  *)
(* set of blocks, any number of block files and any number of crashes.     *)

(* The facts of the durability invariant the steps below need. *)
LEMMA PromiseFacts ==
    ASSUME DurableInv
    PROVE  /\ StoreInv /\ StoreTypeOK
           /\ bits[1] \subseteq Phys /\ physical \subseteq Phys
           /\ step \in {"down", "load", "idle", "newBitmap", "newSuper",
                        "delBitmap", "delSuper"}
           /\ \A b \in Block : acked[b] \in Int
  BY PhysRange, StoreAssumption DEF DurableInv, StoreInv, StoreTypeOK, Step

(* What callers know changes for one block at a time. *)
LEMMA ToldChanges ==
    ASSUME StoreTypeOK, NEW b \in Block, NEW v \in -1 .. N,
           acked' = [acked EXCEPT ![b] = v]
    PROVE  /\ v > 0 => Told' = [Told EXCEPT ![b] = "there"]
           /\ v = 0 => Told' = [Told EXCEPT ![b] = "unknown"]
           /\ v = -1 => Told' = [Told EXCEPT ![b] = "gone"]
  <1>1. /\ acked'[b] = v
        /\ \A c \in Block : c # b => acked'[c] = acked[c]
    BY DEF StoreTypeOK
  <1>2. /\ Told'[b] = IF v > 0 THEN "there"
                     ELSE IF v = -1 THEN "gone" ELSE "unknown"
        /\ \A c \in Block : c # b => Told'[c] = Told[c]
    BY <1>1 DEF Told
  <1>3. /\ Told = [c \in Block |-> Told[c]]
        /\ Told' = [c \in Block |-> Told'[c]]
    BY DEF Told
  <1>4. CASE v > 0
    BY <1>2, <1>3, <1>4
  <1>5. CASE v = 0
    BY <1>2, <1>3, <1>5
  <1>6. CASE v = -1
    BY <1>2, <1>3, <1>6
  <1>7. QED
    BY <1>4, <1>5, <1>6

(* A block is stored exactly when it is in the map, while nothing is going  *)
(* on.                                                                      *)
LEMMA StoredIdle ==
    ASSUME DurableInv, step = "idle", NEW b \in Block
    PROVE  b \in Stored <=> logic[b] # 0
  <1>1. bits[1] = physical /\ 0 \notin physical
    BY PromiseFacts, PhysRange DEF DurableInv
  <1>2. ASSUME b \in Stored PROVE logic[b] # 0
    <2>1. PICK p \in bits[1] : prefix[p] = b
      BY <1>2 DEF Stored
    <2>2. QED
      BY <1>1, <2>1, OwnerOf
  <1>3. ASSUME logic[b] # 0 PROVE b \in Stored
    BY <1>1, <1>3, FileOf DEF Stored
  <1>4. QED
    BY <1>2, <1>3

(* The bitmap new_block writes adds its block to the stored ones, and the  *)
(* one del_block writes takes its block away.                              *)
LEMMA BitmapTakes ==
    ASSUME DurableInv, step \in {"newBitmap", "delBitmap"}
    PROVE  {prefix[p] : p \in bitmap} = Promise!Changed
  <1>1. CASE step = "newBitmap"
    <2>1. /\ bits[1] = physical /\ bitmap = physical \cup {op.phys}
          /\ prefix[op.phys] = op.block
      BY <1>1 DEF DurableInv, StoreInv
    <2>2. {prefix[p] : p \in bitmap} = Stored \cup {op.block}
      BY <2>1 DEF Stored
    <2>3. Phase = "new" /\ Called = op.block
      BY <1>1 DEF Phase, Called
    <2>4. QED
      BY <2>2, <2>3 DEF Promise!Changed
  <1>2. CASE step = "delBitmap"
    <2>1. /\ bits[1] = physical \cup {op.phys} /\ bitmap = physical
          /\ prefix[op.phys] = op.block /\ logic[op.block] = 0
          /\ 0 \notin physical
      BY <1>2, PromiseFacts, PhysRange DEF DurableInv, StoreInv
    <2>2. \A p \in physical : prefix[p] # op.block
      BY <2>1, OwnerOf
    <2>3. {prefix[p] : p \in bitmap} = Stored \ {op.block}
      BY <2>1, <2>2 DEF Stored
    <2>4. Phase = "del" /\ Called = op.block
      BY <1>2 DEF Phase, Called
    <2>5. QED
      BY <2>3, <2>4 DEF Promise!Changed
  <1>3. QED
    BY <1>1, <1>2

(* Every step of the store is a step of DurableBlocks or leaves it alone.  *)
LEMMA PromiseStep ==
    ASSUME MaxFail = 0, MaxPower = 0, DurableInv, StoreNext
    PROVE  Promise!Next \/ UNCHANGED Promise!promiseVars
  <1> USE StoreAssumption, PhysRange
  <1>0. /\ StoreInv /\ StoreTypeOK
        /\ step \in {"down", "load", "idle", "newBitmap", "newSuper",
                     "delBitmap", "delSuper"}
    BY PromiseFacts
  <1>n. ~Spend("fail", MaxFail) /\ ~Spend("power", MaxPower)
    BY <1>0, NoFault
  <1>1. ASSUME NEW b \in Block, NEW p \in Phys, NewBlock(b, p)
        PROVE  Promise!Call(b)
    <2>1. /\ bits[1] = physical /\ bits' = bits /\ p \notin bits[1]
          /\ step = "idle" /\ step' = "newBitmap" /\ op'.block = b
      BY <1>0, <1>1 DEF NewBlock, Avail, DurableInv, StoreInv
    <2>2. \A q \in bits[1] : prefix'[q] = prefix[q]
      BY <1>0, <1>1, <2>1 DEF NewBlock, StoreTypeOK
    <2>3. Stored' = Stored
      BY <2>1, <2>2 DEF Stored
    <2>4. b \notin Stored
      BY <1>1, <2>1, StoredIdle DEF NewBlock
    <2>5. Told' = [Told EXCEPT ![b] = "unknown"]
      <3>1. acked' = [acked EXCEPT ![b] = 0] /\ 0 \in -1 .. N
        BY <1>1 DEF NewBlock
      <3>2. QED
        BY <1>0, <3>1, ToldChanges
    <2>6. Phase = "idle" /\ Phase' = "new" /\ Called' = b
      BY <2>1 DEF Phase, Called
    <2>7. QED
      BY <2>3, <2>4, <2>5, <2>6 DEF Promise!Call
  <1>2. ASSUME NewBitmap \/ DelBitmap PROVE Promise!Take
    <2>1. /\ step \in {"newBitmap", "delBitmap"}
          /\ bits' = <<bitmap, bitmap>> /\ UNCHANGED <<prefix, op, acked>>
          /\ step' = IF step = "newBitmap" THEN "newSuper" ELSE "delSuper"
      BY <1>2 DEF NewBitmap, DelBitmap
    <2>2. Stored' = Promise!Changed
      BY <2>1, BitmapTakes DEF Stored
    <2>3. /\ Phase \in {"new", "del"}
          /\ Phase' = IF Phase = "new" THEN "newDone" ELSE "delDone"
          /\ Called' = Called
      BY <2>1 DEF Phase, Called
    <2>4. Told' = Told
      BY <2>1 DEF Told
    <2>5. QED
      BY <2>2, <2>3, <2>4 DEF Promise!Take
  <1>3. ASSUME NewSuper PROVE Promise!Return
    <2>1. /\ step = "newSuper" /\ step' = "idle" /\ UNCHANGED <<bits, prefix>>
          /\ op.block \in Block /\ op.phys \in Phys
          /\ acked' = [acked EXCEPT ![op.block] = op.phys]
      BY <1>0, <1>3 DEF NewSuper, StoreInv, StoreTypeOK
    <2>2. op.phys > 0 /\ op.phys \in -1 .. N
      BY <2>1 DEF Phys
    <2>3. Told' = [Told EXCEPT ![op.block] = "there"]
      BY <1>0, <2>1, <2>2, ToldChanges
    <2>4. /\ Phase = "newDone" /\ Called = op.block /\ Phase' = "idle"
          /\ Called' = NoBlock /\ Stored' = Stored
      BY <2>1 DEF Phase, Called, Stored
    <2>5. QED
      BY <2>3, <2>4 DEF Promise!Return
  <1>4. ASSUME NEW b \in Block, DelBlock(b) PROVE Promise!Call(b)
    <2>1. /\ step = "idle" /\ step' = "delBitmap" /\ op'.block = b
          /\ UNCHANGED <<bits, prefix>>
      BY <1>4 DEF DelBlock, diskVars
    <2>2. b \in Stored
      BY <1>4, <2>1, StoredIdle DEF DelBlock
    <2>3. Told' = [Told EXCEPT ![b] = "unknown"]
      <3>1. acked' = [acked EXCEPT ![b] = 0] /\ 0 \in -1 .. N
        BY <1>4 DEF DelBlock
      <3>2. QED
        BY <1>0, <3>1, ToldChanges
    <2>4. Phase = "idle" /\ Phase' = "del" /\ Called' = b /\ Stored' = Stored
      BY <2>1 DEF Phase, Called, Stored
    <2>5. QED
      BY <2>2, <2>3, <2>4 DEF Promise!Call
  <1>5. ASSUME DelSuper PROVE Promise!Return
    <2>1. /\ step = "delSuper" /\ step' = "idle" /\ UNCHANGED <<bits, prefix>>
          /\ op.block \in Block
          /\ acked' = [acked EXCEPT ![op.block] = -1]
      BY <1>0, <1>5 DEF DelSuper, Deleted, StoreInv
    <2>2. Told' = [Told EXCEPT ![op.block] = "gone"]
      <3>1. -1 \in -1 .. N
        OBVIOUS
      <3>2. QED
        BY <1>0, <2>1, <3>1, ToldChanges
    <2>3. /\ Phase = "delDone" /\ Called = op.block /\ Phase' = "idle"
          /\ Called' = NoBlock /\ Stored' = Stored
      BY <2>1 DEF Phase, Called, Stored
    <2>4. QED
      BY <2>2, <2>3 DEF Promise!Return
  <1>6. CASE Bootstrap
    <2>1. /\ step = "down" /\ step' = "load" /\ UNCHANGED <<bits, prefix, acked>>
      BY <1>6 DEF Bootstrap, diskVars
    <2>2. QED
      BY <2>1 DEF Phase, Called, Stored, Told, Promise!promiseVars
  <1>7. ASSUME Loaded, UNCHANGED <<bits, prefix, acked>>
        PROVE  Promise!Start \/ UNCHANGED Promise!promiseVars
    <2>1. step = "load" /\ step' \in {"load", "idle"}
      BY <1>7 DEF Loaded
    <2>2. /\ Phase = "down" /\ Called = NoBlock /\ Called' = NoBlock
          /\ Phase' \in {"down", "idle"} /\ Stored' = Stored /\ Told' = Told
      BY <1>7, <2>1 DEF Phase, Called, Stored, Told
    <2>3. QED
      BY <2>2 DEF Promise!Start, Promise!promiseVars
  <1>8. CASE LoadFree \/ \E b \in Block : LoadMain(b)
    BY <1>7, <1>8 DEF LoadFree, LoadMain, diskVars, Promise!Next
  <1>9. CASE LoadEmpty \/ \E b \in Block : LoadTwin(b) \/ LoadTriplet(b)
    <2>1. ~LoadEmpty
      BY <1>0 DEF LoadEmpty, Loaded, DurableInv, DiskSound
    <2>2. ASSUME NEW b \in Block PROVE ~LoadTriplet(b)
      BY DEF LoadTriplet, Triplet, None, DurableInv
    <2>3. ASSUME NEW b \in Block, LoadTwin(b)
          PROVE Promise!Start \/ UNCHANGED Promise!promiseVars
      BY <1>7, <2>3 DEF LoadTwin, diskVars
    <2>4. QED
      BY <1>9, <2>1, <2>2, <2>3 DEF Promise!Next
  <1>10. CASE Crash
    <2>1. /\ step # "down" /\ step' = "down" /\ UNCHANGED <<prefix, acked>>
          /\ bits' \in Torn(Pending)
      BY <1>10 DEF Crash, CutOff, Forget
    <2>2. bits'[1] = bits[1] \/ bits'[1] \in Pending
      BY <2>1 DEF Torn
    <2>3. step \notin {"newBitmap", "delBitmap"} => Pending = {}
      <3>1. ~(step = "load" /\ op.phys \in bitmap /\ prefix[op.phys] = NoBlock)
        BY <1>0 DEF DurableInv, DiskSound
      <3>2. ~(\E b \in Block : Triplet(b))
        BY DEF DurableInv, None, Triplet
      <3>3. QED
        BY <1>0, <3>1, <3>2 DEF Pending
    <2>4. step \in {"newBitmap", "delBitmap"} => Pending = {bitmap}
      BY DEF Pending
    <2>5. /\ Phase' = "down" /\ Called' = NoBlock /\ Told' = Told
      BY <2>1 DEF Phase, Called, Told
    <2>6. Stored' = {prefix[p] : p \in bits'[1]}
      BY <2>1 DEF Stored
    <2>7. CASE step \in {"newBitmap", "delBitmap"}
      <3>1. Stored' \in {Stored, Promise!Changed}
        BY <2>2, <2>4, <2>6, <2>7, BitmapTakes DEF Stored
      <3>2. Phase \in {"new", "del"}
        BY <2>7 DEF Phase
      <3>3. QED
        BY <2>5, <3>1, <3>2 DEF Promise!Crash, Promise!Next
    <2>8. CASE step = "load"
      BY <2>2, <2>3, <2>5, <2>6, <2>8
      DEF Phase, Called, Stored, Promise!promiseVars
    <2>9. CASE step \in {"idle", "newSuper", "delSuper"}
      <3>1. Stored' = Stored /\ Phase # "down" /\ Phase \notin {"new", "del"}
        BY <2>2, <2>3, <2>6, <2>9 DEF Stored, Phase
      <3>2. QED
        BY <2>5, <3>1 DEF Promise!Crash, Promise!Next
    <2>10. QED
      BY <1>0, <2>1, <2>7, <2>8, <2>9
  <1>11. CASE UndoBitmap \/ UndoSuper
    BY <1>0, <1>11 DEF UndoBitmap, UndoSuper
  <1>12. CASE NewBitmapFails \/ NewSuperFails \/ DelBitmapFails \/ PowerLoss
    BY <1>12, <1>n DEF NewBitmapFails, NewSuperFails, DelBitmapFails, PowerLoss
  <1>13. ASSUME NEW b \in Block, NEW p \in Phys PROVE ~NewBlockFails(b, p)
    BY <1>n DEF NewBlockFails
  <1>14. QED
    BY <1>1, <1>2, <1>3, <1>4, <1>5, <1>6, <1>8, <1>9, <1>10, <1>11, <1>12,
       <1>13
    DEF StoreNext, Write, Load, Fails, Promise!Next

(* new_block and del_block of a data server whose writes succeed are        *)
(* indivisible and durable, at whatever point of their three writes, or of  *)
(* the load after a restart, the process dies: the store implements         *)
(* DurableBlocks.                                                           *)
THEOREM PromiseKept ==
    ASSUME MaxFail = 0, MaxPower = 0 PROVE StoreSpec => StoreKeepsPromise
  <1>1. StoreInit => Promise!Init
    <2> SUFFICES ASSUME StoreInit PROVE Promise!Init
      OBVIOUS
    <2>1. Stored = {}
      BY DEF StoreInit, Stored
    <2>2. Phase = "down" /\ Called = NoBlock
      BY DEF StoreInit, Phase, Called
    <2>3. Told = [b \in Block |-> "unknown"]
      BY DEF StoreInit, Told, None
    <2>4. QED
      BY <2>1, <2>2, <2>3 DEF Promise!Init
  <1>2. DurableInv /\ [StoreNext]_storeVars => [Promise!Next]_(Promise!promiseVars)
    <2>1. ASSUME UNCHANGED storeVars PROVE UNCHANGED Promise!promiseVars
      BY <2>1 DEF storeVars, diskVars, memVars, Stored, Phase, Called, Told,
                  Promise!promiseVars
    <2>2. QED
      BY <2>1, PromiseStep
  <1>3. StoreSpec => []DurableInv
    BY DurableInvariance
  <1>4. QED
    BY <1>1, <1>2, <1>3, PTL DEF StoreSpec, StoreKeepsPromise, Promise!Spec
=============================================================================
