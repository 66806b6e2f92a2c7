---------------------------- MODULE DurableBlocks ----------------------------
(***************************************************************************)
(* What the block store of a data server promises its callers, without the *)
(* bitmap, the super block, the maps and the order of their writes: a set  *)
(* of blocks that new_block and del_block change one at a time, each in    *)
(* one indivisible moment between the call and its return.  A crash loses  *)
(* the call under way, before or after that moment, and nothing else; a    *)
(* restart finds the set as it was.                                        *)
(***************************************************************************)
CONSTANTS Block,   \* logic blocks <fileid, chunkid>
          NoBlock  \* no call under way

VARIABLES stored,  \* the blocks that survive a restart
          phase,   \* "down", "idle", or how far the call under way is
          block,   \* its block
          told     \* what callers know of each block

promiseVars == <<stored, phase, block, told>>

Init ==
    /\ stored = {}
    /\ phase = "down"
    /\ block = NoBlock
    /\ told = [b \in Block |-> "unknown"]

(* A caller may no longer rely on what it knew of b. *)
Call(b) ==
    /\ phase = "idle"
    /\ phase' = IF b \in stored THEN "del" ELSE "new"
    /\ block' = b
    /\ told' = [told EXCEPT ![b] = "unknown"]
    /\ UNCHANGED stored

(* The set after the call under way. *)
Changed == IF phase = "new" THEN stored \cup {block} ELSE stored \ {block}

Take ==
    /\ phase \in {"new", "del"}
    /\ stored' = Changed
    /\ phase' = IF phase = "new" THEN "newDone" ELSE "delDone"
    /\ UNCHANGED <<block, told>>

Return ==
    /\ phase \in {"newDone", "delDone"}
    /\ told' = [told EXCEPT ![block] =
                  IF phase = "newDone" THEN "there" ELSE "gone"]
    /\ phase' = "idle" /\ block' = NoBlock
    /\ UNCHANGED stored

Crash ==
    /\ phase # "down"
    /\ stored' \in {stored} \cup IF phase \in {"new", "del"} THEN {Changed} ELSE {}
    /\ phase' = "down" /\ block' = NoBlock
    /\ UNCHANGED told

Start ==
    /\ phase = "down"
    /\ phase' = "idle"
    /\ UNCHANGED <<stored, block, told>>

Next == (\E b \in Block : Call(b)) \/ Take \/ Return \/ Crash \/ Start

Spec == Init /\ [][Next]_promiseVars
=============================================================================
