---------------------------- MODULE MCDataServer ----------------------------
(* A data server in two halves, each explored while the other one rests:   *)
(* two uploads and a download of one block, and the task that reports      *)
(* results to the name service.  They meet only in the queue of results.   *)
EXTENDS DsTransfer, DsSession, TLC

VARIABLE half

(* The whole block, a range that ends past it, and one that starts there. *)
Ranges == { [from |-> 1, to |-> Segs],
            [from |-> Segs, to |-> Segs + 1], [from |-> Segs + 2, to |-> Segs + 2] }

(* A session that has nothing to do. *)
Rests ==
    /\ fState = "connected" /\ fEvents = {} /\ stage = "off"
    /\ conn = "up" /\ watch = {"in"} /\ pool = {"in"}
    /\ Nothing

ServerInit ==
    /\ TransferInit
    /\ \/ half = "transfers" /\ Rests
       \/ half = "session" /\ SessionInit

ServerNext ==
    \/ half = "transfers" /\ Next /\ UNCHANGED <<half, sessionVars>>
    \/ half = "session" /\ SessionNext /\ UNCHANGED <<half, vars>>

ServerSpec ==
    /\ ServerInit /\ [][ServerNext]_<<half, vars, sessionVars>>
    /\ TransferFair /\ SessionFair
=============================================================================
