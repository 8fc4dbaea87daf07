-------------------------- MODULE HeartbeatDelivery --------------------------
(***************************************************************************)
(* What the heartbeat path promises, without queue, batches or processes:   *)
(* a heartbeat that is handed over stays pending until it is done, that is, *)
(* answered by every target or merged into a near duplicate; a lossy path   *)
(* may also drop a pending one.  Done and dropped are final.                *)
(***************************************************************************)
CONSTANTS Heartbeats, Lossy

VARIABLE status

Pending == {h \in Heartbeats : status[h] = "pending"}

DInit == \E P \in SUBSET Heartbeats :
            status = [h \in Heartbeats |-> IF h \in P THEN "pending" ELSE "new"]

\* New heartbeats are handed over.
Hand == \E H \in SUBSET {h \in Heartbeats : status[h] = "new"} :
            status' = [h \in Heartbeats |-> IF h \in H THEN "pending" ELSE status[h]]

\* Some pending heartbeats are done, and a lossy path drops others.
Resolve == \E D \in SUBSET Pending : \E L \in SUBSET (Pending \ D) :
            /\ L # {} => Lossy
            /\ status' = [h \in Heartbeats |-> IF h \in D THEN "done"
                                               ELSE IF h \in L THEN "gone"
                                               ELSE status[h]]

DNext == Hand \/ Resolve

DSpec == DInit /\ [][DNext]_status
=============================================================================
