--------------------------- MODULE MCOfflineQueue ---------------------------
(* Instances of OfflineQueue for TLC. *)
EXTENDS OfflineQueue

\* Heartbeats 1 and 2 are near, 2 and 3 are near, 1 and 3 are not: with the
\* window of one second and times in half seconds.
MCTime == [h \in Heartbeats |-> 2 * h]
MCWindow == 2
\* Half as far apart: 1 and 3 are near as well.
MCNear == [h \in Heartbeats |-> h]
MCFar == [h \in Heartbeats |-> 10 * h]
MCEntity == [h \in Heartbeats |-> "file"]
MCOneTarget == [h \in Heartbeats |-> Targets]
\* [project_api_key] sends 3 elsewhere, [api_urls] sends 2 to both.
MCTwoTargets == [h \in Heartbeats |->
    CASE h = 1 -> {"default"} [] h = 2 -> Targets [] h = 3 -> {"team"}]
=============================================================================
