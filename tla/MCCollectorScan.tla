--------------------------- MODULE MCCollectorScan --------------------------
(* Instances of CollectorScan for TLC.                                       *)
EXTENDS CollectorScan

MCHome == [m \in Ids |-> "f"]

\* Two collectors that overlap, with one event; one collector and two events,
\* once and in a watch.
MCSetups == {[collectors |-> Collectors, ids |-> {"m1"}, watch |-> FALSE],
             [collectors |-> {"c1"}, ids |-> Ids, watch |-> FALSE],
             [collectors |-> {"c1"}, ids |-> Ids, watch |-> TRUE]}
MCWatch == {[collectors |-> Collectors, ids |-> Ids, watch |-> TRUE]}
=============================================================================
