----------------------------- MODULE MCPackages -----------------------------
(* Model values and bounds for checking BrokerPackages with TLC.           *)
EXTENDS BrokerPackages

CONSTANTS e1, e2, c1, c2, w1, w2, w3, s1, s2

MCBrokers      == {0, 1}
MCElections    == {e1, e2}
MCReplicas     == <<0, 1>>
MCISRs         == {<<1, 0>>}
MCReplicaLists == {<<0, 1>>, <<1>>}
MCConsumers    == {c1, c2}
MCSenders      == {s1, s2}
MCWaiting      == {s1}
MCTopicParts   == {0, 1}
MCWorkers      == {w1, w2, w3}
MCFactors      == {0, 2}
MCGroupMembers == {1, 2, 3}
MCCounts       == {0, 2, 3}
MCOffsets      == {1}
MCSeekOffsets  == {0, 1}
\* Reported offsets on both sides of ReplicationTime - OffsetThreshold.
MCSyncOffsets  == {5, 95}
=============================================================================
