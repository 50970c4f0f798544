--------------------------- MODULE MCConsumerGroup ---------------------------
(* Model values and bounds for checking ConsumerGroup with TLC.            *)
EXTENDS ConsumerGroup, TLC

CONSTANTS b1, b2

MCBrokers   == {b1, b2}
MCMembers   == {1, 2}
MCSymmetry  == Permutations({b1, b2})
=============================================================================
