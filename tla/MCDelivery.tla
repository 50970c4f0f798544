----------------------------- MODULE MCDelivery -----------------------------
(* Model values and bounds for checking Delivery with TLC.                 *)
EXTENDS Delivery, TLC

CONSTANTS c1, c2

MCConsumers     == {c1, c2}
MCOneConsumer   == {c1}
MCOnePartition  == {0}
MCTwoPartitions == {0, 1}
MCShares        == {{}, {0}}
MCAllShares     == {{}, {0, 1}}
MCSymmetry      == Permutations({c1, c2})
=============================================================================
