------------------------------ MODULE MCBroker ------------------------------
(* Model values and bounds for checking Broker with TLC.                   *)
EXTENDS Broker

CONSTANTS b1, b2, t1, h1, h2, h3

MCBrokers    == {b1, b2}
MCOneBroker  == {b1}
MCTopics     == {t1}
MCThreads    == {h1, h2}
MCThreads3   == {h1, h2, h3}
MCSizes      == {1, 2}
MCOneSize    == {1}
MCFetchFrom  == {0, 1}
MCNoFetch    == {}
=============================================================================
