----------------------------- MODULE MCCollector -----------------------------
(* Model values and bounds for checking Collector with TLC.                *)
EXTENDS Collector

CONSTANTS s1, s2

MCSources   == {s1, s2}
MCOneSource == {s1}
=============================================================================
