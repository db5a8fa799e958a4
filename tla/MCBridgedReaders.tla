-------------------------- MODULE MCBridgedReaders --------------------------
(* Small instances of BridgedReaders for TLC.                              *)
EXTENDS BridgedReaders, TLC

CONSTANTS t1, t2, d1, d2, d3, r1, r2

MCTopics    == {t1, t2}
MCDecoders  == {d1, d2, d3}
MCReceivers == {r1, r2}

=============================================================================
