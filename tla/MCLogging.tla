------------------------------ MODULE MCLogging ------------------------------
(* A small instance of Logging for TLC.                                    *)
EXTENDS Logging, TLC

CONSTANTS c1, c2, c3

MCCallers  == {c1, c2, c3}
MCSymmetry == Permutations(MCCallers)

=============================================================================
