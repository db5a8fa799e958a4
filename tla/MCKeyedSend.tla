---------------------------- MODULE MCKeyedSend ----------------------------
(* A small instance of KeyedSend for TLC: handles of two bytes, and keys   *)
(* without bytes, of zeros, shorter, as long as and longer than a handle.  *)
(* The digest is a bad one, so that two long keys and a short one collide. *)
EXTENDS KeyedSend, TLC

CONSTANTS s1, s2, b1, b2, b3, b4

MCSenders   == {s1, s2}
MCAddresses == {b1, b2, b3, b4}
MCBytes     == 0 .. 4
MCKeys      == {<< >>, <<0>>, <<1>>, <<1, 0>>, <<1, 0, 0>>, <<0, 1, 0>>, <<4, 1>>}
MCPayloads  == {<<2>>, <<3, 4>>}

MCMD5 == [key \in [1 .. 3 -> MCBytes] |-> <<4, (key[1] + key[2] + key[3]) % 2>>]

MCSymmetry == Permutations(MCSenders) \cup Permutations(MCAddresses)

=============================================================================
