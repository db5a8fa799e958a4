--------------------------- MODULE MCNotifications ---------------------------
(* A small instance of Notifications for TLC.  No property tells threads or *)
(* the two remote writers apart.                                           *)
EXTENDS Notifications, TLC

CONSTANTS topic, in, out1, out2, r1, r2, d1

MCTopics    == {topic}
MCRemotes   == {in, out1, out2}
MCOffer     == [p \in MCRemotes |->
                  <<IF p = in THEN "reader" ELSE "writer", topic>>]
MCThreads   == {r1, r2}
MCDelegates == {d1}

MCSymmetry == Permutations(MCThreads) \cup Permutations({out1, out2})

=============================================================================
