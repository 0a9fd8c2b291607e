--------------------------------- MODULE MCInbox ---------------------------------
(* Small instances of Inbox for TLC: three updates, two of them of one chat. *)
EXTENDS Inbox

CONSTANTS w1, w2

MCWorkers == {w1, w2}
MCUpdates == 1..3
MCChat == [u \in MCUpdates |-> IF u = 3 THEN "b" ELSE "a"]
PairUpdates == 1..2
PairChat == [u \in PairUpdates |-> "a"]

=============================================================================
