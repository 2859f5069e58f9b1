---------------------------- MODULE DurableLog ----------------------------
(***************************************************************************)
(* What an append-only journal promises: what is on stable storage is only *)
(* ever extended, and a record is acknowledged to its writer only once it  *)
(* is there, to stay.                                                      *)
(***************************************************************************)
EXTENDS SequencesExt

VARIABLES log,      \* the lines on stable storage
          acked     \* the records whose writer was told of success

Init == log = <<>> /\ acked = {}

Persist == IsPrefix(log, log') /\ UNCHANGED acked
Acknowledge == UNCHANGED log /\ \E r \in Range(log) : acked' = acked \cup {r}
PersistAndAcknowledge ==
    /\ IsPrefix(log, log')
    /\ \E r \in Range(log') : acked' = acked \cup {r}

Next == Persist \/ Acknowledge \/ PersistAndAcknowledge
Spec == Init /\ [][Next]_<<log, acked>>
=============================================================================
