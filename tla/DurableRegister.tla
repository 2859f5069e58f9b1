-------------------------- MODULE DurableRegister --------------------------
(***************************************************************************)
(* What a crash-consistent state file promises: the state a restart would  *)
(* find only ever changes to a newer one, and a state is acknowledged to   *)
(* its writer only once a restart would find it.  States are numbered in   *)
(* the order of the attempts to store them; 0 is "none".                   *)
(***************************************************************************)
EXTENDS Integers

VARIABLES value,    \* the state a restart would find
          acked     \* the last state whose writer was told of success

Init == value = 0 /\ acked = 0

Change == value' \in Nat /\ value' > value /\ UNCHANGED acked
Acknowledge == value' \in Nat /\ value' >= value /\ acked' = value'

Next == Change \/ Acknowledge
Spec == Init /\ [][Next]_<<value, acked>>
=============================================================================
