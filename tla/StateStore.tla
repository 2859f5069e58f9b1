----------------------------- MODULE StateStore -----------------------------
(***************************************************************************)
(* The two-slot file in which the controller backend keeps its state       *)
(* (load_state and store_state of controller_recipe.rs), in the page cache *)
(* and on the disk.                                                        *)
(*                                                                         *)
(* A slot has a payload and a descriptor with the sequence number and the  *)
(* digest of that payload.  A state is numbered by the attempt that stores *)
(* it, and its number is its digest.  A descriptor is one sector and is    *)
(* written whole; a payload spans many, and may be found half written.     *)
(***************************************************************************)
EXTENDS Integers

CONSTANTS
    KillPoints,   \* where in store_state a backend may be killed
    MaxStores,    \* attempts to store a state in a behaviour
    MaxKills      \* backends killed in a behaviour

StorePoints == {"payload", "payload-sync", "descriptor", "descriptor-sync"}
ASSUME KillAssumption  == KillPoints \subseteq StorePoints
ASSUME BoundAssumption == MaxStores \in Nat /\ MaxKills \in Nat

VARIABLES disk, cache,  \* the file on the disk, and as processes read it
          pc,           \* where the backend stands in store_state
          cur,          \* the state being stored
          acked,        \* the last state whose store_state returned Ok
          used
vars == <<disk, cache, pc, cur, acked, used>>

Slots == {0, 1}
Torn == -1                       \* a payload that is no state
State == [seq : Nat, val : Nat]
Zero == [seq |-> 0, val |-> 0]   \* an all-zero descriptor; val 0 is no state
Contents == [desc : State, pay : Nat \cup {Torn}]
Files == [Slots -> Contents]

\* Sequence numbers never fall below zero; only a payload may be torn.
TypeOK ==
    /\ disk \in Files /\ cache \in Files
    /\ pc \in {"idle"} \cup StorePoints
    /\ cur \in State
    /\ acked \in Nat
    /\ used \in [stores : Nat, kills : Nat]

Init ==
    /\ disk = [s \in Slots |-> [desc |-> Zero, pay |-> 0]]
    /\ cache = disk
    /\ pc = "idle" /\ cur = Zero /\ acked = 0
    /\ used = [stores |-> 0, kills |-> 0]

-----------------------------------------------------------------------------
(* load_state *)

\* A descriptor counts only with the payload whose digest it holds.
Valid(f, s) == f[s].desc # Zero /\ f[s].pay = f[s].desc.val

\* The newest valid slot.  Without one, a file whose descriptors are both
\* zero holds no state yet, and any other is refused.
Latest_First(f, s) == TRUE                                         \* mutant
Latest(f, s) ==
    \A t \in Slots : Valid(f, t) => f[t].desc.seq <= f[s].desc.seq
Uninitialised(f) == \A s \in Slots : f[s].desc = Zero
Refused(f) == ~Uninitialised(f) /\ \A s \in Slots : ~Valid(f, s)

Loaded(f) ==
    IF \E s \in Slots : Valid(f, s)
    THEN f[CHOOSE s \in Slots : Valid(f, s) /\ Latest(f, s)].desc
    ELSE Zero

-----------------------------------------------------------------------------
(* store_state *)

\* The sequence number after the loaded one, and the slot it selects: the
\* one that does not hold the loaded state.
NextSeq(f) == IF Loaded(f) = Zero THEN 0 ELSE Loaded(f).seq + 1
Begin ==
    /\ pc = "idle" /\ used.stores < MaxStores
    /\ ~Refused(cache)
    /\ cur' = [seq |-> NextSeq(cache), val |-> used.stores + 1]
    /\ pc' = "payload"
    /\ used' = [used EXCEPT !.stores = @ + 1]
    /\ UNCHANGED <<disk, cache, acked>>

SlotOf_Fixed(seq) == 0                                             \* mutant
SlotOf(seq) == seq % 2

WritePayload ==
    /\ pc = "payload"
    /\ cache' = [cache EXCEPT ![SlotOf(cur.seq)].pay = cur.val]
    /\ pc' = "payload-sync"
    /\ UNCHANGED <<disk, cur, acked, used>>

\* sync_data and sync_all of the file write all of it to the disk.
PayloadSynced_Skipped == disk                                      \* mutant
PayloadSynced == cache
SyncPayload ==
    /\ pc = "payload-sync"
    /\ disk' = PayloadSynced
    /\ pc' = "descriptor"
    /\ UNCHANGED <<cache, cur, acked, used>>

WriteDescriptor ==
    /\ pc = "descriptor"
    /\ cache' = [cache EXCEPT ![SlotOf(cur.seq)].desc = cur]
    /\ pc' = "descriptor-sync"
    /\ UNCHANGED <<disk, cur, acked, used>>

SyncDescriptor ==
    /\ pc = "descriptor-sync"
    /\ disk' = cache
    /\ acked' = cur.val
    /\ pc' = "idle"
    /\ UNCHANGED <<cache, cur, used>>

-----------------------------------------------------------------------------
(* Around it. *)

\* The core kills a backend that exceeds its timeout; a write or sync that
\* fails ends store_state at the same points.
Kill ==
    /\ pc \in KillPoints /\ used.kills < MaxKills
    /\ \/ UNCHANGED cache
       \/ /\ pc = "payload"
          /\ cache' = [cache EXCEPT ![SlotOf(cur.seq)].pay = Torn]
    /\ pc' = "idle"
    /\ used' = [used EXCEPT !.kills = @ + 1]
    /\ UNCHANGED <<disk, cur, acked>>

\* The kernel writes what it likes whenever it likes.
Writeback ==
    /\ \E s \in Slots :
         \/ disk' = [disk EXCEPT ![s].desc = cache[s].desc]
         \/ /\ disk[s].pay # cache[s].pay
            /\ \E v \in {cache[s].pay, Torn} :
                 disk' = [disk EXCEPT ![s].pay = v]
    /\ UNCHANGED <<cache, pc, cur, acked, used>>

PowerLoss ==
    /\ cache' = disk
    /\ pc' = "idle"
    /\ UNCHANGED <<disk, cur, acked, used>>

Next == \/ Begin \/ WritePayload \/ SyncPayload
        \/ WriteDescriptor \/ SyncDescriptor
        \/ Kill \/ Writeback \/ PowerLoss

Spec == Init /\ [][Next]_vars

-----------------------------------------------------------------------------
(* Properties. *)

\* Whatever happens in between, a restart after a loss of power finds the
\* last acknowledged state or one whose store had begun after it.
CrashConsistent ==
    /\ ~Refused(disk)
    /\ Loaded(disk).val >= acked

\* A running backend reads back no older state than a restart would.
ReadsCurrent == ~Refused(cache) /\ Loaded(cache).val >= Loaded(disk).val

\* The file implements a durable register.
Register == INSTANCE DurableRegister WITH value <- Loaded(disk).val
ImplementsRegister == Register!Spec
=============================================================================
