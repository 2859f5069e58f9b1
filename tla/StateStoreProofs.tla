-------------------------- MODULE StateStoreProofs --------------------------
(***************************************************************************)
(* Proofs about the two-slot state file, for any number of stores, kills   *)
(* and losses of power, and about the gate that binds what is in it to a   *)
(* plan and a unit.  The first assume what the code does not ensure: that  *)
(* no backend dies between the write of a descriptor and its sync.         *)
(***************************************************************************)
EXTENDS StateStore, ControllerGate, TLAPS

NotKilledInSync == "descriptor-sync" \notin KillPoints

(* The inductive invariant.  One slot, `a`, holds the state that every load *)
(* finds, or is slot 1 of a file without a state; the other is the slot the *)
(* next store fills.                                                        *)

\* The first descriptor is that of no state, or of one older than the second.
Older(d, e) == d = Zero \/ (d.seq < e.seq /\ d.val < e.val)

Other(a) == 1 - a

\* Slot a, on the disk as in the cache.
Live(a) ==
    /\ disk[a].desc = cache[a].desc
    /\ \/ a = 1 /\ disk[a].desc = Zero /\ acked = 0
       \/ /\ disk[a].desc.val > 0
          /\ disk[a].pay = disk[a].desc.val /\ cache[a].pay = disk[a].desc.val
          /\ disk[a].desc.seq % 2 = a
          /\ acked <= disk[a].desc.val
    /\ disk[a].desc.val <= used.stores

\* The state being stored follows the live one, into the other slot.
Storing(a) ==
    /\ cur.seq = IF disk[a].desc = Zero THEN 0 ELSE disk[a].desc.seq + 1
    /\ cur.val = used.stores /\ cur.val > disk[a].desc.val

\* The other slot: its descriptor on the disk is older than the live one
\* until the new descriptor is written, behind a payload that is synced.
Spare(a) ==
    LET b == Other(a) IN
    /\ Older(disk[b].desc, disk[a].desc)
          \/ (pc = "descriptor-sync" /\ disk[b].desc = cur)
    /\ pc # "descriptor-sync" => cache[b].desc = disk[b].desc
    /\ pc = "descriptor-sync" => cache[b].desc = cur
    /\ pc \in {"payload-sync", "descriptor", "descriptor-sync"} =>
          cache[b].pay = cur.val
    /\ pc \in {"descriptor", "descriptor-sync"} => disk[b].pay = cur.val

StoreInv ==
    /\ TypeOK
    /\ \E a \in Slots : /\ Live(a) /\ Spare(a)
                        /\ pc # "idle" => Storing(a)

-----------------------------------------------------------------------------
(* What load_state finds. *)

LEMMA Parity == \A n \in Nat : n % 2 \in Slots /\ (n + 1) % 2 = 1 - (n % 2)
  BY SMT DEF Slots

LEMMA TwoSlots == \A a \in Slots : /\ Other(a) \in Slots /\ Other(a) # a
                                   /\ Other(Other(a)) = a
                                   /\ \A s \in Slots : s = a \/ s = Other(a)
  BY SMT DEF Slots, Other

\* The valid slot with the highest sequence number is the one loaded.
LEMMA LoadsNewest ==
  ASSUME NEW f \in Files, NEW a \in Slots, Valid(f, a),
         f[Other(a)].desc = Zero \/ f[Other(a)].desc.seq < f[a].desc.seq
  PROVE  Loaded(f) = f[a].desc /\ ~Refused(f)
<1>1. /\ f[a].desc \in State /\ f[Other(a)].desc \in State
      /\ \A s \in Slots : s = a \/ s = Other(a)
  BY TwoSlots DEF Files, Contents
<1>2. \A s \in Slots : Valid(f, s) /\ Latest(f, s) <=> s = a
  BY <1>1, TwoSlots, SMT DEF Valid, Latest, State
<1>3. (CHOOSE s \in Slots : Valid(f, s) /\ Latest(f, s)) = a
  BY <1>2
<1> QED BY <1>3 DEF Loaded, Refused

\* A file of which no descriptor was ever written holds no state.
LEMMA LoadsNothing ==
  ASSUME NEW f, Uninitialised(f)
  PROVE  Loaded(f) = Zero /\ ~Refused(f)
  BY DEF Uninitialised, Loaded, Refused, Valid

LEMMA ZeroType == Zero \in State /\ Zero.seq = 0 /\ Zero.val = 0
  BY DEF Zero, State

\* Before the new descriptor is written every load finds the live slot; then
\* the disk may hold either state.
LEMMA LoadsLive ==
  ASSUME TypeOK, NEW a \in Slots, Live(a), Spare(a),
         pc # "idle" => Storing(a)
  PROVE  /\ ~Refused(disk) /\ ~Refused(cache)
         /\ pc # "descriptor-sync" => /\ Loaded(disk) = disk[a].desc
                                      /\ Loaded(cache) = disk[a].desc
         /\ pc = "descriptor-sync" =>
              /\ Loaded(cache) = cur
              /\ Loaded(disk) = IF disk[Other(a)].desc = cur
                                THEN cur ELSE disk[a].desc
<1> DEFINE b == Other(a)
<1>1. /\ b \in Slots /\ b # a /\ Other(b) = a
      /\ \A s \in Slots : s = a \/ s = b
  BY TwoSlots
<1>2. /\ disk \in Files /\ cache \in Files /\ cur \in State
      /\ disk[a].desc \in State /\ disk[b].desc \in State
  BY <1>1 DEF TypeOK, Files, Contents
<1>3. disk[a].desc = cache[a].desc
  BY DEF Live
<1>6. pc # "descriptor-sync" => cache[b].desc = disk[b].desc
  BY DEF Spare
<1> HIDE DEF b
<1>4. ASSUME disk[b].desc # cur \/ pc # "descriptor-sync"
      PROVE  /\ Loaded(disk) = disk[a].desc /\ ~Refused(disk)
             /\ pc # "descriptor-sync" => /\ Loaded(cache) = disk[a].desc
                                          /\ ~Refused(cache)
  <2>1. Older(disk[b].desc, disk[a].desc)
    BY <1>4 DEF Spare, b
  <2>2. CASE disk[a].desc = Zero
    <3>1. disk[b].desc = Zero
      BY <2>1, <2>2, <1>2, ZeroType, SMT DEF Older, State
    <3>2. Uninitialised(disk)
      BY <3>1, <2>2, <1>1 DEF Uninitialised
    <3>3. pc # "descriptor-sync" => Uninitialised(cache)
      BY <3>1, <2>2, <1>1, <1>3, <1>6 DEF Uninitialised
    <3> QED BY <3>2, <3>3, <2>2, LoadsNothing
  <2>3. CASE disk[a].desc # Zero
    <3>1. Valid(disk, a) /\ Valid(cache, a)
      BY <2>3, <1>3 DEF Live, Valid
    <3>2. disk[b].desc = Zero \/ disk[b].desc.seq < disk[a].desc.seq
      BY <2>1 DEF Older
    <3>3. Loaded(disk) = disk[a].desc /\ ~Refused(disk)
      BY <3>1, <3>2, <1>2, LoadsNewest DEF b
    <3>4. pc # "descriptor-sync" => /\ Loaded(cache) = disk[a].desc
                                    /\ ~Refused(cache)
      BY <3>1, <3>2, <1>2, <1>3, <1>6, LoadsNewest DEF b
    <3> QED BY <3>3, <3>4
  <2> QED BY <2>2, <2>3
<1>5. CASE pc = "descriptor-sync"
  <2>1. cur # Zero
    BY <1>5, <1>2, ZeroType, SMT DEF Storing, State
  <2>2. disk[a].desc = Zero \/ disk[a].desc.seq < cur.seq
    BY <1>5, <1>2, SMT DEF Storing, State
  <2>3. cache[b].desc = cur /\ cache[b].pay = cur.val /\ disk[b].pay = cur.val
    BY <1>5 DEF Spare, b
  <2>4. Loaded(cache) = cur /\ ~Refused(cache)
    <3>1. Valid(cache, b)
      BY <2>1, <2>3 DEF Valid
    <3> QED BY <3>1, <2>2, <2>3, <1>1, <1>2, <1>3, LoadsNewest
  <2>5. disk[b].desc = cur => Loaded(disk) = cur /\ ~Refused(disk)
    <3>1. disk[b].desc = cur => Valid(disk, b)
      BY <2>1, <2>3 DEF Valid
    <3> QED BY <3>1, <2>2, <1>1, <1>2, LoadsNewest
  <2> QED BY <2>4, <2>5, <1>4, <1>5 DEF b
<1> QED BY <1>4, <1>5

\* The slot a store fills is the one that is not live.
LEMMA FillsOther ==
  ASSUME TypeOK, NEW a \in Slots, Live(a), Storing(a)
  PROVE  SlotOf(cur.seq) = Other(a)
<1>1. disk[a].desc \in State
  BY DEF TypeOK, Files, Contents
<1>2. CASE disk[a].desc = Zero
  BY <1>2, ZeroType, SMT DEF Live, Storing, SlotOf, Other
<1>3. CASE disk[a].desc # Zero
  <2>1. disk[a].desc.seq \in Nat /\ disk[a].desc.seq % 2 = a
    BY <1>1, <1>3 DEF Live, State
  <2>2. cur.seq = disk[a].desc.seq + 1
    BY <1>3 DEF Storing
  <2> QED BY <2>1, <2>2, Parity DEF SlotOf, Other
<1> QED BY <1>2, <1>3

-----------------------------------------------------------------------------
(* The invariant. *)

LEMMA InitInv == Init => StoreInv
<1> SUFFICES ASSUME Init PROVE StoreInv OBVIOUS
<1>1. TypeOK
  BY DEF Init, TypeOK, Files, Contents, State, Zero, StorePoints
<1>2. Live(1) /\ Spare(1)
  BY TwoSlots, ZeroType DEF Init, Live, Spare, Older, Slots, Other
<1> QED BY <1>1, <1>2 DEF Init, StoreInv, Slots

LEMMA NewestType ==
  ASSUME NEW f \in Files
  PROVE  (\E s \in Slots : Valid(f, s)) =>
           (CHOOSE s \in Slots : Valid(f, s) /\ Latest(f, s)) \in Slots
<1>1. \A s \in Slots : f[s].desc.seq \in Nat
  BY DEF Files, Contents, State
<1>2. (\E s \in Slots : Valid(f, s)) =>
        \E s \in Slots : Valid(f, s) /\ Latest(f, s)
  BY <1>1, SMT DEF Latest, Slots
<1> QED BY <1>2

LEMMA LoadedType == \A f \in Files : Loaded(f) \in State
  BY NewestType, ZeroType DEF Loaded, Files, Contents

\* A change of one part of a slot.
LEMMA SlotType ==
  ASSUME NEW f \in Files, NEW s \in Slots
  PROVE  /\ \A d \in State : [f EXCEPT ![s].desc = d] \in Files
         /\ \A p \in Nat \cup {Torn} : [f EXCEPT ![s].pay = p] \in Files
<1>1. f[s] \in Contents
  BY DEF Files
<1>2. \A d \in State : [f[s] EXCEPT !.desc = d] \in Contents
  BY <1>1 DEF Contents
<1>3. \A p \in Nat \cup {Torn} : [f[s] EXCEPT !.pay = p] \in Contents
  BY <1>1 DEF Contents
<1> QED BY <1>2, <1>3 DEF Files

LEMMA TypeStep == ASSUME TypeOK, [Next]_vars PROVE TypeOK'
<1>1. /\ disk \in Files /\ cache \in Files /\ cur \in State /\ cur.seq \in Nat
      /\ cur.val \in Nat /\ used.stores \in Nat /\ used.kills \in Nat
      /\ SlotOf(cur.seq) \in Slots /\ cur.val \in Nat \cup {Torn}
  BY Parity DEF TypeOK, State, SlotOf
<1>2. CASE Begin
  <2>1. NextSeq(cache) \in Nat
    BY <1>1, LoadedType, SMT DEF NextSeq, State
  <2>2. cur' \in State
    BY <1>1, <1>2, <2>1, SMT DEF Begin, State
  <2> QED BY <1>2, <2>2, SMT DEF Begin, TypeOK, StorePoints
<1>3. CASE WritePayload
  BY <1>1, <1>3, SlotType DEF WritePayload, TypeOK, StorePoints
<1>4. CASE SyncPayload
  BY <1>4 DEF SyncPayload, PayloadSynced, TypeOK, StorePoints
<1>5. CASE WriteDescriptor
  BY <1>1, <1>5, SlotType DEF WriteDescriptor, TypeOK, StorePoints
<1>6. CASE SyncDescriptor
  BY <1>1, <1>6 DEF SyncDescriptor, TypeOK
<1>7. CASE Kill
  <2>1. cache' \in Files
    BY <1>1, <1>7, SlotType DEF Kill
  <2>2. used' \in [stores : Nat, kills : Nat]
    BY <1>7, SMT DEF Kill, TypeOK
  <2> QED BY <1>7, <2>1, <2>2 DEF Kill, TypeOK
<1>8. CASE Writeback
  <2>1. \A s \in Slots : /\ cache[s].desc \in State
                         /\ {cache[s].pay, Torn} \subseteq Nat \cup {Torn}
    BY <1>1 DEF Files, Contents
  <2>2. disk' \in Files
    BY <1>1, <1>8, <2>1, SlotType DEF Writeback
  <2> QED BY <1>8, <2>2 DEF Writeback, TypeOK
<1>9. CASE PowerLoss
  BY <1>9 DEF PowerLoss, TypeOK
<1>10. CASE UNCHANGED vars
  BY <1>10 DEF vars, TypeOK
<1> QED
  BY <1>2, <1>3, <1>4, <1>5, <1>6, <1>7, <1>8, <1>9, <1>10 DEF Next

\* Every state of the file and the slot that holds what loads find in it.
At(a) == TypeOK /\ Live(a) /\ Spare(a) /\ (pc # "idle" => Storing(a))

LEMMA BeginInv == ASSUME NEW a \in Slots, At(a), Begin PROVE At(a)'
<1>1. Loaded(cache) = disk[a].desc /\ disk[a].desc \in State
  BY LoadsLive DEF At, Begin, TypeOK, Files, Contents
<1>2. /\ cur' = [seq |-> NextSeq(cache), val |-> used.stores + 1]
      /\ used'.stores = used.stores + 1 /\ used'.kills = used.kills
      /\ used.stores \in Nat /\ used.kills \in Nat
  BY DEF Begin, At, TypeOK
<1>3. NextSeq(cache) \in Nat
  BY <1>1, SMT DEF NextSeq, State
<1>4. TypeOK'
  BY TypeStep DEF At, Next
<1>5. Live(a)'
  BY <1>1, <1>2, SMT DEF At, Begin, Live, State
<1>6. Spare(a)'
  BY DEF At, Begin, Spare, Other
<1>7. Storing(a)'
  BY <1>1, <1>2, SMT DEF At, Begin, Live, Storing, NextSeq, State
<1> QED BY <1>4, <1>5, <1>6, <1>7 DEF At

\* A write into the spare slot of the cache.
LEMMA SpareWrite ==
  ASSUME NEW a \in Slots, cache \in Files, NEW v \in Contents,
         cache' = [cache EXCEPT ![Other(a)] = v]
  PROVE  cache' \in Files /\ cache'[a] = cache[a] /\ cache'[Other(a)] = v
  BY TwoSlots DEF Files

LEMMA WritePayloadInv ==
  ASSUME NEW a \in Slots, At(a), WritePayload PROVE At(a)'
<1> DEFINE v == [cache[Other(a)] EXCEPT !.pay = cur.val]
<1>1. /\ cache[Other(a)] \in Contents /\ cur \in State
      /\ cache' = [cache EXCEPT ![Other(a)] = v]
  BY FillsOther, TwoSlots DEF At, WritePayload, TypeOK, Files
<1>2. v \in Contents /\ v.desc = cache[Other(a)].desc /\ v.pay = cur.val
  BY <1>1 DEF Contents, State
<1> HIDE DEF v
<1>3. cache' \in Files /\ cache'[a] = cache[a] /\ cache'[Other(a)] = v
  BY <1>1, <1>2, SpareWrite DEF At, TypeOK
<1>4. TypeOK'
  BY TypeStep DEF At, Next
<1>5. Live(a)' /\ Storing(a)'
  BY <1>3 DEF At, WritePayload, Live, Storing
<1>6. Spare(a)'
  BY <1>2, <1>3 DEF At, WritePayload, Spare, Other
<1> QED BY <1>4, <1>5, <1>6 DEF At

LEMMA SyncPayloadInv ==
  ASSUME NEW a \in Slots, At(a), SyncPayload PROVE At(a)'
<1>1. TypeOK'
  BY TypeStep DEF At, Next
<1>2. Live(a)' /\ Storing(a)'
  BY DEF At, SyncPayload, PayloadSynced, Live, Storing
<1>3. Spare(a)'
  BY DEF At, SyncPayload, PayloadSynced, Live, Spare, Other
<1> QED BY <1>1, <1>2, <1>3 DEF At

LEMMA WriteDescriptorInv ==
  ASSUME NEW a \in Slots, At(a), WriteDescriptor PROVE At(a)'
<1> DEFINE v == [cache[Other(a)] EXCEPT !.desc = cur]
<1>1. /\ cache[Other(a)] \in Contents /\ cur \in State
      /\ cache' = [cache EXCEPT ![Other(a)] = v]
  BY FillsOther, TwoSlots DEF At, WriteDescriptor, TypeOK, Files
<1>2. v \in Contents /\ v.desc = cur /\ v.pay = cache[Other(a)].pay
  BY <1>1 DEF Contents
<1> HIDE DEF v
<1>3. cache' \in Files /\ cache'[a] = cache[a] /\ cache'[Other(a)] = v
  BY <1>1, <1>2, SpareWrite DEF At, TypeOK
<1>4. TypeOK'
  BY TypeStep DEF At, Next
<1>5. Live(a)' /\ Storing(a)'
  BY <1>3 DEF At, WriteDescriptor, Live, Storing
<1>6. Spare(a)'
  BY <1>2, <1>3 DEF At, WriteDescriptor, Spare, Other
<1> QED BY <1>4, <1>5, <1>6 DEF At

\* The new state is complete in its slot, which becomes the live one.
LEMMA Takeover ==
  ASSUME NEW a \in Slots, At(a), pc = "descriptor-sync"
  PROVE  /\ cur.val > 0 /\ cur.seq % 2 = Other(a) /\ acked <= cur.val
         /\ Older(disk[a].desc, cur) /\ cur.val = used.stores
<1>1. disk[a].desc \in State /\ cur \in State /\ acked \in Nat
  BY DEF At, TypeOK, Files, Contents
<1>2. cur.seq % 2 = Other(a)
  BY FillsOther DEF At, SlotOf
<1>3. Older(disk[a].desc, cur)
  BY <1>1, SMT DEF At, Storing, Older, State
<1>4. cur.val > 0 /\ acked <= cur.val /\ cur.val = used.stores
  BY <1>1, SMT DEF At, Live, Storing, State
<1> QED BY <1>2, <1>3, <1>4

LEMMA SyncDescriptorInv ==
  ASSUME NEW a \in Slots, At(a), SyncDescriptor PROVE At(Other(a))'
<1>1. TypeOK'
  BY TypeStep DEF At, Next
<1>2. /\ cur' = cur /\ used' = used /\ acked' = cur.val /\ pc' = "idle"
      /\ cache' = cache /\ disk' = cache
      /\ cache[Other(a)].desc = cur /\ cache[Other(a)].pay = cur.val
      /\ cache[a].desc = disk[a].desc
  BY DEF At, SyncDescriptor, Spare, Live
<1>3. cur \in State
  BY DEF At, TypeOK
<1>4. Live(Other(a))'
  BY <1>2, <1>3, Takeover, SMT DEF SyncDescriptor, Live, State
<1>5. Spare(Other(a))'
  BY <1>2, Takeover, TwoSlots DEF SyncDescriptor, Spare
<1> QED BY <1>1, <1>2, <1>4, <1>5 DEF At

LEMMA KillInv ==
  ASSUME NotKilledInSync, NEW a \in Slots, At(a), Kill PROVE At(a)'
<1>1. /\ pc # "descriptor-sync" /\ pc # "idle" /\ pc' = "idle"
      /\ UNCHANGED <<disk, cur, acked>>
  BY KillAssumption DEF Kill, NotKilledInSync, StorePoints
<1>5. used'.stores = used.stores
  BY DEF Kill, At, TypeOK
<1>2. /\ cache' \in Files /\ cache'[a] = cache[a]
      /\ cache'[Other(a)].desc = cache[Other(a)].desc
  <2>1. CASE UNCHANGED cache
    BY <2>1 DEF At, TypeOK
  <2>2. CASE /\ pc = "payload"
             /\ cache' = [cache EXCEPT ![SlotOf(cur.seq)].pay = Torn]
    <3> DEFINE v == [cache[Other(a)] EXCEPT !.pay = Torn]
    <3>1. cache[Other(a)] \in Contents /\ cache' = [cache EXCEPT ![Other(a)] = v]
      BY <2>2, FillsOther, TwoSlots DEF At, TypeOK, Files
    <3>2. v \in Contents /\ v.desc = cache[Other(a)].desc
      BY <3>1 DEF Contents
    <3> HIDE DEF v
    <3> QED BY <3>1, <3>2, SpareWrite DEF At, TypeOK
  <2> QED BY <2>1, <2>2 DEF Kill
<1>3. TypeOK'
  BY TypeStep DEF At, Next
<1>4. Live(a)' /\ Spare(a)'
  BY <1>1, <1>2, <1>5 DEF At, Live, Spare, Other
<1> QED BY <1>1, <1>3, <1>4 DEF At

\* A write-back changes the live slot on the disk only if that holds no state,
\* and a descriptor only to the one being stored.
LEMMA WritebackInv ==
  ASSUME NEW a \in Slots, At(a), Writeback PROVE At(a)'
<1> DEFINE b == Other(a)
<1>1. /\ b \in Slots /\ b # a
      /\ \A s \in Slots : s = a \/ s = b
      /\ disk \in Files /\ cache \in Files
      /\ UNCHANGED <<cache, pc, cur, acked, used>>
  BY TwoSlots DEF At, TypeOK, Writeback
<1>2. /\ disk[a].desc = cache[a].desc
      /\ pc # "descriptor-sync" => cache[b].desc = disk[b].desc
      /\ pc = "descriptor-sync" => cache[b].desc = cur
      /\ pc \in {"descriptor", "descriptor-sync"} => disk[b].pay = cache[b].pay
      /\ disk[a].desc # Zero => disk[a].pay = cache[a].pay
  BY DEF At, Live, Spare
<1> HIDE DEF b
<1>3. ASSUME NEW s \in Slots, disk' = [disk EXCEPT ![s].desc = cache[s].desc]
      PROVE  At(a)'
  <2>1. /\ disk' \in Files /\ disk'[a] = disk[a]
        /\ disk'[b].pay = disk[b].pay
        /\ \/ disk'[b].desc = disk[b].desc
           \/ pc = "descriptor-sync" /\ disk'[b].desc = cur
    BY <1>1, <1>2, <1>3 DEF Files, Contents
  <2>2. TypeOK'
    BY <1>1, <2>1 DEF At, TypeOK
  <2>3. Live(a)' /\ (pc # "idle" => Storing(a))'
    BY <1>1, <2>1 DEF At, Live, Storing
  <2>4. Spare(a)'
    BY <1>1, <2>1 DEF At, Spare, b, Other
  <2> QED BY <2>2, <2>3, <2>4 DEF At
<1>4. ASSUME NEW s \in Slots, disk[s].pay # cache[s].pay,
             NEW v \in {cache[s].pay, Torn}, disk' = [disk EXCEPT ![s].pay = v]
      PROVE  At(a)'
  <2>1. v \in Nat \cup {Torn}
    BY <1>1 DEF Files, Contents
  <2>2. /\ disk' \in Files
        /\ disk'[a].desc = disk[a].desc /\ disk'[b].desc = disk[b].desc
        /\ disk[a].desc # Zero => disk'[a] = disk[a]
        /\ pc \in {"descriptor", "descriptor-sync"} => disk'[b] = disk[b]
    BY <1>1, <1>2, <1>4, <2>1 DEF Files, Contents
  <2>3. TypeOK'
    BY <1>1, <2>2 DEF At, TypeOK
  <2>4. Live(a)' /\ (pc # "idle" => Storing(a))'
    BY <1>1, <2>2, ZeroType DEF At, Live, Storing
  <2>5. Spare(a)'
    BY <1>1, <2>2 DEF At, Spare, b, Other
  <2> QED BY <2>3, <2>4, <2>5 DEF At
<1> QED BY <1>3, <1>4 DEF Writeback

\* A restart finds the new state if its descriptor had reached the disk.
LEMMA PowerLossInv ==
  ASSUME NEW a \in Slots, At(a), PowerLoss PROVE \E s \in Slots : At(s)'
<1> DEFINE b == Other(a)
<1>1. /\ TypeOK' /\ cache' = disk /\ pc' = "idle"
      /\ UNCHANGED <<disk, cur, acked, used>>
      /\ b \in Slots /\ Other(b) = a /\ cur \in State
  BY TwoSlots DEF At, TypeOK, PowerLoss
<1>2. CASE pc = "descriptor-sync" /\ disk[b].desc = cur
  <2>1. disk[b].pay = cur.val
    BY <1>2 DEF At, Spare
  <2>2. Live(b)'
    BY <1>1, <1>2, <2>1, Takeover, SMT DEF Live, State
  <2>3. Spare(b)'
    BY <1>1, <1>2, Takeover DEF Spare
  <2> QED BY <1>1, <2>2, <2>3 DEF At
<1>3. CASE ~(pc = "descriptor-sync" /\ disk[b].desc = cur)
  <2>1. Live(a)' /\ Spare(a)'
    BY <1>1, <1>3 DEF At, Live, Spare, Other
  <2> QED BY <1>1, <2>1 DEF At
<1> QED BY <1>2, <1>3

LEMMA StutterInv ==
  ASSUME NEW a \in Slots, At(a), UNCHANGED vars PROVE At(a)'
  BY DEF At, vars, TypeOK, Live, Spare, Storing, Other

LEMMA StepInv ==
  ASSUME NotKilledInSync, StoreInv, [Next]_vars PROVE StoreInv'
<1>1. PICK a \in Slots : At(a)
  BY DEF StoreInv, At
<1>2. \E s \in Slots : At(s)'
  <2>1. CASE Begin
    BY <1>1, <2>1, BeginInv
  <2>2. CASE WritePayload
    BY <1>1, <2>2, WritePayloadInv
  <2>3. CASE SyncPayload
    BY <1>1, <2>3, SyncPayloadInv
  <2>4. CASE WriteDescriptor
    BY <1>1, <2>4, WriteDescriptorInv
  <2>5. CASE SyncDescriptor
    BY <1>1, <2>5, SyncDescriptorInv, TwoSlots
  <2>6. CASE Kill
    BY <1>1, <2>6, KillInv
  <2>7. CASE Writeback
    BY <1>1, <2>7, WritebackInv
  <2>8. CASE PowerLoss
    BY <1>1, <2>8, PowerLossInv
  <2>9. CASE UNCHANGED vars
    BY <1>1, <2>9, StutterInv
  <2> QED BY <2>1, <2>2, <2>3, <2>4, <2>5, <2>6, <2>7, <2>8, <2>9 DEF Next
<1> QED BY <1>2 DEF StoreInv, At

-----------------------------------------------------------------------------
(* What the invariant says of the next load. *)

Finds(a) ==
    /\ ~Refused(disk) /\ ~Refused(cache)
    /\ Loaded(cache) = IF pc = "descriptor-sync" THEN cur ELSE disk[a].desc
    /\ Loaded(disk) = IF pc = "descriptor-sync" /\ disk[Other(a)].desc = cur
                      THEN cur ELSE disk[a].desc
AlwaysFinds == \A a \in Slots : At(a) => Finds(a)

LEMMA LoadsAt == AlwaysFinds
  BY LoadsLive DEF AlwaysFinds, At, Finds

LEMMA FindsAcked == StoreInv => CrashConsistent /\ ReadsCurrent
<1> SUFFICES ASSUME StoreInv PROVE CrashConsistent /\ ReadsCurrent OBVIOUS
<1>1. PICK a \in Slots : At(a)
  BY DEF StoreInv, At
<1>2. Finds(a)
  BY <1>1, LoadsAt DEF AlwaysFinds
<1>3. disk[a].desc \in State /\ cur \in State /\ acked \in Nat
  BY <1>1 DEF At, TypeOK, Files, Contents
<1>4. acked <= disk[a].desc.val
  BY <1>1, <1>3, ZeroType, SMT DEF At, Live, State
<1>5. pc = "descriptor-sync" => disk[a].desc.val < cur.val
  BY <1>1, <1>3, SMT DEF At, Storing, State
<1> QED
  BY <1>2, <1>3, <1>4, <1>5, SMT DEF Finds, CrashConsistent, ReadsCurrent, State

LEMMA RegisterStep ==
  ASSUME NotKilledInSync, StoreInv, [Next]_vars
  PROVE  [Register!Next]_<<Loaded(disk).val, acked>>
<1>1. PICK a \in Slots : At(a)
  BY DEF StoreInv, At
<1>2. Finds(a)
  BY <1>1, LoadsAt DEF AlwaysFinds
<1>3. disk[a].desc \in State /\ cur \in State
  BY <1>1 DEF At, TypeOK, Files, Contents
<1>4. pc = "descriptor-sync" => disk[a].desc.val < cur.val
  BY <1>1, <1>3, SMT DEF At, Storing, State
<1>5. CASE SyncPayload
  BY <1>2, <1>5 DEF SyncPayload, PayloadSynced, Finds
<1>6. CASE SyncDescriptor
  <2>1. Loaded(disk').val = cur.val /\ acked' = cur.val
    BY <1>2, <1>6 DEF SyncDescriptor, Finds
  <2>2. cur.val \in Nat /\ cur.val >= Loaded(disk).val
    BY <1>2, <1>3, <1>4, <1>6, SMT DEF SyncDescriptor, Finds, State
  <2> QED BY <2>1, <2>2 DEF Register!Next, Register!Acknowledge
<1>7. CASE Writeback
  <2>1. At(a)'
    BY <1>1, <1>7, WritebackInv
  <2>2. AlwaysFinds'
    BY LoadsAt, PTL
  <2>3. Finds(a)'
    BY <2>1, <2>2 DEF AlwaysFinds
  <2>4. UNCHANGED <<pc, cur, acked>>
    BY <1>7 DEF Writeback
  <2>5. disk'[a].desc = disk[a].desc
    BY <1>1, <2>1, <1>7 DEF At, Live, Writeback
  <2>6. disk[Other(a)].desc = cur /\ pc = "descriptor-sync"
          => disk'[Other(a)].desc = cur
    BY <1>1, <1>7, TwoSlots DEF At, Spare, Writeback, TypeOK, Files, Contents
  <2>7. \/ Loaded(disk').val = Loaded(disk).val
        \/ Loaded(disk').val = cur.val /\ cur.val > Loaded(disk).val
    BY <1>2, <1>3, <1>4, <2>3, <2>4, <2>5, <2>6, SMT DEF Finds, State
  <2> QED
    BY <1>3, <2>4, <2>7 DEF Register!Next, Register!Change, State
<1>8. CASE UNCHANGED <<disk, acked>>
  BY <1>8
<1> QED
  BY <1>5, <1>6, <1>7, <1>8 DEF Next, vars, Begin, WritePayload,
     WriteDescriptor, Kill, PowerLoss

-----------------------------------------------------------------------------
(* Theorems. *)

LEMMA StoreCorrect == ASSUME NotKilledInSync PROVE Spec => []StoreInv
<1>1. Init => StoreInv
  BY InitInv
<1>2. StoreInv /\ [Next]_vars => StoreInv'
  BY StepInv
<1> QED BY <1>1, <1>2, PTL DEF Spec

\* Every state of the file and of the store in progress has its type, wherever
\* backends are killed: no sequence number falls below zero, and what load_state
\* returns is always a descriptor.
THEOREM StoreTypes == Spec => []TypeOK
<1>1. Init => TypeOK
  BY InitInv DEF StoreInv
<1>2. TypeOK /\ [Next]_vars => TypeOK'
  BY TypeStep
<1> QED BY <1>1, <1>2, PTL DEF Spec

\* However often stores are repeated, killed elsewhere and cut short by losses
\* of power, a restart finds a valid slot, no older than the last state whose
\* store_state returned Ok.
THEOREM CrashSafe == ASSUME NotKilledInSync PROVE Spec => []CrashConsistent
  BY StoreCorrect, FindsAcked, PTL

\* The state a running backend loads is no older than what a restart after a
\* loss of power would find, so the next store never goes back.
THEOREM LoadsCurrent == ASSUME NotKilledInSync PROVE Spec => []ReadsCurrent
  BY StoreCorrect, FindsAcked, PTL

\* load_state and store_state implement a durable register: the state that
\* survives only moves forward, and Ok is returned only for one that does.
THEOREM StoreRefines == ASSUME NotKilledInSync PROVE Spec => ImplementsRegister
<1>1. Init => Register!Init
  BY LoadsNothing, ZeroType DEF Init, Register!Init, Uninitialised
<1>2. StoreInv /\ [Next]_vars => [Register!Next]_<<Loaded(disk).val, acked>>
  BY RegisterStep
<1> QED
  BY <1>1, <1>2, StoreCorrect, PTL DEF Spec, ImplementsRegister, Register!Spec
-----------------------------------------------------------------------------
(* Who may drive a controller (ControllerGate): what the state file is      *)
(* trusted with.  The invariant says whose the state is: of no plan yet, or *)
(* of the plan at hand; and then that plan's first command was vetted.      *)

Driven(r) ==
    /\ r.unit \in Controllers /\ r.profile \in Profiles /\ r.bound \in BOOLEAN
    /\ MayDestroy(r.profile) /\ PreHil(r.profile) /\ Qualified(r.profile)
    /\ ~r.bound => Genuine(r.unit, r.profile)

GateInv ==
    /\ GateTypeOK
    /\ plan = None => ran = {}
    /\ state # None => state.plan \in {None, plan}
    /\ ran # {} => state # None /\ state.plan = plan
    /\ \A r \in ran :
         Driven(r) /\ r.profile.id = state.profile /\ r.profile.sha = state.sha
    /\ plan # None /\ state # None /\ state.plan = plan => \E q \in ran : ~q.bound

\* What the compiled-in reads tell is told by a controller of the family.
LEMMA VendorTrue ==
  ASSUME NEW family, Compiled(family) # None
  PROVE  /\ family \in Fixed /\ unit.family = family /\ Behaves # "alien"
         /\ Compiled(family).family = family
         /\ Compiled(family).nand \in {None, unit.nand}
         /\ \/ Compiled(family).fw = Unidentified
            \/ Compiled(family).fw = unit.fw /\ Compiled(family).ctrl = unit.ctrl
<1>1. Signed(family)
  BY DEF Compiled
<1>2. CASE family = "phison"
  BY <1>1, <1>2 DEF Compiled, Signed, Fixed, PhisonPage, Identity
<1>3. CASE family = "smi"
  BY <1>1, <1>3 DEF Compiled, Signed, Fixed, SmiPage, Identity
<1>4. CASE family = "sandisk"
  BY <1>1, <1>4 DEF Compiled, Signed, Fixed, U3ChipInfo, Identity
<1>5. CASE family = "usbest"
  BY <1>1, <1>5 DEF Compiled, Signed, Fixed, InquiryMarker, Identity
<1>6. CASE family = "alcor"
  BY <1>1, <1>6 DEF Compiled, Signed, Fixed, AlcorConfig, Identity
<1> QED
  BY <1>1, <1>2, <1>3, <1>4, <1>5, <1>6 DEF Compiled

\* An identity that was detected is the unit's own, or that of a probe file
\* whose two exact reads and tuple are the unit's.
LEMMA DetectedTrue ==
  ASSUME unit \in Controllers, Detected # None
  PROVE  /\ Detected.family = unit.family /\ Detected.nand \in {None, unit.nand}
         /\ \/ Detected.fw = Unidentified
            \/ Detected.ctrl = unit.ctrl /\ Detected.fw = unit.fw
            \/ Detected.ctrl = unit.ctrl
               /\ \E q \in Probes : q.tuple = unit.tuple /\ q.fw = Detected.fw
<1>1. CASE ProbeFiles # {}
  <2>1. Answers
    BY DEF Detected
  <2>2. PICK q \in ProbeFiles : Detected = Probed(q)
    BY <1>1, <2>1 DEF Detected
  <2>3. q \in Probes /\ q.tuple = Tuple
    BY <2>1, <2>2 DEF ProbeFiles
  <2>4. /\ Behaves # "alien" /\ q.ctrl = unit.ctrl /\ q.nand = unit.nand
        /\ Detected = Identity(q.family, q.ctrl, q.fw, q.nand)
    BY <2>2 DEF Probed
  <2>5. q.tuple = unit.tuple
    BY <2>3, <2>4 DEF Tuple
  <2>6. q.family = unit.family
    BY <2>3, <2>4, FamilyAssumption
  <2> QED
    BY <2>3, <2>4, <2>5, <2>6 DEF Identity
<1>2. CASE ProbeFiles = {}
  <2>1. Detected = Vendor
    BY <1>2 DEF Detected
  <2>2. PICK family : Vendor = Compiled(family)
    BY DEF Vendor
  <2> QED
    BY <2>1, <2>2, VendorTrue
<1> QED
  BY <1>1, <1>2

\* A unit whose identity was verified is genuine.
LEMMA VerifiedGenuine ==
  ASSUME unit \in Controllers, NEW q \in Profiles, NEW s, RecipeValid(q),
         IdentityVerified(q, s), ~Bound(s)
  PROVE  Genuine(unit, q)
<1>0. RecipeOf(q).ctrl = q.ctrl /\ RecipeOf(q).nand = q.nand.min
  BY DEF RecipeValid
<1>1. CASE q.boot # None
  <2>1. ByRecipe(q)
    BY <1>1 DEF IdentityVerified
  <2>2. q.boot.tuple = Tuple /\ Behaves # "alien"
    BY <2>1 DEF ByRecipe, ByBootstrap
  <2>3. q.ctrl = unit.ctrl /\ q.nand.min = unit.nand /\ q.boot.tuple = unit.tuple
    BY <1>0, <2>1, <2>2 DEF ByRecipe, Tuple
  <2>4. q.family = unit.family
    BY <1>1, <2>3, FamilyAssumption
  <2> QED
    BY <1>1, <2>3, <2>4 DEF Genuine, Vouched
<1>2. CASE q.boot = None
  <2>1. ByAnswer(q)
    BY <1>2 DEF IdentityVerified
  <2>2. /\ Detected # None /\ RecipeOf(q).family = Detected.family
        /\ Detected.ctrl = q.ctrl /\ Detected.fw = q.fw.min
        /\ RecipeOf(q).nand = IF Detected.nand = None THEN unit.nand ELSE Detected.nand
    BY <2>1 DEF ByAnswer
  <2>3. RecipeOf(q).family \in Fixed
    BY <1>2 DEF RecipeValid
  <2>4. Detected.fw # Unidentified
    BY <2>2, FirmwareAssumption
  <2>5. /\ Detected.family = unit.family /\ Detected.nand \in {None, unit.nand}
        /\ Detected.ctrl = unit.ctrl
        /\ \/ Detected.fw = unit.fw
           \/ \E d \in Probes : d.tuple = unit.tuple /\ d.fw = Detected.fw
    BY <2>2, <2>4, DetectedTrue
  <2>6. q.nand.min = unit.nand
    BY <1>0, <2>2, <2>5
  <2>7. q.family = unit.family
    BY <2>2, <2>3, <2>5, FamilyAssumption
  <2> QED
    BY <2>2, <2>5, <2>6, <2>7 DEF Genuine, Vouched
<1> QED
  BY <1>1, <1>2

\* What the gate lets pass is an installed profile that was qualified, on a
\* unit that is genuine unless the state vouches for it.
LEMMA ExecutableDriven ==
  ASSUME GateTypeOK, NEW files, NEW s, Executable(files, s)
  PROVE  /\ Chosen(files) \in Profiles
         /\ Driven([unit |-> unit, profile |-> Chosen(files), bound |-> Bound(s)])
              \/ Bound(s) \notin BOOLEAN
         /\ Required(Chosen(files)) = files
         /\ s # None => Binds(s, Chosen(files))
<1> DEFINE q == Chosen(files)
<1>1. /\ files # <<>> /\ Selectable(files) /\ q # None /\ Required(q) = files
      /\ RecipeValid(q) /\ IdentityVerified(q, s) /\ (s # None => Binds(s, q))
  BY DEF Executable
<1>2. q \in Selected(files)
  BY <1>1 DEF Chosen
<1>3. q \in installed /\ MayDestroy(q)
  BY <1>2 DEF Selected, ByIdentity, ByBootstrap, ByArtifacts
<1>4. q \in Profiles /\ unit \in Controllers
  BY <1>3 DEF GateTypeOK
<1>5. Loads(q)
  BY <1>1, <1>3 DEF Selectable, ReadsProfiles
<1>6. PreHil(q) /\ Qualified(q)
  BY <1>3, <1>5 DEF Loads
<1>7. ~Bound(s) => Genuine(unit, q)
  BY <1>1, <1>4, VerifiedGenuine
<1> HIDE DEF q
<1> QED
  BY <1>1, <1>3, <1>4, <1>6, <1>7 DEF Driven, q

\* What a command finds and leaves: the state it keeps is its own plan's and
\* profile's, and one that was vetted came first when it is not itself.
LEMMA ExecutesTrue ==
  ASSUME GateInv, NEW p, Executes(p)
  PROVE  /\ p \in Profiles /\ plan # None /\ Bound(state) \in BOOLEAN
         /\ Driven([unit |-> unit, profile |-> p, bound |-> Bound(state)])
         /\ Kept(p) \in States /\ Kept(p).plan = plan
         /\ Kept(p).profile = p.id /\ Kept(p).sha = p.sha
         /\ Bound(state) => \E q \in ran : ~q.bound
<1>1. /\ open /\ Executable(plan.files, state) /\ p = Chosen(plan.files)
  BY DEF Executes
<1>2. GateTypeOK
  BY DEF GateInv
<1>3. plan # None /\ plan \in Pins /\ (state # None => state \in States)
  BY <1>1, <1>2 DEF GateTypeOK
<1>4. Bound(state) \in BOOLEAN
  BY <1>3 DEF Bound, States
<1>5. /\ p \in Profiles
      /\ Driven([unit |-> unit, profile |-> p, bound |-> Bound(state)])
      /\ state # None => Binds(state, p)
  BY <1>1, <1>2, <1>4, ExecutableDriven
<1>6. CASE state = None
  <2>1. NewState(p) \in States
    BY <1>3, <1>5 DEF NewState, States, Ids, Shas
  <2> QED
    BY <1>3, <1>4, <1>5, <1>6, <2>1 DEF Kept, NewState, Bound
<1>7. CASE state # None
  <2>1. /\ state.plan = plan /\ state.profile = p.id /\ state.sha = p.sha
    BY <1>5, <1>7 DEF Binds
  <2>2. \E q \in ran : ~q.bound
    BY <1>3, <1>7, <2>1 DEF GateInv
  <2> QED
    BY <1>3, <1>4, <1>5, <1>7, <2>1, <2>2 DEF Kept
<1> QED
  BY <1>6, <1>7

\* A command keeps the invariant, whatever it makes of the service mode.
LEMMA CommandKeeps ==
  ASSUME GateInv, NEW p, Executes(p), UNCHANGED <<plan, open>>, Running,
         mode' \in UnitModes, state' # None, state' \in States,
         state'.plan = plan, state'.profile = p.id, state'.sha = p.sha
  PROVE  GateInv'
<1>1. /\ p \in Profiles /\ plan # None /\ Bound(state) \in BOOLEAN
      /\ Driven([unit |-> unit, profile |-> p, bound |-> Bound(state)])
      /\ Bound(state) => \E q \in ran : ~q.bound
  BY ExecutesTrue
<1>2. DEFINE r == [unit |-> unit, profile |-> p, bound |-> Bound(state)]
<1>3. ran' = ran \cup {r}
  BY DEF Executes
<1>4. GateTypeOK'
  <2>1. unit \in Controllers /\ ran \subseteq [unit : Controllers, profile : Profiles, bound : BOOLEAN]
    BY DEF GateInv, GateTypeOK
  <2>2. ran' \subseteq [unit : Controllers, profile : Profiles, bound : BOOLEAN]
    BY <1>1, <1>3, <2>1
  <2>3. /\ installed' \subseteq Profiles /\ unit' \in Controllers
        /\ store' \subseteq Digests /\ changes' \in 0 .. MaxChanges
        /\ open' \in BOOLEAN /\ (plan' # None => plan' \in Pins)
        /\ open' => plan' # None
    BY DEF GateInv, GateTypeOK, Running
  <2> QED
    BY <2>2, <2>3 DEF GateTypeOK
<1>5. \A q \in ran' : Driven(q) /\ q.profile.id = state'.profile
                               /\ q.profile.sha = state'.sha
  <2>1. Driven(r) /\ r.profile.id = state'.profile /\ r.profile.sha = state'.sha
    BY <1>1
  <2>2. ASSUME NEW q \in ran
        PROVE  Driven(q) /\ q.profile.id = state'.profile /\ q.profile.sha = state'.sha
    <3>1. /\ state # None /\ state.plan = plan /\ Driven(q)
          /\ q.profile.id = state.profile /\ q.profile.sha = state.sha
      BY <2>2 DEF GateInv
    <3>2. Kept(p) = state /\ Kept(p).profile = p.id /\ Kept(p).sha = p.sha
      BY <3>1, ExecutesTrue DEF Kept
    <3> QED
      BY <3>1, <3>2
  <2> HIDE DEF r
  <2> QED
    BY <1>3, <2>1, <2>2
<1>6. \E q \in ran' : ~q.bound
  BY <1>1, <1>3
<1> HIDE DEF r
<1> QED
  BY <1>1, <1>4, <1>5, <1>6 DEF GateInv

LEMMA GateBegins == GateInit => GateInv
<1> SUFFICES ASSUME GateInit PROVE GateInv
  OBVIOUS
<1>1. installed \subseteq Profiles /\ unit \in Controllers /\ mode \in UnitModes
  BY GateAssumption DEF GateInit, UnitModes
<1>2. state # None => state \in States /\ state.plan = None
  <2> SUFFICES ASSUME state # None PROVE state \in States /\ state.plan = None
    OBVIOUS
  <2>1. PICK p \in installed : state = [NewState(p) EXCEPT !.active = TRUE]
    BY DEF GateInit
  <2>2. p \in Profiles
    BY <1>1
  <2>3. plan = None
    BY DEF GateInit
  <2> QED
    BY <2>1, <2>2, <2>3 DEF NewState, States, Ids, Shas
<1>3. /\ store = {} /\ plan = None /\ open = FALSE /\ ran = {} /\ changes = 0
      /\ 0 \in 0 .. MaxChanges
  BY GateAssumption DEF GateInit
<1>4. GateTypeOK
  BY <1>1, <1>2, <1>3 DEF GateTypeOK
<1> QED
  BY <1>2, <1>3, <1>4 DEF GateInv

\* What is kept when nothing of the plan, the state or the log changes.
LEMMA GateUntouched ==
  ASSUME GateInv, UNCHANGED <<plan, state, ran>>, GateTypeOK'
  PROVE  GateInv'
BY DEF GateInv, Driven, Genuine, Vouched, PreHil, Qualified, MayDestroy

LEMMA GateStep == GateInv /\ [GateNext]_gateVars => GateInv'
<1> SUFFICES ASSUME GateInv, [GateNext]_gateVars PROVE GateInv'
  OBVIOUS
<1>0. GateTypeOK
  BY DEF GateInv
<1>1. CASE Plan
  <2> DEFINE q == Chosen(<<>>)
  <2>1. plan = None /\ ran = {} /\ (state # None => state.plan = None)
    BY <1>1 DEF Plan, GateInv
  <2>2. q \in Profiles
    <3>1. q # None
      BY <1>1 DEF Plan, Advertised
    <3>2. q \in Selected(<<>>)
      BY <3>1 DEF Chosen
    <3> QED
      BY <1>0, <3>2 DEF Selected, ByIdentity, ByBootstrap, ByArtifacts, GateTypeOK
  <2> HIDE DEF q
  <2>3. Shown \in {u.tuple : u \in Controllers} \cup {"service"}
    BY <1>0 DEF GateTypeOK, Shown
  <2>4. plan' \in Pins
    BY <1>1, <2>2, <2>3 DEF Plan, Pinned, Pins, Ids, Shas, q
  <2>5. plan' # None
    BY <2>4, NoneAssumption
  <2>6. GateTypeOK'
    BY <1>0, <1>1, <2>4 DEF GateTypeOK, Plan, Running
  <2> QED
    BY <1>1, <2>1, <2>5, <2>6 DEF GateInv, Plan
<1>2. CASE Import
  <2>1. plan # None /\ plan \in Pins
    BY <1>0, <1>2 DEF Import, GateTypeOK
  <2>2. PICK q \in Profiles : plan.files = Required(q)
    BY <2>1 DEF Pins
  <2>3. {f.digest : f \in ToSet(plan.files)} \subseteq Digests
    <3> SUFFICES ASSUME NEW f \in ToSet(plan.files) PROVE f.digest \in Digests
      OBVIOUS
    <3>1. PICK i \in DOMAIN q.runtime : f = Required(q)[i]
      BY <2>2 DEF ToSet, Required
    <3>2. f.digest = Runtime(q)[i].digest /\ i \in DOMAIN Runtime(q)
      BY <3>1 DEF Required, Runtime
    <3>3. Runtime(q)[i] \in ToSet(Runtime(q))
      BY <3>2 DEF ToSet
    <3> QED
      BY <3>2, <3>3 DEF Digests
  <2>4. GateTypeOK'
    BY <1>0, <1>2, <2>3 DEF GateTypeOK, Import
  <2> QED
    BY <1>2, <2>4, GateUntouched DEF Import
<1>3. CASE OpenRun
  <2>1. GateTypeOK'
    BY <1>0, <1>3 DEF GateTypeOK, OpenRun, Running
  <2> QED
    BY <1>3, <2>1, GateUntouched DEF OpenRun
<1>4. CASE StopRun
  <2>1. GateTypeOK'
    BY <1>0, <1>4 DEF GateTypeOK, StopRun, Running
  <2> QED
    BY <1>4, <2>1, GateUntouched DEF StopRun
<1>5. CASE UnitPowerLoss
  <2>1. GateTypeOK'
    BY <1>0, <1>5 DEF GateTypeOK, UnitPowerLoss, Running, UnitModes
  <2> QED
    BY <1>5, <2>1, GateUntouched DEF UnitPowerLoss
<1>6. ASSUME NEW p, EnterService(p) PROVE GateInv'
  <2>1. Executes(p)
    BY <1>6 DEF EnterService
  <2>2. /\ Kept(p) \in States /\ Kept(p).plan = plan
        /\ Kept(p).profile = p.id /\ Kept(p).sha = p.sha
    BY <2>1, ExecutesTrue
  <2>3. /\ state' \in States /\ state'.plan = plan
        /\ state'.profile = p.id /\ state'.sha = p.sha
    BY <1>6, <2>2 DEF EnterService, States
  <2>4. state' # None
    BY <2>3, NoneAssumption
  <2>5. mode' \in UnitModes
    BY <1>0, <1>6 DEF EnterService, GateTypeOK, UnitModes
  <2> QED
    BY <1>6, <2>1, <2>3, <2>4, <2>5, CommandKeeps DEF EnterService
<1>7. ASSUME NEW p, ExitService(p) PROVE GateInv'
  <2>1. Executes(p) /\ state # None
    BY <1>7 DEF ExitService, Bound
  <2>2. /\ state \in States /\ state.plan = plan
        /\ state.profile = p.id /\ state.sha = p.sha
    BY <2>1, ExecutesTrue DEF Kept
  <2>3. /\ state' \in States /\ state'.plan = plan
        /\ state'.profile = p.id /\ state'.sha = p.sha
    BY <1>7, <2>2 DEF ExitService, States
  <2>4. state' # None
    BY <2>3, NoneAssumption
  <2>5. mode' \in UnitModes
    BY <1>7 DEF ExitService, UnitModes
  <2> QED
    BY <1>7, <2>1, <2>3, <2>4, <2>5, CommandKeeps DEF ExitService
<1>8. ASSUME NEW p, Act(p) PROVE GateInv'
  <2>1. Executes(p)
    BY <1>8 DEF Act
  <2>2. /\ Kept(p) \in States /\ Kept(p).plan = plan
        /\ Kept(p).profile = p.id /\ Kept(p).sha = p.sha
    BY <2>1, ExecutesTrue
  <2>3. state' = Kept(p) /\ mode' \in UnitModes
    BY <1>0, <1>8 DEF Act, GateTypeOK
  <2>4. state' # None
    BY <2>2, <2>3, NoneAssumption
  <2> QED
    BY <1>8, <2>1, <2>2, <2>3, <2>4, CommandKeeps DEF Act
<1>9. ASSUME NEW p \in Profiles, Install(p) PROVE GateInv'
  <2>1. changes' \in 0 .. MaxChanges
    BY <1>0, <1>9, GateAssumption DEF GateTypeOK, Install, Changed
  <2>2. installed' \subseteq Profiles
    BY <1>0, <1>9 DEF GateTypeOK, Install
  <2>3. GateTypeOK'
    BY <1>0, <1>9, <2>1, <2>2 DEF GateTypeOK, Install
  <2> QED
    BY <1>9, <2>3, GateUntouched DEF Install
<1>10. ASSUME NEW u \in Controllers, SwapController(u) PROVE GateInv'
  <2>1. changes' \in 0 .. MaxChanges
    BY <1>0, <1>10, GateAssumption DEF GateTypeOK, SwapController, Changed
  <2>2. GateTypeOK'
    BY <1>0, <1>10, <2>1 DEF GateTypeOK, SwapController, UnitModes
  <2> QED
    BY <1>10, <2>2, GateUntouched DEF SwapController
<1>11. CASE UNCHANGED gateVars
  <2>1. GateTypeOK'
    BY <1>0, <1>11 DEF GateTypeOK, gateVars
  <2> QED
    BY <1>11, <2>1, GateUntouched DEF gateVars
<1> QED
  BY <1>1, <1>2, <1>3, <1>4, <1>5, <1>6, <1>7, <1>8, <1>9, <1>10, <1>11 DEF GateNext

LEMMA GateInvVets == GateInv => Vetted
<1> SUFFICES ASSUME GateInv PROVE Vetted
  OBVIOUS
<1>1. GateTypeOK /\ Identified /\ OnlyQualified
  BY DEF GateInv, Driven, Identified, OnlyQualified
<1>2. OneProfile
  <2> SUFFICES ASSUME NEW q \in ran, NEW r \in ran PROVE q.profile = r.profile
    BY DEF OneProfile
  <2>1. /\ q.profile \in Profiles /\ r.profile \in Profiles
        /\ q.profile.id = r.profile.id /\ q.profile.sha = r.profile.sha
    BY DEF GateInv, Driven
  <2> QED
    BY <2>1, DigestAssumption
<1>3. ServiceEarned
  <2> SUFFICES ASSUME NEW r \in ran
               PROVE  \E q \in ran : ~q.bound /\ q.profile = r.profile
    BY DEF ServiceEarned
  <2>1. plan # None /\ state # None /\ state.plan = plan
    BY DEF GateInv
  <2>2. \E q \in ran : ~q.bound
    BY <2>1 DEF GateInv
  <2> QED
    BY <1>2, <2>2 DEF OneProfile
<1> QED
  BY <1>1, <1>2, <1>3 DEF Vetted

(* Whatever packages are installed, upgraded or removed, and whatever units *)
(* are exchanged at the path, a destructive command is sent only under one  *)
(* profile that was qualified, to a unit that is genuine or that a vetted   *)
(* command of the same plan left in service mode (nclr-controller.rs        *)
(* platform_main).                                                          *)
THEOREM AlwaysVetted == GateSpec => []Vetted
<1>1. GateInit => GateInv
  BY GateBegins
<1>2. GateInv /\ [GateNext]_gateVars => GateInv'
  BY GateStep
<1>3. GateInv => Vetted
  BY GateInvVets
<1> QED
  BY <1>1, <1>2, <1>3, PTL DEF GateSpec
=============================================================================
