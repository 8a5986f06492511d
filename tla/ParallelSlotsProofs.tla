------------------------- MODULE ParallelSlotsProofs -------------------------
(***************************************************************************)
(* Theorems about ParallelSlots, for every number of slots, clients and    *)
(* services and every time-out.                                            *)
(***************************************************************************)
EXTENDS ParallelSlots, TLAPS

\* The two "between two calls" invariants hold from the end of the promotion
\* loop on, also in the middle of a call.
PendingInv == pc # "promote" => Full(active) \/ NoneUsed(pending)
BlockedInv == pc # "promote" => Full(active) \/ blocked = {}

\* The client of a used slot is a real client, so dropping it can block it.
OwnerInv == /\ \A i \in ActiveIdx : Used(active[i]) => active[i].client \in Clients
            /\ \A i \in PendingIdx : Used(pending[i]) => pending[i].client \in Clients
CallInv == pc # "idle" => reg \in Requests

IInv == /\ TypeOK
        /\ UniqueService
        /\ OneBlockPerClient
        /\ PendingInv
        /\ BlockedInv
        /\ OwnerInv
        /\ CallInv

----------------------------------------------------------------------------
\* Slot operators keep the type.
LEMMA SlotFacts ==
    /\ EmptySlot \in Slot
    /\ ~Used(EmptySlot)
    /\ ActiveIdx \subseteq Nat
    /\ PendingIdx \subseteq Nat
  BY DEF EmptySlot, Slot, Used, ActiveIdx, PendingIdx

\* An update of a registered slot keeps its service and its client.
LEMMA TouchFacts ==
    ASSUME NEW slot \in Slot, now \in Nat
    PROVE  /\ Touch(slot) \in Slot
           /\ Touch(slot).srvid = slot.srvid
           /\ Touch(slot).client = slot.client
<1> DEFINE gap == now - slot.last_ecm
           int == IF gap > 0 /\ gap < SaneInterval
                    THEN IF slot.ecm_interval = 0 THEN gap
                         ELSE (slot.ecm_interval + gap) \div 2
                    ELSE slot.ecm_interval
<1>1. int \in Nat
  BY TimeAssumption DEF Slot
<1>2. Touch(slot) = [slot EXCEPT !.last_ecm = now, !.ecm_interval = int]
  BY DEF Touch
<1> HIDE DEF int
<1> QED BY <1>1, <1>2 DEF Slot

LEMMA NewSlotFacts ==
    ASSUME NEW c \in Clients, NEW s \in Services \cup {NoService}, now \in Nat
    PROVE  /\ NewSlot(c, s) \in Slot
           /\ NewSlot(c, s).srvid = s
           /\ NewSlot(c, s).client = c
  BY DEF NewSlot, Slot

\* Expiry only ever empties slots.
LEMMA ExpireFacts ==
    ASSUME NEW I, NEW slots \in [I -> Slot]
    PROVE  /\ Expire(slots) \in [I -> Slot]
           /\ \A i \in I : \/ Expire(slots)[i] = slots[i]
                           \/ Expire(slots)[i] = EmptySlot
  BY SlotFacts DEF Expire

----------------------------------------------------------------------------
LEMMA InitInv == Init => IInv
<1> SUFFICES ASSUME Init PROVE IInv
  OBVIOUS
<1> USE SlotFacts DEF Init
<1>1. TypeOK
  BY DEF TypeOK
<1>2. UniqueService
  BY DEF UniqueService
<1>3. NoneUsed(pending)
  BY DEF NoneUsed
<1> QED
  BY <1>1, <1>2, <1>3 DEF IInv, OneBlockPerClient, PendingInv, BlockedInv,
                          OwnerInv, CallInv

\* The inductive step, one step of the proof per action.
LEMMA StepInv == IInv /\ [Next]_vars => IInv'
<1> SUFFICES ASSUME IInv, [Next]_vars PROVE IInv'
  OBVIOUS
<1> USE DEF IInv
<1>1. ASSUME NEW r \in Requests, Ask(r[1], r[2]) PROVE IInv'
  <2>1. inflight' \subseteq Requests
    BY <1>1, RequestsAssumption DEF Ask, TypeOK
  <2> QED
    BY <1>1, <2>1 DEF Ask, TypeOK, UniqueService, OneBlockPerClient, PendingInv,
       BlockedInv, OwnerInv, CallInv, Full, NoneUsed
<1>2. ASSUME NEW r \in Requests, NotFound(r[1], r[2]) PROVE IInv'
  BY <1>2 DEF NotFound, TypeOK, UniqueService, OneBlockPerClient, PendingInv,
     BlockedInv, OwnerInv, CallInv, Full, NoneUsed
<1>3. ASSUME NEW r \in Requests, RegisterBegin(r[1], r[2]) PROVE IInv'
  <2>1. /\ active' \in [ActiveIdx -> Slot]
        /\ \A i \in ActiveIdx : active'[i] = active[i] \/ active'[i] = EmptySlot
    BY <1>3, ExpireFacts DEF RegisterBegin, TypeOK
  <2>2. /\ pending' \in [PendingIdx -> Slot]
        /\ \A i \in PendingIdx : pending'[i] = pending[i] \/ pending'[i] = EmptySlot
    BY <1>3, ExpireFacts DEF RegisterBegin, TypeOK
  <2>3. blocked' \subseteq blocked
    BY <1>3 DEF RegisterBegin, Unblock
  <2>4. TypeOK'
    BY <1>3, <2>1, <2>2, <2>3, RequestsAssumption DEF RegisterBegin, TypeOK
  <2>5. UniqueService'
    BY <2>1, <2>2, SlotFacts DEF UniqueService, Used, EmptySlot
  <2>6. OwnerInv'
    BY <2>1, <2>2, SlotFacts DEF OwnerInv
  <2>7. OneBlockPerClient'
    BY <2>3 DEF OneBlockPerClient
  <2> QED
    BY <1>3, <2>4, <2>5, <2>6, <2>7, RequestsAssumption
       DEF RegisterBegin, PendingInv, BlockedInv, CallInv
<1>4. CASE Promote
  <2>1. PICK i \in ActiveIdx, j \in PendingIdx :
           /\ ~Used(active[i]) /\ Used(pending[j])
           /\ active'  = [active EXCEPT ![i] = pending[j]]
           /\ pending' = [pending EXCEPT ![j] = EmptySlot]
    BY <1>4 DEF Promote, IsFirstFree, IsOldest
  <2>2. TypeOK'
    BY <1>4, <2>1, SlotFacts DEF Promote, TypeOK
  <2>3. UniqueService'
    BY <2>1, SlotFacts DEF UniqueService, TypeOK, Used
  <2>4. OwnerInv'
    BY <2>1, SlotFacts DEF OwnerInv, TypeOK
  <2> QED
    BY <1>4, <2>2, <2>3, <2>4
       DEF Promote, OneBlockPerClient, PendingInv, BlockedInv, CallInv
<1>5. CASE PromoteEnd
  BY <1>5 DEF PromoteEnd, PromoteDone, BlockedAfterCleanup, TypeOK, UniqueService, OneBlockPerClient, PendingInv,
     BlockedInv, OwnerInv, CallInv, Full, NoneUsed
<1>6. CASE PlaceActive
  <2>0. /\ reg \in Requests
        /\ reg[1] \in Clients /\ reg[2] \in Services \cup {NoService}
        /\ now \in Nat
    BY <1>6, RequestsAssumption DEF PlaceActive, CallInv, TypeOK
  <2>1. CASE active' = active
    BY <1>6, <2>1 DEF PlaceActive, TypeOK, UniqueService, OneBlockPerClient,
       PendingInv, BlockedInv, OwnerInv, CallInv, Full, NoneUsed
  <2>2. ASSUME NEW i \in ActiveIdx, active[i].srvid = reg[2], Used(active[i]),
               active' = [active EXCEPT ![i] = Touch(active[i])]
        PROVE  IInv'
    <3>1. /\ Touch(active[i]) \in Slot
          /\ Touch(active[i]).srvid = active[i].srvid
          /\ Touch(active[i]).client = active[i].client
      BY <2>0, TouchFacts DEF TypeOK
    <3>2. \A k \in ActiveIdx : /\ active'[k].srvid = active[k].srvid
                               /\ active'[k].client = active[k].client
      BY <2>2, <3>1 DEF TypeOK
    <3>3. TypeOK'
      BY <1>6, <2>2, <3>1 DEF PlaceActive, TypeOK
    <3> QED
      BY <1>6, <3>2, <3>3 DEF PlaceActive, UniqueService, OneBlockPerClient,
         PendingInv, BlockedInv, OwnerInv, CallInv, Full, NoneUsed, Used
  <2>3. ASSUME NEW i \in ActiveIdx, ~Registered(reg[2]),
               ~Used(active[i]),
               active' = [active EXCEPT ![i] = NewSlot(reg[1], reg[2])]
        PROVE  IInv'
    <3>1. /\ NewSlot(reg[1], reg[2]) \in Slot
          /\ NewSlot(reg[1], reg[2]).srvid = reg[2]
          /\ NewSlot(reg[1], reg[2]).client = reg[1]
      BY <2>0, NewSlotFacts
    <3>2. /\ \A k \in ActiveIdx : active[k].srvid # reg[2]
          /\ \A k \in PendingIdx : pending[k].srvid # reg[2]
      BY <2>3 DEF Registered, Holds, TypeOK
    <3>3. TypeOK'
      BY <1>6, <2>3, <3>1 DEF PlaceActive, TypeOK
    <3>4. UniqueService'
      BY <1>6, <2>3, <3>1, <3>2 DEF PlaceActive, UniqueService, TypeOK, Used
    <3>5. OwnerInv'
      BY <1>6, <2>0, <2>3, <3>1 DEF PlaceActive, OwnerInv, TypeOK, Used
    <3>6. NoneUsed(pending) /\ blocked = {}
      BY <1>6, <2>3 DEF PlaceActive, PendingInv, BlockedInv, Full, TypeOK
    <3> QED
      BY <1>6, <3>3, <3>4, <3>5, <3>6 DEF PlaceActive, OneBlockPerClient,
         PendingInv, BlockedInv, CallInv, NoneUsed
  <2> QED
    BY <1>6, <2>1, <2>2, <2>3 DEF PlaceActive, IsFirstFree, Used
<1>7. CASE PlacePending
  <2>0. /\ reg \in Requests
        /\ reg[1] \in Clients /\ reg[2] \in Services \cup {NoService}
        /\ now \in Nat
    BY <1>7, RequestsAssumption DEF PlacePending, CallInv, TypeOK
  <2>1. CASE pending' = pending
    BY <1>7, <2>1 DEF PlacePending, TypeOK, UniqueService, OneBlockPerClient,
       PendingInv, BlockedInv, OwnerInv, CallInv, Full, NoneUsed
  <2>2. ASSUME NEW i \in PendingIdx, pending[i].srvid = reg[2], Used(pending[i]),
               pending' = [pending EXCEPT ![i] = Touch(pending[i])]
        PROVE  IInv'
    <3>1. /\ Touch(pending[i]) \in Slot
          /\ Touch(pending[i]).srvid = pending[i].srvid
          /\ Touch(pending[i]).client = pending[i].client
      BY <2>0, TouchFacts DEF TypeOK
    <3>2. \A k \in PendingIdx : /\ pending'[k].srvid = pending[k].srvid
                                /\ pending'[k].client = pending[k].client
      BY <2>2, <3>1 DEF TypeOK
    <3>3. TypeOK'
      BY <1>7, <2>2, <3>1 DEF PlacePending, TypeOK
    <3>4. Full(active)
      BY <1>7, <2>2 DEF PlacePending, PendingInv, NoneUsed, TypeOK
    <3> QED
      BY <1>7, <3>2, <3>3, <3>4 DEF PlacePending, UniqueService, OneBlockPerClient,
         PendingInv, BlockedInv, OwnerInv, CallInv, Full, Used
  <2>3. ASSUME NEW i \in PendingIdx, ~Registered(reg[2]),
               ~Used(pending[i]), Full(active),
               pending' = [pending EXCEPT ![i] = NewSlot(reg[1], reg[2])]
        PROVE  IInv'
    <3>1. /\ NewSlot(reg[1], reg[2]) \in Slot
          /\ NewSlot(reg[1], reg[2]).srvid = reg[2]
          /\ NewSlot(reg[1], reg[2]).client = reg[1]
      BY <2>0, NewSlotFacts
    <3>2. /\ \A k \in ActiveIdx : active[k].srvid # reg[2]
          /\ \A k \in PendingIdx : pending[k].srvid # reg[2]
      BY <2>3 DEF Registered, Holds, TypeOK
    <3>3. TypeOK'
      BY <1>7, <2>3, <3>1 DEF PlacePending, TypeOK
    <3>4. UniqueService'
      BY <1>7, <2>3, <3>1, <3>2 DEF PlacePending, UniqueService, TypeOK, Used
    <3>5. OwnerInv'
      BY <1>7, <2>0, <2>3, <3>1 DEF PlacePending, OwnerInv, TypeOK, Used
    <3> QED
      BY <1>7, <2>3, <3>3, <3>4, <3>5 DEF PlacePending, OneBlockPerClient,
         PendingInv, BlockedInv, CallInv, Full
  <2> QED
    BY <1>7, <2>1, <2>2, <2>3 DEF PlacePending, IsFirstFree, Used
<1>8. CASE PlaceFails
  BY <1>8 DEF PlaceFails, TypeOK, UniqueService, OneBlockPerClient, PendingInv,
     BlockedInv, OwnerInv, CallInv, Full, NoneUsed
<1>9. CASE Drop
  <2>1. PICK j \in PendingIdx :
           /\ Used(pending[j])
           /\ blocked' = Block(pending[j].client, pending[j].srvid)
           /\ pending' = [pending EXCEPT ![j] = EmptySlot]
    BY <1>9 DEF Drop, IsOldest
  <2>2. /\ pending[j].client \in Clients
        /\ pending[j].srvid \in Services
    BY <2>1 DEF OwnerInv, TypeOK, Used, Slot
  <2>3. blocked' \subseteq Clients \X Services
    BY <2>1, <2>2 DEF Block, TypeOK
  <2>4. TypeOK'
    BY <1>9, <2>1, <2>3, SlotFacts DEF Drop, TypeOK
  <2>5. OneBlockPerClient'
    BY <2>1 DEF Block, OneBlockPerClient
  <2>6. UniqueService'
    BY <1>9, <2>1, SlotFacts DEF Drop, UniqueService, TypeOK, Used
  <2>7. OwnerInv'
    BY <1>9, <2>1, SlotFacts DEF Drop, OwnerInv, TypeOK
  <2> QED
    BY <1>9, <2>4, <2>5, <2>6, <2>7
       DEF Drop, PendingInv, BlockedInv, CallInv, Full
<1>10. CASE DropEnd
  BY <1>10 DEF DropEnd, TypeOK, UniqueService, OneBlockPerClient, PendingInv,
     BlockedInv, OwnerInv, CallInv, Full, NoneUsed
<1>11. CASE Tick
  BY <1>11 DEF Tick, TypeOK, UniqueService, OneBlockPerClient, PendingInv,
     BlockedInv, OwnerInv, CallInv, Full, NoneUsed
<1>12. CASE UNCHANGED vars
  BY <1>12 DEF vars, TypeOK, UniqueService, OneBlockPerClient, PendingInv,
     BlockedInv, OwnerInv, CallInv, Full, NoneUsed
<1> QED
  BY <1>1, <1>2, <1>3, <1>4, <1>5, <1>6, <1>7, <1>8, <1>9, <1>10, <1>11, <1>12
     DEF Next, Register

LEMMA SpecInv == Spec => []IInv
<1>1. Init => IInv
  BY InitInv
<1>2. IInv /\ [Next]_vars => IInv'
  BY StepInv
<1> QED
  BY <1>1, <1>2, PTL DEF Spec

----------------------------------------------------------------------------
\* The variables keep their types.
THEOREM TypeCorrect == Spec => []TypeOK
<1>1. IInv => TypeOK
  BY DEF IInv
<1> QED
  BY <1>1, SpecInv, PTL

\* No service ever holds two slots, through expiry, promotion and re-registration.
THEOREM ServiceHoldsOneSlot == Spec => []UniqueService
<1>1. IInv => UniqueService
  BY DEF IInv
<1> QED
  BY <1>1, SpecInv, PTL

\* A service is pending only while every active slot is taken.
THEOREM NoIdleSlotWhilePending == Spec => []PendingOnlyWhenFull
<1>1. IInv => PendingOnlyWhenFull
  BY DEF IInv, PendingInv, PendingOnlyWhenFull
<1> QED
  BY <1>1, SpecInv, PTL

\* A client is blocked only while every active slot is taken.
THEOREM NoIdleSlotWhileBlocked == Spec => []BlockedOnlyWhenFull
<1>1. IInv => BlockedOnlyWhenFull
  BY DEF IInv, BlockedInv, BlockedOnlyWhenFull
<1> QED
  BY <1>1, SpecInv, PTL

\* The blocked list has one entry per client at most.
THEOREM BlockedListIsAFunction == Spec => []OneBlockPerClient
<1>1. IInv => OneBlockPerClient
  BY DEF IInv
<1> QED
  BY <1>1, SpecInv, PTL

----------------------------------------------------------------------------
\* The action properties need what the clean-up at the head of a call leaves
\* behind: during the call every slot in use is live, and who drops pending
\* services has a slot.
NoneExpired(slots) == \A i \in DOMAIN slots : ~Expired(slots[i])
CleanInv == pc # "idle" => NoneExpired(active) /\ NoneExpired(pending)
DropInv == pc = "drop" => Holds(active, reg[2])
CallClean == CleanInv /\ DropInv

\* A slot that is empty or was just written to is not expired.
LEMMA FreshNotExpired ==
    ASSUME now \in Nat, NEW slot \in Slot, NEW c, NEW s
    PROVE  /\ ~Expired(EmptySlot)
           /\ ~Expired(Touch(slot))
           /\ ~Expired(NewSlot(c, s))
<1>1. \A x \in Slot : SlotTimeout(x) \in Nat
  BY TimeAssumption DEF SlotTimeout, Slot
<1>2. Touch(slot) \in Slot /\ Touch(slot).last_ecm = now
  BY TouchFacts DEF Touch, Slot
<1>3. NewSlot(c, s).last_ecm = now /\ SlotTimeout(NewSlot(c, s)) \in Nat
  BY TimeAssumption DEF NewSlot, SlotTimeout
<1>4. ~Expired(Touch(slot)) /\ ~Expired(NewSlot(c, s))
  BY <1>1, <1>2, <1>3 DEF Expired
<1> QED
  BY <1>4, SlotFacts DEF Expired

\* CallClean is inductive relative to IInv.
LEMMA CleanStep == IInv /\ CallClean /\ [Next]_vars => CallClean'
<1> SUFFICES ASSUME IInv, CallClean, [Next]_vars PROVE CallClean'
  OBVIOUS
<1> USE DEF CallClean
<1>0. now \in Nat /\ active \in [ActiveIdx -> Slot] /\ pending \in [PendingIdx -> Slot]
  BY DEF IInv, TypeOK
<1>e. ~Expired(EmptySlot)
  BY SlotFacts DEF Expired
<1>1. ASSUME NEW r \in Requests, Ask(r[1], r[2]) PROVE CallClean'
  BY <1>1 DEF Ask, CleanInv, DropInv
<1>2. ASSUME NEW r \in Requests, NotFound(r[1], r[2]) PROVE CallClean'
  BY <1>2 DEF NotFound, CleanInv, DropInv, NoneExpired, Holds, Expired
<1>3. ASSUME NEW r \in Requests, RegisterBegin(r[1], r[2]) PROVE CallClean'
  <2>1. now' = now /\ pc' = "promote"
    BY <1>3 DEF RegisterBegin
  <2>2. NoneExpired(active') /\ NoneExpired(pending')
    BY <1>0, <1>e, <1>3 DEF RegisterBegin, NoneExpired, Expire
  <2> QED
    BY <2>1, <2>2 DEF CleanInv, DropInv, NoneExpired, Expired
<1>4. CASE Promote
  <2>1. PICK i \in ActiveIdx, j \in PendingIdx :
           /\ active'  = [active EXCEPT ![i] = pending[j]]
           /\ pending' = [pending EXCEPT ![j] = EmptySlot]
    BY <1>4 DEF Promote
  <2>2. now' = now /\ pc = "promote" /\ pc' = "promote"
    BY <1>4 DEF Promote
  <2>3. NoneExpired(active') /\ NoneExpired(pending')
    BY <1>0, <1>e, <2>1, <2>2 DEF CleanInv, NoneExpired
  <2> QED
    BY <2>2, <2>3 DEF CleanInv, DropInv, NoneExpired, Expired
<1>5. CASE PromoteEnd
  BY <1>5 DEF PromoteEnd, CleanInv, DropInv, NoneExpired, Expired
<1>6. CASE PlaceActive
  <2>1. now' = now /\ pending' = pending /\ reg' = reg /\ pc = "place"
    BY <1>6 DEF PlaceActive
  <2>2. /\ NoneExpired(active') /\ Holds(active', reg[2])
    <3>1. CASE active' = active /\ Holds(active, reg[2])
      BY <2>1, <3>1 DEF CleanInv
    <3>2. ASSUME NEW i \in ActiveIdx, active[i].srvid = reg[2],
                 active' = [active EXCEPT ![i] = Touch(active[i])]
          PROVE  NoneExpired(active') /\ Holds(active', reg[2])
      <4>1. ~Expired(Touch(active[i])) /\ Touch(active[i]).srvid = reg[2]
        BY <1>0, <3>2, FreshNotExpired, TouchFacts
      <4> QED
        BY <1>0, <2>1, <3>2, <4>1 DEF CleanInv, NoneExpired, Holds
    <3>3. ASSUME NEW i \in ActiveIdx,
                 active' = [active EXCEPT ![i] = NewSlot(reg[1], reg[2])]
          PROVE  NoneExpired(active') /\ Holds(active', reg[2])
      <4>1. ~Expired(NewSlot(reg[1], reg[2])) /\ NewSlot(reg[1], reg[2]).srvid = reg[2]
        BY <1>0, SlotFacts, FreshNotExpired DEF NewSlot
      <4> QED
        BY <1>0, <2>1, <3>3, <4>1 DEF CleanInv, NoneExpired, Holds
    <3> QED
      BY <1>0, <1>6, <3>1, <3>2, <3>3 DEF PlaceActive, IsFirstFree, Holds
  <2> QED
    BY <2>1, <2>2 DEF CleanInv, DropInv, NoneExpired, Expired
<1>7. CASE PlacePending
  BY <1>7 DEF PlacePending, CleanInv, DropInv
<1>8. CASE PlaceFails
  BY <1>8 DEF PlaceFails, CleanInv, DropInv
<1>9. CASE Drop
  <2>1. now' = now /\ active' = active /\ reg' = reg /\ pc = "drop"
    BY <1>9 DEF Drop
  <2>2. NoneExpired(pending')
    BY <1>0, <1>e, <1>9 DEF Drop, CleanInv, NoneExpired
  <2> QED
    BY <2>1, <2>2 DEF CleanInv, DropInv, NoneExpired, Expired
<1>10. CASE DropEnd
  BY <1>10 DEF DropEnd, CleanInv, DropInv
<1>11. CASE Tick
  BY <1>11 DEF Tick, CleanInv, DropInv
<1>12. CASE UNCHANGED vars
  BY <1>12 DEF vars, CleanInv, DropInv, NoneExpired, Expired
<1> QED
  BY <1>1, <1>2, <1>3, <1>4, <1>5, <1>6, <1>7, <1>8, <1>9, <1>10, <1>11, <1>12
     DEF Next, Register

LEMMA SpecClean == Spec => [](IInv /\ CallClean)
<1>1. Init => CallClean
  BY DEF Init, CallClean, CleanInv, DropInv
<1> QED
  BY <1>1, CleanStep, SpecInv, PTL DEF Spec

\* Nobody is blocked for the benefit of a dead slot or of a pending service.
THEOREM BlockedForActive == Spec => BlockedByActiveOnly
<1> DEFINE A == \A b \in blocked' \ blocked :
                  /\ Holds(active, reg[2])
                  /\ \A i \in ActiveIdx : Live(active[i])
                  /\ \E j \in PendingIdx : b = <<pending[j].client, pending[j].srvid>>
<1>1. IInv /\ CallClean /\ [Next]_vars => [A]_vars
  <2> SUFFICES ASSUME IInv, CallClean, [Next]_vars PROVE A \/ UNCHANGED vars
    OBVIOUS
  <2>1. CASE Drop
    <3>1. PICK j \in PendingIdx : blocked' = Block(pending[j].client, pending[j].srvid)
      BY <2>1 DEF Drop
    <3>2. \A b \in blocked' \ blocked : b = <<pending[j].client, pending[j].srvid>>
      BY <3>1 DEF Block
    <3>3. Holds(active, reg[2]) /\ \A i \in ActiveIdx : Live(active[i])
      BY <2>1 DEF Drop, IInv, TypeOK, CallClean, CleanInv, DropInv, NoneExpired, Full, Live
    <3> QED
      BY <3>2, <3>3
  <2>2. CASE ~Drop
    <3>1. blocked' \subseteq blocked
      BY <2>2 DEF Next, Register, vars, Ask, NotFound, RegisterBegin, Unblock, Promote,
         PromoteEnd, BlockedAfterCleanup, PlaceActive, PlacePending, PlaceFails,
         DropEnd, Tick
    <3> QED
      BY <3>1
  <2> QED
    BY <2>1, <2>2
<1> QED
  BY <1>1, SpecClean, PTL DEF Spec, BlockedByActiveOnly

\* What a step does to the slot of a live service: it stays where it is, or
\* moves to an empty active slot, or goes to the blocked list.
LiveSlot(s) == \/ \E i \in ActiveIdx : active[i].srvid = s /\ Live(active[i])
               \/ \E j \in PendingIdx : pending[j].srvid = s /\ Live(pending[j])
Kept(s) == \/ Holds(active', s)
           \/ Holds(pending', s)
           \/ \E c \in Clients : <<c, s>> \in blocked'

LEMMA StepKeeps ==
    ASSUME IInv, Next, NEW s \in Services, LiveSlot(s)
    PROVE  Kept(s)
<1>0. now \in Nat /\ active \in [ActiveIdx -> Slot] /\ pending \in [PendingIdx -> Slot]
  BY DEF IInv, TypeOK
<1>s. \/ \E i \in ActiveIdx : active[i].srvid = s /\ Live(active[i])
      \/ \E j \in PendingIdx : pending[j].srvid = s /\ Live(pending[j])
  BY DEF LiveSlot
<1>h. Holds(active, s) \/ Holds(pending, s)
  BY <1>0, <1>s DEF Holds
<1>u. s # NoService
  BY ServicesAssumption
<1>1. CASE active' = active /\ pending' = pending
  BY <1>1, <1>h DEF Kept
<1>2. ASSUME NEW r \in Requests, RegisterBegin(r[1], r[2]) PROVE Kept(s)
  <2>1. \A slots : Expire(slots) = [i \in DOMAIN slots |->
                       IF Expired(slots[i]) THEN EmptySlot ELSE slots[i]]
    BY DEF Expire
  <2>2. Holds(active', s) \/ Holds(pending', s)
    BY <1>0, <1>s, <1>2, <2>1 DEF RegisterBegin, Holds, Live
  <2> QED
    BY <2>2 DEF Kept
<1>3. CASE Promote
  <2>1. PICK i \in ActiveIdx, j \in PendingIdx :
           /\ ~Used(active[i])
           /\ active'  = [active EXCEPT ![i] = pending[j]]
           /\ pending' = [pending EXCEPT ![j] = EmptySlot]
    BY <1>3 DEF Promote, IsFirstFree
  <2>2. Holds(active', s) \/ Holds(pending', s)
    BY <1>0, <1>h, <1>u, <2>1 DEF Holds, Used
  <2> QED
    BY <2>2 DEF Kept
<1>4. CASE PlaceActive
  <2>1. \A slot \in Slot : Touch(slot).srvid = slot.srvid
    BY <1>0, TouchFacts
  <2>2. /\ pending' = pending
        /\ \/ active' = active
           \/ \E i \in ActiveIdx : active' = [active EXCEPT ![i] = Touch(active[i])]
           \/ \E i \in ActiveIdx : /\ ~Used(active[i])
                                   /\ active' = [active EXCEPT ![i] = NewSlot(reg[1], reg[2])]
    BY <1>4 DEF PlaceActive, IsFirstFree
  <2>3. Holds(active, s) => Holds(active', s)
    <3>1. CASE active' = active
      BY <3>1
    <3>2. ASSUME NEW i \in ActiveIdx, active' = [active EXCEPT ![i] = Touch(active[i])]
          PROVE  Holds(active, s) => Holds(active', s)
      BY <1>0, <2>1, <3>2 DEF Holds
    <3>3. ASSUME NEW i \in ActiveIdx, ~Used(active[i]),
                 active' = [active EXCEPT ![i] = NewSlot(reg[1], reg[2])]
          PROVE  Holds(active, s) => Holds(active', s)
      BY <1>0, <1>u, <3>3 DEF Holds, Used
    <3> QED
      BY <2>2, <3>1, <3>2, <3>3
  <2> QED
    BY <1>h, <2>2, <2>3 DEF Kept
<1>5. CASE PlacePending
  <2>1. \A slot \in Slot : Touch(slot).srvid = slot.srvid
    BY <1>0, TouchFacts
  <2>2. /\ active' = active
        /\ \/ pending' = pending
           \/ \E i \in PendingIdx : pending' = [pending EXCEPT ![i] = Touch(pending[i])]
           \/ \E i \in PendingIdx : /\ ~Used(pending[i])
                                    /\ pending' = [pending EXCEPT ![i] = NewSlot(reg[1], reg[2])]
    BY <1>5 DEF PlacePending, IsFirstFree
  <2>3. Holds(pending, s) => Holds(pending', s)
    <3>1. CASE pending' = pending
      BY <3>1
    <3>2. ASSUME NEW i \in PendingIdx, pending' = [pending EXCEPT ![i] = Touch(pending[i])]
          PROVE  Holds(pending, s) => Holds(pending', s)
      BY <1>0, <2>1, <3>2 DEF Holds
    <3>3. ASSUME NEW i \in PendingIdx, ~Used(pending[i]),
                 pending' = [pending EXCEPT ![i] = NewSlot(reg[1], reg[2])]
          PROVE  Holds(pending, s) => Holds(pending', s)
      BY <1>0, <1>u, <3>3 DEF Holds, Used
    <3> QED
      BY <2>2, <3>1, <3>2, <3>3
  <2> QED
    BY <1>h, <2>2, <2>3 DEF Kept
<1>6. CASE Drop
  <2>1. PICK j \in PendingIdx :
           /\ Used(pending[j])
           /\ blocked' = Block(pending[j].client, pending[j].srvid)
           /\ pending' = [pending EXCEPT ![j] = EmptySlot]
    BY <1>6 DEF Drop, IsOldest
  <2>2. active' = active /\ pending[j].client \in Clients
    BY <1>6, <2>1 DEF Drop, IInv, OwnerInv
  <2>3. CASE pending[j].srvid = s
    BY <2>1, <2>2, <2>3 DEF Kept, Block
  <2>4. CASE pending[j].srvid # s
    BY <1>0, <1>h, <2>1, <2>2, <2>4 DEF Kept, Holds
  <2> QED
    BY <2>3, <2>4
<1> QED
  BY <1>1, <1>2, <1>3, <1>4, <1>5, <1>6
     DEF Next, Register, Ask, NotFound, PromoteEnd, PlaceFails, DropEnd, Tick

\* A live service leaves its slot only for the blocked list.
THEOREM LiveServiceStays == Spec => LiveServiceKept
<1>1. IInv /\ [Next]_vars => [\A s \in Services : LiveSlot(s) => Kept(s)]_vars
  BY StepKeeps
<1>2. IInv /\ [Next]_vars =>
        [\A s \in Services :
           (\E i \in ActiveIdx : active[i].srvid = s /\ Live(active[i]))
             \/ (\E j \in PendingIdx : pending[j].srvid = s /\ Live(pending[j]))
           => \/ Holds(active', s)
              \/ Holds(pending', s)
              \/ \E c \in Clients : <<c, s>> \in blocked']_vars
  BY <1>1 DEF LiveSlot, Kept
<1> QED
  BY <1>2, SpecInv, PTL DEF Spec, LiveServiceKept
============================================================================
