--------------------------- MODULE ParallelSlots ---------------------------
(***************************************************************************)
(* The "maxparallel" limiter of one reader (ncam-ecm.c).  A reader with    *)
(* maxparallel > 0 serves at most MaxParallel services at a time.  It      *)
(* keeps an array of active slots, an array of pending slots (services a   *)
(* client zapped to while the active array was full) and a list of blocked *)
(* <<client, service>> pairs.                                              *)
(*                                                                         *)
(* reader_has_capacity is asked when an ECM is sent to the reader, it      *)
(* reserves nothing; reader_register_service runs when the CW comes back.  *)
(* Several clients run these concurrently: `inflight' holds the requests   *)
(* between the two calls.  parallel_lock makes each call atomic for the    *)
(* others, so the other operations wait for pc = "idle"; the promotion and *)
(* the drop loop of reader_register_service are one step per iteration.    *)
(*                                                                         *)
(* Abstractions: time is in units of the slot timeouts; `now' is the value *)
(* cs_ftime() returned when the lock was taken, so it stands still during  *)
(* a call; parallel_full only feeds the log.                               *)
(***************************************************************************)
EXTENDS Integers, FiniteSets

CONSTANTS
    Clients,          \* clients that use the reader
    Services,         \* service ids, srvid /= 0
    NoService,        \* srvid 0: an empty slot, or an ECM without service id
    NoClient,         \* the NULL client of an empty slot
    Requests,         \* the <<client, srvid>> pairs that are asked for
    MaxParallel,      \* rdr->maxparallel
    PendingSize,      \* get_pending_size(rdr)
    ParallelTimeout,  \* rdr->paralleltimeout
    DefaultInterval,  \* the 10 s assumed while no interval is measured
    SaneInterval,     \* the 30 s above which a measured gap is ignored
    MaxTime,          \* bound on the clock
    MaxInFlight       \* bound on the requests the reader works on at a time

ASSUME ServicesAssumption == NoService \notin Services
ASSUME ClientsAssumption  == NoClient \notin Clients
ASSUME RequestsAssumption == Requests \subseteq Clients \X (Services \cup {NoService})
ASSUME SizeAssumption     == MaxParallel \in Nat \ {0} /\ PendingSize \in Nat
ASSUME TimeAssumption     == /\ ParallelTimeout \in Nat
                             /\ DefaultInterval \in Nat
                             /\ SaneInterval \in Nat
                             /\ MaxTime \in Nat
                             /\ MaxInFlight \in Nat

VARIABLES
    now,       \* the clock
    active,    \* rdr->parallel_slots
    pending,   \* rdr->parallel_slots_prov
    blocked,   \* rdr->blocked_services, a set of <<client, srvid>>
    inflight,  \* requests whose capacity was checked, CW not there yet
    pc,        \* where the call of reader_register_service is
    reg        \* <<client, srvid>> of that call

vars == <<now, active, pending, blocked, inflight, pc, reg>>

ActiveIdx  == 1 .. MaxParallel
PendingIdx == 1 .. PendingSize
Slot == [srvid : Services \cup {NoService}, client : Clients \cup {NoClient},
         last_ecm : Nat, ecm_interval : Nat]

EmptySlot == [srvid |-> NoService, client |-> NoClient,
              last_ecm |-> 0, ecm_interval |-> 0]

----------------------------------------------------------------------------
Used(slot) == slot.srvid # NoService

\* get_slot_timeout and the expiry test of every caller
SlotTimeout(slot) ==
    ParallelTimeout + IF slot.ecm_interval > 0 THEN slot.ecm_interval
                                               ELSE DefaultInterval
Expired(slot) == Used(slot) /\ now - slot.last_ecm > SlotTimeout(slot)
Live(slot)    == Used(slot) /\ ~Expired(slot)

\* mutants of Expire: no cleanup; the measured interval is forgotten
MutExpireNever(slots) == slots
MutExpireEarly(slots) ==
    [i \in DOMAIN slots |-> IF now - slots[i].last_ecm > ParallelTimeout
                              THEN EmptySlot ELSE slots[i]]

Expire(slots) ==
    [i \in DOMAIN slots |-> IF Expired(slots[i]) THEN EmptySlot ELSE slots[i]]

LiveCount(slots) == Cardinality({i \in DOMAIN slots : Live(slots[i])})
Holds(slots, s)  == \E i \in DOMAIN slots : slots[i].srvid = s
Full(slots)      == \A i \in DOMAIN slots : Used(slots[i])
NoneUsed(slots)  == \A i \in DOMAIN slots : ~Used(slots[i])

\* The first index the scanning loops stop at
IsFirstFree(slots, i) ==
    /\ i \in DOMAIN slots /\ ~Used(slots[i])
    /\ \A j \in DOMAIN slots : j < i => Used(slots[j])

\* The search for the largest age, the first of equals wins
IsOldest(slots, i) ==
    /\ i \in DOMAIN slots /\ Used(slots[i])
    /\ \A j \in DOMAIN slots : Used(slots[j]) =>
          \/ slots[i].last_ecm < slots[j].last_ecm
          \/ slots[i].last_ecm = slots[j].last_ecm /\ i <= j

\* A new ECM of a registered service: interval update, then the time stamp
Touch(slot) ==
    LET gap == now - slot.last_ecm
    IN  [slot EXCEPT
           !.last_ecm = now,
           !.ecm_interval =
               IF gap > 0 /\ gap < SaneInterval
                 THEN IF @ = 0 THEN gap ELSE (@ + gap) \div 2
                 ELSE @]

\* mutant: the slot does not remember its client
MutNewSlot(c, s) == [srvid |-> s, client |-> NoClient, last_ecm |-> now, ecm_interval |-> 0]
NewSlot(c, s) == [srvid |-> s, client |-> c, last_ecm |-> now, ecm_interval |-> 0]

\* mutant: a second entry instead of an update
MutBlock(c, s) == blocked \cup {<<c, s>>}
\* block_client_service: at most one entry of a client
Block(c, s) == {b \in blocked : b[1] # c} \cup {<<c, s>>}
\* unblock_client_if_different
Unblock(c, s) == {b \in blocked : b[1] # c \/ b[2] = s}

\* mutant: only the active array is searched
MutRegistered(s) == Holds(active, s)
Registered(s) == Holds(active, s) \/ Holds(pending, s)

HasCapacity(c, s) ==
    /\ <<c, s>> \notin blocked
    /\ \/ Registered(s)
       \/ LiveCount(active) < MaxParallel
       \/ LiveCount(pending) < PendingSize

----------------------------------------------------------------------------
Init ==
    /\ now = 1
    /\ active  = [i \in ActiveIdx |-> EmptySlot]
    /\ pending = [i \in PendingIdx |-> EmptySlot]
    /\ blocked = {}
    /\ inflight = {}
    /\ pc = "idle"
    /\ reg = <<NoClient, NoService>>

\* request_cw_from_readers sends an ECM to the reader
Ask(c, s) ==
    /\ pc = "idle"
    /\ <<c, s>> \notin inflight /\ Cardinality(inflight) < MaxInFlight
    /\ HasCapacity(c, s)
    /\ inflight' = inflight \cup {<<c, s>>}
    /\ UNCHANGED <<now, active, pending, blocked, pc, reg>>

\* the reader does not find the CW, or answers too late
NotFound(c, s) ==
    /\ <<c, s>> \in inflight
    /\ inflight' = inflight \ {<<c, s>>}
    /\ UNCHANGED <<now, active, pending, blocked, pc, reg>>

\* chk_dcw gets the CW: lock, unblock, passes 1 and 2 of the cleanup
RegisterBegin(c, s) ==
    /\ pc = "idle"
    /\ <<c, s>> \in inflight
    /\ inflight' = inflight \ {<<c, s>>}
    /\ blocked' = Unblock(c, s)
    /\ active'  = Expire(active)
    /\ pending' = Expire(pending)
    /\ pc' = "promote"
    /\ reg' = <<c, s>>
    /\ UNCHANGED now

\* one iteration of pass 3: the oldest pending service becomes active
Promote ==
    /\ pc = "promote"
    /\ \E i \in ActiveIdx, j \in PendingIdx :
          /\ IsFirstFree(active, i)
          /\ IsOldest(pending, j)
          /\ active'  = [active EXCEPT ![i] = pending[j]]
          /\ pending' = [pending EXCEPT ![j] = EmptySlot]
    /\ UNCHANGED <<now, blocked, inflight, pc, reg>>

\* mutants: the loop may stop early; the list is never cleared
MutPromoteDone == TRUE
MutBlockedAfterCleanup == blocked
PromoteDone == Full(active) \/ NoneUsed(pending)
BlockedAfterCleanup == IF Full(active) THEN blocked ELSE {}

\* pass 3 ends: the blocked list is cleared when an active slot is free
PromoteEnd ==
    /\ pc = "promote"
    /\ PromoteDone
    /\ blocked' = BlockedAfterCleanup
    /\ pc' = "place"
    /\ UNCHANGED <<now, active, pending, inflight, reg>>

\* the slot search of reader_register_service and the update of the slot.
\* An ECM with srvid 0 matches an empty slot, whose contents nobody reads.
PlaceActive ==
    LET s == reg[2]
    IN  /\ pc = "place"
        /\ \/ \E i \in ActiveIdx :
                /\ active[i].srvid = s
                /\ active' = IF s = NoService THEN active
                             ELSE [active EXCEPT ![i] = Touch(@)]
           \/ /\ ~Registered(s)
              /\ \E i \in ActiveIdx :
                   /\ IsFirstFree(active, i)
                   /\ active' = [active EXCEPT ![i] = NewSlot(reg[1], s)]
        /\ pc' = "drop"
        /\ UNCHANGED <<now, pending, blocked, inflight, reg>>

PlacePending ==
    LET s == reg[2]
    IN  /\ pc = "place"
        /\ ~Holds(active, s)
        /\ \/ \E i \in PendingIdx :
                /\ pending[i].srvid = s
                /\ pending' = IF s = NoService THEN pending
                              ELSE [pending EXCEPT ![i] = Touch(@)]
           \/ /\ Full(active) /\ ~Registered(s)
              /\ \E i \in PendingIdx :
                   /\ IsFirstFree(pending, i)
                   /\ pending' = [pending EXCEPT ![i] = NewSlot(reg[1], s)]
        /\ pc' = "idle"
        /\ UNCHANGED <<now, active, blocked, inflight, reg>>

\* "no slot available": the CW is used all the same
SlotAvailable(s) ==
    \/ Registered(s)
    \/ ~Full(active) \/ ~Full(pending)

PlaceFails ==
    /\ pc = "place"
    /\ ~SlotAvailable(reg[2])
    /\ pc' = "idle"
    /\ UNCHANGED <<now, active, pending, blocked, inflight, reg>>

\* one iteration of reader_drop_pending_nolock
Drop ==
    /\ pc = "drop"
    /\ Full(active)
    /\ \E j \in PendingIdx :
          /\ IsOldest(pending, j)
          /\ blocked' = Block(pending[j].client, pending[j].srvid)
          /\ pending' = [pending EXCEPT ![j] = EmptySlot]
    /\ UNCHANGED <<now, active, inflight, pc, reg>>

DropEnd ==
    /\ pc = "drop"
    /\ ~Full(active) \/ NoneUsed(pending)
    /\ pc' = "idle"
    /\ UNCHANGED <<now, active, pending, blocked, inflight, reg>>

Tick ==
    /\ pc = "idle" /\ now < MaxTime
    /\ now' = now + 1
    /\ UNCHANGED <<active, pending, blocked, inflight, pc, reg>>

Register == Promote \/ PromoteEnd \/ PlaceActive \/ PlacePending \/ PlaceFails
            \/ Drop \/ DropEnd

Next ==
    \/ \E r \in Requests : Ask(r[1], r[2]) \/ NotFound(r[1], r[2])
                           \/ RegisterBegin(r[1], r[2])
    \/ Register
    \/ Tick

Spec == Init /\ [][Next]_vars

----------------------------------------------------------------------------
\* Every variable has its type.
TypeOK ==
    /\ now \in Nat
    /\ active \in [ActiveIdx -> Slot]
    /\ pending \in [PendingIdx -> Slot]
    /\ blocked \subseteq Clients \X Services
    /\ inflight \subseteq Requests
    /\ pc \in {"idle", "promote", "place", "drop"}
    /\ reg \in Requests \cup {<<NoClient, NoService>>}

\* A service never holds two slots of a reader, neither in one array nor one
\* in each, whatever expires, is promoted and is registered again
\* (the searches and the moves of reader_register_service).
UniqueService ==
    /\ \A i, j \in ActiveIdx :
          Used(active[i]) /\ active[i].srvid = active[j].srvid => i = j
    /\ \A i, j \in PendingIdx :
          Used(pending[i]) /\ pending[i].srvid = pending[j].srvid => i = j
    /\ \A i \in ActiveIdx, j \in PendingIdx :
          Used(active[i]) => active[i].srvid # pending[j].srvid

\* Between two calls no service waits in a pending slot while an active slot
\* is empty: the promotion loop leaves none behind.
PendingOnlyWhenFull == pc = "idle" => Full(active) \/ NoneUsed(pending)

\* Between two calls nobody is on the blocked list while an active slot is
\* empty (clear_blocked_services at the end of the cleanup).
BlockedOnlyWhenFull == pc = "idle" => Full(active) \/ blocked = {}

\* The blocked list has at most one entry of a client, so the first entry
\* unblock_client_if_different meets is the only one.
OneBlockPerClient == \A b, d \in blocked : b[1] = d[1] => b = d

\* A pair enters the blocked list only when an ECM of a service that is itself
\* active found every active slot taken by a service that has not expired:
\* nobody is pushed out for the benefit of a dead slot or of a pending service.
BlockedByActiveOnly ==
    [][\A b \in blocked' \ blocked :
          /\ Holds(active, reg[2])
          /\ \A i \in ActiveIdx : Live(active[i])
          /\ \E j \in PendingIdx : b = <<pending[j].client, pending[j].srvid>>]_vars

\* A registered service that has not expired leaves its slots only by being
\* dropped into the blocked list: every other step keeps it in one of the two.
LiveServiceKept ==
    [][\A s \in Services :
          (\E i \in ActiveIdx : active[i].srvid = s /\ Live(active[i]))
            \/ (\E j \in PendingIdx : pending[j].srvid = s /\ Live(pending[j]))
          => \/ Holds(active', s)
             \/ Holds(pending', s)
             \/ \E c \in Clients : <<c, s>> \in blocked']_vars

----------------------------------------------------------------------------
\* What the documentation says and the code does not do.

\* ncam.server.txt: "When the limit is reached, the reader is temporarily
\* skipped".  A CW delivered by the reader always has a slot to be counted in.
CapacityHonoured == pc = "place" => SlotAvailable(reg[2])
============================================================================
