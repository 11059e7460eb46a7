--------------------------- MODULE RouteTableShard ---------------------------
(***************************************************************************)
(* One memory-only RouteTable shard and the actor that drives it           *)
(* (crates/relaygate-route-table/src/shard.rs and                          *)
(* crates/relaygate-route-table-transport/src/service/actor.rs).           *)
(*                                                                         *)
(* The actor takes one request at a time, reads the clock, purges the      *)
(* registrations that are due and executes the request; when no request    *)
(* arrives a timer at the earliest deadline purges.  A restart loses       *)
(* everything.  The hash maps are partial functions, so that an entry left *)
(* behind empty is visible in the model.                                   *)
(***************************************************************************)
EXTENDS RouteTableTypes, FiniteSets

CONSTANTS
    MaxTime,        \* bound on the clock
    MaxRevision,    \* bound on the revisions requests carry
    SnapshotInputs  \* the binding sets Update requests carry

ASSUME InputAssumption ==
    /\ SnapshotInputs \subseteq SUBSET Projections
    /\ \A S \in SnapshotInputs : IsFiniteSet(S)

VARIABLES
    now,                  \* the monotonic clock the actor reads
    registration_index,   \* key -> registration, None when absent
    destination_index,    \* destination -> projections, partial
    active_lease_ids,     \* leases of the current registrations
    expiry_index,         \* deadline -> expiry keys, partial
    binding_count,        \* cached sizes behind stats()
    expiry_record_count,
    reply                 \* the last reply sent

indexes == <<registration_index, destination_index, active_lease_ids,
             expiry_index, binding_count, expiry_record_count>>

vars == <<now, indexes, reply>>

ExpiryKeys == [key : Keys, lease : LeaseIds]

Init ==
    /\ now = 0
    /\ registration_index = [k \in Keys |-> None]
    /\ destination_index = [d \in {} |-> {}]
    /\ active_lease_ids = {}
    /\ expiry_index = [t \in {} |-> {}]
    /\ binding_count = 0
    /\ expiry_record_count = 0
    /\ reply = NoReply

-----------------------------------------------------------------------------
(***************************************************************************)
(* The index helpers.                                                      *)
(***************************************************************************)

InsertBindings(index, S) ==
    [d \in DOMAIN index \cup {p.destination : p \in S} |->
        LET added == {p \in S : p.destination = d}
            kept  == IF d \in DOMAIN index
                     THEN {q \in index[d] : \A p \in added : p.identity # q.identity}
                     ELSE {}
        IN  kept \cup added]

(* Mutant of RemoveBindings: the emptied destination stays. *)
RemoveBindingsKeepingEmpty(index, S) ==
    [d \in DOMAIN index |->
        {q \in index[d] : \A p \in S : p.destination = d => p.identity # q.identity}]

(* A destination whose last binding goes is dropped from the index. *)
RemoveBindings(index, S) ==
    LET rest == [d \in DOMAIN index |->
            {q \in index[d] :
                \A p \in S : p.destination = d => p.identity # q.identity}]
    IN  [d \in {e \in DOMAIN index :
                  rest[e] # {} \/ \A p \in S : p.destination # e} |-> rest[d]]

InsertExpiry(index, key, lease, deadline) ==
    [t \in DOMAIN index \cup {deadline} |->
        (IF t \in DOMAIN index THEN index[t] ELSE {})
        \cup (IF t = deadline THEN {[key |-> key, lease |-> lease]} ELSE {})]

(* A bucket whose last record goes is dropped from the index. *)
RemoveExpiry(index, key, lease, deadline) ==
    LET rest(t) == IF t = deadline
                   THEN index[t] \ {[key |-> key, lease |-> lease]}
                   ELSE index[t]
    IN  [t \in {u \in DOMAIN index : u = deadline => rest(u) # {}} |-> rest(t)]

HasExpiry(index, key, lease, deadline) ==
    deadline \in DOMAIN index /\ [key |-> key, lease |-> lease] \in index[deadline]

(* How many records the buckets in T hold. *)
RecordCount(index, T) ==
    Cardinality(UNION {{t} \X index[t] : t \in T})

(* How many bindings the registrations of the keys in K hold. *)
BoundCount(index, K) ==
    Cardinality(UNION {{k} \X index[k].bindings : k \in K})

-----------------------------------------------------------------------------
(***************************************************************************)
(* expire_due(now): pop every bucket that is due, and remove the           *)
(* registrations that are still the ones their records were made for.      *)
(***************************************************************************)

(* Mutant of DueTimes: the deadline itself does not count as due. *)
DueTimesAfterDeadline == {t \in DOMAIN expiry_index : t < now}

DueTimes == {t \in DOMAIN expiry_index : t <= now}

DueKeys ==
    {k \in Keys :
        /\ registration_index[k] # None
        /\ registration_index[k].deadline <= now
        /\ \E t \in DueTimes :
              [key |-> k, lease |-> registration_index[k].lease] \in expiry_index[t]}

LiveRegistrations ==
    [k \in Keys |-> IF k \in DueKeys THEN None ELSE registration_index[k]]

LiveDestinations ==
    RemoveBindings(destination_index,
                   UNION {registration_index[k].bindings : k \in DueKeys})

(* Mutant of LiveLeases: ended leases stay active. *)
LiveLeasesLeaking == active_lease_ids

LiveLeases == active_lease_ids \ {registration_index[k].lease : k \in DueKeys}

LiveExpiry == [t \in DOMAIN expiry_index \ DueTimes |-> expiry_index[t]]

LiveBindingCount == binding_count - BoundCount(registration_index, DueKeys)

LiveRecordCount == expiry_record_count - RecordCount(expiry_index, DueTimes)

(* A request that changes nothing else still purges. *)
OnlyExpire ==
    /\ registration_index' = LiveRegistrations
    /\ destination_index' = LiveDestinations
    /\ active_lease_ids' = LiveLeases
    /\ expiry_index' = LiveExpiry
    /\ binding_count' = LiveBindingCount
    /\ expiry_record_count' = LiveRecordCount

-----------------------------------------------------------------------------
(***************************************************************************)
(* The requests.  Each first purges what is due (the Live... values).      *)
(***************************************************************************)

(* A lease operation that fails one of the checks they all start with. *)
Reject(gateway, generation, key) ==
    /\ Verdict(gateway, generation, key) # "Ok"
    /\ OnlyExpire
    /\ reply' = Error(Verdict(gateway, generation, key))
    /\ UNCHANGED now

RegisterExisting(key) ==
    /\ LiveRegistrations[key] # None
    /\ OnlyExpire
    /\ reply' = AckOf(LiveRegistrations[key], now)

RegisterNew(key) ==
    /\ LiveRegistrations[key] = None
    /\ \E lease \in LeaseIds \ LiveLeases :
          /\ registration_index' = [LiveRegistrations EXCEPT ![key] =
                [lease |-> lease, revision |-> 0,
                 deadline |-> now + LeaseTtl, bindings |-> {}]]
          /\ active_lease_ids' = LiveLeases \cup {lease}
          /\ expiry_index' = InsertExpiry(LiveExpiry, key, lease, now + LeaseTtl)
          /\ expiry_record_count' = LiveRecordCount +
                (IF HasExpiry(LiveExpiry, key, lease, now + LeaseTtl) THEN 0 ELSE 1)
          /\ reply' = Ack(lease, 0, LeaseTtl)
    /\ destination_index' = LiveDestinations
    /\ binding_count' = LiveBindingCount

Register(key) ==
    /\ key.shard = ThisShard
    /\ RegisterExisting(key) \/ RegisterNew(key)
    /\ UNCHANGED now

(* current_registration: the key is registered under this very lease. *)
IsCurrent(key, lease) ==
    LiveRegistrations[key] # None /\ LiveRegistrations[key].lease = lease

(* Mutant of UpdateInstall: the new bindings are not counted. *)
UpdateInstallUncounted(key, lease, revision, S) ==
    LET r == LiveRegistrations[key] IN
    /\ registration_index' = [LiveRegistrations EXCEPT ![key] =
          [lease |-> lease, revision |-> revision,
           deadline |-> r.deadline, bindings |-> S]]
    /\ binding_count' = LiveBindingCount - Cardinality(r.bindings)
    /\ destination_index' = InsertBindings(RemoveBindings(LiveDestinations, r.bindings), S)
    /\ active_lease_ids' = LiveLeases
    /\ expiry_index' = LiveExpiry
    /\ expiry_record_count' = LiveRecordCount
    /\ reply' = Ack(lease, revision, r.deadline - now)

(* Mutant of UpdateInstall: the replaced bindings stay counted. *)
UpdateInstallOvercounted(key, lease, revision, S) ==
    LET r == LiveRegistrations[key] IN
    /\ registration_index' = [LiveRegistrations EXCEPT ![key] =
          [lease |-> lease, revision |-> revision,
           deadline |-> r.deadline, bindings |-> S]]
    /\ binding_count' = LiveBindingCount + Cardinality(S)
    /\ destination_index' = InsertBindings(RemoveBindings(LiveDestinations, r.bindings), S)
    /\ active_lease_ids' = LiveLeases
    /\ expiry_index' = LiveExpiry
    /\ expiry_record_count' = LiveRecordCount
    /\ reply' = Ack(lease, revision, r.deadline - now)

UpdateInstall(key, lease, revision, S) ==
    LET r == LiveRegistrations[key] IN
    /\ registration_index' = [LiveRegistrations EXCEPT ![key] =
          [lease |-> lease, revision |-> revision,
           deadline |-> r.deadline, bindings |-> S]]
    /\ binding_count' = LiveBindingCount - Cardinality(r.bindings) + Cardinality(S)
    /\ destination_index' = InsertBindings(RemoveBindings(LiveDestinations, r.bindings), S)
    /\ active_lease_ids' = LiveLeases
    /\ expiry_index' = LiveExpiry
    /\ expiry_record_count' = LiveRecordCount
    /\ reply' = Ack(lease, revision, r.deadline - now)

Update(key, lease, revision, S) ==
    LET r     == LiveRegistrations[key]
        valid == IsBindingSnapshot(S) /\ InScope(key, S)
    IN
    /\ key.shard = ThisShard
    /\ \/ /\ ~ valid
          /\ OnlyExpire
          /\ reply' = Error("InvalidArgument")
       \/ /\ valid
          /\ ~ (/\ IsCurrent(key, lease)
                /\ Repeats(r, revision, S) \/ Installs(r, revision, S))
          /\ OnlyExpire
          /\ reply' = Error("FailedPrecondition")
       \/ /\ valid /\ IsCurrent(key, lease) /\ Repeats(r, revision, S)
          /\ OnlyExpire
          /\ reply' = AckOf(r, now)
       \/ /\ valid /\ IsCurrent(key, lease) /\ Installs(r, revision, S)
          /\ UpdateInstall(key, lease, revision, S)
    /\ UNCHANGED now

(* Mutant of Renew: the record of the old deadline is left behind. *)
RenewKeepingOldRecord(key, lease) ==
    LET r == LiveRegistrations[key]
    IN  /\ registration_index' = [LiveRegistrations EXCEPT ![key] =
              [r EXCEPT !.deadline = now + LeaseTtl]]
        /\ expiry_index' = InsertExpiry(LiveExpiry, key, lease, now + LeaseTtl)
        /\ expiry_record_count' = LiveRecordCount + 1
        /\ destination_index' = LiveDestinations
        /\ active_lease_ids' = LiveLeases
        /\ binding_count' = LiveBindingCount
        /\ reply' = Ack(lease, r.revision, LeaseTtl)

(* The lease moves to a new deadline, and its expiry record with it. *)
Renew(key, lease) ==
    LET r     == LiveRegistrations[key]
        freed == RemoveExpiry(LiveExpiry, key, lease, r.deadline)
    IN  /\ registration_index' = [LiveRegistrations EXCEPT ![key] =
              [r EXCEPT !.deadline = now + LeaseTtl]]
        /\ expiry_index' = InsertExpiry(freed, key, lease, now + LeaseTtl)
        /\ expiry_record_count' =
              LiveRecordCount
              - (IF HasExpiry(LiveExpiry, key, lease, r.deadline) THEN 1 ELSE 0)
              + (IF HasExpiry(freed, key, lease, now + LeaseTtl) THEN 0 ELSE 1)
        /\ destination_index' = LiveDestinations
        /\ active_lease_ids' = LiveLeases
        /\ binding_count' = LiveBindingCount
        /\ reply' = Ack(lease, r.revision, LeaseTtl)

KeepAlive(key, lease) ==
    /\ key.shard = ThisShard
    /\ \/ /\ ~ IsCurrent(key, lease)
          /\ OnlyExpire
          /\ reply' = Error("FailedPrecondition")
       \/ IsCurrent(key, lease) /\ Renew(key, lease)
    /\ UNCHANGED now

RemoveRegistration(key) ==
    LET r == LiveRegistrations[key] IN
    /\ registration_index' = [LiveRegistrations EXCEPT ![key] = None]
    /\ binding_count' = LiveBindingCount - Cardinality(r.bindings)
    /\ active_lease_ids' = LiveLeases \ {r.lease}
    /\ expiry_index' = RemoveExpiry(LiveExpiry, key, r.lease, r.deadline)
    /\ expiry_record_count' = LiveRecordCount -
          (IF HasExpiry(LiveExpiry, key, r.lease, r.deadline) THEN 1 ELSE 0)
    /\ destination_index' = RemoveBindings(LiveDestinations, r.bindings)
    /\ reply' = Done

Deregister(key, lease) ==
    /\ key.shard = ThisShard
    /\ \/ /\ ~ IsCurrent(key, lease)
          /\ OnlyExpire
          /\ reply' = IF LiveRegistrations[key] = None
                      THEN Done ELSE Error("FailedPrecondition")
       \/ IsCurrent(key, lease) /\ RemoveRegistration(key)
    /\ UNCHANGED now

(* Mutant of Resolve: the index is read before the purge. *)
ResolveUnpurged(generation, destination) ==
    LET known == destination \in DOMAIN destination_index /\ destination_index[destination] # {} IN
    /\ OnlyExpire
    /\ \/ /\ generation # Generation
          /\ reply' = Error("FailedPrecondition")
       \/ /\ generation = Generation
          /\ Authority[destination] # ThisShard
          /\ reply' = Error("InvalidArgument")
       \/ /\ generation = Generation
          /\ Authority[destination] = ThisShard
          /\ ~ known
          /\ reply' = Error("NotFound")
       \/ /\ generation = Generation
          /\ Authority[destination] = ThisShard
          /\ known
          /\ reply' = BindingSet(destination_index[destination])
    /\ UNCHANGED now

Resolve(generation, destination) ==
    LET known == destination \in DOMAIN LiveDestinations /\ LiveDestinations[destination] # {} IN
    /\ OnlyExpire
    /\ \/ /\ generation # Generation
          /\ reply' = Error("FailedPrecondition")
       \/ /\ generation = Generation
          /\ Authority[destination] # ThisShard
          /\ reply' = Error("InvalidArgument")
       \/ /\ generation = Generation
          /\ Authority[destination] = ThisShard
          /\ ~ known
          /\ reply' = Error("NotFound")
       \/ /\ generation = Generation
          /\ Authority[destination] = ThisShard
          /\ known
          /\ reply' = BindingSet(LiveDestinations[destination])
    /\ UNCHANGED now

(* Mutant of ExpireTimer: a shard without bindings does not arm its timer. *)
ExpireTimerIfBound ==
    /\ DueTimes # {} /\ binding_count > 0
    /\ OnlyExpire
    /\ UNCHANGED <<now, reply>>

(* The actor's sleep_until(next_expiry_deadline()) elapses. *)
ExpireTimer ==
    /\ DueTimes # {}
    /\ OnlyExpire
    /\ UNCHANGED <<now, reply>>

(* The process restarts; nothing was persisted. *)
Restart ==
    /\ registration_index' = [k \in Keys |-> None]
    /\ destination_index' = [d \in {} |-> {}]
    /\ active_lease_ids' = {}
    /\ expiry_index' = [t \in {} |-> {}]
    /\ binding_count' = 0
    /\ expiry_record_count' = 0
    /\ reply' = NoReply
    /\ UNCHANGED now

Tick ==
    /\ now < MaxTime
    /\ now' = now + 1
    /\ UNCHANGED <<indexes, reply>>

Next ==
    \/ Tick
    \/ ExpireTimer
    \/ Restart
    \/ \E gateway \in Gateways, generation \in Generations, key \in Keys :
          Reject(gateway, generation, key)
    \/ \E key \in Keys : Register(key)
    \/ \E key \in Keys, lease \in LeaseIds :
          \/ KeepAlive(key, lease)
          \/ Deregister(key, lease)
          \/ \E revision \in 1 .. MaxRevision, S \in SnapshotInputs :
                Update(key, lease, revision, S)
    \/ \E generation \in Generations, destination \in Destinations :
          Resolve(generation, destination)

Spec == Init /\ [][Next]_vars

(* The runtime polls an elapsed sleep, so the timer is never starved. *)
FairSpec == Spec /\ WF_vars(ExpireTimer)

-----------------------------------------------------------------------------
TypeOK ==
    /\ now \in Nat
    /\ registration_index \in [Keys -> Registrations \cup {None}]
    /\ DOMAIN destination_index \subseteq Destinations
    /\ destination_index \in [DOMAIN destination_index -> SUBSET Projections]
    /\ active_lease_ids \subseteq LeaseIds
    /\ DOMAIN expiry_index \subseteq Nat
    /\ expiry_index \in [DOMAIN expiry_index -> SUBSET ExpiryKeys]
    /\ binding_count \in Nat
    /\ expiry_record_count \in Nat
    /\ reply \in Replies

(***************************************************************************)
(* destination_index holds exactly the bindings of the registrations, each *)
(* under its destination, and no empty entry (insert_bindings and          *)
(* remove_bindings undo each other whatever operations come between).      *)
(***************************************************************************)
DestinationsMirrorRegistrations ==
    /\ \A d \in DOMAIN destination_index, p \in Projections :
          p \in destination_index[d] <=>
             /\ p.destination = d
             /\ \E k \in Keys : /\ registration_index[k] # None
                                /\ p \in registration_index[k].bindings
    /\ \A k \in Keys : registration_index[k] # None =>
          \A p \in registration_index[k].bindings :
             p.destination \in DOMAIN destination_index
    /\ \A d \in DOMAIN destination_index : destination_index[d] # {}

(***************************************************************************)
(* Every registration has exactly one expiry record, at its current        *)
(* deadline, and there is no other record and no empty bucket: a renewed   *)
(* lease is not ended by the record of its old deadline, and none is       *)
(* forgotten (keep_alive, remove_registration, expire_due).                *)
(***************************************************************************)
OneExpiryRecordPerLease ==
    /\ \A t \in DOMAIN expiry_index, e \in ExpiryKeys :
          e \in expiry_index[t] <=>
             /\ registration_index[e.key] # None
             /\ registration_index[e.key].lease = e.lease
             /\ registration_index[e.key].deadline = t
    /\ \A k \in Keys : registration_index[k] # None =>
          registration_index[k].deadline \in DOMAIN expiry_index
    /\ \A t \in DOMAIN expiry_index : expiry_index[t] # {}

(***************************************************************************)
(* No two registrations share a lease, and active_lease_ids is the set of  *)
(* their leases: it neither leaks ended leases nor lets unique_lease_id    *)
(* hand out one in use.                                                    *)
(***************************************************************************)
LeasesAreUnique ==
    /\ active_lease_ids =
          {registration_index[k].lease : k \in {l \in Keys : registration_index[l] # None}}
    /\ \A k, l \in Keys :
          /\ registration_index[k] # None /\ registration_index[l] # None
          /\ registration_index[k].lease = registration_index[l].lease
          => k = l

(***************************************************************************)
(* A registration only binds identities of its own Gateway session, to     *)
(* destinations of this shard; so registrations never overlap in the index.*)
(***************************************************************************)
BindingsStayInScope ==
    \A k \in Keys : registration_index[k] # None =>
        /\ k.shard = ThisShard
        /\ \A p \in registration_index[k].bindings :
              /\ p.identity.gateway = k.gateway
              /\ p.identity.session = k.session
              /\ Authority[p.destination] = ThisShard
        /\ (registration_index[k].revision = 0) <=> (registration_index[k].bindings = {})

(***************************************************************************)
(* The sizes stats() reports are maintained by increments; they equal the  *)
(* sizes of the indexes (and the usize subtractions never underflow).      *)
(***************************************************************************)
CountersMatchIndexes ==
    /\ binding_count =
          BoundCount(registration_index, {k \in Keys : registration_index[k] # None})
    /\ expiry_record_count = RecordCount(expiry_index, DOMAIN expiry_index)

(***************************************************************************)
(* The shard's redundant books tell the same story after any run of        *)
(* registrations, updates, renewals, removals, expiries and restarts.      *)
(***************************************************************************)
IndexesAgree ==
    /\ DestinationsMirrorRegistrations
    /\ OneExpiryRecordPerLease
    /\ LeasesAreUnique
    /\ BindingsStayInScope
    /\ CountersMatchIndexes

(***************************************************************************)
(* A Resolve answers with every binding whose lease has not reached its    *)
(* deadline and with no other, though expired registrations may still be   *)
(* in the indexes when the request arrives (RT-009).                       *)
(***************************************************************************)
Unexpired(k) == registration_index[k] # None /\ registration_index[k].deadline > now

ResolveAnswersLiveBindings ==
    [][\A d \in Destinations :
          Resolve(Generation, d) /\ Authority[d] = ThisShard =>
             LET live == {p \in UNION {registration_index[k].bindings :
                                          k \in {l \in Keys : Unexpired(l)}} :
                            p.destination = d}
             IN  reply' = IF live = {} THEN Error("NotFound") ELSE BindingSet(live)]_vars

(***************************************************************************)
(* While a lease lasts, its bindings change only with a higher revision    *)
(* and its deadline never moves back: a delayed or repeated Update or      *)
(* KeepAlive cannot undo a later one (RT-004, RT-005, RT-006, RT-008).     *)
(***************************************************************************)
SameLease(k) ==
    /\ registration_index[k] # None
    /\ registration_index'[k] # None
    /\ registration_index[k].lease = registration_index'[k].lease

LeaseOnlyMovesForward ==
    [][\A k \in Keys :
          SameLease(k) /\ Unexpired(k) =>
             /\ registration_index'[k].revision >= registration_index[k].revision
             /\ registration_index'[k].deadline >= registration_index[k].deadline
             /\ registration_index'[k].bindings # registration_index[k].bindings =>
                   registration_index'[k].revision > registration_index[k].revision]_vars

(***************************************************************************)
(* A registration that reached its deadline leaves the indexes even if no  *)
(* request ever arrives again (the actor's timer).                         *)
(***************************************************************************)
ExpiredRegistrationsArePurged ==
    \A k \in Keys, lease \in LeaseIds :
        (registration_index[k] # None /\ registration_index[k].lease = lease
           /\ registration_index[k].deadline <= now)
        ~> ~ (registration_index[k] # None /\ registration_index[k].lease = lease
                /\ registration_index[k].deadline <= now)

(***************************************************************************)
(* The shard implements the RouteTable contract: to its clients an         *)
(* expired registration is gone although the shard still holds it.         *)
(***************************************************************************)
Contract == INSTANCE RouteTable
    WITH clock <- now, answer <- reply,
         table <- [k \in Keys |-> IF Unexpired(k) THEN registration_index[k] ELSE None]

ImplementsContract == Contract!TableSpec
=============================================================================
