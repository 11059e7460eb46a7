----------------------- MODULE RegistrationLifecycle -----------------------
(***************************************************************************)
(* How a Gateway keeps one RouteTable shard in step with its local         *)
(* Bindings (crates/relaygate-gateway-routing/src/lifecycle.rs and         *)
(* runtime/{desired,registration,operation,worker,mod}.rs).                *)
(*                                                                         *)
(* The Gateway commits the wanted snapshot of a session to the             *)
(* DesiredStore.  The shard's worker reads the store, keeps one            *)
(* RegistrationState per session and runs one request at a time over one   *)
(* connection, which can break, time out, lose an acknowledgement or leave *)
(* a request behind that the RouteTable executes later.  The RouteTable    *)
(* follows the RouteTable module's contract, seen by this Gateway only and *)
(* without its clock: leases expire by an action.                          *)
(*                                                                         *)
(* Instants are abstracted to whether they have been reached (waiting,     *)
(* renew, reconnect_wait), which timer actions change.  The attempt_id of  *)
(* an OperationTicket is left out: PendingIsInFlight shows that a ticket   *)
(* is only ever compared with the one operation in flight.                 *)
(***************************************************************************)
EXTENDS Naturals, FiniteSets, FiniteSetsExt

CONSTANTS
    Sessions,     \* RelaySessionIds, numbers: the worker visits them in order
    Snapshots,    \* BindingSnapshots
    None,         \* absent snapshot, lease, ticket, registration or answer
    MaxVersion,   \* bound on the commits to the DesiredStore
    FaultKinds,   \* the failures that can happen
    MaxFaults     \* bound on their number

ASSUME SessionAssumption == Sessions \subseteq Nat /\ IsFiniteSet(Sessions)
ASSUME BoundAssumption == MaxVersion \in Nat /\ MaxFaults \in Nat
ASSUME FaultAssumption ==
    FaultKinds \subseteq {"restart", "expiry", "connect", "request", "throttle", "resolve"}
ASSUME NoneAssumption == None \notin Snapshots

VARIABLES
    store_version,    \* DesiredState::version
    sessions,         \* DesiredShard::sessions, session -> version and snapshot
    removed,          \* DesiredShard::removed, session -> version, 0 when absent
    withdrawn,        \* history: the sessions that were ever removed
    observed_version, \* the store version the worker last read
    registrations,    \* session -> RegistrationState, None when absent
    connected,        \* epoch of the current client, 0 when there is none
    connection_epoch, \* the last epoch given out
    reconnect_wait,   \* reconnect_at lies ahead
    operation,        \* the request in flight, None when there is none
    worker_terminal,  \* ShardWorker::terminal
    failure,          \* what a failed Resolve reported last
    counts,           \* WorkerCounts
    stopped,          \* the worker was shut down
    table,            \* the RouteTable's registrations of this Gateway
    next_lease,       \* session -> the next fresh LeaseId, numbered per session
    refuses,          \* the RouteTable now runs another directory generation
    dead,             \* epochs whose connection broke, noticed or not
    late,             \* requests whose sender gave up on them
    faults            \* failures so far

store == <<store_version, sessions, removed, withdrawn>>
client == <<connected, connection_epoch, reconnect_wait, worker_terminal>>
worker == <<registrations, operation, counts, client>>
routeTable == <<table, next_lease, refuses>>
vars == <<store, observed_version, worker, failure, stopped, routeTable,
          dead, late, faults>>

(* A fault of this kind happens. *)
Fault(kind) ==
    /\ kind \in FaultKinds
    /\ faults < MaxFaults
    /\ faults' = faults + 1

NoCounts == [synced |-> 0, unsynced |-> 0, terminal |-> 0]

Init ==
    /\ store_version = 0
    /\ sessions = [s \in Sessions |-> None]
    /\ removed = [s \in Sessions |-> 0]
    /\ withdrawn = {}
    /\ observed_version = 0
    /\ registrations = [s \in Sessions |-> None]
    /\ connected = 0 /\ connection_epoch = 0
    /\ reconnect_wait = FALSE
    /\ operation = None
    /\ worker_terminal = FALSE
    /\ failure = None
    /\ counts = NoCounts
    /\ stopped = FALSE
    /\ table = [s \in Sessions |-> None]
    /\ next_lease = [s \in Sessions |-> 1]
    /\ refuses = FALSE /\ dead = {}
    /\ late = {}
    /\ faults = 0

-----------------------------------------------------------------------------
(***************************************************************************)
(* RegistrationState.                                                      *)
(***************************************************************************)

(* Mutant of NewRegistration: the version of the commit is not taken. *)
UnversionedRegistration(version, snapshot) ==
    [version |-> 0, snapshot |-> snapshot, lease |-> None,
     synced |-> 0, pending |-> None, terminal |-> FALSE, probe |-> FALSE,
     validate |-> FALSE, waiting |-> FALSE, renew |-> FALSE]

NewRegistration(version, snapshot) ==
    [version |-> version, snapshot |-> snapshot, lease |-> None,
     synced |-> 0, pending |-> None, terminal |-> FALSE, probe |-> FALSE,
     validate |-> FALSE, waiting |-> FALSE, renew |-> FALSE]

IsRemovable(r) == r.snapshot = None /\ r.lease = None /\ r.pending = None

IsSynced(r) ==
    /\ ~ r.terminal /\ r.snapshot # None /\ r.lease # None
    /\ ~ r.validate /\ r.synced = r.version

LeaseOf(r) == IF r.lease = None THEN 0 ELSE r.lease.id

(***************************************************************************)
(* publish: a newer wanted snapshot.  A terminal registration that is no   *)
(* longer wanted forgets its lease and leaves it to expire.                *)
(***************************************************************************)
Publish(r, version, snapshot) ==
    LET unchanged == r.snapshot = snapshot
        forget    == r.terminal /\ snapshot = None
    IN  IF version <= r.version THEN r
        ELSE [r EXCEPT
                !.version  = version,
                !.snapshot = snapshot,
                !.synced   = IF unchanged /\ IsSynced(r) THEN version ELSE 0,
                !.lease    = IF forget THEN None ELSE @,
                !.pending  = IF forget THEN None ELSE @,
                !.validate = IF forget THEN FALSE ELSE @,
                !.waiting  = IF unchanged THEN @ ELSE FALSE]

(***************************************************************************)
(* begin_next: the request this registration wants to make now.            *)
(***************************************************************************)
NextAction(r) ==
    IF r.pending # None \/ r.terminal \/ r.waiting THEN None
    ELSE IF r.snapshot = None
         THEN IF r.lease = None THEN None ELSE "Deregister"
    ELSE IF r.lease = None THEN "Register"
    ELSE IF r.validate THEN "KeepAlive"
    ELSE IF r.synced # r.version THEN "Update"
    ELSE IF r.renew THEN "KeepAlive"
    ELSE None

Ticket(s, r) ==
    LET update == NextAction(r) = "Update"
    IN  [action |-> NextAction(r), session |-> s, version |-> r.version,
         lease |-> LeaseOf(r),
         revision |-> IF update THEN r.lease.revision + 1 ELSE 0,
         snapshot |-> IF update THEN r.snapshot ELSE None]

(* take_pending and take_current: the ticket is this registration's, and   *)
(* its lease, or also its wanted version, is still the same.               *)
IsPending(r, t) == r.pending = t /\ LeaseOf(r) = t.lease
IsCurrent(r, t) == IsPending(r, t) /\ r.version = t.version

(* Mutant of Taken: only a current ticket is taken. *)
TakenIfCurrent(r, t) ==
    IF IsCurrent(r, t) THEN [r EXCEPT !.pending = None] ELSE r

Taken(r, t) == IF r.pending = t THEN [r EXCEPT !.pending = None] ELSE r

RegisterSucceeded(r, t, ack) ==
    IF ~ IsCurrent(r, t) THEN Taken(r, t)
    ELSE [Taken(r, t) EXCEPT
            !.lease = [id |-> ack.lease, revision |-> ack.revision],
            !.synced = 0, !.validate = FALSE, !.waiting = FALSE,
            !.renew = FALSE]

(* Mutant of UpdateSucceeded: whatever is wanted by now counts as synced. *)
UpdateSucceededForLatest(r, t, ack) ==
    IF ~ IsPending(r, t) \/ ack.lease # t.lease \/ r.lease = None
    THEN Taken(r, t)
    ELSE [Taken(r, t) EXCEPT
            !.lease = [id |-> t.lease, revision |-> t.revision],
            !.synced = r.version,
            !.probe = FALSE, !.validate = FALSE, !.waiting = FALSE,
            !.renew = FALSE]

(***************************************************************************)
(* update_succeeded: the accepted revision is kept even if another         *)
(* snapshot is wanted by now.                                              *)
(***************************************************************************)
UpdateSucceeded(r, t, ack) ==
    IF ~ IsPending(r, t) \/ ack.lease # t.lease \/ r.lease = None
    THEN Taken(r, t)
    ELSE [Taken(r, t) EXCEPT
            !.lease = [id |-> t.lease, revision |-> t.revision],
            !.synced = IF r.version = t.version THEN t.version ELSE @,
            !.probe = FALSE, !.validate = FALSE, !.waiting = FALSE,
            !.renew = FALSE]

KeepAliveSucceeded(r, t, ack) ==
    IF ~ IsCurrent(r, t) \/ ack.lease # t.lease \/ r.lease = None
    THEN Taken(r, t)
    ELSE [Taken(r, t) EXCEPT
            !.probe = FALSE, !.validate = FALSE, !.waiting = FALSE,
            !.renew = FALSE]

TerminalFailure(r, t) ==
    IF ~ IsCurrent(r, t) THEN Taken(r, t)
    ELSE [Taken(r, t) EXCEPT !.synced = 0, !.terminal = TRUE]

(* Mutant of PreconditionFailed: no probe. *)
PreconditionFailedAtOnce(r, t) == TerminalFailure(r, t)

(***************************************************************************)
(* precondition_failed: the first refusal of a lease makes the next        *)
(* request a Register that probes it; a second one before a success ends   *)
(* the registration, and so does a refused Register.                       *)
(***************************************************************************)
PreconditionFailed(r, t) ==
    IF t.action = "Register" \/ (IsCurrent(r, t) /\ r.probe)
    THEN TerminalFailure(r, t)
    ELSE IF ~ IsCurrent(r, t) THEN Taken(r, t)
    ELSE [Taken(r, t) EXCEPT
            !.lease = None, !.synced = 0, !.probe = TRUE,
            !.validate = FALSE, !.waiting = FALSE, !.renew = FALSE]

TransientFailure(r, t) ==
    IF ~ IsCurrent(r, t) THEN Taken(r, t)
    ELSE [Taken(r, t) EXCEPT !.synced = 0, !.waiting = TRUE]

FinishDeregister(r, t) ==
    IF ~ IsCurrent(r, t) THEN Taken(r, t)
    ELSE [Taken(r, t) EXCEPT
            !.lease = None, !.synced = 0, !.validate = FALSE, !.renew = FALSE]

ConnectionLost(r) ==
    [r EXCEPT !.validate = @ \/ r.lease # None, !.waiting = FALSE]

MarkTerminal(r) ==
    LET forget == r.snapshot = None
    IN  [r EXCEPT
            !.pending = None, !.synced = 0, !.terminal = TRUE,
            !.lease = IF forget THEN None ELSE @,
            !.validate = IF forget THEN FALSE ELSE @]

-----------------------------------------------------------------------------
(***************************************************************************)
(* The worker's collections.                                               *)
(***************************************************************************)

Present(R) == {s \in Sessions : R[s] # None}

AllConnectionLost(R) ==
    [s \in Sessions |-> IF R[s] = None THEN None ELSE ConnectionLost(R[s])]

MarkAllTerminal(R) ==
    [s \in Sessions |-> IF R[s] = None THEN None ELSE MarkTerminal(R[s])]

Pruned(R) ==
    [s \in Sessions |->
        IF R[s] # None /\ IsRemovable(R[s]) THEN None ELSE R[s]]

(* WorkerCounts::update, over the registrations that are wanted. *)
CountsOf(R) ==
    LET wanted == {s \in Present(R) : R[s].snapshot # None}
        synced == {s \in wanted : IsSynced(R[s])}
    IN  [synced   |-> Cardinality(synced),
         unsynced |-> Cardinality(wanted \ synced),
         terminal |-> Cardinality({s \in wanted : R[s].terminal})]

(***************************************************************************)
(* What the worker's loop does after every event: drop the registrations   *)
(* that are removable and, when it is connected and idle, start the        *)
(* request of the first registration that has one.  R, op, epoch, end and  *)
(* n are what the event left in the worker's state.                        *)
(***************************************************************************)
Loop(R, op, epoch, end, n) ==
    LET passes == op = None /\ ~ end /\ epoch # 0 IN
    /\ \E kept \in {Pruned(R)} :
          LET ready == {s \in Present(kept) : NextAction(kept[s]) # None} IN
          /\ IF passes /\ ready # {}
             THEN LET first == Min(ready) IN
                  \E ticket \in {Ticket(first, kept[first])} :
                     /\ registrations' = [kept EXCEPT ![first] =
                                             [@ EXCEPT !.pending = ticket]]
                     /\ operation' = [epoch |-> epoch, ticket |-> ticket,
                                      answer |-> None]
             ELSE registrations' = kept /\ operation' = op
          /\ counts' = IF passes THEN CountsOf(kept) ELSE n
    /\ connected' = epoch
    /\ worker_terminal' = end

-----------------------------------------------------------------------------
(***************************************************************************)
(* The DesiredStore.                                                       *)
(***************************************************************************)

(***************************************************************************)
(* publish_session and DesiredStore::commit.  A commit may leave this      *)
(* shard's snapshot of the session as it was.  Removing a session the      *)
(* shard does not hold records nothing.                                    *)
(***************************************************************************)
Commit(s, snapshot) ==
    LET version == store_version + 1 IN
    /\ ~ stopped
    /\ store_version < MaxVersion
    /\ store_version' = version
    /\ \/ /\ snapshot # None
          /\ sessions' = [sessions EXCEPT
                ![s] = [version |-> version, snapshot |-> snapshot]]
          /\ removed' = [removed EXCEPT ![s] = 0]
          /\ UNCHANGED withdrawn
       \/ /\ snapshot = None /\ sessions[s] # None
          /\ sessions' = [sessions EXCEPT ![s] = None]
          /\ removed' = [removed EXCEPT ![s] = version]
          /\ withdrawn' = withdrawn \cup {s}
       \/ /\ snapshot = None /\ sessions[s] = None
          /\ UNCHANGED <<sessions, removed, withdrawn>>
    /\ UNCHANGED <<observed_version, worker, failure, stopped, routeTable,
                   dead, late, faults>>

(* Mutant of Reconciled: removals are not applied. *)
ReconciledChanges(r, desired, removal) ==
    IF desired # None /\ desired.version > observed_version
    THEN IF r = None THEN NewRegistration(desired.version, desired.snapshot)
         ELSE Publish(r, desired.version, desired.snapshot)
    ELSE r

(* Publish what the store holds now to the registration of one session. *)
Reconciled(r, desired, removal) ==
    IF desired # None /\ desired.version > observed_version
    THEN IF r = None THEN NewRegistration(desired.version, desired.snapshot)
         ELSE Publish(r, desired.version, desired.snapshot)
    ELSE IF removal # 0 /\ r # None THEN Publish(r, removal, None)
    ELSE r

(***************************************************************************)
(* A wake signal or the scan tick: shard_view_after hands out what changed *)
(* and forgets the removals, and reconcile_desired applies both.           *)
(***************************************************************************)
Reconcile ==
    /\ ~ stopped
    /\ store_version > observed_version
    /\ observed_version' = store_version
    /\ removed' = [s \in Sessions |-> 0]
    /\ \E R \in {[s \in Sessions |->
                    Reconciled(registrations[s], sessions[s], removed[s])]} :
          Loop(R, operation, connected, worker_terminal, CountsOf(R))
    /\ UNCHANGED <<store_version, sessions, withdrawn, connection_epoch,
                   reconnect_wait, failure, stopped, routeTable, dead, late,
                   faults>>

-----------------------------------------------------------------------------
(***************************************************************************)
(* The RouteTable: what it answers, and the table it is left with.         *)
(***************************************************************************)

Holds(s, lease) == table[s] # None /\ table[s].lease = lease

Accepts(r, revision, snapshot) ==
    \/ revision = r.revision /\ snapshot = r.snapshot
    \/ IF r.revision = 0 THEN revision = 1 ELSE revision > r.revision

Ack(r) == [kind |-> "Ack", lease |-> r.lease, revision |-> r.revision]
Done == [kind |-> "Done"]
FailedPrecondition == [kind |-> "FailedPrecondition"]

Registered(t) ==
    IF t.action = "Register" /\ ~ refuses /\ table[t.session] = None
    THEN [lease |-> next_lease[t.session], revision |-> 0, snapshot |-> None]
    ELSE IF /\ t.action = "Update" /\ ~ refuses
            /\ Holds(t.session, t.lease)
            /\ Accepts(table[t.session], t.revision, t.snapshot)
    THEN [lease |-> t.lease, revision |-> t.revision, snapshot |-> t.snapshot]
    ELSE IF t.action = "Deregister" /\ ~ refuses /\ Holds(t.session, t.lease)
    THEN None
    ELSE table[t.session]

Answer(t) ==
    LET held == Holds(t.session, t.lease) IN
    IF refuses THEN FailedPrecondition
    ELSE IF t.action = "Register" THEN Ack(Registered(t))
    ELSE IF t.action = "Deregister"
         THEN IF table[t.session] = None \/ held THEN Done
              ELSE FailedPrecondition
    ELSE IF /\ held
            /\ t.action = "Update" =>
                  Accepts(table[t.session], t.revision, t.snapshot)
         THEN Ack(Registered(t))
    ELSE FailedPrecondition

Execute(t) ==
    /\ \E r \in {Registered(t)} :
          /\ table' = [table EXCEPT ![t.session] = r]
          /\ next_lease' = [next_lease EXCEPT ![t.session] =
                IF r # None /\ r.lease = @ THEN @ + 1 ELSE @]
    /\ UNCHANGED refuses

(* The service takes the request in flight and sends its answer. *)
Serve ==
    /\ operation # None /\ operation.answer = None
    /\ operation.epoch \notin dead
    /\ Execute(operation.ticket)
    /\ operation' = [operation EXCEPT !.answer = Answer(operation.ticket)]
    /\ UNCHANGED <<store, observed_version, registrations, counts, client,
                   failure, stopped, dead, late, faults>>

(***************************************************************************)
(* A request whose sender gave up on it was still queued: the service      *)
(* executes it now, in any order with newer ones, or never reads it.       *)
(***************************************************************************)
ServeLate(t) ==
    /\ t \in late
    /\ late' = late \ {t}
    /\ Execute(t) \/ UNCHANGED routeTable
    /\ UNCHANGED <<store, observed_version, worker, failure, stopped, dead,
                   faults>>

(***************************************************************************)
(* The worker knows the lease, or is about to: it renews it long before    *)
(* the deadline, or deregisters it.                                        *)
(***************************************************************************)
IsTended(s) ==
    /\ ~ stopped
    /\ \/ /\ registrations[s] # None /\ ~ registrations[s].terminal
          /\ LeaseOf(registrations[s]) = table[s].lease
       \/ /\ operation # None /\ operation.ticket.session = s
          /\ operation.answer # None /\ operation.answer.kind = "Ack"
          /\ operation.answer.lease = table[s].lease

(***************************************************************************)
(* A lease nobody tends expires; one that is tended expires only when the  *)
(* requests for it take longer than the lease, which counts as a fault.    *)
(***************************************************************************)
LeaseExpires(s) ==
    /\ table[s] # None
    /\ IF IsTended(s) THEN Fault("expiry") ELSE UNCHANGED faults
    /\ table' = [table EXCEPT ![s] = None]
    /\ UNCHANGED <<store, observed_version, worker, failure, stopped,
                   next_lease, refuses, dead, late>>

(***************************************************************************)
(* The RouteTable restarts empty, possibly with another directory          *)
(* generation.  Its connections die; an idle client does not notice.       *)
(***************************************************************************)
Restart ==
    /\ Fault("restart")
    /\ table' = [s \in Sessions |-> None]
    /\ refuses' \in {refuses, TRUE}
    /\ dead' = 1 .. connection_epoch
    /\ late' = {}
    /\ UNCHANGED <<store, observed_version, worker, failure, stopped,
                   next_lease>>

-----------------------------------------------------------------------------
(***************************************************************************)
(* The worker's events.                                                    *)
(***************************************************************************)

WantsConnect == ~ stopped /\ ~ worker_terminal /\ connected = 0 /\ ~ reconnect_wait

(* on_connect_result *)
ConnectSucceeds ==
    /\ WantsConnect
    /\ connection_epoch' = connection_epoch + 1
    /\ Loop(registrations, operation, connection_epoch + 1, FALSE, counts)
    /\ UNCHANGED <<store, observed_version, reconnect_wait, failure, stopped,
                   routeTable, dead, late, faults>>

ConnectFails ==
    /\ WantsConnect
    /\ Fault("connect")
    /\ reconnect_wait' = TRUE
    /\ Loop(registrations, operation, 0, FALSE, counts)
    /\ UNCHANGED <<store, observed_version, connection_epoch, failure, stopped,
                   routeTable, dead, late>>

(* enter_terminal, with the operation and registrations the event left. *)
EnterTerminal(R, op) ==
    \E marked \in {MarkAllTerminal(R)} :
        /\ Loop(marked, op, 0, TRUE, CountsOf(marked))
        /\ UNCHANGED reconnect_wait

(* Mutant of LoseConnection: the counters are not updated. *)
LoseConnectionUncounted(R, op) ==
    /\ Loop(AllConnectionLost(R), op, 0, FALSE, counts)
    /\ reconnect_wait' = TRUE

(* ShardWorker::connection_lost: every lease must be validated again. *)
LoseConnection(R, op) ==
    \E lost \in {AllConnectionLost(R)} :
        /\ Loop(lost, op, 0, FALSE, CountsOf(lost))
        /\ reconnect_wait' = TRUE

(* A service that no longer takes this Gateway says so in the handshake. *)
ConnectRefused ==
    /\ WantsConnect
    /\ refuses
    /\ EnterTerminal(registrations, operation)
    /\ UNCHANGED <<store, observed_version, connection_epoch, failure, stopped,
                   routeTable, dead, late, faults>>

(***************************************************************************)
(* apply_operation_completion with an answer of the service.               *)
(***************************************************************************)
Applied(r, t, answer) ==
    IF t.action = "Deregister" THEN FinishDeregister(r, t)
    ELSE IF answer.kind = "FailedPrecondition" THEN PreconditionFailed(r, t)
    ELSE IF t.action = "Register" THEN RegisterSucceeded(r, t, answer)
    ELSE IF t.action = "Update" THEN UpdateSucceeded(r, t, answer)
    ELSE KeepAliveSucceeded(r, t, answer)

(***************************************************************************)
(* apply_operation_completion with an error: a failed Deregister is        *)
(* retried, unless the worker gives up on it because the lease must have   *)
(* expired or because the error is not one that passes.                    *)
(***************************************************************************)
Failed(r, t, gives_up) ==
    IF t.action = "Deregister" /\ gives_up THEN FinishDeregister(r, t)
    ELSE TransientFailure(r, t)

(* The registrations once a completion was applied to its own key. *)
Completed(s, r) ==
    IF registrations[s] = None THEN registrations
    ELSE [registrations EXCEPT ![s] = r]

(* Mutant of RefusesShard: any refused request will do. *)
RefusesRequest(t) == operation.answer = FailedPrecondition

(* Only a rejected Register proves that the shard is unusable. *)
RefusesShard(t) ==
    operation.answer = FailedPrecondition /\ t.action = "Register"

(***************************************************************************)
(* on_operation_completion with an answer.  The result of a connection     *)
(* that is no longer the current one counts as a transient failure; only a *)
(* refused Register makes the whole shard terminal.                        *)
(***************************************************************************)
OperationCompletes ==
    LET t == operation.ticket
        s == t.session
        of_this == operation.epoch = connected
    IN
    /\ ~ stopped
    /\ operation # None /\ operation.answer # None
    /\ \E R \in {Completed(s,
                     IF of_this THEN Applied(registrations[s], t, operation.answer)
                                ELSE TransientFailure(registrations[s], t))} :
          IF of_this /\ registrations[s] # None /\ RefusesShard(t)
          THEN EnterTerminal(R, None)
          ELSE /\ Loop(R, None, connected, worker_terminal, CountsOf(R))
               /\ UNCHANGED reconnect_wait
    /\ UNCHANGED <<store, observed_version, connection_epoch, failure, stopped,
                   routeTable, dead, late, faults>>

(***************************************************************************)
(* on_operation_completion with an error of the connection: the request    *)
(* timed out, or the connection broke before or after the service executed *)
(* it.  An unread request may stay behind.                                 *)
(***************************************************************************)
OperationFails ==
    LET t         == operation.ticket
        s         == t.session
        epoch     == operation.epoch
        inherited == epoch # connected \/ epoch \in dead
    IN
    /\ ~ stopped
    /\ operation # None
    /\ IF inherited THEN UNCHANGED faults ELSE Fault("request")
    /\ \/ late' = late
       \/ /\ operation.answer = None /\ epoch \notin dead
          /\ late' = late \cup {t}
    /\ \/ /\ epoch # connected
          /\ \E R \in {Completed(s, TransientFailure(registrations[s], t))} :
                Loop(R, None, connected, worker_terminal, CountsOf(R))
          /\ UNCHANGED reconnect_wait
       \/ /\ epoch = connected
          /\ \E gives_up \in BOOLEAN :
                LoseConnection(
                   Completed(s, Failed(registrations[s], t, gives_up)), None)
    /\ UNCHANGED <<store, observed_version, connection_epoch, failure, stopped,
                   routeTable, dead>>

(* The client's or the service's queue is full: RESOURCE_EXHAUSTED. *)
OperationThrottled ==
    LET t == operation.ticket
        s == t.session
    IN
    /\ ~ stopped
    /\ operation # None /\ operation.answer = None /\ operation.epoch = connected
    /\ Fault("throttle")
    /\ \E gives_up \in BOOLEAN :
          LET R == Completed(s, Failed(registrations[s], t, gives_up))
          IN  Loop(R, None, connected, worker_terminal, CountsOf(R))
    /\ UNCHANGED <<store, observed_version, connection_epoch, reconnect_wait,
                   failure, stopped, routeTable, dead, late>>

(***************************************************************************)
(* RoutingHandle::resolve fails on the client it took, perhaps long ago,   *)
(* and reports that client's epoch; the report replaces an unread one.     *)
(***************************************************************************)
ResolveFails(epoch) ==
    /\ epoch \in 1 .. connection_epoch
    /\ Fault("resolve")
    /\ failure' \in [epoch : {epoch}, terminal : {FALSE, refuses}]
    /\ dead' = dead \cup {epoch}
    /\ UNCHANGED <<store, observed_version, worker, stopped, routeTable, late>>

(* on_client_failure: a report about an older connection is ignored. *)
ClientFailureSeen ==
    /\ ~ stopped
    /\ failure # None
    /\ failure' = None
    /\ \/ /\ failure.epoch # connected
          /\ UNCHANGED worker
       \/ /\ failure.epoch = connected
          /\ IF failure.terminal THEN EnterTerminal(registrations, operation)
             ELSE LoseConnection(registrations, operation)
          /\ UNCHANGED connection_epoch
    /\ UNCHANGED <<store, observed_version, stopped, routeTable, dead, late,
                   faults>>

(***************************************************************************)
(* The timers: reconnect_at, retry_at and keep_alive_at are reached.       *)
(***************************************************************************)
ReconnectDue ==
    /\ ~ stopped
    /\ reconnect_wait
    /\ reconnect_wait' = FALSE
    /\ UNCHANGED <<store, observed_version, registrations, operation, counts,
                   connected, connection_epoch, worker_terminal, failure,
                   stopped, routeTable, dead, late, faults>>

(* Mutant of RetryDue: a Deregister is not retried. *)
RetryDueIfWanted(s) ==
    /\ ~ stopped
    /\ registrations[s] # None /\ registrations[s].waiting
    /\ registrations[s].snapshot # None
    /\ Loop([registrations EXCEPT ![s] = [@ EXCEPT !.waiting = FALSE]],
            operation, connected, worker_terminal, counts)
    /\ UNCHANGED <<store, observed_version, connection_epoch, reconnect_wait,
                   failure, stopped, routeTable, dead, late, faults>>

RetryDue(s) ==
    /\ ~ stopped
    /\ registrations[s] # None /\ registrations[s].waiting
    /\ Loop([registrations EXCEPT ![s] = [@ EXCEPT !.waiting = FALSE]],
            operation, connected, worker_terminal, counts)
    /\ UNCHANGED <<store, observed_version, connection_epoch, reconnect_wait,
                   failure, stopped, routeTable, dead, late, faults>>

KeepAliveDue(s) ==
    /\ ~ stopped
    /\ registrations[s] # None /\ IsSynced(registrations[s])
    /\ ~ registrations[s].renew
    /\ Loop([registrations EXCEPT ![s] = [@ EXCEPT !.renew = TRUE]],
            operation, connected, worker_terminal, counts)
    /\ UNCHANGED <<store, observed_version, connection_epoch, reconnect_wait,
                   failure, stopped, routeTable, dead, late, faults>>

(***************************************************************************)
(* Shutdown drops the request in flight and deregisters the leases in      *)
(* order until an error or the shutdown timeout stops it.                  *)
(***************************************************************************)
Shutdown ==
    LET leased == {s \in Present(registrations) :
                     registrations[s].lease # None}
        dropped == IF /\ operation # None /\ operation.answer = None
                      /\ operation.epoch \notin dead
                   THEN {operation.ticket} ELSE {}
    IN
    /\ ~ stopped
    /\ stopped' = TRUE
    /\ \E last \in {0} \cup leased :
          /\ last # 0 => connected # 0 /\ connected \notin dead /\ ~ refuses
          /\ table' = [s \in Sessions |->
                IF /\ s \in leased /\ s <= last
                   /\ Holds(s, registrations[s].lease.id)
                THEN None ELSE table[s]]
    /\ late' \in {late, late \cup dropped}
    /\ registrations' = [s \in Sessions |-> None]
    /\ operation' = None
    /\ connected' = 0
    /\ counts' = NoCounts
    /\ UNCHANGED <<store, observed_version, connection_epoch, reconnect_wait,
                   worker_terminal, failure, next_lease, refuses, dead,
                   faults>>

-----------------------------------------------------------------------------

GatewayNext ==
    \/ \E s \in Sessions, snapshot \in Snapshots \cup {None} :
          Commit(s, snapshot)
    \/ Shutdown
    \/ \E epoch \in 1 .. connection_epoch : ResolveFails(epoch)

WorkerNext ==
    \/ Reconcile
    \/ ConnectSucceeds \/ ConnectFails \/ ConnectRefused
    \/ OperationCompletes \/ OperationFails \/ OperationThrottled
    \/ ClientFailureSeen
    \/ ReconnectDue
    \/ \E s \in Sessions : RetryDue(s) \/ KeepAliveDue(s)

RouteTableNext ==
    \/ Serve
    \/ \E t \in late : ServeLate(t)
    \/ \E s \in Sessions : LeaseExpires(s)
    \/ Restart

Next == GatewayNext \/ WorkerNext \/ RouteTableNext

Spec == Init /\ [][Next]_vars

(***************************************************************************)
(* The worker's loop takes some ready branch, a connection attempt and a   *)
(* request in flight end (request_timeout), the keep-alive timer is        *)
(* reached, and the service executes or drops what was left behind and     *)
(* expires leases that nobody renews.  Faults are not fair.                *)
(***************************************************************************)
WorkerBranch ==
    \/ Reconcile \/ ClientFailureSeen \/ ReconnectDue \/ ConnectSucceeds
    \/ \E s \in Sessions : RetryDue(s)

RequestEnds ==
    \/ Serve \/ OperationCompletes
    \/ OperationFails /\ UNCHANGED faults

ServiceTidies ==
    \/ \E t \in late : ServeLate(t)
    \/ \E s \in Sessions : LeaseExpires(s) /\ UNCHANGED faults

Fairness ==
    /\ WF_vars(WorkerBranch)
    /\ WF_vars(RequestEnds)
    /\ WF_vars(ServiceTidies)
    /\ \A s \in Sessions : WF_vars(KeepAliveDue(s))

FairSpec == Spec /\ Fairness

-----------------------------------------------------------------------------
Tickets ==
    [action : {"Register", "Update", "KeepAlive", "Deregister"},
     session : Sessions, version : 1 .. MaxVersion, lease : Nat,
     revision : Nat, snapshot : Snapshots \cup {None}]

Answers ==
    {Done, FailedPrecondition}
    \cup [kind : {"Ack"}, lease : Nat \ {0}, revision : Nat]

Leases == [id : Nat \ {0}, revision : Nat]

RegistrationStates ==
    [version : 1 .. MaxVersion, snapshot : Snapshots \cup {None},
     lease : {None} \cup Leases,
     synced : 0 .. MaxVersion, pending : {None} \cup Tickets,
     terminal : BOOLEAN, probe : BOOLEAN, validate : BOOLEAN,
     waiting : BOOLEAN, renew : BOOLEAN]

Desired == [version : 1 .. MaxVersion, snapshot : Snapshots]

Requests == [epoch : Nat \ {0}, ticket : Tickets, answer : {None} \cup Answers]

Failures == [epoch : Nat \ {0}, terminal : BOOLEAN]

Entries ==
    [lease : Nat \ {0}, revision : Nat, snapshot : Snapshots \cup {None}]

ASSUME AbsenceAssumption ==
    /\ None \notin Tickets \cup Answers \cup Leases \cup RegistrationStates
    /\ None \notin Desired \cup Requests \cup Failures \cup Entries

(***************************************************************************)
(* Every variable has the shape its field or struct has in the code.       *)
(***************************************************************************)
TypeOK ==
    /\ store_version \in 0 .. MaxVersion
    /\ sessions \in [Sessions -> {None} \cup Desired]
    /\ removed \in [Sessions -> 0 .. MaxVersion]
    /\ withdrawn \subseteq Sessions
    /\ observed_version \in 0 .. MaxVersion
    /\ registrations \in [Sessions -> {None} \cup RegistrationStates]
    /\ connection_epoch \in Nat /\ connected \in 0 .. connection_epoch
    /\ reconnect_wait \in BOOLEAN /\ worker_terminal \in BOOLEAN
    /\ operation \in {None} \cup Requests
    /\ operation # None => operation.epoch <= connection_epoch
    /\ failure \in {None} \cup Failures
    /\ failure # None => failure.epoch <= connection_epoch
    /\ counts \in [synced : Nat, unsynced : Nat, terminal : Nat]
    /\ stopped \in BOOLEAN
    /\ table \in [Sessions -> {None} \cup Entries]
    /\ next_lease \in [Sessions -> Nat \ {0}]
    /\ refuses \in BOOLEAN
    /\ dead \subseteq 1 .. connection_epoch
    /\ late \subseteq Tickets
    /\ faults \in 0 .. MaxFaults

(***************************************************************************)
(* A registration the worker reports as synced is one the RouteTable holds *)
(* with exactly the wanted snapshot, unless it has lost that lease since:  *)
(* no acknowledgement that came late, for an older snapshot or from an     *)
(* older connection may make update_succeeded or publish claim more.       *)
(***************************************************************************)
SyncedIsHeld ==
    \A s \in Present(registrations) :
        LET r == registrations[s] IN
        IsSynced(r) /\ Holds(s, LeaseOf(r)) => table[s].snapshot = r.snapshot

(***************************************************************************)
(* A registration that waits for a request is the one whose request is in  *)
(* flight: begin_next never starts another one for it, so a ticket that    *)
(* no completion will ever clear would block the registration forever.     *)
(***************************************************************************)
PendingIsInFlight ==
    \A s \in Present(registrations) :
        registrations[s].pending # None =>
            /\ operation # None
            /\ operation.ticket = registrations[s].pending

(***************************************************************************)
(* Once the worker has read the store's last version, its registrations    *)
(* are the wanted ones: no removal that shard_view_after hands out once,   *)
(* and no re-publication of a removed session, is lost or applied twice.   *)
(***************************************************************************)
ReconciledIsDesired ==
    observed_version = store_version /\ ~ stopped =>
        \A s \in Sessions :
            IF sessions[s] = None
            THEN registrations[s] = None \/ registrations[s].snapshot = None
            ELSE /\ registrations[s] # None
                 /\ registrations[s].snapshot = sessions[s].snapshot
                 /\ registrations[s].version = sessions[s].version

(***************************************************************************)
(* The counters behind the health report are those of the registrations:   *)
(* no path through the worker changes a phase and forgets counts.update.   *)
(***************************************************************************)
CountsAreExact == counts = CountsOf(registrations)

(***************************************************************************)
(* The worker's books: tickets, registrations and counters follow the      *)
(* store and the request in flight, whatever was lost or came late.        *)
(***************************************************************************)
WorkerBooksAgree ==
    TypeOK /\ PendingIsInFlight /\ ReconciledIsDesired /\ CountsAreExact

(***************************************************************************)
(* The whole shard turns terminal only when the RouteTable refuses this    *)
(* Gateway: lost acknowledgements, replays and restarts never do it.       *)
(***************************************************************************)
ShardTerminalOnlyIfRefused == worker_terminal => refuses

(***************************************************************************)
(* One fault does not end the registration of a session that stays         *)
(* published: after a lost acknowledgement, a request left behind, an      *)
(* expired lease or a restart, one Register probe (precondition_failed)    *)
(* finds a lease that works before a second request is refused.            *)
(***************************************************************************)
OneFaultIsSurvived ==
    \A s \in Present(registrations) :
        registrations[s].terminal => refuses \/ faults > 1 \/ s \in withdrawn

(***************************************************************************)
(* Neither the shard nor one registration gives up over what passes.       *)
(***************************************************************************)
LossesAreSurvived == ShardTerminalOnlyIfRefused /\ OneFaultIsSurvived

(***************************************************************************)
(* docs/spec/007-error-and-state-model.md lets a registration enter        *)
(* TERMINAL from REGISTERING, LEASED, UNSYNCED or SYNCED on a permanent    *)
(* failure only; here that is a RouteTable that refuses the Gateway.       *)
(***************************************************************************)
TerminalOnPermanentFailureOnly ==
    \A s \in Present(registrations) : registrations[s].terminal => refuses

(***************************************************************************)
(* What the RouteTable should end up holding for a session.                *)
(***************************************************************************)
IsPublished(s) ==
    IF stopped \/ worker_terminal \/ sessions[s] = None
    THEN table[s] = None
    ELSE /\ registrations[s] # None
         /\ IF registrations[s].terminal THEN table[s] = None
            ELSE /\ table[s] # None
                 /\ table[s].snapshot = sessions[s].snapshot

(***************************************************************************)
(* Once commits and faults cease, the RouteTable ends up with exactly the  *)
(* wanted snapshots and keeps them, and holds nothing for a session that   *)
(* was removed, a terminal registration or a Gateway that has stopped.     *)
(***************************************************************************)
RouteTableConverges == <>[](\A s \in Sessions : IsPublished(s))
=============================================================================
