--------------------- MODULE RegistrationSurvivalProofs ---------------------
(***************************************************************************)
(* A session that stays published survives one fault, whatever the others  *)
(* do: the theorem behind LossesAreSurvived.                               *)
(***************************************************************************)
EXTENDS RegistrationProofs

(* The connection works, and nothing is left behind. *)
Calm(op, conn, left) ==
    /\ left = {} /\ conn # 0 /\ conn \notin dead
    /\ op # None => op.epoch = conn

(* The request in flight is this one, and the service has accepted it. *)
IsAcked(s, op, action) ==
    /\ op # None /\ op.ticket.session = s /\ op.ticket.action = action
    /\ op.answer # None /\ op.answer.kind = "Ack"

(***************************************************************************)
(* The RouteTable has the lease that the worker knows of, or is about to   *)
(* know of, at the revision the worker expects.                            *)
(***************************************************************************)
Intact(s, r, op, entry) ==
    /\ r # None /\ r.lease # None =>
          /\ HoldsLease(entry, r.lease.id)
          /\ entry.revision = IF IsAcked(s, op, "Update") THEN r.lease.revision + 1
                              ELSE r.lease.revision
    /\ IsAcked(s, op, "Register") =>
          HoldsLease(entry, op.answer.lease) /\ entry.revision = op.answer.revision

(* The request in flight is the one its registration waits for. *)
OwnsRequest(s, r, op) ==
    op # None /\ op.ticket.session = s =>
        /\ r # None /\ r.pending = op.ticket
        /\ op.ticket.action # "Deregister"
        /\ op.ticket.action = "Register" <=> r.lease = None

(***************************************************************************)
(* A session that stays published, after at most one fault.  It expects    *)
(* the revision that the RouteTable has, until the fault has shown; a      *)
(* refusal says that the fault has, and starts the probe that no second    *)
(* refusal can meet.                                                       *)
(***************************************************************************)
Survives(s, r, op, conn, left, n, entry) ==
    /\ r # None => r.snapshot # None /\ ~ r.terminal
    /\ OwnsRequest(s, r, op)
    /\ n = 0 \/ left # {} => Intact(s, r, op, entry)
    /\ r # None /\ r.probe =>
          n = 1 /\ Calm(op, conn, left) /\ Intact(s, r, op, entry)
    /\ op # None /\ op.ticket.session = s /\ op.answer = FailedPrecondition =>
          n = 1 /\ Calm(op, conn, left) /\ ~ r.probe

(* What one fault can have done to the connection and left behind. *)
LinkOK(op, conn, left, n) ==
    /\ op # None /\ op.epoch # conn => op.epoch \in dead
    /\ n = 0 => left = {}
    /\ n = 0 \/ left # {} => dead = {}
    /\ \A x, y \in left : x = y

AllSurvive(R, op, conn, left, n) ==
    /\ LinkOK(op, conn, left, n)
    /\ \A s \in Sessions \ withdrawn : Survives(s, R[s], op, conn, left, n, table[s])

Hopeful == ~ stopped /\ ~ refuses /\ faults <= 1

SInv ==
    Hopeful =>
        /\ \A s \in Sessions \ withdrawn : removed[s] = 0
        /\ failure # None => failure.epoch \in dead
        /\ AllSurvive(registrations, operation, connected, late, faults)

-----------------------------------------------------------------------------
(* Once the fault has happened and nothing waits to be executed late, only *)
(* a probe or a refusal says anything about the RouteTable.                *)
LEMMA SpentSurvives ==
    ASSUME NEW s, NEW r, NEW op, NEW conn, NEW n, NEW entry, n # 0,
           r # None => r.snapshot # None /\ ~ r.terminal /\ ~ r.probe,
           OwnsRequest(s, r, op),
           ~ (op # None /\ op.ticket.session = s /\ op.answer = FailedPrecondition)
    PROVE  Survives(s, r, op, conn, {}, n, entry)
BY DEF Survives

(* An event that touches neither the lease nor the request nor the probe. *)
Unmoved(r, q) ==
    /\ r # None /\ q # None
    /\ q.lease = r.lease /\ q.pending = r.pending /\ q.probe = r.probe
    /\ q.terminal = r.terminal /\ (q.snapshot # None \/ r.snapshot = None)

(* Such an event keeps the promise. *)
LEMMA UnmovedSurvives ==
    ASSUME NEW s, NEW r, NEW q, Unmoved(r, q), NEW op, NEW conn, NEW left, NEW n,
           NEW entry, Survives(s, r, op, conn, left, n, entry)
    PROVE  Survives(s, q, op, conn, left, n, entry)
<1>1. OwnsRequest(s, q, op)
  BY DEF Survives, OwnsRequest, Unmoved
<1>2. Intact(s, r, op, entry) => Intact(s, q, op, entry)
  BY DEF Intact, Unmoved
<1> QED BY <1>1, <1>2 DEF Survives, Unmoved

(* A session that stays published is not pruned. *)
LEMMA PrunedSurvives ==
    ASSUME NEW R, NEW s \in Sessions, R[s] # None => R[s].snapshot # None
    PROVE  Pruned(R)[s] = R[s]
BY DEF Pruned, IsRemovable

(* The loop starts a request of one of the registrations, if any. *)
LEMMA LoopSurvives ==
    ASSUME NEW R \in [Sessions -> {None} \cup RegistrationStates],
           NEW op, NEW left, NEW n, NEW epoch \in Nat, NEW end \in BOOLEAN,
           Loop(R, op, epoch, end, n), NEW f, AllSurvive(R, op, epoch, left, f)
    PROVE  AllSurvive(registrations', operation', epoch, left, f)
<1> DEFINE K == Pruned(R)
           passes == op = None /\ ~ end /\ epoch # 0
           ready == {s \in Present(K) : NextAction(K[s]) # None}
<1>1. ASSUME NEW s \in Sessions \ withdrawn
      PROVE  K[s] = R[s] /\ Survives(s, R[s], op, epoch, left, f, table[s])
  <2>1. Survives(s, R[s], op, epoch, left, f, table[s])
    BY DEF AllSurvive
  <2>2. R[s] # None => R[s].snapshot # None
    BY <2>1 DEF Survives
  <2> QED BY <2>1, <2>2, PrunedSurvives
<1>2. K \in [Sessions -> {None} \cup RegistrationStates]
  BY DEF Pruned
<1>3. CASE passes /\ ready # {}
  <2> DEFINE first == Min(ready)
             r == K[first]
             t == Ticket(first, r)
             q == [r EXCEPT !.pending = t]
             new == [epoch |-> epoch, ticket |-> t, answer |-> None]
  <2>1. ready \subseteq Sessions
    BY DEF Present
  <2>2. first \in ready
    BY <1>3, <2>1, MinIsMember, SessionAssumption
  <2>3. /\ registrations' = [K EXCEPT ![first] = [@ EXCEPT !.pending = t]]
        /\ operation' = new
    BY <1>3 DEF Loop
  <2>4. first \in Sessions /\ r # None /\ NextAction(r) # None /\ r \in RegistrationStates
    BY <1>2, <2>1, <2>2 DEF Present
  <2> HIDE DEF first, ready, K
  <2>5. /\ t \in Tickets /\ t.session = first /\ t.action = NextAction(r)
    BY <2>4, TicketIsOK DEF Ticket
  <2>6. /\ t.action = "Register" <=> r.lease = None
        /\ t.action # "Deregister"
        \/ r.snapshot = None
    BY <2>4, <2>5 DEF NextAction
  <2> HIDE DEF t
  <2>7. /\ q \in RegistrationStates /\ q # None /\ q.pending = t
        /\ q.lease = r.lease /\ q.probe = r.probe /\ q.terminal = r.terminal
        /\ q.snapshot = r.snapshot
    BY <2>4, <2>5, AbsenceAssumption DEF RegistrationStates
  <2>8. /\ registrations'[first] = q
        /\ \A s \in Sessions \ {first} : registrations'[s] = K[s]
    BY <1>2, <2>3, <2>4
  <2>9. /\ new # None /\ new.ticket = t /\ new.answer = None /\ new.epoch = epoch
        /\ new.answer # FailedPrecondition
    <3>1. new \in Requests
      BY <1>3, <2>5 DEF Requests
    <3> QED BY <3>1, AbsenceAssumption DEF Answers
  <2> HIDE DEF q, new
  <2>10. \A s, action : ~ IsAcked(s, new, action) /\ ~ IsAcked(s, None, action)
    BY <2>9 DEF IsAcked
  <2>11. Calm(None, epoch, left) => Calm(new, epoch, left)
    BY <2>9 DEF Calm
  <2>12. ASSUME NEW s \in Sessions \ withdrawn
         PROVE  Survives(s, registrations'[s], new, epoch, left, f, table[s])
    <3>1. Survives(s, K[s], None, epoch, left, f, table[s])
      BY <1>1, <1>3
    <3>2. CASE s = first
      <4>1. OwnsRequest(s, q, new)
        BY <2>4, <2>5, <2>6, <2>7, <2>9, <3>1, <3>2 DEF OwnsRequest, Survives
      <4>2. Intact(s, r, None, table[s]) => Intact(s, q, new, table[s])
        BY <2>4, <2>7, <2>10 DEF Intact
      <4> QED BY <2>4, <2>7, <2>8, <2>9, <2>11, <3>1, <3>2, <4>1, <4>2 DEF Survives
    <3>3. CASE s # first
      <4>1. OwnsRequest(s, K[s], new)
        BY <2>5, <2>9, <3>3 DEF OwnsRequest
      <4>2. Intact(s, K[s], None, table[s]) => Intact(s, K[s], new, table[s])
        BY <2>10 DEF Intact
      <4> QED BY <2>8, <2>9, <2>11, <3>1, <3>3, <4>1, <4>2 DEF Survives
    <3> QED BY <3>2, <3>3
  <2>13. LinkOK(new, epoch, left, f)
    BY <1>3, <2>9 DEF AllSurvive, LinkOK
  <2> QED BY <2>3, <2>12, <2>13 DEF AllSurvive
<1>4. CASE ~ (passes /\ ready # {})
  <2>1. registrations' = K /\ operation' = op
    BY <1>4 DEF Loop
  <2> QED BY <1>1, <2>1 DEF AllSurvive
<1> QED BY <1>3, <1>4

(* An event of the worker followed by its loop. *)
LEMMA SurvivalStep ==
    ASSUME SInv, WorkerFrame, faults \in Nat, faults <= faults',
           NEW R \in [Sessions -> {None} \cup RegistrationStates],
           NEW op, NEW n, NEW epoch \in Nat, NEW end \in BOOLEAN,
           Loop(R, op, epoch, end, n),
           removed' \in {removed, [s \in Sessions |-> 0]},
           Hopeful /\ Hopeful' => AllSurvive(R, op, epoch, late', faults')
    PROVE  SInv'
<1> SUFFICES ASSUME Hopeful' PROVE SInv'
  BY DEF SInv
<1>1. UNCHANGED <<withdrawn, stopped, table, next_lease, refuses, dead>>
  BY DEF WorkerFrame, routeTable
<1>2. Hopeful
  BY <1>1 DEF Hopeful, WorkerFrame
<1>3. AllSurvive(registrations', operation', epoch, late', faults')
  BY <1>2, LoopSurvives
<1>4. connected' = epoch
  BY DEF Loop
<1>5. AllSurvive(registrations, operation, connected, late, faults)'
  BY <1>1, <1>3, <1>4 DEF AllSurvive, LinkOK, Survives, Calm
<1>6. \A s \in Sessions \ withdrawn : removed'[s] = 0
  BY <1>2 DEF SInv
<1>7. failure' # None => failure'.epoch \in dead
  BY <1>2 DEF SInv, WorkerFrame
<1> QED BY <1>1, <1>5, <1>6, <1>7 DEF SInv

(* What holds before an event of a hopeful worker. *)
LEMMA HopefulHas ==
    ASSUME IInv, SInv, Hopeful
    PROVE  /\ faults \in {0, 1}
           /\ ~ worker_terminal
           /\ LinkOK(operation, connected, late, faults)
           /\ \A s \in Sessions \ withdrawn :
                 /\ registrations[s] \in {None} \cup RegistrationStates
                 /\ Survives(s, registrations[s], operation, connected, late, faults,
                             table[s])
<1>1. faults \in {0, 1}
  BY BoundAssumption DEF IInv, TypeOK, Hopeful
<1>2. ~ worker_terminal
  BY DEF IInv, RefusalOK, Hopeful
<1> QED BY <1>1, <1>2 DEF IInv, TypeOK, SInv, AllSurvive

(* A fault that one hopes to survive is the first. *)
LEMMA FirstFault ==
    ASSUME IInv, SInv, Hopeful, Hopeful', NEW kind, Fault(kind)
    PROVE  /\ faults = 0 /\ faults' = 1 /\ late = {} /\ dead = {} /\ failure = None
           /\ operation # None => operation.epoch = connected
           /\ \A s \in Sessions \ withdrawn :
                 LET r == registrations[s] IN
                 /\ r # None => r.snapshot # None /\ ~ r.terminal /\ ~ r.probe
                 /\ OwnsRequest(s, r, operation)
                 /\ Intact(s, r, operation, table[s])
                 /\ ~ (/\ operation # None /\ operation.ticket.session = s
                       /\ operation.answer = FailedPrecondition)
<1>1. /\ faults \in {0, 1}
      /\ LinkOK(operation, connected, late, faults)
      /\ \A s \in Sessions \ withdrawn :
            Survives(s, registrations[s], operation, connected, late, faults, table[s])
  BY HopefulHas
<1>2. faults = 0 /\ faults' = 1
  BY <1>1 DEF Fault, Hopeful
<1>3. late = {} /\ dead = {}
  BY <1>1, <1>2 DEF LinkOK
<1>4. failure = None
  BY <1>3 DEF SInv
<1>5. operation # None => operation.epoch = connected
  BY <1>1, <1>3 DEF LinkOK
<1> QED BY <1>1, <1>2, <1>3, <1>4, <1>5 DEF Survives

(* The connection is known to be broken: the fault has happened. *)
LEMMA BrokenLink ==
    ASSUME IInv, SInv, Hopeful, dead # {}
    PROVE  /\ faults = 1 /\ late = {}
           /\ ~ (connected # 0 /\ connected \notin dead
                 /\ (operation # None => operation.epoch = connected)) =>
              \A s \in Sessions \ withdrawn :
                 LET r == registrations[s] IN
                 /\ r # None => r.snapshot # None /\ ~ r.terminal /\ ~ r.probe
                 /\ OwnsRequest(s, r, operation)
                 /\ ~ (/\ operation # None /\ operation.ticket.session = s
                       /\ operation.answer = FailedPrecondition)
BY HopefulHas DEF LinkOK, Survives, Calm

(* The frame of an event that leaves the store alone, for both invariants. *)
LEMMA FaultIsOne ==
    ASSUME IInv, faults' = faults \/ \E kind : Fault(kind)
    PROVE  faults \in Nat /\ faults <= faults'
BY BoundAssumption DEF IInv, TypeOK, Fault

(* The worker reads the store. *)
LEMMA ReconcileSurvival == ASSUME IInv, SInv, Reconcile PROVE SInv'
<1> DEFINE R == [s \in Sessions |-> Reconciled(registrations[s], sessions[s], removed[s])]
<1>0. /\ ~ stopped
      /\ observed_version' = store_version
      /\ removed' = [s \in Sessions |-> 0]
      /\ Loop(R, operation, connected, worker_terminal, CountsOf(R))
      /\ UNCHANGED <<store_version, sessions, withdrawn, connection_epoch,
                     reconnect_wait, failure, stopped, routeTable, dead, late, faults>>
  BY DEF Reconcile
<1>1. R \in [Sessions -> {None} \cup RegistrationStates]
  BY <1>0, ReconciledIsOK
<1>2. WorkerFrame
  BY <1>0, BoundAssumption DEF WorkerFrame, IInv, TypeOK
<1>3. connected \in Nat /\ worker_terminal \in BOOLEAN /\ faults \in Nat /\ faults <= faults'
  BY <1>0, BoundAssumption, InvariantSettles DEF IInv, TypeOK
<1>4. ASSUME Hopeful PROVE AllSurvive(R, operation, connected, late, faults)
  <2>1. ASSUME NEW s \in Sessions \ withdrawn
        PROVE  Survives(s, R[s], operation, connected, late, faults, table[s])
    <3> DEFINE r == registrations[s]
               d == sessions[s]
               q == R[s]
    <3>1. /\ r \in {None} \cup RegistrationStates
          /\ Survives(s, r, operation, connected, late, faults, table[s])
      BY <1>4, HopefulHas
    <3>2. removed[s] = 0
      BY <1>4 DEF SInv
    <3>3. d \in {None} \cup Desired
      BY DEF IInv, TypeOK
    <3>4. q = Reconciled(r, d, 0)
      BY <3>2
    <3> HIDE DEF r, d, q, R
    <3>5. CASE q = r
      BY <3>1, <3>5 DEF q
    <3>6. CASE d # None /\ r = None /\ q = NewRegistration(d.version, d.snapshot)
      <4>1. d.snapshot # None /\ d.version \in 1 .. MaxVersion /\ d.snapshot \in Snapshots
        BY <3>3, <3>6, NoneAssumption DEF Desired
      <4>2. /\ q.snapshot # None /\ ~ q.terminal /\ ~ q.probe /\ q.lease = None
        BY <3>6, <4>1 DEF NewRegistration
      <4>3. ~ (operation # None /\ operation.ticket.session = s)
        BY <3>1, <3>6 DEF Survives, OwnsRequest
      <4>4. Survives(s, q, operation, connected, late, faults, table[s])
        BY <4>2, <4>3 DEF Survives, OwnsRequest, Intact, IsAcked
      <4> QED BY <4>4 DEF q
    <3>7. CASE d # None /\ r # None /\ q = Publish(r, d.version, d.snapshot)
      <4>1. d.snapshot # None /\ d.version \in 1 .. MaxVersion /\ d.snapshot \in Snapshots
        BY <3>3, <3>7, NoneAssumption DEF Desired
      <4>2. r \in RegistrationStates
        BY <3>1, <3>7
      <4>3. q \in RegistrationStates
        BY <3>7, <4>1, <4>2, PublishIsOK
      <4>4. Unmoved(r, q)
        BY <3>7, <4>1, <4>2, <4>3, AbsenceAssumption
           DEF Publish, Unmoved, RegistrationStates
      <4>5. Survives(s, q, operation, connected, late, faults, table[s])
        BY <3>1, <4>4, UnmovedSurvives
      <4> QED BY <4>5 DEF q
    <3> QED BY <3>4, <3>5, <3>6, <3>7 DEF Reconciled
  <2>2. LinkOK(operation, connected, late, faults)
    BY <1>4, HopefulHas
  <2> QED BY <2>1, <2>2 DEF AllSurvive
<1> HIDE DEF R
<1>5. Hopeful => AllSurvive(R, operation, connected, late', faults')
  BY <1>0, <1>4
<1> QED BY <1>0, <1>1, <1>2, <1>3, <1>5, SurvivalStep

(* A connection attempt ends. *)
LEMMA ConnectSurvival ==
    ASSUME IInv, SInv, ConnectSucceeds \/ ConnectFails \/ ConnectRefused
    PROVE  SInv'
<1> DEFINE R == registrations
<1>0. /\ R \in [Sessions -> {None} \cup RegistrationStates]
      /\ connected = 0 /\ connection_epoch \in Nat
      /\ operation # None => operation.epoch \in Nat \ {0}
      /\ dead \subseteq 1 .. connection_epoch
  BY DEF IInv, TypeOK, Requests, ConnectSucceeds, ConnectFails, ConnectRefused, WantsConnect
<1>1. CASE ConnectSucceeds
  <2>1. WorkerFrame /\ UNCHANGED removed /\ faults \in Nat /\ faults <= faults'
    BY <1>1, EventFrame, FaultIsOne DEF ConnectSucceeds
  <2>2. /\ Loop(R, operation, connection_epoch + 1, FALSE, counts)
        /\ UNCHANGED <<late, faults>>
    BY <1>1 DEF ConnectSucceeds
  <2>3. ASSUME Hopeful
        PROVE  AllSurvive(R, operation, connection_epoch + 1, late, faults)
    <3>1. /\ LinkOK(operation, 0, late, faults)
          /\ \A s \in Sessions \ withdrawn :
                Survives(s, R[s], operation, 0, late, faults, table[s])
      BY <1>0, <2>3, HopefulHas
    <3>2. LinkOK(operation, connection_epoch + 1, late, faults)
      BY <1>0, <3>1 DEF LinkOK
    <3>3. ~ Calm(operation, 0, late)
      BY DEF Calm
    <3> QED BY <3>1, <3>2, <3>3 DEF AllSurvive, Survives
  <2> HIDE DEF R
  <2>4. Hopeful => AllSurvive(R, operation, connection_epoch + 1, late', faults')
    BY <2>2, <2>3
  <2>5. connection_epoch + 1 \in Nat
    BY <1>0
  <2> QED BY <1>0, <2>1, <2>2, <2>4, <2>5, SurvivalStep
<1>2. CASE ConnectFails
  <2>1. WorkerFrame /\ UNCHANGED removed /\ faults \in Nat /\ faults <= faults'
    BY <1>2, EventFrame, FaultIsOne DEF ConnectFails
  <2>2. /\ Loop(R, operation, 0, FALSE, counts)
        /\ UNCHANGED late /\ Fault("connect")
    BY <1>2 DEF ConnectFails
  <2>3. ASSUME Hopeful, Hopeful'
        PROVE  AllSurvive(R, operation, 0, late', faults')
    <3>1. /\ faults' = 1 /\ late = {} /\ dead = {}
          /\ \A s \in Sessions \ withdrawn :
                /\ R[s] # None => R[s].snapshot # None /\ ~ R[s].terminal /\ ~ R[s].probe
                /\ OwnsRequest(s, R[s], operation)
                /\ ~ (/\ operation # None /\ operation.ticket.session = s
                      /\ operation.answer = FailedPrecondition)
      BY <2>2, <2>3, FirstFault
    <3>2. \A s \in Sessions \ withdrawn : Survives(s, R[s], operation, 0, {}, 1, table[s])
      BY <3>1, SpentSurvives
    <3>3. LinkOK(operation, 0, {}, 1)
      BY <1>0, <2>3, <3>1, HopefulHas DEF LinkOK
    <3> QED BY <2>2, <3>1, <3>2, <3>3 DEF AllSurvive
  <2> HIDE DEF R
  <2> QED BY <1>0, <2>1, <2>2, <2>3, SurvivalStep
<1>3. CASE ConnectRefused
  BY <1>3 DEF ConnectRefused, SInv, Hopeful, routeTable
<1> QED BY <1>1, <1>2, <1>3

(* A retry or a keep-alive is due. *)
LEMMA TimerSurvival ==
    ASSUME IInv, SInv, NEW s \in Sessions, RetryDue(s) \/ KeepAliveDue(s)
    PROVE  SInv'
<1> DEFINE r == registrations[s]
<1>0. /\ registrations \in [Sessions -> {None} \cup RegistrationStates]
      /\ connected \in Nat /\ worker_terminal \in BOOLEAN
  BY InvariantSettles DEF IInv, TypeOK
<1>1. r \in RegistrationStates /\ r # None
  BY <1>0 DEF RetryDue, KeepAliveDue
<1>2. PICK q \in {[r EXCEPT !.waiting = FALSE], [r EXCEPT !.renew = TRUE]} :
          /\ Loop([registrations EXCEPT ![s] = q], operation, connected,
                  worker_terminal, counts)
          /\ UNCHANGED <<store, observed_version, connection_epoch, reconnect_wait,
                         failure, stopped, routeTable, dead, late, faults>>
  BY DEF RetryDue, KeepAliveDue
<1>3. q \in RegistrationStates /\ Unmoved(r, q)
  <2>1. q \in RegistrationStates
    BY <1>1, EventsWeaken
  <2>2. /\ q.snapshot = r.snapshot /\ q.terminal = r.terminal /\ q.lease = r.lease
        /\ q.pending = r.pending /\ q.probe = r.probe
    BY <1>1 DEF RegistrationStates
  <2> QED BY <1>1, <2>1, <2>2, AbsenceAssumption DEF Unmoved
<1> DEFINE Q == [registrations EXCEPT ![s] = q]
<1>4. /\ Q \in [Sessions -> {None} \cup RegistrationStates]
      /\ Q[s] = q /\ \A u \in Sessions \ {s} : Q[u] = registrations[u]
  BY <1>0, <1>3
<1> HIDE DEF Q
<1>5. ASSUME Hopeful PROVE AllSurvive(Q, operation, connected, late, faults)
  <2>1. ASSUME NEW u \in Sessions \ withdrawn
        PROVE  Survives(u, Q[u], operation, connected, late, faults, table[u])
    <3>1. Survives(u, registrations[u], operation, connected, late, faults, table[u])
      BY <1>5, HopefulHas
    <3>2. CASE u = s
      BY <1>3, <1>4, <3>1, <3>2, UnmovedSurvives
    <3>3. CASE u # s
      BY <1>4, <3>1, <3>3
    <3> QED BY <3>2, <3>3
  <2>2. LinkOK(operation, connected, late, faults)
    BY <1>5, HopefulHas
  <2> QED BY <2>1, <2>2 DEF AllSurvive
<1>6. WorkerFrame /\ UNCHANGED removed /\ faults \in Nat /\ faults <= faults'
  BY <1>2, EventFrame, FaultIsOne
<1>7. /\ Hopeful => AllSurvive(Q, operation, connected, late', faults')
      /\ Loop(Q, operation, connected, worker_terminal, counts)
  BY <1>2, <1>5 DEF Q
<1> QED BY <1>0, <1>4, <1>6, <1>7, SurvivalStep

(* A lost connection leaves registrations. *)
LEMMA LostIsTyped ==
    ASSUME NEW R \in [Sessions -> {None} \cup RegistrationStates]
    PROVE  AllConnectionLost(R) \in [Sessions -> {None} \cup RegistrationStates]
BY EventsWeaken DEF AllConnectionLost

(* Losing the connection leaves leases, requests and probes alone. *)
LEMMA LossSurvives ==
    ASSUME NEW R \in [Sessions -> {None} \cup RegistrationStates],
           NEW op, NEW conn, NEW left, NEW f, AllSurvive(R, op, conn, left, f)
    PROVE  AllSurvive(AllConnectionLost(R), op, conn, left, f)
<1> DEFINE Q == AllConnectionLost(R)
<1>1. ASSUME NEW s \in Sessions
      PROVE  Q[s] = R[s] \/ Unmoved(R[s], Q[s])
  <2>1. CASE R[s] = None
    BY <2>1 DEF AllConnectionLost
  <2>2. CASE R[s] # None
    <3>1. Q[s] = ConnectionLost(R[s]) /\ R[s] \in RegistrationStates
      BY <2>2 DEF AllConnectionLost
    <3>2. Q[s] \in RegistrationStates
      BY <3>1, EventsWeaken
    <3>3. Unmoved(R[s], Q[s])
      BY <2>2, <3>1, <3>2, AbsenceAssumption DEF ConnectionLost, Unmoved, RegistrationStates
    <3> QED BY <3>3
  <2> QED BY <2>1, <2>2
<1> HIDE DEF Q
<1>2. ASSUME NEW s \in Sessions \ withdrawn
      PROVE  Survives(s, Q[s], op, conn, left, f, table[s])
  <2>1. Survives(s, R[s], op, conn, left, f, table[s])
    BY DEF AllSurvive
  <2> QED BY <1>1, <2>1, UnmovedSurvives
<1> QED BY <1>2 DEF AllSurvive, Q

(* What a request that failed does to its registration. *)
LEMMA FailureFields ==
    ASSUME NEW r \in RegistrationStates, NEW t,
           NEW q \in {TransientFailure(r, t), Failed(r, t, TRUE), Failed(r, t, FALSE)}
    PROVE  /\ q \in RegistrationStates /\ q # None
           /\ q.snapshot = r.snapshot /\ q.terminal = r.terminal /\ q.probe = r.probe
           /\ t.action # "Deregister" => q.lease = r.lease
<1>1. q \in {TransientFailure(r, t), FinishDeregister(r, t)}
      /\ (t.action # "Deregister" => q = TransientFailure(r, t))
  BY DEF Failed
<1>2. q \in RegistrationStates /\ q # None
  BY <1>1, FailuresEnd, AbsenceAssumption
<1>3. /\ q.snapshot = r.snapshot /\ q.terminal = r.terminal /\ q.probe = r.probe
      /\ t.action # "Deregister" => q.lease = r.lease
  BY <1>1 DEF TransientFailure, FinishDeregister, Taken, RegistrationStates
<1> QED BY <1>2, <1>3

(* The request in flight failed, and nothing but it is left behind. *)
LEMMA FailedSurvives ==
    ASSUME IInv, SInv, Hopeful, operation # None, NEW q,
           LET t == operation.ticket
               r == registrations[t.session]
           IN  q \in {TransientFailure(r, t), Failed(r, t, TRUE), Failed(r, t, FALSE)},
           NEW conn, NEW left \in {{}, {operation.ticket}},
           \A u \in Sessions \ withdrawn :
               registrations[u] # None => ~ registrations[u].probe,
           left # {} => /\ dead = {} /\ operation.answer = None
                        /\ \A u \in Sessions \ withdrawn :
                              Intact(u, registrations[u], operation, table[u])
    PROVE  LET Q == Completed(operation.ticket.session, q)
           IN  /\ Q \in [Sessions -> {None} \cup RegistrationStates]
               /\ AllSurvive(Q, None, conn, left, 1)
<1> DEFINE t == operation.ticket
           s == t.session
           R == registrations
           r == R[s]
           Q == Completed(s, q)
<1>0. R \in [Sessions -> {None} \cup RegistrationStates] /\ s \in Sessions
  BY DEF IInv, TypeOK, Requests, Tickets
<1>1. r # None => /\ q \in RegistrationStates /\ q # None
                  /\ q.snapshot = r.snapshot /\ q.terminal = r.terminal
                  /\ q.probe = r.probe
                  /\ t.action # "Deregister" => q.lease = r.lease
  <2>1. /\ q \in {TransientFailure(r, t), Failed(r, t, TRUE), Failed(r, t, FALSE)}
        /\ r # None => r \in RegistrationStates
    BY <1>0
  <2> HIDE DEF r, t
  <2> QED BY <2>1, FailureFields
<1>2. /\ \A u \in Sessions \ {s} : Q[u] = R[u]
      /\ IF r = None THEN Q[s] = None ELSE Q[s] = q
      /\ Q \in [Sessions -> {None} \cup RegistrationStates]
  BY <1>0, <1>1 DEF Completed
<1> HIDE DEF Q
<1>3. ASSUME NEW u \in Sessions \ withdrawn
      PROVE  Survives(u, Q[u], None, conn, left, 1, table[u])
  <2>1. /\ R[u] # None => R[u].snapshot # None /\ ~ R[u].terminal /\ ~ R[u].probe
        /\ OwnsRequest(u, R[u], operation)
    BY HopefulHas DEF Survives
  <2>2. /\ Q[u] # None => Q[u].snapshot # None /\ ~ Q[u].terminal /\ ~ Q[u].probe
        /\ Q[u] # None => R[u] # None /\ Q[u].lease = R[u].lease
    <3>1. CASE u = s
      BY <1>1, <1>2, <2>1, <3>1 DEF OwnsRequest
    <3>2. CASE u # s
      BY <1>2, <2>1, <3>2
    <3> QED BY <3>1, <3>2
  <2>3. OwnsRequest(u, Q[u], None)
    BY DEF OwnsRequest
  <2>4. CASE left = {}
    BY <2>2, <2>3, <2>4, SpentSurvives
  <2>5. CASE left # {}
    <3>1. Intact(u, R[u], operation, table[u]) /\ operation.answer = None
      BY <2>5
    <3>2. Intact(u, Q[u], None, table[u])
      BY <2>2, <3>1 DEF Intact, IsAcked
    <3> QED BY <2>2, <2>3, <3>2 DEF Survives
  <2> QED BY <2>4, <2>5
<1>4. LinkOK(None, conn, left, 1)
  BY DEF LinkOK
<1> QED BY <1>2, <1>3, <1>4 DEF AllSurvive, Q

(* The request in flight finds a full queue. *)
LEMMA ThrottledSurvival == ASSUME IInv, SInv, OperationThrottled PROVE SInv'
<1> DEFINE t == operation.ticket
           s == t.session
           r == registrations[s]
<1>1. /\ operation # None
      /\ UNCHANGED <<store, observed_version, connection_epoch, reconnect_wait,
                     failure, stopped, routeTable, dead, late>>
      /\ Fault("throttle")
  BY DEF OperationThrottled
<1>2. PICK gives_up \in BOOLEAN :
          LET R == Completed(s, Failed(r, t, gives_up))
          IN  Loop(R, None, connected, worker_terminal, CountsOf(R))
  BY DEF OperationThrottled
<1> DEFINE q == Failed(r, t, gives_up)
           Q == Completed(s, q)
<1>3. WorkerFrame /\ UNCHANGED removed /\ faults \in Nat /\ faults <= faults'
  BY <1>1, EventFrame, FaultIsOne
<1>4. Q \in [Sessions -> {None} \cup RegistrationStates]
  BY <1>1, EndedKeeps DEF Settled
<1>5. ASSUME Hopeful, Hopeful'
      PROVE  AllSurvive(Q, None, connected, late', faults')
  <2>1. /\ faults' = 1 /\ late' = {}
        /\ \A u \in Sessions \ withdrawn :
              registrations[u] # None => ~ registrations[u].probe
    BY <1>1, <1>5, FirstFault
  <2>2. q \in {TransientFailure(r, t), Failed(r, t, TRUE), Failed(r, t, FALSE)}
    OBVIOUS
  <2> HIDE DEF q
  <2>3. AllSurvive(Q, None, connected, {}, 1)
    BY <1>1, <1>5, <2>1, <2>2, FailedSurvives
  <2> QED BY <2>1, <2>3
<1>6. /\ connected \in Nat /\ worker_terminal \in BOOLEAN
      /\ Loop(Q, None, connected, worker_terminal, CountsOf(Q))
  BY <1>2, InvariantSettles DEF IInv, TypeOK
<1> HIDE DEF Q
<1> QED BY <1>3, <1>4, <1>5, <1>6, SurvivalStep

(* The request in flight fails and may stay behind. *)
LEMMA OperationFailsSurvival == ASSUME IInv, SInv, OperationFails PROVE SInv'
<1> DEFINE t == operation.ticket
           s == t.session
           r == registrations[s]
           epoch == operation.epoch
<1>1. /\ operation # None
      /\ UNCHANGED <<store, observed_version, connection_epoch, failure, stopped,
                     routeTable, dead>>
      /\ IF epoch # connected \/ epoch \in dead THEN UNCHANGED faults
         ELSE Fault("request")
      /\ \/ late' = late
         \/ operation.answer = None /\ epoch \notin dead /\ late' = late \cup {t}
  BY DEF OperationFails
<1>2. ASSUME Hopeful, Hopeful'
      PROVE  /\ faults' = 1 /\ late' \in {{}, {t}}
             /\ \A u \in Sessions \ withdrawn :
                   registrations[u] # None => ~ registrations[u].probe
             /\ late' # {} => /\ dead = {} /\ operation.answer = None
                              /\ \A u \in Sessions \ withdrawn :
                                    Intact(u, registrations[u], operation, table[u])
  <2>1. CASE epoch # connected \/ epoch \in dead
    <3>1. epoch \in dead
      BY <1>1, <1>2, <2>1, HopefulHas DEF LinkOK
    <3>2. /\ faults = 1 /\ late = {}
          /\ \A u \in Sessions \ withdrawn :
                registrations[u] # None => ~ registrations[u].probe
      BY <1>1, <1>2, <2>1, <3>1, BrokenLink
    <3> QED BY <1>1, <2>1, <3>1, <3>2
  <2>2. CASE ~ (epoch # connected \/ epoch \in dead)
    BY <1>1, <1>2, <2>2, FirstFault
  <2> QED BY <2>1, <2>2
<1>3. ASSUME NEW q \in {TransientFailure(r, t), Failed(r, t, TRUE), Failed(r, t, FALSE)},
             NEW conn, Hopeful, Hopeful'
      PROVE  AllSurvive(Completed(s, q), None, conn, late', faults')
  <2>1. AllSurvive(Completed(s, q), None, conn, late', 1)
    BY <1>1, <1>2, <1>3, FailedSurvives
  <2> QED BY <1>2, <1>3, <2>1
<1>4. ASSUME NEW q \in {TransientFailure(r, t), Failed(r, t, TRUE), Failed(r, t, FALSE)}
      PROVE  Completed(s, q) \in [Sessions -> {None} \cup RegistrationStates]
  <2>1. q = TransientFailure(r, t) \/ \E gives_up \in BOOLEAN : q = Failed(r, t, gives_up)
    OBVIOUS
  <2> QED BY <1>1, <2>1, EndedKeeps DEF Settled
<1>5. CASE /\ \E R \in {Completed(s, TransientFailure(r, t))} :
                 Loop(R, None, connected, worker_terminal, CountsOf(R))
           /\ UNCHANGED reconnect_wait
  <2> DEFINE Q == Completed(s, TransientFailure(r, t))
  <2>1. WorkerFrame /\ UNCHANGED removed /\ faults \in Nat /\ faults <= faults'
    BY <1>1, <1>5, EventFrame, FaultIsOne
  <2>2. Q \in [Sessions -> {None} \cup RegistrationStates]
    BY <1>4
  <2>3. Hopeful /\ Hopeful' => AllSurvive(Q, None, connected, late', faults')
    BY <1>3
  <2>4. /\ connected \in Nat /\ worker_terminal \in BOOLEAN
        /\ Loop(Q, None, connected, worker_terminal, CountsOf(Q))
    BY <1>5, InvariantSettles DEF IInv, TypeOK
  <2> HIDE DEF Q
  <2> QED BY <2>1, <2>2, <2>3, <2>4, SurvivalStep
<1>6. ASSUME NEW gives_up \in BOOLEAN,
             LoseConnection(Completed(s, Failed(r, t, gives_up)), None)
      PROVE  SInv'
  <2> DEFINE Q == Completed(s, Failed(r, t, gives_up))
  <2>1. WorkerFrame /\ UNCHANGED removed /\ faults \in Nat /\ faults <= faults'
    BY <1>1, <1>6, EventFrame, FaultIsOne DEF LoseConnection
  <2>2. Failed(r, t, gives_up) \in {TransientFailure(r, t), Failed(r, t, TRUE), Failed(r, t, FALSE)}
    OBVIOUS
  <2>3. Q \in [Sessions -> {None} \cup RegistrationStates]
    BY <1>4, <2>2
  <2>4. Hopeful /\ Hopeful' => AllSurvive(Q, None, 0, late', faults')
    BY <1>3, <2>2
  <2> HIDE DEF Q
  <2> DEFINE lost == AllConnectionLost(Q)
  <2>5. Loop(lost, None, 0, FALSE, CountsOf(lost))
    BY <1>6 DEF LoseConnection, Q
  <2>6. /\ Hopeful /\ Hopeful' => AllSurvive(lost, None, 0, late', faults')
    BY <2>3, <2>4, LossSurvives
  <2>7. lost \in [Sessions -> {None} \cup RegistrationStates]
    BY <2>3, LostIsTyped
  <2> HIDE DEF lost
  <2> QED BY <2>1, <2>5, <2>6, <2>7, SurvivalStep
<1> QED BY <1>5, <1>6 DEF OperationFails

(* The worker reads what a failed Resolve reported. *)
LEMMA ClientFailureSurvival == ASSUME IInv, SInv, ClientFailureSeen PROVE SInv'
<1> DEFINE R == registrations
<1>0. R \in [Sessions -> {None} \cup RegistrationStates]
  BY DEF IInv, TypeOK
<1>1. /\ failure # None /\ failure' = None
      /\ UNCHANGED <<store, observed_version, stopped, routeTable, dead, late, faults>>
  BY DEF ClientFailureSeen
<1>2. CASE UNCHANGED worker
  <2>1. UNCHANGED <<registrations, operation, connected, removed, withdrawn, table,
                    refuses, stopped>>
    BY <1>1, <1>2 DEF worker, client, store, routeTable
  <2> QED BY <1>1, <2>1 DEF SInv, Hopeful, AllSurvive, LinkOK, Survives, Calm
<1>3. CASE failure.epoch = connected /\ LoseConnection(R, operation)
           /\ UNCHANGED connection_epoch
  <2> DEFINE lost == AllConnectionLost(R)
  <2>1. WorkerFrame /\ UNCHANGED removed /\ faults \in Nat /\ faults <= faults'
    BY <1>1, <1>3, EventFrame, FaultIsOne DEF LoseConnection
  <2>2. Loop(lost, operation, 0, FALSE, CountsOf(lost))
    BY <1>3 DEF LoseConnection
  <2>3. ASSUME Hopeful
        PROVE  AllSurvive(R, operation, 0, late, faults)
    <3>1. connected \in dead
      BY <1>1, <1>3, <2>3 DEF SInv
    <3>2. /\ faults = 1 /\ late = {}
          /\ \A u \in Sessions \ withdrawn :
                /\ R[u] # None => R[u].snapshot # None /\ ~ R[u].terminal /\ ~ R[u].probe
                /\ OwnsRequest(u, R[u], operation)
                /\ ~ (/\ operation # None /\ operation.ticket.session = u
                      /\ operation.answer = FailedPrecondition)
      BY <2>3, <3>1, BrokenLink
    <3>3. \A u \in Sessions \ withdrawn : Survives(u, R[u], operation, 0, {}, 1, table[u])
      BY <3>2, SpentSurvives
    <3>4. LinkOK(operation, 0, {}, 1)
      BY <2>3, <3>1, HopefulHas DEF LinkOK
    <3> QED BY <3>2, <3>3, <3>4 DEF AllSurvive
  <2> HIDE DEF R, lost
  <2>4. Hopeful => AllSurvive(lost, operation, 0, late', faults')
    BY <1>0, <1>1, <2>3, LossSurvives DEF lost
  <2>5. lost \in [Sessions -> {None} \cup RegistrationStates]
    BY <1>0, LostIsTyped DEF lost
  <2> QED BY <2>1, <2>2, <2>4, <2>5, SurvivalStep
<1>4. CASE failure.terminal
  <2>1. refuses /\ refuses' = refuses
    BY <1>1, <1>4 DEF IInv, RefusalOK, routeTable
  <2> QED BY <2>1 DEF SInv, Hopeful
<1> QED BY <1>2, <1>3, <1>4 DEF ClientFailureSeen

(***************************************************************************)
(* The answer to the request in flight reaches its registration: an        *)
(* acknowledgement leaves it at the revision of the RouteTable, the first  *)
(* refusal starts the probe.                                               *)
(***************************************************************************)
LEMMA AppliedSurvives ==
    ASSUME IInv, SInv, Hopeful, operation # None, operation.answer # None,
           operation.epoch = connected,
           operation.ticket.session \in Sessions \ withdrawn
    PROVE  LET t == operation.ticket
               s == t.session
           IN  Survives(s, Applied(registrations[s], t, operation.answer), None,
                        connected, late, faults, table[s])
<1> DEFINE t == operation.ticket
           s == t.session
           r == registrations[s]
           a == operation.answer
           q == Applied(r, t, a)
<1>1. /\ t \in Tickets /\ a \in Answers
      /\ AnswerOK(t, a, late, table[s], next_lease[s])
      /\ TicketOK(s, r, operation)
  BY DEF IInv, TypeOK, Requests, OperationOK, TicketsOK
<1>2. Survives(s, r, operation, connected, late, faults, table[s])
      /\ r \in {None} \cup RegistrationStates
  BY HopefulHas
<1>3. /\ r # None /\ r.pending = t /\ t.action # "Deregister"
      /\ t.action = "Register" <=> r.lease = None
      /\ r.snapshot # None /\ ~ r.terminal
  BY <1>2 DEF Survives, OwnsRequest
<1>4. r \in RegistrationStates /\ t # None /\ LeaseOf(r) = t.lease
  BY <1>1, <1>2, <1>3, AbsenceAssumption DEF TicketOK
<1> DEFINE w == [r EXCEPT !.pending = None]
<1>5. /\ Taken(r, t) = w /\ IsPending(r, t) /\ w \in RegistrationStates
      /\ w.snapshot = r.snapshot /\ w.terminal = r.terminal /\ w.probe = r.probe
      /\ w.lease = r.lease
  BY <1>3, <1>4 DEF Taken, IsPending, RegistrationStates
<1>6. q \in RegistrationStates /\ q # None
  <2>1. InStep(s, r, t, a, late)
    BY <1>3, InvariantSettles, InStepHolds
  <2>2. s \in Sessions
    OBVIOUS
  <2> HIDE DEF r, t, a, s, q
  <2>3. Completes(s, r, t, Applied(r, t, a), late)
    BY <2>1, <2>2, EveryEndCompletes DEF a
  <2> QED BY <2>3, AbsenceAssumption DEF Completes, q
<1>7. /\ Calm(operation, connected, late) => Calm(None, connected, late)
      /\ OwnsRequest(s, q, None)
      /\ \A action : ~ IsAcked(s, None, action)
  BY DEF Calm, OwnsRequest, IsAcked
(* It is enough to say what becomes of the lease and the probe. *)
<1>8. ASSUME q.snapshot # None, ~ q.terminal,
             Intact(s, r, operation, table[s]) => Intact(s, q, None, table[s]),
             q.probe => r.probe
      PROVE  Survives(s, q, None, connected, late, faults, table[s])
  BY <1>2, <1>3, <1>6, <1>7, <1>8 DEF Survives
<1> HIDE DEF w
<1>9. CASE a.kind = "FailedPrecondition"
  <2>1. a = FailedPrecondition
    BY <1>1, <1>9 DEF Answers, Done
  <2>2. t.action # "Register"
    BY <1>1, <2>1 DEF AnswerOK, Hopeful
  <2>3. faults = 1 /\ Calm(operation, connected, late) /\ ~ r.probe
    BY <1>2, <2>1 DEF Survives
  <2>4. q = PreconditionFailed(r, t)
    BY <1>3, <1>9 DEF Applied
  <2>5. CASE IsCurrent(r, t)
    <3>1. q = [w EXCEPT !.lease = None, !.synced = 0, !.probe = TRUE,
                        !.validate = FALSE, !.waiting = FALSE, !.renew = FALSE]
      BY <1>5, <2>2, <2>3, <2>4, <2>5 DEF PreconditionFailed
    <3>2. q.snapshot = r.snapshot /\ q.terminal = r.terminal /\ q.lease = None
      BY <1>5, <3>1 DEF RegistrationStates
    <3>3. Intact(s, q, None, table[s])
      BY <1>7, <3>2 DEF Intact
    <3> QED BY <1>3, <1>7, <2>3, <3>2, <3>3 DEF Survives
  <2>6. CASE ~ IsCurrent(r, t)
    <3>1. q = w
      BY <1>5, <2>2, <2>4, <2>6 DEF PreconditionFailed
    <3>2. Intact(s, r, operation, table[s]) => Intact(s, q, None, table[s])
      BY <1>3, <1>5, <1>7, <1>9, <3>1 DEF Intact, IsAcked
    <3> QED BY <1>3, <1>5, <1>8, <3>1, <3>2
  <2> QED BY <2>5, <2>6
<1>10. CASE a.kind # "FailedPrecondition"
  <2>1. a.kind = "Ack" /\ a.lease \in Nat \ {0} /\ a.revision \in Nat
    BY <1>1, <1>3, <1>10 DEF AnswerOK, Answers, Done, FailedPrecondition
  <2>2. CASE t.action = "Register"
    <3>1. q = RegisterSucceeded(r, t, a) /\ IsAcked(s, operation, "Register")
      BY <1>3, <1>10, <2>1, <2>2 DEF Applied, IsAcked
    <3>2. CASE IsCurrent(r, t)
      <4> DEFINE l == [id |-> a.lease, revision |-> a.revision]
      <4>1. q = [w EXCEPT !.lease = l, !.synced = 0, !.validate = FALSE,
                          !.waiting = FALSE, !.renew = FALSE]
        BY <1>5, <3>1, <3>2 DEF RegisterSucceeded
      <4>2. l.id = a.lease /\ l.revision = a.revision
        OBVIOUS
      <4> HIDE DEF l
      <4>3. /\ q.snapshot = r.snapshot /\ q.terminal = r.terminal /\ q.lease = l
            /\ q.probe = r.probe
        BY <1>5, <4>1 DEF RegistrationStates
      <4>4. Intact(s, r, operation, table[s]) => Intact(s, q, None, table[s])
        BY <1>7, <3>1, <4>2, <4>3 DEF Intact
      <4> QED BY <1>3, <1>8, <4>3, <4>4
    <3>3. CASE ~ IsCurrent(r, t)
      <4>1. q = w
        BY <1>5, <3>1, <3>3 DEF RegisterSucceeded
      <4>2. Intact(s, q, None, table[s])
        BY <1>3, <1>5, <1>7, <2>2, <4>1 DEF Intact
      <4> QED BY <1>3, <1>5, <1>8, <4>1, <4>2
    <3> QED BY <3>2, <3>3
  <2>3. CASE t.action = "Update"
    <3>1. q = UpdateSucceeded(r, t, a) /\ IsAcked(s, operation, "Update")
      BY <1>3, <1>10, <2>1, <2>3 DEF Applied, IsAcked
    <3>2. a.lease = t.lease /\ r.lease # None
      BY <1>1, <1>3, <2>1, <2>3 DEF AnswerOK
    <3> DEFINE l == [id |-> t.lease, revision |-> t.revision]
               n == IF r.version = t.version THEN t.version ELSE w.synced
    <3>3. q = [w EXCEPT !.lease = l, !.synced = n, !.probe = FALSE,
                        !.validate = FALSE, !.waiting = FALSE, !.renew = FALSE]
      BY <1>5, <3>1, <3>2 DEF UpdateSucceeded, RegistrationStates
    <3>4. l.id = t.lease /\ l.revision = t.revision
      OBVIOUS
    <3> HIDE DEF l, n
    <3>5. /\ q.snapshot = r.snapshot /\ q.terminal = r.terminal /\ q.lease = l
          /\ q.probe = FALSE
      BY <1>5, <3>3 DEF RegistrationStates
    <3>6. r.lease.id = t.lease /\ t.revision = r.lease.revision + 1
      BY <1>1, <1>3, <1>4, <2>3, <3>2 DEF TicketOK, LeaseOf
    <3>7. Intact(s, r, operation, table[s]) => Intact(s, q, None, table[s])
      BY <1>3, <1>7, <3>1, <3>2, <3>4, <3>5, <3>6 DEF Intact
    <3> QED BY <1>3, <1>8, <3>5, <3>7
  <2>4. CASE t.action = "KeepAlive"
    <3>1. q = KeepAliveSucceeded(r, t, a)
      BY <1>10, <2>4 DEF Applied
    <3>2. q = w \/ q = [w EXCEPT !.probe = FALSE, !.validate = FALSE,
                                 !.waiting = FALSE, !.renew = FALSE]
      BY <1>5, <3>1 DEF KeepAliveSucceeded
    <3>3. /\ q.snapshot = r.snapshot /\ q.terminal = r.terminal /\ q.lease = r.lease
          /\ q.probe => r.probe
      BY <1>5, <3>2 DEF RegistrationStates
    <3>4. Intact(s, r, operation, table[s]) => Intact(s, q, None, table[s])
      BY <1>3, <1>7, <2>4, <3>3 DEF Intact, IsAcked
    <3> QED BY <1>3, <1>8, <3>3, <3>4
  <2> QED BY <1>1, <1>3, <2>2, <2>3, <2>4 DEF Tickets
<1> QED BY <1>9, <1>10

(* The worker takes the answer to its request. *)
LEMMA OperationCompletesSurvival == ASSUME IInv, SInv, OperationCompletes PROVE SInv'
<1> DEFINE t == operation.ticket
           s == t.session
           R == registrations
           r == R[s]
           of_this == operation.epoch = connected
           q == IF of_this THEN Applied(r, t, operation.answer) ELSE TransientFailure(r, t)
           Q == Completed(s, q)
<1>1. /\ operation # None /\ operation.answer # None
      /\ UNCHANGED <<store, observed_version, connection_epoch, failure, stopped,
                     routeTable, dead, late, faults>>
      /\ IF of_this /\ r # None /\ RefusesShard(t) THEN EnterTerminal(Q, None)
         ELSE /\ Loop(Q, None, connected, worker_terminal, CountsOf(Q))
              /\ UNCHANGED reconnect_wait
  BY DEF OperationCompletes
<1> HIDE DEF q
<1>2. Q \in [Sessions -> {None} \cup RegistrationStates]
  <2>1. q = Applied(r, t, operation.answer) \/ q = TransientFailure(r, t)
    BY DEF q
  <2> QED BY <1>1, <2>1, EndedKeeps DEF Settled
<1>3. CASE RefusesShard(t)
  <2>1. AnswerOK(t, operation.answer, late, table[s], next_lease[s])
    BY <1>1 DEF IInv, OperationOK
  <2>2. refuses /\ refuses' = refuses
    BY <1>1, <1>3, <2>1 DEF AnswerOK, RefusesShard, routeTable
  <2> QED BY <2>2 DEF SInv, Hopeful
<1>4. CASE /\ Loop(Q, None, connected, worker_terminal, CountsOf(Q))
           /\ UNCHANGED reconnect_wait
  <2>1. WorkerFrame /\ UNCHANGED removed /\ faults \in Nat /\ faults <= faults'
    BY <1>1, <1>4, EventFrame, FaultIsOne
  <2>2. ASSUME Hopeful PROVE AllSurvive(Q, None, connected, late, faults)
    <3>1. CASE ~ of_this
      <4>1. operation.epoch \in dead
        BY <1>1, <2>2, <3>1, HopefulHas DEF LinkOK
      <4>2. /\ faults = 1 /\ late = {}
            /\ \A u \in Sessions \ withdrawn : R[u] # None => ~ R[u].probe
        BY <1>1, <2>2, <3>1, <4>1, BrokenLink
      <4>3. q = TransientFailure(r, t)
        BY <3>1 DEF q
      <4>4. AllSurvive(Q, None, connected, {}, 1)
        BY <1>1, <2>2, <4>2, <4>3, FailedSurvives
      <4> QED BY <4>2, <4>4
    <3>2. CASE of_this
      <4>1. R \in [Sessions -> {None} \cup RegistrationStates] /\ s \in Sessions
        BY <1>1 DEF IInv, TypeOK, Requests, Tickets
      <4>2. /\ \A u \in Sessions \ {s} : Q[u] = R[u]
            /\ r # None => Q[s] = q
        BY <4>1 DEF Completed
      <4>3. ASSUME NEW u \in Sessions \ withdrawn
            PROVE  Survives(u, Q[u], None, connected, late, faults, table[u])
        <5>1. Survives(u, R[u], operation, connected, late, faults, table[u])
          BY <2>2, HopefulHas
        <5>2. CASE u = s
          <6>1. r # None
            BY <1>1, <5>1, <5>2 DEF Survives, OwnsRequest
          <6>2. Survives(s, Applied(r, t, operation.answer), None, connected, late,
                         faults, table[s])
            BY <1>1, <2>2, <3>2, <5>2, AppliedSurvives
          <6> QED BY <3>2, <4>2, <5>2, <6>1, <6>2 DEF q
        <5>3. CASE u # s
          <6>1. Calm(operation, connected, late) => Calm(None, connected, late)
            BY DEF Calm
          <6>2. Intact(u, R[u], operation, table[u]) => Intact(u, R[u], None, table[u])
            BY <5>3 DEF Intact, IsAcked
          <6>3. Survives(u, R[u], None, connected, late, faults, table[u])
            BY <5>1, <6>1, <6>2 DEF Survives, OwnsRequest
          <6> QED BY <4>2, <5>3, <6>3
        <5> QED BY <5>2, <5>3
      <4>4. LinkOK(None, connected, late, faults)
        BY <2>2, HopefulHas DEF LinkOK
      <4> QED BY <4>3, <4>4 DEF AllSurvive
    <3> QED BY <3>1, <3>2
  <2> HIDE DEF Q
  <2>3. /\ connected \in Nat /\ worker_terminal \in BOOLEAN
        /\ Hopeful => AllSurvive(Q, None, connected, late', faults')
    BY <1>1, <2>2, InvariantSettles DEF IInv, TypeOK
  <2> QED BY <1>2, <1>4, <2>1, <2>3, SurvivalStep
<1> QED BY <1>1, <1>3, <1>4

(* The lease that a registration knows. *)
LEMMA LeaseFields ==
    ASSUME NEW r \in RegistrationStates, r.lease # None
    PROVE  LeaseOf(r) = r.lease.id /\ r.lease.revision \in Nat
<1>1. r.lease \in Leases
  BY DEF RegistrationStates
<1>2. r.lease.revision \in Nat
  BY <1>1 DEF Leases
<1> QED BY <1>2 DEF LeaseOf

(* The entry that an accepted Update leaves is the one it was sent for. *)
LEMMA UpdatedIntact ==
    ASSUME NEW s, NEW r \in RegistrationStates, r.lease # None, NEW op, NEW entry,
           NEW rev, entry # None, entry.lease = r.lease.id, entry.revision = rev,
           rev = r.lease.revision + 1,
           IsAcked(s, op, "Update"), ~ IsAcked(s, op, "Register")
    PROVE  Intact(s, r, op, entry)
BY DEF Intact, HoldsLease

(***************************************************************************)
(* The service takes the request in flight.  It refuses one only if the    *)
(* RouteTable is not what its registration expects, which the first fault  *)
(* explains and which ends the probe's promise.                            *)
(***************************************************************************)
LEMMA ServeSurvival == ASSUME IInv, SInv, Serve PROVE SInv'
<1> DEFINE t == operation.ticket
           s == t.session
           R == registrations
           op == operation'
           e == Registered(t)
<1>0. TypeOK /\ TableTypes
  BY DEF IInv, TypeOK, TableTypes
<1>1. /\ operation # None /\ operation.answer = None /\ operation.epoch \notin dead
      /\ Execute(t)
      /\ op = [operation EXCEPT !.answer = Answer(t)]
      /\ UNCHANGED <<registrations, connected, removed, withdrawn, failure, stopped,
                     dead, late, faults, refuses>>
  BY DEF Serve, Execute, store, client
<1>2. operation \in Requests /\ t \in Tickets /\ s \in Sessions
      /\ operation.epoch \in Nat \ {0}
  BY <1>0, <1>1 DEF TypeOK, Requests, Tickets
<1>3. /\ table'[s] = e /\ \A u \in Sessions \ {s} : table'[u] = table[u]
  BY <1>0, <1>2, <1>1 DEF Execute, TableTypes
<1>4. /\ op # None /\ op.ticket = t /\ op.epoch = operation.epoch /\ op.answer = Answer(t)
      /\ Answer(t) # None
  BY ServeAnswers, AbsenceAssumption
<1> SUFFICES ASSUME Hopeful' PROVE SInv'
  BY DEF SInv
<1>5. Hopeful
  BY <1>1 DEF Hopeful
<1>6. LinkOK(operation, connected, late, faults)
      /\ \A u \in Sessions \ withdrawn :
            /\ R[u] \in {None} \cup RegistrationStates
            /\ Survives(u, R[u], operation, connected, late, faults, table[u])
  BY <1>5, HopefulHas
<1>7. /\ LinkOK(op, connected, late, faults)
      /\ Calm(operation, connected, late) <=> Calm(op, connected, late)
  BY <1>1, <1>4, <1>6 DEF LinkOK, Calm
<1> HIDE DEF op
<1>8. ASSUME NEW u \in Sessions \ withdrawn
      PROVE  Survives(u, R[u], op, connected, late, faults, table'[u])
  <2>1. Survives(u, R[u], operation, connected, late, faults, table[u])
    BY <1>6
  <2>2. OwnsRequest(u, R[u], op)
    BY <1>1, <1>4, <2>1 DEF Survives, OwnsRequest
  <2>3. CASE u # s
    <3>1. Intact(u, R[u], operation, table[u]) => Intact(u, R[u], op, table'[u])
      BY <1>3, <1>4, <2>3 DEF Intact, IsAcked
    <3> QED BY <1>4, <1>7, <2>1, <2>2, <2>3, <3>1 DEF Survives
  <2>4. CASE u = s
    <3> DEFINE r == R[s]
    <3>1. /\ r # None /\ r.pending = t /\ t.action # "Deregister"
          /\ t.action = "Register" <=> r.lease = None
      BY <1>1, <2>1, <2>4 DEF Survives, OwnsRequest
    <3>2. /\ r \in RegistrationStates /\ t # None /\ LeaseOf(r) = t.lease
          /\ t.action = "Update" => t.revision = r.lease.revision + 1
      <4>1. TicketOK(s, r, operation)
        BY <1>2 DEF IInv, TicketsOK
      <4>2. t # None
        BY <1>2, AbsenceAssumption
      <4> QED BY <1>6, <2>4, <3>1, <4>1, <4>2 DEF TicketOK
    <3>3. r.lease # None => /\ r.lease.id = t.lease
                            /\ r.lease.revision \in Nat
      <4> HIDE DEF r, t
      <4> QED BY <3>2, LeaseFields
    <3>4. Intact(s, r, operation, table[s]) =>
             Answer(t) # FailedPrecondition /\ Intact(s, r, op, table'[s])
      <4> SUFFICES ASSUME Intact(s, r, operation, table[s])
                   PROVE  Answer(t) # FailedPrecondition /\ Intact(s, r, op, table'[s])
        OBVIOUS
      <4>1. r.lease # None => Holds(s, t.lease) /\ table[s].revision = r.lease.revision
        BY <1>1, <3>1, <3>3 DEF Intact, IsAcked, HoldsLease, Holds
      <4>2. Ack(e).kind = "Ack" /\ Ack(e).lease = e.lease /\ Ack(e).revision = e.revision
            /\ Ack(e) # FailedPrecondition
        <5>1. Ack(e).kind = "Ack" /\ Ack(e).lease = e.lease /\ Ack(e).revision = e.revision
          BY DEF Ack
        <5>2. FailedPrecondition.kind = "FailedPrecondition"
          BY DEF FailedPrecondition
        <5> QED BY <5>1, <5>2
      <4>3. ~ refuses
        BY <1>5 DEF Hopeful
      <4>5. CASE t.action = "Register"
        <5>1. Answer(t) = Ack(e)
          BY <4>3, <4>5 DEF Answer
        <5>2. r.lease = None
          BY <3>1, <4>5
        <5>3. e # None
          BY <1>0, <1>2, <4>3, <4>5, RegisteredIsPresent
        <5> QED BY <1>3, <1>4, <4>2, <5>1, <5>2, <5>3 DEF Intact, HoldsLease
      <4>6. CASE t.action = "Update"
        <5>1. /\ r.lease # None /\ Holds(s, t.lease)
              /\ Accepts(table[s], t.revision, t.snapshot)
          <6>1. r.lease # None
            BY <3>1, <4>6
          <6>2. table[s].revision = r.lease.revision /\ t.revision = r.lease.revision + 1
            <7> HIDE DEF r, t
            <7>1. table[s].revision = r.lease.revision
              BY <4>1, <6>1
            <7>2. t.revision = r.lease.revision + 1
              BY <3>2, <4>6
            <7> QED BY <7>1, <7>2
          <6> HIDE DEF r, t
          <6> QED BY <3>3, <4>1, <6>1, <6>2 DEF Accepts
        <5>2. e = [lease |-> t.lease, revision |-> t.revision, snapshot |-> t.snapshot]
          BY <4>3, <4>6, <5>1 DEF Registered
        <5>3. Answer(t) = Ack(e)
          BY <4>3, <4>6, <5>1 DEF Answer
        <5>4. IsAcked(s, op, "Update") /\ ~ IsAcked(s, op, "Register")
          BY <1>4, <4>2, <4>6, <5>3 DEF IsAcked
        <5>5. e # None /\ e.lease = t.lease /\ e.revision = t.revision
          BY <1>0, <1>2, <4>3, <4>6, <5>1, <5>2, RegisteredIsPresent
        <5>6. t.revision = r.lease.revision + 1 /\ r.lease.id = t.lease
          <6> HIDE DEF r, t
          <6> QED BY <3>2, <3>3, <4>6, <5>1
        <5>7. Intact(s, r, op, e)
          <6> HIDE DEF r, t, s, e
          <6> QED BY <3>2, <5>1, <5>4, <5>5, <5>6, UpdatedIntact
        <5> HIDE DEF e, r, t
        <5> QED BY <1>3, <4>2, <5>3, <5>7
      <4>7. CASE t.action = "KeepAlive"
        <5>1. e = table[s]
          BY <4>7 DEF Registered
        <5>2. Answer(t) = Ack(e)
          BY <3>1, <4>1, <4>3, <4>7 DEF Answer
        <5>3. ~ IsAcked(s, op, "Update") /\ ~ IsAcked(s, op, "Register")
          BY <1>4, <4>7 DEF IsAcked
        <5>4. r.lease # None => HoldsLease(e, r.lease.id) /\ e.revision = r.lease.revision
          BY <3>3, <4>1, <5>1 DEF Holds, HoldsLease
        <5> QED BY <1>3, <4>2, <5>2, <5>3, <5>4 DEF Intact
      <4> QED BY <1>2, <3>1, <4>5, <4>6, <4>7 DEF Tickets
    <3>5. ~ Intact(s, r, operation, table[s]) =>
             faults = 1 /\ late = {} /\ ~ r.probe
      BY <1>5, <2>1, <2>4, <3>1, HopefulHas DEF Survives
    <3>6. late = {} => Calm(operation, connected, late)
      <4>1. operation.epoch = connected
        BY <1>1, <1>6 DEF LinkOK
      <4> QED BY <1>1, <1>2, <4>1 DEF Calm
    <3>7. /\ op # None /\ op.ticket.session = s /\ op.answer = FailedPrecondition =>
                faults = 1 /\ Calm(op, connected, late) /\ ~ r.probe
      BY <1>4, <1>7, <3>4, <3>5, <3>6
    <3> QED BY <1>7, <2>1, <2>2, <2>4, <3>4, <3>7 DEF Survives
  <2> QED BY <2>3, <2>4
<1>9. AllSurvive(registrations, operation, connected, late, faults)'
  BY <1>1, <1>7, <1>8 DEF AllSurvive, LinkOK, Survives, Calm, op
<1> QED BY <1>1, <1>5, <1>9 DEF SInv

(* One may hope before a fault that one hopes to survive. *)
LEMMA HopefulBefore ==
    ASSUME IInv, Hopeful', NEW kind, Fault(kind), stopped' = stopped, refuses => refuses'
    PROVE  Hopeful
<1>1. faults \in Nat /\ faults' = faults + 1
  BY BoundAssumption DEF IInv, TypeOK, Fault
<1>2. faults <= 1
  BY <1>1 DEF Hopeful
<1> QED BY <1>2 DEF Hopeful

(* Nothing of the worker changes, and the fault has now happened. *)
LEMMA SpentStep ==
    ASSUME SInv, Hopeful, faults' = 1, late' = {},
           UNCHANGED <<registrations, operation, connected, withdrawn, removed>>,
           failure' # None => failure'.epoch \in dead',
           operation # None /\ operation.epoch # connected => operation.epoch \in dead',
           \A s \in Sessions \ withdrawn :
              LET r == registrations[s] IN
              /\ r # None => r.snapshot # None /\ ~ r.terminal /\ ~ r.probe
              /\ OwnsRequest(s, r, operation)
              /\ ~ (/\ operation # None /\ operation.ticket.session = s
                    /\ operation.answer = FailedPrecondition)
    PROVE  SInv'
<1>1. LinkOK(operation, connected, late, faults)'
  BY DEF LinkOK
<1>2. ASSUME NEW s \in Sessions \ withdrawn
      PROVE  Survives(s, registrations[s], operation, connected, late, faults, table[s])'
  BY DEF Survives, OwnsRequest
<1>3. \A s \in Sessions \ withdrawn : removed[s] = 0
  BY DEF SInv
<1>4. AllSurvive(registrations, operation, connected, late, faults)'
  BY <1>1, <1>2 DEF AllSurvive
<1> QED BY <1>3, <1>4 DEF SInv

(* A commit removes a session only by withdrawing it. *)
LEMMA CommitSurvival ==
    ASSUME IInv, SInv, NEW s \in Sessions, NEW snapshot, Commit(s, snapshot)
    PROVE  SInv'
<1>1. /\ UNCHANGED <<registrations, operation, connected, failure, stopped, table,
                     refuses, dead, late, faults>>
      /\ withdrawn \subseteq withdrawn'
      /\ \A u \in Sessions \ withdrawn' : removed[u] = 0 => removed'[u] = 0
  <2>1. UNCHANGED <<registrations, operation, connected, failure, stopped, table,
                    refuses, dead, late, faults>>
    BY DEF Commit, worker, client, routeTable
  <2>2. removed \in [Sessions -> 0 .. MaxVersion]
    BY DEF IInv, TypeOK
  <2>3. /\ withdrawn \subseteq withdrawn'
        /\ \A u \in Sessions \ withdrawn' : removed[u] = 0 => removed'[u] = 0
    BY <2>2 DEF Commit
  <2> QED BY <2>1, <2>3
<1> SUFFICES ASSUME Hopeful' PROVE SInv'
  BY DEF SInv
<1>2. Hopeful
  BY <1>1 DEF Hopeful
<1>3. AllSurvive(registrations, operation, connected, late, faults)'
  BY <1>1, <1>2 DEF SInv, AllSurvive, LinkOK, Survives, Calm
<1> QED BY <1>1, <1>2, <1>3 DEF SInv

(* A report about a client comes after that client has broken. *)
LEMMA ReportSurvival ==
    ASSUME IInv, SInv, ReconnectDue \/ \E epoch \in 1 .. connection_epoch : ResolveFails(epoch)
    PROVE  SInv'
<1>1. CASE ReconnectDue
  <2>1. UNCHANGED <<registrations, operation, connected, failure, stopped, table,
                    refuses, dead, late, faults, withdrawn, removed>>
    BY <1>1 DEF ReconnectDue, routeTable, store
  <2> QED BY <2>1 DEF SInv, Hopeful, AllSurvive, LinkOK, Survives, Calm
<1>2. ASSUME NEW epoch \in 1 .. connection_epoch, ResolveFails(epoch) PROVE SInv'
  <2> SUFFICES ASSUME Hopeful' PROVE SInv'
    BY DEF SInv
  <2>1. /\ UNCHANGED <<registrations, operation, connected, stopped, refuses, late,
                       withdrawn, removed>>
        /\ dead' = dead \cup {epoch} /\ Fault("resolve")
        /\ failure' \in [epoch : {epoch}, terminal : {FALSE, refuses}]
    BY <1>2 DEF ResolveFails, worker, client, routeTable, store
  <2>2. Hopeful
    BY <2>1, HopefulBefore
  <2>3. failure'.epoch \in dead'
    BY <2>1
  <2> QED BY <2>1, <2>2, <2>3, FirstFault, SpentStep
<1> QED BY <1>1, <1>2

(***************************************************************************)
(* The RouteTable changes behind the worker's back: by a request left      *)
(* behind, of which there is at most one, or by the first fault, or by     *)
(* dropping a lease that the worker does not know.                         *)
(***************************************************************************)
LEMMA RouteTableSurvival ==
    ASSUME IInv, SInv,
           \/ \E t \in late : ServeLate(t)
           \/ \E s \in Sessions : LeaseExpires(s)
           \/ Restart
    PROVE  SInv'
<1> SUFFICES ASSUME Hopeful' PROVE SInv'
  BY DEF SInv
<1>1. ASSUME NEW t \in late, ServeLate(t) PROVE SInv'
  <2>1. /\ UNCHANGED <<registrations, operation, connected, failure, stopped, refuses,
                       dead, faults, withdrawn, removed>>
        /\ late' = late \ {t}
    BY <1>1 DEF ServeLate, Execute, worker, client, routeTable, store
  <2>2. Hopeful
    BY <2>1 DEF Hopeful
  <2>3. /\ faults \in {0, 1}
        /\ LinkOK(operation, connected, late, faults)
        /\ \A s \in Sessions \ withdrawn :
              Survives(s, registrations[s], operation, connected, late, faults, table[s])
    BY <2>2, HopefulHas
  <2>4. faults = 1 /\ late' = {}
    BY <2>1, <2>3 DEF LinkOK
  <2>5. ~ Calm(operation, connected, late)
    BY DEF Calm
  <2>6. \A s \in Sessions \ withdrawn :
           LET r == registrations[s] IN
           /\ r # None => r.snapshot # None /\ ~ r.terminal /\ ~ r.probe
           /\ OwnsRequest(s, r, operation)
           /\ ~ (/\ operation # None /\ operation.ticket.session = s
                 /\ operation.answer = FailedPrecondition)
    BY <2>3, <2>5 DEF Survives
  <2>7. /\ failure' # None => failure'.epoch \in dead'
        /\ operation # None /\ operation.epoch # connected => operation.epoch \in dead'
    BY <2>1, <2>2, <2>3 DEF SInv, LinkOK
  <2> QED BY <2>1, <2>2, <2>4, <2>6, <2>7, SpentStep
<1>2. ASSUME NEW s \in Sessions, LeaseExpires(s) PROVE SInv'
  <2>1. /\ table' = [table EXCEPT ![s] = None] /\ table[s] # None
        /\ UNCHANGED <<registrations, operation, connected, failure, stopped, refuses,
                       dead, late, withdrawn, removed>>
        /\ IF IsTended(s) THEN Fault("expiry") ELSE UNCHANGED faults
    BY <1>2 DEF LeaseExpires, worker, client, store
  <2>2. CASE IsTended(s)
    <3>1. Fault("expiry")
      BY <2>1, <2>2
    <3>2. Hopeful
      BY <2>1, <3>1, HopefulBefore
    <3> QED BY <2>1, <3>1, <3>2, FirstFault, SpentStep
  <2>3. CASE ~ IsTended(s)
    <3>1. Hopeful /\ faults' = faults /\ ~ stopped
      BY <2>1, <2>3 DEF Hopeful
    <3>2. /\ LinkOK(operation, connected, late, faults)
          /\ \A u \in Sessions \ withdrawn :
                /\ registrations[u] \in {None} \cup RegistrationStates
                /\ Survives(u, registrations[u], operation, connected, late, faults,
                            table[u])
      BY <3>1, HopefulHas
    <3>3. table'[s] = None /\ \A u \in Sessions \ {s} : table'[u] = table[u]
      BY <2>1 DEF IInv, TypeOK
    <3>4. ASSUME NEW u \in Sessions \ withdrawn
          PROVE  Survives(u, registrations[u], operation, connected, late, faults,
                          table'[u])
      <4> DEFINE r == registrations[u]
      <4>1. Survives(u, r, operation, connected, late, faults, table[u])
        BY <3>2
      <4>2. CASE u # s
        BY <3>3, <4>1, <4>2
      <4>3. CASE u = s
        <5>1. Intact(s, r, operation, table[s]) => Intact(s, r, operation, None)
          <6> SUFFICES ASSUME Intact(s, r, operation, table[s])
                       PROVE  /\ ~ (r # None /\ r.lease # None)
                              /\ ~ IsAcked(s, operation, "Register")
            BY DEF Intact
          <6>1. ASSUME r # None, r.lease # None PROVE FALSE
            <7>1. ~ r.terminal
              BY <4>1, <6>1 DEF Survives
            <7>2. LeaseOf(r) = table[s].lease
              BY <6>1 DEF Intact, HoldsLease, LeaseOf
            <7> QED BY <2>3, <3>1, <4>3, <6>1, <7>1, <7>2 DEF IsTended
          <6>2. ASSUME IsAcked(s, operation, "Register") PROVE FALSE
            <7>1. table[s].lease = operation.answer.lease
              BY <6>2 DEF Intact, HoldsLease
            <7> QED BY <2>3, <3>1, <6>2, <7>1 DEF IsTended, IsAcked
          <6> QED BY <6>1, <6>2
        <5> QED BY <3>3, <4>1, <4>3, <5>1 DEF Survives
      <4> QED BY <4>2, <4>3
    <3>5. AllSurvive(registrations, operation, connected, late, faults)'
      BY <2>1, <3>1, <3>2, <3>4 DEF AllSurvive, LinkOK, Survives, Calm
    <3> QED BY <2>1, <3>1, <3>5 DEF SInv
  <2> QED BY <2>2, <2>3
<1>3. ASSUME Restart PROVE SInv'
  <2>1. /\ UNCHANGED <<registrations, operation, connected, failure, stopped, withdrawn,
                       removed>>
        /\ late' = {} /\ refuses' \in {refuses, TRUE} /\ Fault("restart")
    BY <1>3 DEF Restart, worker, client, store
  <2>2. Hopeful
    <3>1. refuses => refuses'
      BY <2>1, Zenon
    <3> QED BY <2>1, <3>1, HopefulBefore
  <2>3. /\ faults' = 1 /\ failure = None
        /\ operation # None => operation.epoch = connected
    BY <2>1, <2>2, FirstFault
  <2> QED BY <2>1, <2>2, <2>3, FirstFault, SpentStep
<1> QED BY <1>1, <1>2, <1>3

(* No session has been published yet. *)
LEMMA InitSurvives == Init => SInv
BY DEF Init, SInv, AllSurvive, LinkOK, Survives, OwnsRequest, Intact, IsAcked

(* Every step keeps the promise. *)
LEMMA StepSurvives == IInv /\ SInv /\ [Next]_vars => SInv'
<1> SUFFICES ASSUME IInv, SInv, [Next]_vars PROVE SInv'
  OBVIOUS
<1>1. CASE GatewayNext
  <2>1. CASE Shutdown
    BY <2>1 DEF Shutdown, SInv, Hopeful
  <2> QED BY <1>1, <2>1, CommitSurvival, ReportSurvival DEF GatewayNext
<1>2. CASE WorkerNext
  BY <1>2, ReconcileSurvival, ConnectSurvival, OperationCompletesSurvival,
     OperationFailsSurvival, ThrottledSurvival, ClientFailureSurvival, ReportSurvival,
     TimerSurvival DEF WorkerNext
<1>3. CASE RouteTableNext
  BY <1>3, ServeSurvival, RouteTableSurvival DEF RouteTableNext
<1>4. CASE UNCHANGED vars
  <2>1. UNCHANGED <<registrations, operation, connected, failure, stopped, table,
                    refuses, dead, late, faults, withdrawn, removed>>
    BY <1>4 DEF vars, store, worker, client, routeTable
  <2> QED BY <2>1 DEF SInv, Hopeful, AllSurvive, LinkOK, Survives, Calm
<1> QED BY <1>1, <1>2, <1>3, <1>4 DEF Next

(* A worker that was shut down keeps no registration. *)
StoppedIsIdle == stopped => \A s \in Sessions : registrations[s] = None

(* Only Shutdown stops the worker, and no event follows it. *)
LEMMA StoppedStaysIdle == StoppedIsIdle /\ [Next]_vars => StoppedIsIdle'
<1> SUFFICES ASSUME StoppedIsIdle, [Next]_vars PROVE StoppedIsIdle'
  OBVIOUS
<1>1. CASE Shutdown
  BY <1>1 DEF Shutdown, StoppedIsIdle
<1>2. CASE WorkerNext
  <2>1. ~ stopped /\ stopped' = stopped
    BY <1>2 DEF WorkerNext, Reconcile, ConnectSucceeds, ConnectFails, ConnectRefused,
       WantsConnect, OperationCompletes, OperationFails, OperationThrottled,
       ClientFailureSeen, ReconnectDue, RetryDue, KeepAliveDue
  <2> QED BY <2>1 DEF StoppedIsIdle
<1>3. CASE RouteTableNext \/ UNCHANGED vars
  <2>1. UNCHANGED <<registrations, stopped>>
    BY <1>3 DEF RouteTableNext, Serve, ServeLate, LeaseExpires, Restart, vars, worker
  <2> QED BY <2>1 DEF StoppedIsIdle
<1>4. CASE \/ \E s \in Sessions, snapshot \in Snapshots \cup {None} : Commit(s, snapshot)
           \/ \E epoch \in 1 .. connection_epoch : ResolveFails(epoch)
  <2>1. UNCHANGED <<registrations, stopped>>
    BY <1>4 DEF Commit, ResolveFails, worker
  <2> QED BY <2>1 DEF StoppedIsIdle
<1> QED BY <1>1, <1>2, <1>3, <1>4 DEF Next, GatewayNext

(* The one fault of a session that stays published has not ended it. *)
THEOREM SurvivalHolds == Spec => []SInv
BY InvariantHolds, InitSurvives, StepSurvives, PTL DEF Spec

(***************************************************************************)
(* Neither the shard nor one registration gives up over what passes: the   *)
(* shard turns terminal only when the RouteTable refuses the Gateway, and  *)
(* a session that stays published becomes terminal only after a second     *)
(* fault, because precondition_failed probes with a Register before it     *)
(* gives up.                                                               *)
(***************************************************************************)
THEOREM LossesAreSurvivedAlways == Spec => []LossesAreSurvived
<1>1. IInv /\ SInv /\ StoppedIsIdle => LossesAreSurvived
  <2> SUFFICES ASSUME IInv, SInv, StoppedIsIdle PROVE LossesAreSurvived
    OBVIOUS
  <2>1. ShardTerminalOnlyIfRefused
    BY DEF IInv, RefusalOK, ShardTerminalOnlyIfRefused
  <2>2. ASSUME NEW s \in Present(registrations), registrations[s].terminal,
               ~ refuses, s \notin withdrawn
        PROVE  faults > 1
    <3>1. s \in Sessions /\ registrations[s] # None
      BY DEF Present
    <3>2. ~ stopped
      BY <3>1 DEF StoppedIsIdle
    <3>3. faults \in Nat
      BY BoundAssumption DEF IInv, TypeOK
    <3>4. ~ Hopeful
      BY <2>2, <3>1 DEF SInv, AllSurvive, Survives
    <3> QED BY <2>2, <3>2, <3>3, <3>4 DEF Hopeful
  <2> QED BY <2>1, <2>2 DEF LossesAreSurvived, OneFaultIsSurvived
<1>2. Init => StoppedIsIdle
  BY DEF Init, StoppedIsIdle
<1> QED BY <1>1, <1>2, StoppedStaysIdle, InvariantHolds, SurvivalHolds, PTL DEF Spec

=============================================================================
