------------------------- MODULE RegistrationProofs -------------------------
(***************************************************************************)
(* Theorems about RegistrationLifecycle, for any number of sessions,       *)
(* commits and faults.  A request that a worker gave up on may still be    *)
(* executed; what protects the RouteTable and the worker from it is the    *)
(* order of the revisions, which the inductive invariant spells out.       *)
(***************************************************************************)
EXTENDS RegistrationLifecycle, FiniteSetTheorems, WellFoundedInduction, TLAPS

(* The requests that the RouteTable may still execute, or has executed     *)
(* without the worker knowing.                                             *)
InFlight(op) == IF op = None THEN {} ELSE {op.ticket}

(* No Update of this lease carries a revision beyond n. *)
UpTo(requests, s, lease, n) ==
    \A t \in requests :
        t.action = "Update" /\ t.session = s /\ t.lease = lease => t.revision <= n

HoldsLease(entry, lease) == entry # None /\ entry.lease = lease

(* The wanted version is the acknowledged one. *)
Acknowledged(r) == r.lease # None /\ r.synced = r.version

(***************************************************************************)
(* A registration against the requests about it and the RouteTable's entry *)
(* of its session: the table has every revision that was acknowledged, no  *)
(* request is more than one revision ahead of that, and none is ahead of a *)
(* registration whose snapshot was acknowledged.                           *)
(***************************************************************************)
LeaseOK(s, r, requests, entry, fresh) ==
    r # None /\ r.lease # None =>
        /\ r.lease.id < fresh
        /\ UpTo(requests, s, r.lease.id, r.lease.revision + 1)
        /\ HoldsLease(entry, r.lease.id) => r.lease.revision <= entry.revision
        /\ Acknowledged(r) =>
              /\ UpTo(requests, s, r.lease.id, r.lease.revision)
              /\ HoldsLease(entry, r.lease.id) =>
                    entry.revision = r.lease.revision /\ entry.snapshot = r.snapshot

(* A pending ticket is the one in flight and says what begin_next saw. *)
TicketOK(s, r, op) ==
    r # None /\ r.pending # None =>
        /\ op # None /\ op.ticket = r.pending
        /\ r.pending.session = s
        /\ r.pending.lease = LeaseOf(r)
        /\ r.pending.version <= r.version
        /\ r.pending.action = "Update" =>
              /\ r.lease # None
              /\ r.pending.revision = r.lease.revision + 1
              /\ ~ Acknowledged(r)
              /\ r.pending.version = r.version => r.pending.snapshot = r.snapshot

(* What the RouteTable holds, no request overtakes by more than one. *)
EntryOK(s, entry, requests, fresh) ==
    entry # None =>
        entry.lease < fresh /\ UpTo(requests, s, entry.lease, entry.revision + 1)

(***************************************************************************)
(* An answer that the worker has not seen yet still describes the table,   *)
(* as far as requests left behind can have changed it.                     *)
(***************************************************************************)
AnswerOK(t, answer, left, entry, fresh) ==
    /\ answer.kind = "Done" <=> t.action = "Deregister" /\ answer # FailedPrecondition
    /\ answer = FailedPrecondition /\ t.action = "Register" => refuses
    /\ answer.kind = "Ack" =>
          /\ answer.lease < fresh
          /\ UpTo(left, t.session, answer.lease, answer.revision + 1)
          /\ HoldsLease(entry, answer.lease) => answer.revision <= entry.revision
          /\ t.action = "Update" =>
                /\ answer.lease = t.lease /\ answer.revision = t.revision
                /\ HoldsLease(entry, t.lease) =>
                      entry.revision = t.revision /\ entry.snapshot = t.snapshot

OperationOK(op, left) ==
    op # None =>
        LET t == op.ticket IN
        /\ t.action = "Update" => UpTo(left, t.session, t.lease, t.revision)
        /\ op.answer # None =>
              AnswerOK(t, op.answer, left, table[t.session], next_lease[t.session])

LeasesOK(R, op, left) ==
    \A s \in Sessions :
        LeaseOK(s, R[s], left \cup InFlight(op), table[s], next_lease[s])

TicketsOK(R, op) == \A s \in Sessions : TicketOK(s, R[s], op)

TableOK(op, left) ==
    /\ \A s \in Sessions :
          EntryOK(s, table[s], left \cup InFlight(op), next_lease[s])
    /\ \A t \in left \cup InFlight(op) : t.lease < next_lease[t.session]

(* The store, the registrations, and the versions the worker has read. *)
StoreOK(R, seen, removals) ==
    /\ seen <= store_version
    /\ \A s \in Sessions :
          /\ R[s] # None => R[s].version <= seen
          /\ removals[s] # 0 =>
                sessions[s] = None /\ seen < removals[s] /\ removals[s] <= store_version
          /\ sessions[s] # None => sessions[s].version <= store_version
          /\ ~ stopped /\ sessions[s] = None /\ removals[s] = 0 =>
                R[s] = None \/ R[s].snapshot = None
          /\ ~ stopped /\ sessions[s] # None /\ sessions[s].version <= seen =>
                /\ R[s] # None
                /\ R[s].snapshot = sessions[s].snapshot
                /\ R[s].version = sessions[s].version

RefusalOK ==
    /\ worker_terminal => refuses
    /\ failure # None /\ failure.terminal => refuses

IInv ==
    /\ TypeOK
    /\ LeasesOK(registrations, operation, late)
    /\ TicketsOK(registrations, operation)
    /\ TableOK(operation, late)
    /\ OperationOK(operation, late)
    /\ StoreOK(registrations, observed_version, removed)
    /\ RefusalOK
    /\ CountsAreExact

-----------------------------------------------------------------------------
(***************************************************************************)
(* Operators.                                                              *)
(***************************************************************************)

(* The least of some session numbers is one of them. *)
LEMMA MinIsMember ==
    ASSUME NEW S \in SUBSET Nat, S # {}
    PROVE  Min(S) \in S
<1>1. PICK x \in S : \A y \in S : ~ (<<y, x>> \in OpToRel(<, Nat))
  BY WFMin, NatLessThanWellFounded
<1>2. \A y \in S : x <= y
  <2> TAKE y \in S
  <2>1. <<y, x>> \in Nat \X Nat /\ ~ (<<y, x>> \in OpToRel(<, Nat))
    BY <1>1
  <2>2. ~ (y < x)
    BY <2>1 DEF OpToRel
  <2>3. x \in Nat /\ y \in Nat
    OBVIOUS
  <2> QED BY <2>2, <2>3
<1> QED BY <1>1, <1>2 DEF Min

(* An event that neither wants something else nor gains a lease: it keeps  *)
(* or drops the lease, the acknowledged version and the ticket.            *)
Weakens(r, q) ==
    /\ q.version = r.version /\ q.snapshot = r.snapshot
    /\ q.lease \in {r.lease, None}
    /\ q.synced \in {r.synced, 0}
    /\ q.pending = None \/ (q.pending = r.pending /\ q.lease = r.lease)

(* The same, with the ticket of a request that ended given back. *)
Ends(r, t, q) == Weakens(r, q) /\ (r.pending = t => q.pending = None)

(* Taking the ticket back changes nothing else. *)
LEMMA TakenEnds ==
    ASSUME NEW r \in RegistrationStates, NEW t
    PROVE  Taken(r, t) \in RegistrationStates /\ Ends(r, t, Taken(r, t))
BY DEF Taken, RegistrationStates, Ends, Weakens

(* The completions that acknowledge nothing new. *)
LEMMA FailuresEnd ==
    ASSUME NEW r \in RegistrationStates, NEW t, NEW ack
    PROVE  /\ KeepAliveSucceeded(r, t, ack) \in RegistrationStates
           /\ Ends(r, t, KeepAliveSucceeded(r, t, ack))
           /\ TerminalFailure(r, t) \in RegistrationStates
           /\ Ends(r, t, TerminalFailure(r, t))
           /\ PreconditionFailed(r, t) \in RegistrationStates
           /\ Ends(r, t, PreconditionFailed(r, t))
           /\ TransientFailure(r, t) \in RegistrationStates
           /\ Ends(r, t, TransientFailure(r, t))
           /\ FinishDeregister(r, t) \in RegistrationStates
           /\ Ends(r, t, FinishDeregister(r, t))
<1> DEFINE q == Taken(r, t)
<1>1. q \in RegistrationStates /\ Ends(r, t, q)
  BY TakenEnds
<1>2. IsCurrent(r, t) => q.pending = None
  BY DEF IsCurrent, IsPending, Taken, RegistrationStates
<1>3. 0 \in 0 .. MaxVersion
  BY BoundAssumption
<1> HIDE DEF q
<1>4. /\ KeepAliveSucceeded(r, t, ack) \in RegistrationStates
      /\ Ends(r, t, KeepAliveSucceeded(r, t, ack))
  <2> DEFINE w == [q EXCEPT !.probe = FALSE, !.validate = FALSE,
                            !.waiting = FALSE, !.renew = FALSE]
  <2>1. KeepAliveSucceeded(r, t, ack) \in {q, w}
    BY DEF KeepAliveSucceeded, q
  <2>2. w \in RegistrationStates /\ Ends(r, t, w)
    BY <1>1 DEF RegistrationStates, Ends, Weakens
  <2> QED BY <1>1, <2>1, <2>2
<1>5. /\ TerminalFailure(r, t) \in RegistrationStates
      /\ Ends(r, t, TerminalFailure(r, t))
  <2> DEFINE w == [q EXCEPT !.synced = 0, !.terminal = TRUE]
  <2>1. TerminalFailure(r, t) \in {q, w}
    BY DEF TerminalFailure, q
  <2>2. w \in RegistrationStates /\ Ends(r, t, w)
    BY <1>1, <1>3 DEF RegistrationStates, Ends, Weakens
  <2> QED BY <1>1, <2>1, <2>2
<1>6. /\ PreconditionFailed(r, t) \in RegistrationStates
      /\ Ends(r, t, PreconditionFailed(r, t))
  <2> DEFINE w == [q EXCEPT !.lease = None, !.synced = 0, !.probe = TRUE,
                            !.validate = FALSE, !.waiting = FALSE,
                            !.renew = FALSE]
  <2>1. \/ PreconditionFailed(r, t) \in {q, TerminalFailure(r, t)}
        \/ PreconditionFailed(r, t) = w /\ IsCurrent(r, t)
    BY DEF PreconditionFailed, q
  <2>2. IsCurrent(r, t) => w \in RegistrationStates /\ Ends(r, t, w)
    BY <1>1, <1>2, <1>3 DEF RegistrationStates, Ends, Weakens
  <2> QED BY <1>1, <1>5, <2>1, <2>2
<1>7. /\ TransientFailure(r, t) \in RegistrationStates
      /\ Ends(r, t, TransientFailure(r, t))
  <2> DEFINE w == [q EXCEPT !.synced = 0, !.waiting = TRUE]
  <2>1. TransientFailure(r, t) \in {q, w}
    BY DEF TransientFailure, q
  <2>2. w \in RegistrationStates /\ Ends(r, t, w)
    BY <1>1, <1>3 DEF RegistrationStates, Ends, Weakens
  <2> QED BY <1>1, <2>1, <2>2
<1>8. /\ FinishDeregister(r, t) \in RegistrationStates
      /\ Ends(r, t, FinishDeregister(r, t))
  <2> DEFINE w == [q EXCEPT !.lease = None, !.synced = 0, !.validate = FALSE,
                            !.renew = FALSE]
  <2>1. FinishDeregister(r, t) = q \/ (FinishDeregister(r, t) = w /\ IsCurrent(r, t))
    BY DEF FinishDeregister, q
  <2>2. IsCurrent(r, t) => w \in RegistrationStates /\ Ends(r, t, w)
    BY <1>1, <1>2, <1>3 DEF RegistrationStates, Ends, Weakens
  <2> QED BY <1>1, <2>1, <2>2
<1> QED BY <1>4, <1>5, <1>6, <1>7, <1>8

(* What a lost connection, a terminal shard and the timers do to one       *)
(* registration.                                                           *)
LEMMA EventsWeaken ==
    ASSUME NEW r \in RegistrationStates
    PROVE  /\ ConnectionLost(r) \in RegistrationStates
           /\ Weakens(r, ConnectionLost(r))
           /\ MarkTerminal(r) \in RegistrationStates
           /\ Weakens(r, MarkTerminal(r))
           /\ [r EXCEPT !.waiting = FALSE] \in RegistrationStates
           /\ Weakens(r, [r EXCEPT !.waiting = FALSE])
           /\ [r EXCEPT !.renew = TRUE] \in RegistrationStates
           /\ Weakens(r, [r EXCEPT !.renew = TRUE])
<1>1. ConnectionLost(r) \in RegistrationStates /\ Weakens(r, ConnectionLost(r))
  BY DEF ConnectionLost, RegistrationStates, Weakens
<1>2. MarkTerminal(r) \in RegistrationStates /\ Weakens(r, MarkTerminal(r))
  <2>0. 0 \in 0 .. MaxVersion
    BY BoundAssumption
  <2>1. PICK l \in {r.lease, None}, v \in {r.validate, FALSE} :
            MarkTerminal(r) = [r EXCEPT !.pending = None, !.synced = 0,
                                        !.terminal = TRUE, !.lease = l,
                                        !.validate = v]
    BY DEF MarkTerminal, RegistrationStates
  <2> QED BY <2>0, <2>1 DEF RegistrationStates, Weakens
<1>3. /\ [r EXCEPT !.waiting = FALSE] \in RegistrationStates
      /\ Weakens(r, [r EXCEPT !.waiting = FALSE])
  BY DEF RegistrationStates, Weakens
<1>4. /\ [r EXCEPT !.renew = TRUE] \in RegistrationStates
      /\ Weakens(r, [r EXCEPT !.renew = TRUE])
  BY DEF RegistrationStates, Weakens
<1> QED BY <1>1, <1>2, <1>3, <1>4

(* A registration that only loses something stays in step. *)
LEMMA WeakensKeeps ==
    ASSUME NEW s \in Sessions, NEW r \in RegistrationStates,
           NEW q \in RegistrationStates, Weakens(r, q)
    PROVE  /\ \A requests, entry, fresh :
                 LeaseOK(s, r, requests, entry, fresh)
                    => LeaseOK(s, q, requests, entry, fresh)
           /\ \A op : TicketOK(s, r, op) => TicketOK(s, q, op)
<1>1. q.synced = q.version => r.synced = r.version
  BY DEF Weakens, RegistrationStates
<1>2. q.lease # None => q.lease = r.lease /\ LeaseOf(q) = LeaseOf(r)
  BY DEF Weakens, LeaseOf
<1>3. Acknowledged(q) => Acknowledged(r)
  BY <1>1, <1>2 DEF Acknowledged
<1>0. r # None /\ (r.pending # None => r.pending \in Tickets)
  BY AbsenceAssumption DEF RegistrationStates
<1>4. ASSUME NEW requests, NEW entry, NEW fresh,
             LeaseOK(s, r, requests, entry, fresh)
      PROVE  LeaseOK(s, q, requests, entry, fresh)
  BY <1>0, <1>2, <1>3, <1>4 DEF LeaseOK, Weakens, RegistrationStates
<1>5. ASSUME NEW op, TicketOK(s, r, op)
      PROVE  TicketOK(s, q, op)
  BY <1>0, <1>3, <1>5 DEF TicketOK, Weakens, LeaseOf
<1> QED BY <1>4, <1>5

(* A new registration has no lease and no ticket. *)
LEMMA NewIsOK ==
    ASSUME NEW s \in Sessions, NEW v \in 1 .. MaxVersion,
           NEW snapshot \in Snapshots \cup {None}
    PROVE  /\ NewRegistration(v, snapshot) \in RegistrationStates
           /\ \A requests, entry, fresh :
                 LeaseOK(s, NewRegistration(v, snapshot), requests, entry, fresh)
           /\ \A op : TicketOK(s, NewRegistration(v, snapshot), op)
BY BoundAssumption DEF NewRegistration, RegistrationStates, LeaseOK, TicketOK

(* A newer version: acknowledged only if the snapshot is the same, and     *)
(* another one than a pending Update is about.                             *)
LEMMA PublishIsOK ==
    ASSUME NEW s \in Sessions, NEW r \in RegistrationStates,
           NEW v \in 1 .. MaxVersion, NEW snapshot \in Snapshots \cup {None}
    PROVE  /\ Publish(r, v, snapshot) \in RegistrationStates
           /\ v > r.version => /\ Publish(r, v, snapshot).version = v
                               /\ Publish(r, v, snapshot).snapshot = snapshot
           /\ \A requests, entry, fresh :
                 LeaseOK(s, r, requests, entry, fresh)
                    => LeaseOK(s, Publish(r, v, snapshot), requests, entry, fresh)
           /\ \A op : TicketOK(s, r, op) => TicketOK(s, Publish(r, v, snapshot), op)
<1> DEFINE q == Publish(r, v, snapshot)
<1>0. r # None
  BY AbsenceAssumption
<1>1. CASE v <= r.version
  <2>1. q = r
    BY <1>1 DEF Publish
  <2>2. ~ (v > r.version)
    BY <1>1 DEF RegistrationStates
  <2> QED BY <2>1, <2>2
<1>2. CASE ~ (v <= r.version)
  <2>1. q \in RegistrationStates
    <3>1. PICK n \in {v, 0}, l \in {r.lease, None}, p \in {r.pending, None},
               a \in {r.validate, FALSE}, w \in {r.waiting, FALSE} :
              q = [r EXCEPT !.version = v, !.snapshot = snapshot, !.synced = n,
                            !.lease = l, !.pending = p, !.validate = a,
                            !.waiting = w]
      BY <1>2 DEF Publish, RegistrationStates
    <3>2. n \in 0 .. MaxVersion
      BY BoundAssumption
    <3> QED BY <3>1, <3>2 DEF RegistrationStates
  <2>2. /\ q.version = v /\ q.snapshot = snapshot
        /\ q.lease \in {r.lease, None}
        /\ q.pending = None \/ (q.pending = r.pending /\ q.lease = r.lease)
        /\ q.synced = v \/ q.synced = 0
        /\ q.synced = v => r.snapshot = snapshot /\ Acknowledged(r)
    BY <1>2 DEF Publish, RegistrationStates, IsSynced, Acknowledged
  <2>3. v # 0 /\ r.version < v /\ r.version \in Nat /\ v \in Nat
    BY <1>2, BoundAssumption DEF RegistrationStates
  <2> HIDE DEF q
  <2>4. Acknowledged(q) => Acknowledged(r) /\ q.snapshot = r.snapshot
    BY <2>2, <2>3 DEF Acknowledged
  <2>5. ASSUME NEW requests, NEW entry, NEW fresh,
               LeaseOK(s, r, requests, entry, fresh)
        PROVE  LeaseOK(s, q, requests, entry, fresh)
    BY <1>0, <2>2, <2>4, <2>5 DEF LeaseOK, RegistrationStates
  <2>6. ASSUME NEW op, TicketOK(s, r, op), q.pending # None
        PROVE  /\ op # None /\ op.ticket = q.pending
               /\ q.pending.session = s
               /\ q.pending.lease = LeaseOf(q)
               /\ q.pending.version < q.version
               /\ q.pending.action = "Update" =>
                     /\ q.lease # None
                     /\ q.pending.revision = q.lease.revision + 1
                     /\ ~ Acknowledged(q)
    <3>1. q.pending = r.pending /\ q.lease = r.lease /\ r.pending \in Tickets /\ r # None
      BY <1>0, <2>2, <2>6 DEF RegistrationStates
    <3>2. r.pending.version \in Nat
      BY <3>1 DEF Tickets
    <3> QED BY <2>2, <2>3, <2>4, <2>6, <3>1, <3>2 DEF TicketOK, LeaseOf
  <2>7. ASSUME NEW op, TicketOK(s, r, op)
        PROVE  TicketOK(s, q, op)
    <3>1. CASE q.pending # None
      <4>1. q.pending \in Tickets
        BY <2>1, <3>1 DEF RegistrationStates
      <4>2. q.pending.version \in Nat /\ q.version \in Nat
        BY <2>1, <4>1 DEF Tickets, RegistrationStates
      <4> QED BY <2>6, <2>7, <3>1, <4>2 DEF TicketOK
    <3> QED BY <3>1 DEF TicketOK
  <2> QED BY <2>1, <2>2, <2>5, <2>7 DEF q
<1> QED BY <1>1, <1>2

(* Fewer requests, and a later revision, are bounded as well. *)
LEMMA UpToMonotone ==
    ASSUME NEW requests \in SUBSET Tickets, NEW fewer \in SUBSET requests,
           NEW s, NEW lease, NEW m \in Nat, NEW n \in Nat, m <= n,
           UpTo(requests, s, lease, m)
    PROVE  UpTo(fewer, s, lease, n)
<1> SUFFICES ASSUME NEW t \in fewer, t.action = "Update", t.session = s, t.lease = lease
             PROVE  t.revision <= n
  BY DEF UpTo
<1>1. t \in Tickets /\ t.revision \in Nat
  BY DEF Tickets
<1>2. t.revision <= m
  BY DEF UpTo
<1> QED BY <1>1, <1>2

(***************************************************************************)
(* The request of a ticket has ended: its registration q wants the same,   *)
(* has given the ticket back and is in step with what is left behind.      *)
(***************************************************************************)
Completes(s, r, t, q, left) ==
    /\ q \in RegistrationStates
    /\ q.version = r.version /\ q.snapshot = r.snapshot
    /\ r.pending \in {None, t} => q.pending = None
    /\ LeaseOK(s, q, left, table[s], next_lease[s])

(* What is known when the request of a ticket ends. *)
InStep(s, r, t, answer, left) ==
    /\ left \in SUBSET Tickets
    /\ t \in Tickets /\ t.session = s
    /\ r \in RegistrationStates
    /\ table[s] \in {None} \cup Entries /\ next_lease[s] \in Nat
    /\ LeaseOK(s, r, left \cup {t}, table[s], next_lease[s])
    /\ \E op : op.ticket = t /\ TicketOK(s, r, op)
    /\ t.action = "Update" => UpTo(left, s, t.lease, t.revision)
    /\ answer # None => /\ answer \in Answers
                        /\ AnswerOK(t, answer, left, table[s], next_lease[s])

(* A request less is in the way. *)
LEMMA FewerRequests ==
    ASSUME NEW s, NEW r \in RegistrationStates \cup {None}, NEW requests \in SUBSET Tickets,
           NEW fewer \in SUBSET requests, NEW entry, NEW fresh,
           LeaseOK(s, r, requests, entry, fresh)
    PROVE  LeaseOK(s, r, fewer, entry, fresh)
BY DEF LeaseOK, UpTo

(* A completion that only drops something. *)
LEMMA EndsCompletes ==
    ASSUME NEW s \in Sessions, NEW r, NEW t, NEW answer, NEW left,
           InStep(s, r, t, answer, left),
           NEW q \in RegistrationStates, Ends(r, t, q)
    PROVE  Completes(s, r, t, q, left)
<1>1. LeaseOK(s, q, left \cup {t}, table[s], next_lease[s])
  BY WeakensKeeps DEF InStep, Ends
<1>2. LeaseOK(s, q, left, table[s], next_lease[s])
  BY <1>1, FewerRequests DEF InStep
<1> QED BY <1>2 DEF Completes, Ends, Weakens

(* A Register that was answered: the lease is the one the table gave. *)
LEMMA RegisterCompletes ==
    ASSUME NEW s \in Sessions, NEW r, NEW t, NEW answer, NEW left,
           InStep(s, r, t, answer, left), answer # None, answer.kind = "Ack"
    PROVE  Completes(s, r, t, RegisterSucceeded(r, t, answer), left)
<1> DEFINE q == RegisterSucceeded(r, t, answer)
           w == Taken(r, t)
<1>0. r \in RegistrationStates
  BY DEF InStep
<1>1. w \in RegistrationStates /\ Ends(r, t, w)
  BY <1>0, TakenEnds
<1>2. CASE ~ IsCurrent(r, t)
  BY <1>1, <1>2, EndsCompletes DEF RegisterSucceeded
<1>3. CASE IsCurrent(r, t)
  <2>1. w.pending = None
    BY <1>0, <1>3 DEF IsCurrent, IsPending, Taken, RegistrationStates
  <2>2. answer.lease \in Nat \ {0} /\ answer.revision \in Nat
    BY DEF InStep, Answers, Done, FailedPrecondition
  <2> DEFINE l == [id |-> answer.lease, revision |-> answer.revision]
  <2>3. q = [w EXCEPT !.lease = l, !.synced = 0, !.validate = FALSE,
                      !.waiting = FALSE, !.renew = FALSE]
    BY <1>3 DEF RegisterSucceeded
  <2>4. l \in Leases /\ 0 \in 0 .. MaxVersion
    BY <2>2, BoundAssumption DEF Leases
  <2> HIDE DEF w, l, q
  <2>5. /\ q \in RegistrationStates
        /\ q.version = r.version /\ q.snapshot = r.snapshot
        /\ q.pending = None /\ q.lease = l /\ q.synced = 0
    BY <1>1, <2>1, <2>3, <2>4 DEF RegistrationStates, Ends, Weakens
  <2>6. ~ Acknowledged(q)
    BY <2>5 DEF Acknowledged, RegistrationStates
  <2>7. LeaseOK(s, q, left, table[s], next_lease[s])
    BY <2>5, <2>6 DEF LeaseOK, InStep, AnswerOK, l
  <2> QED BY <2>5, <2>7 DEF Completes, q
<1> QED BY <1>2, <1>3

(* An Update that was accepted: the snapshot it carried is the table's. *)
LEMMA UpdateCompletes ==
    ASSUME NEW s \in Sessions, NEW r, NEW t, NEW answer, NEW left,
           InStep(s, r, t, answer, left), answer # None, answer.kind = "Ack",
           t.action = "Update"
    PROVE  Completes(s, r, t, UpdateSucceeded(r, t, answer), left)
<1> DEFINE q == UpdateSucceeded(r, t, answer)
           w == Taken(r, t)
<1>0. r \in RegistrationStates /\ r # None /\ t \in Tickets /\ t # None
  BY AbsenceAssumption DEF InStep
<1>1. w \in RegistrationStates /\ Ends(r, t, w)
  BY <1>0, TakenEnds
<1>2. CASE ~ IsPending(r, t) \/ answer.lease # t.lease \/ r.lease = None
  BY <1>1, <1>2, EndsCompletes DEF UpdateSucceeded
<1>3. CASE IsPending(r, t) /\ answer.lease = t.lease /\ r.lease # None
  <2>1. /\ r.pending = t /\ r.lease \in Leases /\ r.lease.id = t.lease
        /\ w = [r EXCEPT !.pending = None]
    BY <1>0, <1>3 DEF IsPending, LeaseOf, Taken, RegistrationStates
  <2>2. /\ t.revision = r.lease.revision + 1 /\ ~ Acknowledged(r)
        /\ t.version = r.version => t.snapshot = r.snapshot
    BY <1>0, <2>1 DEF InStep, TicketOK
  <2>3. t.revision \in Nat /\ t.version \in 0 .. MaxVersion /\ r.lease.revision \in Nat
    BY <1>0, <2>1, BoundAssumption DEF Tickets, Leases
  <2> DEFINE l == [id |-> t.lease, revision |-> t.revision]
             n == IF r.version = t.version THEN t.version ELSE r.synced
  <2>4. q = [w EXCEPT !.lease = l, !.synced = n, !.probe = FALSE,
                      !.validate = FALSE, !.waiting = FALSE, !.renew = FALSE]
    BY <1>0, <1>3, <2>1 DEF UpdateSucceeded, RegistrationStates
  <2>5. l \in Leases /\ n \in 0 .. MaxVersion
    BY <1>0, <2>1, <2>3 DEF Leases, RegistrationStates
  <2>6. Acknowledged(r) \/ r.synced # r.version
    BY <2>1, AbsenceAssumption DEF Acknowledged
  <2> HIDE DEF l, n, q
  <2>7. /\ q \in RegistrationStates
        /\ q.version = r.version /\ q.snapshot = r.snapshot
        /\ q.pending = None /\ q.lease = l /\ q.synced = n
    <3> HIDE DEF w
    <3>1. w.version = r.version /\ w.snapshot = r.snapshot /\ w.pending = None
      BY <1>1, <2>1 DEF Ends, Weakens
    <3> QED BY <1>1, <2>4, <2>5, <3>1 DEF RegistrationStates
  <2>8. Acknowledged(q) => t.version = r.version /\ t.snapshot = q.snapshot
    BY <2>2, <2>6, <2>7 DEF Acknowledged, n
  <2>9. /\ UpTo(left, s, t.lease, t.revision)
        /\ t.lease < next_lease[s]
    <3>1. r.lease.id < next_lease[s]
      BY <1>0, <1>3 DEF InStep, LeaseOK
    <3>2. UpTo(left, s, t.lease, t.revision)
      BY DEF InStep
    <3> QED BY <2>1, <3>1, <3>2
  <2>10. UpTo(left, s, t.lease, t.revision + 1)
    BY <2>3, <2>9, UpToMonotone DEF InStep
  <2>11. HoldsLease(table[s], t.lease) =>
            table[s].revision = t.revision /\ table[s].snapshot = t.snapshot
    BY DEF InStep, AnswerOK
  <2>12. LeaseOK(s, q, left, table[s], next_lease[s])
    BY <2>3, <2>7, <2>8, <2>9, <2>10, <2>11 DEF LeaseOK, l
  <2> QED BY <2>7, <2>12 DEF Completes, q
<1> QED BY <1>2, <1>3

(* However the request ends, its registration is in step with the rest. *)
LEMMA EveryEndCompletes ==
    ASSUME NEW s \in Sessions, NEW r, NEW t, NEW answer, NEW left,
           InStep(s, r, t, answer, left)
    PROVE  /\ answer # None => Completes(s, r, t, Applied(r, t, answer), left)
           /\ \A gives_up \in BOOLEAN : Completes(s, r, t, Failed(r, t, gives_up), left)
           /\ Completes(s, r, t, TransientFailure(r, t), left)
<1>0. r \in RegistrationStates /\ t \in Tickets
  BY DEF InStep
<1>1. /\ Completes(s, r, t, KeepAliveSucceeded(r, t, answer), left)
      /\ Completes(s, r, t, PreconditionFailed(r, t), left)
      /\ Completes(s, r, t, TransientFailure(r, t), left)
      /\ Completes(s, r, t, FinishDeregister(r, t), left)
  BY <1>0, FailuresEnd, EndsCompletes
<1>2. ASSUME answer # None
      PROVE  Completes(s, r, t, Applied(r, t, answer), left)
  <2>1. CASE t.action = "Deregister"
    BY <1>1, <2>1 DEF Applied
  <2>2. CASE t.action # "Deregister" /\ answer.kind = "FailedPrecondition"
    BY <1>1, <2>2 DEF Applied
  <2>3. CASE t.action # "Deregister" /\ answer.kind # "FailedPrecondition"
    <3>1. answer.kind = "Ack"
      BY <1>2, <2>3 DEF InStep, AnswerOK, Answers, Done, FailedPrecondition
    <3>2. CASE t.action = "Register"
      BY <1>2, <2>3, <3>1, <3>2, RegisterCompletes DEF Applied
    <3>3. CASE t.action = "Update"
      BY <1>2, <2>3, <3>1, <3>3, UpdateCompletes DEF Applied
    <3>4. CASE t.action \notin {"Register", "Update"}
      BY <1>1, <2>3, <3>4 DEF Applied
    <3> QED BY <3>2, <3>3, <3>4
  <2> QED BY <2>1, <2>2, <2>3
<1>3. ASSUME NEW gives_up \in BOOLEAN
      PROVE  Completes(s, r, t, Failed(r, t, gives_up), left)
  BY <1>1 DEF Failed
<1> QED BY <1>1, <1>2, <1>3

-----------------------------------------------------------------------------
(***************************************************************************)
(* The worker's loop.                                                      *)
(***************************************************************************)

(* What every event leaves to the loop, and the loop leaves to the next. *)
Settled(R, op, left, n) ==
    /\ R \in [Sessions -> {None} \cup RegistrationStates]
    /\ op \in {None} \cup Requests
    /\ left \in SUBSET Tickets
    /\ LeasesOK(R, op, left) /\ TicketsOK(R, op)
    /\ TableOK(op, left) /\ OperationOK(op, left)
    /\ n = CountsOf(R)

TableTypes ==
    /\ table \in [Sessions -> {None} \cup Entries]
    /\ next_lease \in [Sessions -> Nat \ {0}]

(* The registration wants the same as before, or nothing and is gone. *)
Kept(r, q) ==
    \/ q = None /\ (r = None \/ r.snapshot = None)
    \/ /\ q # None /\ r # None
       /\ q.version = r.version /\ q.snapshot = r.snapshot

(* The counters look at the wanted registrations only, and not at tickets. *)
LEMMA SameCounts ==
    ASSUME NEW R, NEW Q,
           \A s \in Sessions :
              LET wanted(S) == S[s] # None /\ S[s].snapshot # None IN
              /\ wanted(R) <=> wanted(Q)
              /\ wanted(R) => /\ IsSynced(R[s]) <=> IsSynced(Q[s])
                              /\ R[s].terminal <=> Q[s].terminal
    PROVE  CountsOf(R) = CountsOf(Q)
<1> DEFINE wanted(S) == {s \in Present(S) : S[s].snapshot # None}
           synced(S) == {s \in wanted(S) : IsSynced(S[s])}
           terminal(S) == {s \in wanted(S) : S[s].terminal}
<1>1. wanted(R) = wanted(Q) /\ synced(R) = synced(Q) /\ terminal(R) = terminal(Q)
  BY DEF Present
<1>2. \A S : CountsOf(S) = [synced   |-> Cardinality(synced(S)),
                            unsynced |-> Cardinality(wanted(S) \ synced(S)),
                            terminal |-> Cardinality(terminal(S))]
  BY DEF CountsOf
<1> HIDE DEF wanted, synced, terminal
<1> QED BY <1>1, <1>2

(* Dropping the removable registrations. *)
LEMMA PrunedKeeps ==
    ASSUME NEW R, NEW op, NEW left, NEW n, Settled(R, op, left, n)
    PROVE  /\ Settled(Pruned(R), op, left, n)
           /\ \A s \in Sessions : Kept(R[s], Pruned(R)[s])
<1> DEFINE K == Pruned(R)
<1>1. \A s \in Sessions : K[s] = R[s] \/ (K[s] = None /\ R[s] # None /\ R[s].snapshot = None)
  BY DEF Pruned, IsRemovable
<1>2. K \in [Sessions -> {None} \cup RegistrationStates]
  BY DEF Pruned, Settled
<1> HIDE DEF K
<1>3. CountsOf(R) = CountsOf(K)
  <2>1. ASSUME NEW s \in Sessions
        PROVE  /\ (R[s] # None /\ R[s].snapshot # None)
                     <=> (K[s] # None /\ K[s].snapshot # None)
               /\ (R[s] # None /\ R[s].snapshot # None) => R[s] = K[s]
    BY <1>1
  <2> QED BY <2>1, SameCounts
<1>4. LeasesOK(K, op, left)
  BY <1>1 DEF Settled, LeasesOK, LeaseOK
<1>5. TicketsOK(K, op)
  BY <1>1 DEF Settled, TicketsOK, TicketOK
<1>6. \A s \in Sessions : Kept(R[s], K[s])
  BY <1>1 DEF Kept
<1> QED BY <1>2, <1>3, <1>4, <1>5, <1>6 DEF Settled, K

(* What begin_next hands out. *)
LEMMA TicketIsOK ==
    ASSUME NEW s \in Sessions, NEW r \in RegistrationStates, NextAction(r) # None
    PROVE  LET t == Ticket(s, r) IN
           /\ t \in Tickets
           /\ t.session = s /\ t.lease = LeaseOf(r) /\ t.version = r.version
           /\ r.pending = None
           /\ t.action = "Update" =>
                 /\ r.lease # None /\ t.revision = r.lease.revision + 1
                 /\ t.snapshot = r.snapshot /\ ~ Acknowledged(r)
<1> DEFINE t == Ticket(s, r)
<1>1. /\ NextAction(r) \in {"Register", "Update", "KeepAlive", "Deregister"}
      /\ r.pending = None
      /\ NextAction(r) = "Update" => r.lease # None /\ r.synced # r.version
  BY DEF NextAction
<1>2. LeaseOf(r) \in Nat
  BY DEF LeaseOf, RegistrationStates, Leases
<1>3. NextAction(r) = "Update" => r.lease.revision + 1 \in Nat
  BY <1>1 DEF RegistrationStates, Leases
<1>4. r.version \in 1 .. MaxVersion /\ r.snapshot \in Snapshots \cup {None}
  BY DEF RegistrationStates
<1>5. /\ t.action = NextAction(r) /\ t.session = s /\ t.version = r.version
      /\ t.lease = LeaseOf(r)
      /\ t.action = "Update" => t.revision = r.lease.revision + 1 /\ t.snapshot = r.snapshot
  BY DEF Ticket
<1>6. t \in Tickets
  BY <1>1, <1>2, <1>3, <1>4 DEF Ticket, Tickets
<1> QED BY <1>1, <1>5, <1>6 DEF Acknowledged

(* The first registration that wants something gets its request. *)
LEMMA StartKeeps ==
    ASSUME TableTypes, NEW K, NEW left, NEW n, Settled(K, None, left, n),
           NEW s \in Sessions, K[s] # None, NextAction(K[s]) # None,
           NEW epoch \in Nat \ {0}
    PROVE  LET t == Ticket(s, K[s])
               Q == [K EXCEPT ![s] = [@ EXCEPT !.pending = t]]
           IN  /\ Settled(Q, [epoch |-> epoch, ticket |-> t, answer |-> None], left, n)
               /\ \A u \in Sessions : Kept(K[u], Q[u])
<1> DEFINE r == K[s]
           t == Ticket(s, r)
           q == [r EXCEPT !.pending = t]
           Q == [K EXCEPT ![s] = [@ EXCEPT !.pending = t]]
           op == [epoch |-> epoch, ticket |-> t, answer |-> None]
<1>0. r \in RegistrationStates /\ r # None
  BY DEF Settled
<1>1. /\ t \in Tickets
      /\ t.session = s /\ t.lease = LeaseOf(r) /\ t.version = r.version
      /\ r.pending = None
      /\ t.action = "Update" =>
            /\ r.lease # None /\ t.revision = r.lease.revision + 1
            /\ t.snapshot = r.snapshot /\ ~ Acknowledged(r)
  BY <1>0, TicketIsOK
<1> HIDE DEF t
<1>2. /\ q \in RegistrationStates /\ q # None
      /\ q.version = r.version /\ q.snapshot = r.snapshot /\ q.lease = r.lease
      /\ q.synced = r.synced /\ q.pending = t /\ q.terminal = r.terminal
      /\ q.validate = r.validate
  BY <1>0, <1>1, AbsenceAssumption DEF RegistrationStates
<1>3. /\ Q \in [Sessions -> {None} \cup RegistrationStates]
      /\ Q[s] = q /\ \A u \in Sessions \ {s} : Q[u] = K[u]
  BY <1>2 DEF Settled
<1>4. op \in Requests /\ op # None /\ op.ticket = t /\ op.answer = None
  BY <1>1, AbsenceAssumption DEF Requests
<1>5. InFlight(op) = {t} /\ InFlight(None) = {}
  BY <1>4 DEF InFlight
<1> HIDE DEF q, Q, op
<1>6. /\ Acknowledged(q) <=> Acknowledged(r)
      /\ IsSynced(q) <=> IsSynced(r)
      /\ LeaseOf(q) = LeaseOf(r)
  BY <1>2 DEF Acknowledged, IsSynced, LeaseOf
<1>7. CountsOf(K) = CountsOf(Q)
  <2>1. \A u \in Sessions :
          /\ (K[u] # None /\ K[u].snapshot # None) <=> (Q[u] # None /\ Q[u].snapshot # None)
          /\ (K[u] # None /\ K[u].snapshot # None) =>
                /\ IsSynced(K[u]) <=> IsSynced(Q[u])
                /\ K[u].terminal <=> Q[u].terminal
    <3> TAKE u \in Sessions
    <3>1. CASE u = s
      BY <1>0, <1>2, <1>3, <1>6, <3>1
    <3>2. CASE u # s
      BY <1>3, <3>2
    <3> QED BY <3>1, <3>2
  <2> QED BY <2>1, SameCounts
<1>8. left \in SUBSET Tickets
  BY DEF Settled
<1>9. \A u \in Sessions : LeaseOK(u, K[u], left, table[u], next_lease[u])
  BY <1>5 DEF Settled, LeasesOK
<1>10. LeasesOK(Q, op, left)
  <2> SUFFICES ASSUME NEW u \in Sessions
               PROVE  LeaseOK(u, Q[u], left \cup {t}, table[u], next_lease[u])
    BY <1>5 DEF LeasesOK
  <2>1. CASE u = s
    <3> SUFFICES ASSUME q.lease # None
                 PROVE  LeaseOK(s, q, left \cup {t}, table[s], next_lease[s])
      BY <1>3, <2>1 DEF LeaseOK
    <3>1. LeaseOK(s, r, left, table[s], next_lease[s])
      BY <1>9
    <3>2. r.lease \in Leases /\ r.lease.revision \in Nat /\ r.lease.id = t.lease
      BY <1>0, <1>1, <1>2 DEF RegistrationStates, Leases, LeaseOf
    <3>3. UpTo(left \cup {t}, s, r.lease.id, r.lease.revision + 1)
      BY <1>0, <1>1, <1>2, <3>1, <3>2 DEF LeaseOK, UpTo
    <3>4. Acknowledged(r) => UpTo(left \cup {t}, s, r.lease.id, r.lease.revision)
      BY <1>0, <1>1, <1>2, <3>1, <3>2 DEF LeaseOK, UpTo
    <3> QED BY <1>0, <1>2, <1>6, <3>1, <3>3, <3>4 DEF LeaseOK
  <2>2. CASE u # s
    <3>1. LeaseOK(u, K[u], left, table[u], next_lease[u]) /\ Q[u] = K[u]
      BY <1>3, <1>9, <2>2
    <3>2. \A lease, m : UpTo(left, u, lease, m) => UpTo(left \cup {t}, u, lease, m)
      BY <1>1, <2>2 DEF UpTo
    <3> QED BY <3>1, <3>2 DEF LeaseOK
  <2> QED BY <2>1, <2>2
<1>11. TicketsOK(Q, op)
  <2> SUFFICES ASSUME NEW u \in Sessions
               PROVE  TicketOK(u, Q[u], op)
    BY DEF TicketsOK
  <2>1. CASE u = s
    <3>1. r.version \in Nat
      BY <1>0 DEF RegistrationStates
    <3> QED BY <1>1, <1>2, <1>3, <1>4, <1>6, <2>1, <3>1 DEF TicketOK
  <2>2. CASE u # s
    <3>1. TicketOK(u, K[u], None)
      BY DEF Settled, TicketsOK
    <3> QED BY <1>3, <2>2, <3>1 DEF TicketOK
  <2> QED BY <2>1, <2>2
<1>12. LeaseOK(s, r, left, table[s], next_lease[s])
  BY <1>9
<1>13. TableOK(op, left)
  <2>1. ASSUME NEW u \in Sessions
        PROVE  EntryOK(u, table[u], left \cup {t}, next_lease[u])
    <3>1. EntryOK(u, table[u], left, next_lease[u])
      BY <1>5 DEF Settled, TableOK
    <3> SUFFICES ASSUME table[u] # None
                 PROVE  UpTo(left \cup {t}, u, table[u].lease, table[u].revision + 1)
      BY <3>1 DEF EntryOK
    <3>2. CASE u = s /\ t.lease = table[u].lease /\ t.action = "Update"
      <4>1. r.lease \in Leases /\ r.lease.id = t.lease /\ r.lease # None
        BY <1>0, <1>1, <3>2 DEF RegistrationStates, LeaseOf
      <4>2. r.lease.revision <= table[u].revision
        BY <1>0, <1>12, <3>2, <4>1 DEF LeaseOK, HoldsLease
      <4>3. table[u].revision \in Nat /\ r.lease.revision \in Nat
        BY <4>1 DEF TableTypes, Entries, Leases
      <4>4. t.revision <= table[u].revision + 1
        BY <1>1, <3>2, <4>2, <4>3
      <4> QED BY <3>1, <4>4 DEF EntryOK, UpTo
    <3>3. CASE ~ (u = s /\ t.lease = table[u].lease /\ t.action = "Update")
      BY <1>1, <3>1, <3>3 DEF EntryOK, UpTo
    <3> QED BY <3>2, <3>3
  <2>2. t.lease < next_lease[s]
    <3>1. next_lease[s] \in Nat \ {0}
      BY DEF TableTypes
    <3>2. CASE r.lease = None
      BY <1>1, <3>1, <3>2 DEF LeaseOf
    <3>3. CASE r.lease # None
      BY <1>0, <1>1, <1>12, <3>3 DEF LeaseOf, LeaseOK
    <3> QED BY <3>2, <3>3
  <2>3. \A x \in left : x.lease < next_lease[x.session]
    BY DEF Settled, TableOK
  <2> QED BY <1>1, <1>5, <2>1, <2>2, <2>3 DEF TableOK
<1>14. OperationOK(op, left)
  <2>1. ASSUME t.action = "Update"
        PROVE  UpTo(left, t.session, t.lease, t.revision)
    BY <1>0, <1>1, <1>12, <2>1 DEF LeaseOK, LeaseOf
  <2> QED BY <1>4, <2>1 DEF OperationOK
<1>15. Settled(Q, op, left, n)
  BY <1>3, <1>4, <1>7, <1>8, <1>10, <1>11, <1>13, <1>14 DEF Settled
<1>16. ASSUME NEW u \in Sessions
       PROVE  Kept(K[u], Q[u])
  BY <1>0, <1>2, <1>3 DEF Kept
<1> QED BY <1>15, <1>16 DEF Q, op, t

(* The loop leaves what the event left, with one more request perhaps. *)
LEMMA LoopKeeps ==
    ASSUME TableTypes, NEW R, NEW op, NEW left, NEW n, Settled(R, op, left, n),
           NEW epoch \in Nat, NEW end \in BOOLEAN, Loop(R, op, epoch, end, n)
    PROVE  /\ Settled(registrations', operation', left, counts')
           /\ \A s \in Sessions : Kept(R[s], registrations'[s])
           /\ \/ operation' = op
              \/ op = None /\ operation'.epoch = epoch /\ epoch # 0
           /\ connected' = epoch /\ worker_terminal' = end
<1> DEFINE K == Pruned(R)
           passes == op = None /\ ~ end /\ epoch # 0
           ready == {s \in Present(K) : NextAction(K[s]) # None}
<1>1. Settled(K, op, left, n) /\ \A s \in Sessions : Kept(R[s], K[s])
  BY PrunedKeeps
<1>2. CountsOf(K) = n
  BY <1>1 DEF Settled
<1>3. connected' = epoch /\ worker_terminal' = end
  BY DEF Loop
<1>4. counts' = n
  BY <1>2 DEF Loop
<1>5. CASE passes /\ ready # {}
  <2> DEFINE first == Min(ready)
             ticket == Ticket(first, K[first])
  <2>1. ready \subseteq Sessions
    BY DEF Present
  <2>2. first \in ready
    BY <1>5, <2>1, MinIsMember, SessionAssumption
  <2>3. /\ registrations' = [K EXCEPT ![first] = [@ EXCEPT !.pending = ticket]]
        /\ operation' = [epoch |-> epoch, ticket |-> ticket, answer |-> None]
    BY <1>5 DEF Loop
  <2>4. first \in Sessions /\ K[first] # None /\ NextAction(K[first]) # None
    BY <2>1, <2>2 DEF Present
  <2> HIDE DEF first, ready, K
  <2>5. /\ Settled(registrations', operation', left, n)
        /\ \A s \in Sessions : Kept(K[s], registrations'[s])
    <3>1. Settled(K, None, left, n) /\ epoch \in Nat \ {0}
      BY <1>1, <1>5
    <3>2. LET t == Ticket(first, K[first])
              Q == [K EXCEPT ![first] = [@ EXCEPT !.pending = t]]
          IN  /\ Settled(Q, [epoch |-> epoch, ticket |-> t, answer |-> None], left, n)
              /\ \A u \in Sessions : Kept(K[u], Q[u])
      BY <2>4, <3>1, StartKeeps
    <3> QED BY <2>3, <3>2
  <2>6. \A s \in Sessions : Kept(R[s], registrations'[s])
    BY <1>1, <2>5 DEF Kept
  <2>7. operation'.epoch = epoch
    BY <2>3
  <2> QED BY <1>3, <1>4, <1>5, <2>5, <2>6, <2>7
<1>6. CASE ~ (passes /\ ready # {})
  <2>1. registrations' = K /\ operation' = op
    BY <1>6 DEF Loop
  <2> QED BY <1>1, <1>3, <1>4, <2>1
<1> QED BY <1>5, <1>6

-----------------------------------------------------------------------------
(***************************************************************************)
(* What the events hand to the loop.                                       *)
(***************************************************************************)

(* Every registration loses something, as on a lost connection. *)
LEMMA WeakenAll ==
    ASSUME NEW R, NEW op, NEW left, NEW n, Settled(R, op, left, n),
           NEW Q \in [Sessions -> {None} \cup RegistrationStates],
           \A s \in Sessions : \/ R[s] = None /\ Q[s] = None
                               \/ R[s] # None /\ Q[s] # None /\ Weakens(R[s], Q[s])
    PROVE  /\ Settled(Q, op, left, CountsOf(Q))
           /\ \A s \in Sessions : Kept(R[s], Q[s])
<1>1. ASSUME NEW s \in Sessions
      PROVE  /\ LeaseOK(s, Q[s], left \cup InFlight(op), table[s], next_lease[s])
             /\ TicketOK(s, Q[s], op)
             /\ Kept(R[s], Q[s])
  <2>1. CASE R[s] = None /\ Q[s] = None
    BY <2>1 DEF LeaseOK, TicketOK, Kept
  <2>2. CASE R[s] # None /\ Q[s] # None /\ Weakens(R[s], Q[s])
    <3>1. R[s] \in RegistrationStates /\ Q[s] \in RegistrationStates
      BY <2>2 DEF Settled
    <3>2. /\ LeaseOK(s, R[s], left \cup InFlight(op), table[s], next_lease[s])
          /\ TicketOK(s, R[s], op)
      BY DEF Settled, LeasesOK, TicketsOK
    <3>3. Kept(R[s], Q[s])
      BY <2>2 DEF Kept, Weakens
    <3> QED BY <2>2, <3>1, <3>2, <3>3, WeakensKeeps
  <2> QED BY <2>1, <2>2
<1> QED BY <1>1 DEF Settled, LeasesOK, TicketsOK

(* The lost connection and the terminal shard. *)
LEMMA AllWeaken ==
    ASSUME NEW R, NEW op, NEW left, NEW n, Settled(R, op, left, n),
           NEW Q \in {AllConnectionLost(R), MarkAllTerminal(R)}
    PROVE  /\ Settled(Q, op, left, CountsOf(Q))
           /\ \A s \in Sessions : Kept(R[s], Q[s])
<1>1. ASSUME NEW s \in Sessions
      PROVE  /\ R[s] \in RegistrationStates =>
                   /\ ConnectionLost(R[s]) \in RegistrationStates
                   /\ Weakens(R[s], ConnectionLost(R[s]))
                   /\ MarkTerminal(R[s]) \in RegistrationStates
                   /\ Weakens(R[s], MarkTerminal(R[s]))
             /\ R[s] \in {None} \cup RegistrationStates
  BY EventsWeaken DEF Settled
<1>2. Q \in [Sessions -> {None} \cup RegistrationStates]
  BY <1>1 DEF AllConnectionLost, MarkAllTerminal
<1>3. \A s \in Sessions : \/ R[s] = None /\ Q[s] = None
                          \/ R[s] # None /\ Q[s] # None /\ Weakens(R[s], Q[s])
  <2> TAKE s \in Sessions
  <2>1. Q[s] = None \/ Q[s] # None
    OBVIOUS
  <2>2. CASE R[s] = None
    BY <2>2 DEF AllConnectionLost, MarkAllTerminal
  <2>3. CASE R[s] # None
    <3>1. Q[s] \in {ConnectionLost(R[s]), MarkTerminal(R[s])}
      BY <2>3 DEF AllConnectionLost, MarkAllTerminal
    <3>2. R[s] \in RegistrationStates
      BY <1>1, <2>3
    <3> QED BY <1>1, <2>3, <3>1, <3>2, AbsenceAssumption
  <2> QED BY <2>2, <2>3
<1> QED BY <1>2, <1>3, WeakenAll

(* What is known of the request in flight when it ends, and of one that is *)
(* left behind unanswered.                                                 *)
LEMMA InStepHolds ==
    ASSUME TableTypes, NEW R, NEW op, NEW left, NEW n, Settled(R, op, left, n),
           op # None, R[op.ticket.session] # None
    PROVE  LET t == op.ticket
               s == t.session
           IN  /\ InStep(s, R[s], t, op.answer, left)
               /\ InStep(s, R[s], t, None, left \cup {t})
<1> DEFINE t == op.ticket
           s == t.session
           r == R[s]
<1>1. t \in Tickets /\ op.answer \in {None} \cup Answers /\ s \in Sessions
  BY DEF Settled, Requests, Tickets
<1>2. r \in RegistrationStates
  BY <1>1 DEF Settled
<1>3. table[s] \in {None} \cup Entries /\ next_lease[s] \in Nat
  BY <1>1 DEF TableTypes
<1>4. /\ LeaseOK(s, r, left \cup {t}, table[s], next_lease[s])
      /\ TicketOK(s, r, op)
  BY <1>1 DEF Settled, LeasesOK, TicketsOK, InFlight
<1>5. /\ t.action = "Update" => UpTo(left, s, t.lease, t.revision)
      /\ op.answer # None => AnswerOK(t, op.answer, left, table[s], next_lease[s])
  BY DEF Settled, OperationOK
<1>6. left \in SUBSET Tickets
  BY DEF Settled
<1>7. InStep(s, r, t, op.answer, left)
  BY <1>1, <1>2, <1>3, <1>4, <1>5, <1>6 DEF InStep
<1>8. t.action = "Update" => UpTo(left \cup {t}, s, t.lease, t.revision)
  <2>1. t.revision \in Nat
    BY <1>1 DEF Tickets
  <2> QED BY <1>5, <2>1 DEF UpTo
<1>9. (left \cup {t}) \cup {t} = left \cup {t}
  OBVIOUS
<1>10. InStep(s, r, t, None, left \cup {t})
  BY <1>1, <1>2, <1>3, <1>4, <1>6, <1>8, <1>9 DEF InStep
<1> QED BY <1>7, <1>10

(* The request in flight has ended. *)
LEMMA CompletesKeeps ==
    ASSUME NEW op, NEW left, NEW n, Settled(registrations, op, left, n),
           op # None, NEW rest \in {left, left \cup {op.ticket}}, NEW q,
           LET s == op.ticket.session
           IN  registrations[s] # None => Completes(s, registrations[s], op.ticket, q, rest)
    PROVE  LET Q == Completed(op.ticket.session, q)
           IN  /\ Settled(Q, None, rest, CountsOf(Q))
               /\ \A s \in Sessions : Kept(registrations[s], Q[s])
<1> DEFINE t == op.ticket
           s == t.session
           R == registrations
           Q == Completed(s, q)
<1>1. t \in Tickets /\ s \in Sessions
  BY DEF Settled, Requests, Tickets
<1>2. R \in [Sessions -> {None} \cup RegistrationStates] /\ left \in SUBSET Tickets
  BY DEF Settled
<1>3. /\ \A u \in Sessions \ {s} : Q[u] = R[u]
      /\ IF R[s] = None THEN Q[s] = None ELSE Q[s] = q
      /\ R[s] # None => Completes(s, R[s], t, q, rest)
  BY <1>1, <1>2 DEF Completed
<1>4. Q \in [Sessions -> {None} \cup RegistrationStates]
  BY <1>2, <1>3 DEF Completed, Completes
<1> HIDE DEF Q
<1>5. /\ rest \in SUBSET (left \cup {t}) /\ left \cup {t} \in SUBSET Tickets
      /\ InFlight(None) = {} /\ InFlight(op) = {t} /\ rest \cup {} = rest
  BY <1>1, <1>2 DEF InFlight
<1>6. LeasesOK(Q, None, rest)
  <2> SUFFICES ASSUME NEW u \in Sessions
               PROVE  LeaseOK(u, Q[u], rest, table[u], next_lease[u])
    BY <1>5 DEF LeasesOK
  <2>1. LeaseOK(u, R[u], left \cup {t}, table[u], next_lease[u])
    BY <1>5 DEF Settled, LeasesOK
  <2>2. LeaseOK(u, R[u], rest, table[u], next_lease[u])
    BY <1>2, <1>5, <2>1, FewerRequests
  <2>3. CASE u # s
    BY <1>3, <2>2, <2>3
  <2>4. CASE u = s
    BY <1>3, <2>4 DEF Completes, LeaseOK
  <2> QED BY <2>3, <2>4
<1>7. TicketsOK(Q, None)
  <2> SUFFICES ASSUME NEW u \in Sessions, Q[u] # None
               PROVE  Q[u].pending = None
    BY DEF TicketsOK, TicketOK
  <2>1. TicketOK(u, R[u], op)
    BY DEF Settled, TicketsOK
  <2>2. R[u] # None => R[u].pending \in {None, t}
    BY <2>1 DEF TicketOK
  <2>3. CASE u # s
    BY <1>3, <2>1, <2>3 DEF TicketOK
  <2>4. CASE u = s
    BY <1>3, <2>2, <2>4 DEF Completes
  <2> QED BY <2>3, <2>4
<1>8. TableOK(None, rest)
  <2>1. ASSUME NEW u \in Sessions
        PROVE  EntryOK(u, table[u], rest, next_lease[u])
    <3>1. EntryOK(u, table[u], left \cup {t}, next_lease[u])
      BY <1>5 DEF Settled, TableOK
    <3> QED BY <1>5, <3>1 DEF EntryOK, UpTo
  <2>2. \A x \in rest : x.lease < next_lease[x.session]
    BY <1>5 DEF Settled, TableOK
  <2> QED BY <1>5, <2>1, <2>2 DEF TableOK
<1>9. OperationOK(None, rest)
  BY DEF OperationOK
<1>10. ASSUME NEW u \in Sessions
       PROVE  Kept(R[u], Q[u])
  <2>1. CASE u # s
    BY <1>3, <2>1 DEF Kept
  <2>2. CASE u = s
    BY <1>3, <2>2, AbsenceAssumption DEF Kept, Completes
  <2> QED BY <2>1, <2>2
<1>11. rest \in SUBSET Tickets
  BY <1>5
<1> QED BY <1>4, <1>6, <1>7, <1>8, <1>9, <1>10, <1>11 DEF Settled, Q

(* The counters are numbers. *)
LEMMA CountsAreNumbers ==
    ASSUME NEW R
    PROVE  CountsOf(R) \in [synced : Nat, unsynced : Nat, terminal : Nat]
<1> DEFINE wanted == {s \in Present(R) : R[s].snapshot # None}
           synced == {s \in wanted : IsSynced(R[s])}
           terminal == {s \in wanted : R[s].terminal}
<1>1. \A S \in SUBSET Sessions : IsFiniteSet(S) /\ Cardinality(S) \in Nat
  BY SessionAssumption, FS_Subset, FS_CardinalityType
<1>2. /\ synced \in SUBSET Sessions /\ wanted \ synced \in SUBSET Sessions
      /\ terminal \in SUBSET Sessions
  BY DEF Present
<1>3. CountsOf(R) = [synced   |-> Cardinality(synced),
                     unsynced |-> Cardinality(wanted \ synced),
                     terminal |-> Cardinality(terminal)]
  BY DEF CountsOf
<1> HIDE DEF wanted, synced, terminal
<1> QED BY <1>1, <1>2, <1>3

(* The loop's own changes do not touch what the store says. *)
LEMMA StoreKept ==
    ASSUME sessions \in [Sessions -> {None} \cup Desired],
           NEW R, NEW Q, NEW seen, NEW removals, StoreOK(R, seen, removals),
           \A s \in Sessions : Kept(R[s], Q[s])
    PROVE  StoreOK(Q, seen, removals)
<1>1. ASSUME NEW s \in Sessions, sessions[s] # None
      PROVE  sessions[s].snapshot # None
  BY <1>1, NoneAssumption DEF Desired
<1> QED BY <1>1 DEF StoreOK, Kept

(* What the events of the worker leave alone, or change within its type. *)
WorkerFrame ==
    /\ UNCHANGED <<store_version, sessions, withdrawn, stopped, routeTable, dead>>
    /\ connection_epoch' \in Nat /\ connection_epoch <= connection_epoch'
    /\ observed_version' \in 0 .. MaxVersion
    /\ removed' \in [Sessions -> 0 .. MaxVersion]
    /\ reconnect_wait' \in BOOLEAN
    /\ failure' \in {failure, None}
    /\ faults' \in 0 .. MaxFaults

(* An event of the worker followed by its loop. *)
LEMMA WorkerStep ==
    ASSUME IInv, WorkerFrame,
           NEW R, NEW op, NEW n, NEW epoch \in Nat, NEW end \in BOOLEAN,
           Loop(R, op, epoch, end, n),
           Settled(R, op, late', n),
           StoreOK(R, observed_version', removed'),
           epoch <= connection_epoch',
           op # None => op.epoch <= connection_epoch',
           end => refuses
    PROVE  IInv'
<1>1. TypeOK /\ TableTypes
  BY DEF IInv, TypeOK, TableTypes
<1>2. /\ Settled(registrations', operation', late', counts')
      /\ \A s \in Sessions : Kept(R[s], registrations'[s])
      /\ \/ operation' = op
         \/ op = None /\ operation'.epoch = epoch /\ epoch # 0
      /\ connected' = epoch /\ worker_terminal' = end
  BY <1>1, LoopKeeps
<1>3. StoreOK(registrations', observed_version', removed')
  <2>1. sessions \in [Sessions -> {None} \cup Desired]
    BY <1>1 DEF TypeOK
  <2> QED BY <1>2, <2>1, StoreKept
<1>4. TypeOK'
  <2>1. /\ registrations' \in [Sessions -> {None} \cup RegistrationStates]
        /\ operation' \in {None} \cup Requests
        /\ late' \subseteq Tickets
        /\ counts' = CountsOf(registrations')
    BY <1>2 DEF Settled
  <2>2. counts' \in [synced : Nat, unsynced : Nat, terminal : Nat]
    BY <2>1, CountsAreNumbers
  <2>3. operation' # None => operation'.epoch <= connection_epoch'
    BY <1>2
  <2>4. /\ connection_epoch' \in Nat /\ connected' \in 0 .. connection_epoch'
        /\ worker_terminal' \in BOOLEAN
    BY <1>2 DEF WorkerFrame
  <2>5. /\ failure' \in {None} \cup Failures
        /\ failure' # None => failure'.epoch <= connection_epoch'
    <3>1. failure # None => failure.epoch \in Nat
      BY <1>1 DEF TypeOK, Failures
    <3> QED BY <1>1, <3>1 DEF TypeOK, WorkerFrame
  <2>6. dead' \subseteq 1 .. connection_epoch'
    BY <1>1 DEF TypeOK, WorkerFrame
  <2>7. UNCHANGED <<store_version, sessions, withdrawn, stopped, table, next_lease, refuses>>
    BY DEF WorkerFrame, routeTable
  <2>8. /\ observed_version' \in 0 .. MaxVersion
        /\ removed' \in [Sessions -> 0 .. MaxVersion]
        /\ reconnect_wait' \in BOOLEAN /\ faults' \in 0 .. MaxFaults
    BY DEF WorkerFrame
  <2> QED BY <1>1, <2>1, <2>2, <2>3, <2>4, <2>5, <2>6, <2>7, <2>8 DEF TypeOK
<1>5. UNCHANGED <<store_version, sessions, stopped, table, next_lease, refuses>>
  BY DEF WorkerFrame, routeTable
<1>6. /\ LeasesOK(registrations, operation, late)'
      /\ TicketsOK(registrations, operation)'
      /\ TableOK(operation, late)'
      /\ OperationOK(operation, late)'
  BY <1>2, <1>5 DEF Settled, LeasesOK, TicketsOK, TableOK, OperationOK, AnswerOK
<1>7. StoreOK(registrations, observed_version, removed)'
  BY <1>3, <1>5 DEF StoreOK
<1>8. RefusalOK'
  BY <1>2, <1>5 DEF IInv, RefusalOK, WorkerFrame
<1>9. CountsAreExact'
  BY <1>2 DEF Settled, CountsAreExact
<1> QED BY <1>4, <1>6, <1>7, <1>8, <1>9 DEF IInv

-----------------------------------------------------------------------------
(***************************************************************************)
(* The steps.                                                              *)
(***************************************************************************)

(* The invariant holds of what the worker has now. *)
LEMMA InvariantSettles ==
    ASSUME IInv
    PROVE  /\ Settled(registrations, operation, late, counts)
           /\ TableTypes
           /\ StoreOK(registrations, observed_version, removed)
           /\ operation # None => operation.epoch <= connection_epoch
           /\ connected \in Nat /\ connected <= connection_epoch
           /\ connection_epoch \in Nat
<1>1. TypeOK
  BY DEF IInv
<1>2. Settled(registrations, operation, late, counts)
  BY <1>1 DEF IInv, TypeOK, Settled, CountsAreExact
<1> QED BY <1>1, <1>2 DEF IInv, TypeOK, TableTypes

(* One registration is told what the store says about its session. *)
LEMMA ReconciledIsOK ==
    ASSUME IInv, ~ stopped, NEW s \in Sessions
    PROVE  LET r == registrations[s]
               q == Reconciled(r, sessions[s], removed[s])
           IN  /\ q \in {None} \cup RegistrationStates
               /\ LeaseOK(s, q, late \cup InFlight(operation), table[s], next_lease[s])
               /\ TicketOK(s, q, operation)
               /\ q # None => q.version <= store_version
               /\ sessions[s] = None => q = None \/ q.snapshot = None
               /\ sessions[s] # None =>
                     /\ q # None
                     /\ q.snapshot = sessions[s].snapshot
                     /\ q.version = sessions[s].version
<1> DEFINE r == registrations[s]
           d == sessions[s]
           m == removed[s]
           q == Reconciled(r, d, m)
<1>1. /\ r \in {None} \cup RegistrationStates
      /\ d \in {None} \cup Desired
      /\ m \in 0 .. MaxVersion
      /\ store_version \in Nat /\ observed_version \in Nat
  BY BoundAssumption DEF IInv, TypeOK
<1>2. /\ LeaseOK(s, r, late \cup InFlight(operation), table[s], next_lease[s])
      /\ TicketOK(s, r, operation)
  BY DEF IInv, LeasesOK, TicketsOK
<1>3. /\ observed_version <= store_version
      /\ r # None => r.version <= observed_version
      /\ m # 0 => d = None /\ observed_version < m /\ m <= store_version
      /\ d # None => d.version <= store_version
      /\ d = None /\ m = 0 => r = None \/ r.snapshot = None
      /\ d # None /\ d.version <= observed_version =>
            r # None /\ r.snapshot = d.snapshot /\ r.version = d.version
  BY DEF IInv, StoreOK
<1> HIDE DEF r, d, m
<1>4. CASE d # None /\ d.version > observed_version /\ r = None
  <2>1. q = NewRegistration(d.version, d.snapshot)
    BY <1>4 DEF Reconciled
  <2>2. d.version \in 1 .. MaxVersion /\ d.snapshot \in Snapshots
    BY <1>1, <1>4 DEF Desired
  <2>3. q.version = d.version /\ q.snapshot = d.snapshot
    BY <2>1 DEF NewRegistration
  <2>4. q # None
    BY <2>1, <2>2, NewIsOK, AbsenceAssumption
  <2> HIDE DEF q
  <2> QED BY <1>3, <1>4, <2>1, <2>2, <2>3, <2>4, NewIsOK DEF q, r, d, m
<1>5. CASE d # None /\ d.version > observed_version /\ r # None
  <2>1. q = Publish(r, d.version, d.snapshot)
    BY <1>5 DEF Reconciled
  <2>2. d.version \in 1 .. MaxVersion /\ d.snapshot \in Snapshots /\ r \in RegistrationStates
    BY <1>1, <1>5 DEF Desired
  <2>3. d.version > r.version
    BY <1>1, <1>3, <1>5, <2>2 DEF RegistrationStates
  <2> HIDE DEF q
  <2>4. /\ q \in RegistrationStates /\ q # None
        /\ q.version = d.version /\ q.snapshot = d.snapshot
        /\ LeaseOK(s, q, late \cup InFlight(operation), table[s], next_lease[s])
        /\ TicketOK(s, q, operation)
    BY <1>2, <2>1, <2>2, <2>3, PublishIsOK, AbsenceAssumption DEF r
  <2> QED BY <1>3, <1>5, <2>4 DEF q, r, d, m
<1>6. CASE ~ (d # None /\ d.version > observed_version) /\ m # 0 /\ r # None
  <2>1. q = Publish(r, m, None) /\ d = None
    BY <1>3, <1>6 DEF Reconciled
  <2>2. m \in 1 .. MaxVersion /\ r \in RegistrationStates
    BY <1>1, <1>6, BoundAssumption
  <2>3. m > r.version
    BY <1>1, <1>3, <1>6, <2>2 DEF RegistrationStates
  <2> HIDE DEF q
  <2>4. /\ q \in RegistrationStates
        /\ q.version = m /\ q.snapshot = None
        /\ LeaseOK(s, q, late \cup InFlight(operation), table[s], next_lease[s])
        /\ TicketOK(s, q, operation)
    BY <1>2, <2>1, <2>2, <2>3, PublishIsOK DEF r
  <2> QED BY <1>3, <1>6, <2>1, <2>4 DEF q, r, d, m
<1>7. CASE ~ (d # None /\ d.version > observed_version) /\ ~ (m # 0 /\ r # None)
  <2>1. q = r
    BY <1>7 DEF Reconciled
  <2> HIDE DEF q
  <2>2. q # None => q.version <= store_version
    BY <1>1, <1>3, <2>1 DEF RegistrationStates
  <2>3. d = None => q = None \/ q.snapshot = None
    BY <1>3, <1>7, <2>1
  <2>4. d # None => d.version <= observed_version
    BY <1>1, <1>7 DEF Desired
  <2> QED BY <1>1, <1>2, <1>3, <2>1, <2>2, <2>3, <2>4 DEF q, r, d, m
<1> QED BY <1>4, <1>5, <1>6, <1>7

(* The worker reads the store. *)
LEMMA ReconcileStep == ASSUME IInv, Reconcile PROVE IInv'
<1> DEFINE R == [s \in Sessions |-> Reconciled(registrations[s], sessions[s], removed[s])]
<1>0. /\ ~ stopped
      /\ observed_version' = store_version
      /\ removed' = [s \in Sessions |-> 0]
      /\ Loop(R, operation, connected, worker_terminal, CountsOf(R))
      /\ UNCHANGED <<store_version, sessions, withdrawn, connection_epoch,
                     reconnect_wait, failure, stopped, routeTable, dead, late, faults>>
  BY DEF Reconcile
<1>1. ASSUME NEW s \in Sessions
      PROVE  /\ R[s] \in {None} \cup RegistrationStates
             /\ LeaseOK(s, R[s], late \cup InFlight(operation), table[s], next_lease[s])
             /\ TicketOK(s, R[s], operation)
             /\ R[s] # None => R[s].version <= store_version
             /\ sessions[s] = None => R[s] = None \/ R[s].snapshot = None
             /\ sessions[s] # None =>
                   /\ R[s] # None
                   /\ R[s].snapshot = sessions[s].snapshot
                   /\ R[s].version = sessions[s].version
  BY <1>0, ReconciledIsOK
<1>2. /\ Settled(registrations, operation, late, counts) /\ connected \in Nat
      /\ StoreOK(registrations, observed_version, removed)
      /\ operation # None => operation.epoch <= connection_epoch
      /\ connected <= connection_epoch
  BY InvariantSettles
<1>3. R \in [Sessions -> {None} \cup RegistrationStates]
  BY <1>1
<1> HIDE DEF R
<1>4. Settled(R, operation, late, CountsOf(R))
  BY <1>1, <1>2, <1>3 DEF Settled, LeasesOK, TicketsOK
<1>5. StoreOK(R, store_version, removed')
  <2>1. store_version \in Nat
    BY BoundAssumption DEF IInv, TypeOK
  <2>2. \A s \in Sessions : removed'[s] = 0
    BY <1>0
  <2>3. \A s \in Sessions : sessions[s] # None => sessions[s].version <= store_version
    BY <1>2 DEF StoreOK
  <2> QED BY <1>1, <2>1, <2>2, <2>3 DEF StoreOK
<1>6. WorkerFrame
  BY <1>0, BoundAssumption DEF WorkerFrame, IInv, TypeOK
<1>7. worker_terminal \in BOOLEAN /\ (worker_terminal => refuses)
  BY DEF IInv, TypeOK, RefusalOK
<1>8. /\ Settled(R, operation, late', CountsOf(R)) /\ StoreOK(R, observed_version', removed')
      /\ connected <= connection_epoch'
      /\ operation # None => operation.epoch <= connection_epoch'
  BY <1>0, <1>2, <1>4, <1>5
<1> QED BY <1>0, <1>2, <1>6, <1>7, <1>8, WorkerStep

(* The worker loses its connection or gives up on the shard. *)
LEMMA LossStep ==
    ASSUME IInv, WorkerFrame, UNCHANGED <<observed_version, removed>>,
           NEW R, NEW op, NEW n, Settled(R, op, late', n),
           StoreOK(R, observed_version, removed),
           op # None => op.epoch <= connection_epoch',
           LoseConnection(R, op) \/ (refuses /\ EnterTerminal(R, op))
    PROVE  IInv'
<1>0. sessions \in [Sessions -> {None} \cup Desired]
  BY DEF IInv, TypeOK
<1>1. connection_epoch' \in Nat /\ 0 <= connection_epoch'
  BY DEF WorkerFrame
<1>2. ASSUME NEW Q \in {AllConnectionLost(R), MarkAllTerminal(R)}
      PROVE  /\ Settled(Q, op, late', CountsOf(Q))
             /\ StoreOK(Q, observed_version', removed')
  <2>1. Settled(Q, op, late', CountsOf(Q)) /\ \A s \in Sessions : Kept(R[s], Q[s])
    BY AllWeaken
  <2>2. StoreOK(Q, observed_version, removed)
    BY <1>0, <2>1, StoreKept
  <2> QED BY <2>1, <2>2
<1>3. CASE LoseConnection(R, op)
  <2>1. Loop(AllConnectionLost(R), op, 0, FALSE, CountsOf(AllConnectionLost(R)))
    BY <1>3 DEF LoseConnection
  <2> QED BY <1>1, <1>2, <2>1, WorkerStep
<1>4. CASE refuses /\ EnterTerminal(R, op)
  <2>1. Loop(MarkAllTerminal(R), op, 0, TRUE, CountsOf(MarkAllTerminal(R)))
    BY <1>4 DEF EnterTerminal
  <2> QED BY <1>1, <1>2, <1>4, <2>1, WorkerStep
<1> QED BY <1>3, <1>4

(* The frame of an event that leaves the store alone. *)
LEMMA EventFrame ==
    ASSUME IInv, UNCHANGED <<store, observed_version, stopped, routeTable, dead>>,
           connection_epoch' \in {connection_epoch, connection_epoch + 1},
           reconnect_wait' \in {reconnect_wait, TRUE, FALSE},
           failure' \in {failure, None},
           faults' = faults \/ \E kind : Fault(kind)
    PROVE  WorkerFrame /\ UNCHANGED <<observed_version, removed>>
<1>1. TypeOK
  BY DEF IInv
<1>2. faults' \in 0 .. MaxFaults
  BY <1>1, BoundAssumption DEF TypeOK, Fault
<1>3. connection_epoch' \in Nat /\ connection_epoch <= connection_epoch'
  BY <1>1 DEF TypeOK
<1>4. UNCHANGED <<store_version, sessions, removed, withdrawn>>
  BY DEF store
<1>5. reconnect_wait' \in BOOLEAN
  BY <1>1 DEF TypeOK
<1> QED BY <1>1, <1>2, <1>3, <1>4, <1>5 DEF TypeOK, WorkerFrame

(* A connection attempt ends. *)
LEMMA ConnectSteps ==
    ASSUME IInv, ConnectSucceeds \/ ConnectFails \/ ConnectRefused
    PROVE  IInv'
<1>0. /\ Settled(registrations, operation, late, counts)
      /\ StoreOK(registrations, observed_version, removed)
      /\ operation # None => operation.epoch <= connection_epoch
      /\ connection_epoch \in Nat
      /\ operation # None => operation.epoch \in Nat
  BY InvariantSettles DEF IInv, TypeOK, Requests
<1>1. CASE ConnectSucceeds
  <2>1. WorkerFrame /\ UNCHANGED <<observed_version, removed>>
    BY <1>1, EventFrame DEF ConnectSucceeds
  <2>2. /\ Loop(registrations, operation, connection_epoch + 1, FALSE, counts)
        /\ late' = late /\ connection_epoch' = connection_epoch + 1
    BY <1>1 DEF ConnectSucceeds
  <2>3. /\ connection_epoch + 1 \in Nat /\ connection_epoch + 1 <= connection_epoch'
        /\ operation # None => operation.epoch <= connection_epoch'
    BY <1>0, <2>2
  <2>4. Settled(registrations, operation, late', counts)
        /\ StoreOK(registrations, observed_version', removed')
    BY <1>0, <2>1, <2>2
  <2> QED BY <2>1, <2>2, <2>3, <2>4, WorkerStep
<1>2. CASE ConnectFails
  <2>1. WorkerFrame /\ UNCHANGED <<observed_version, removed>>
    BY <1>2, EventFrame DEF ConnectFails
  <2>2. /\ Loop(registrations, operation, 0, FALSE, counts)
        /\ late' = late /\ connection_epoch' = connection_epoch
    BY <1>2 DEF ConnectFails
  <2>3. 0 \in Nat /\ 0 <= connection_epoch'
    BY <1>0, <2>2
  <2>4. /\ Settled(registrations, operation, late', counts)
        /\ StoreOK(registrations, observed_version', removed')
        /\ operation # None => operation.epoch <= connection_epoch'
    BY <1>0, <2>1, <2>2
  <2> QED BY <2>1, <2>2, <2>3, <2>4, WorkerStep
<1>3. CASE ConnectRefused
  <2>1. WorkerFrame /\ UNCHANGED <<observed_version, removed>>
    BY <1>3, EventFrame DEF ConnectRefused, EnterTerminal
  <2>2. /\ refuses /\ EnterTerminal(registrations, operation)
        /\ late' = late /\ connection_epoch' = connection_epoch
    BY <1>3 DEF ConnectRefused
  <2>3. /\ Settled(registrations, operation, late', counts)
        /\ operation # None => operation.epoch <= connection_epoch'
    BY <1>0, <2>2
  <2> QED BY <1>0, <2>1, <2>2, <2>3, LossStep
<1> QED BY <1>1, <1>2, <1>3

(* The worker reads what a failed Resolve reported. *)
LEMMA ClientFailureStep == ASSUME IInv, ClientFailureSeen PROVE IInv'
<1>0. /\ Settled(registrations, operation, late, counts)
      /\ StoreOK(registrations, observed_version, removed)
      /\ operation # None => operation.epoch <= connection_epoch
  BY InvariantSettles
<1>1. /\ failure # None /\ failure' = None
      /\ UNCHANGED <<store, observed_version, stopped, routeTable, dead, late, faults>>
  BY DEF ClientFailureSeen
<1>2. CASE failure.epoch # connected /\ UNCHANGED worker
  <2>1. /\ UNCHANGED <<registrations, operation, counts, connected, connection_epoch,
                       reconnect_wait, worker_terminal, store_version, sessions,
                       removed, withdrawn, table, next_lease, refuses>>
    BY <1>1, <1>2 DEF worker, client, store, routeTable
  <2>2. TypeOK'
    BY <1>1, <2>1 DEF IInv, TypeOK
  <2>3. RefusalOK'
    BY <1>1, <2>1 DEF IInv, RefusalOK
  <2> QED BY <1>1, <2>1, <2>2, <2>3 DEF IInv, LeasesOK, TicketsOK, TableOK,
             OperationOK, AnswerOK, StoreOK, CountsAreExact
<1>3. CASE /\ IF failure.terminal THEN EnterTerminal(registrations, operation)
              ELSE LoseConnection(registrations, operation)
           /\ UNCHANGED connection_epoch
  <2>1. reconnect_wait' \in {reconnect_wait, TRUE, FALSE}
    BY <1>3 DEF EnterTerminal, LoseConnection
  <2>2. WorkerFrame /\ UNCHANGED <<observed_version, removed>>
    BY <1>1, <1>3, <2>1, EventFrame
  <2>3. failure.terminal => refuses
    BY <1>1 DEF IInv, RefusalOK
  <2>4. \/ LoseConnection(registrations, operation)
        \/ refuses /\ EnterTerminal(registrations, operation)
    BY <1>3, <2>3
  <2>5. /\ Settled(registrations, operation, late', counts)
        /\ operation # None => operation.epoch <= connection_epoch'
    BY <1>0, <1>1, <1>3
  <2> QED BY <1>0, <2>2, <2>4, <2>5, LossStep
<1> QED BY <1>2, <1>3 DEF ClientFailureSeen

(* The timers of one registration. *)
LEMMA TimerSteps ==
    ASSUME IInv, NEW s \in Sessions, RetryDue(s) \/ KeepAliveDue(s)
    PROVE  IInv'
<1> DEFINE r == registrations[s]
<1>0. /\ Settled(registrations, operation, late, counts)
      /\ StoreOK(registrations, observed_version, removed)
      /\ operation # None => operation.epoch <= connection_epoch
      /\ connected \in Nat /\ connected <= connection_epoch
  BY InvariantSettles
<1>1. r \in RegistrationStates /\ r # None
  BY <1>0 DEF Settled, RetryDue, KeepAliveDue
<1>2. PICK q \in {[r EXCEPT !.waiting = FALSE], [r EXCEPT !.renew = TRUE]} :
          /\ Loop([registrations EXCEPT ![s] = q], operation, connected,
                  worker_terminal, counts)
          /\ UNCHANGED <<store, observed_version, connection_epoch, reconnect_wait,
                         failure, stopped, routeTable, dead, late, faults>>
  BY DEF RetryDue, KeepAliveDue
<1> DEFINE Q == [registrations EXCEPT ![s] = q]
<1>3. /\ q \in RegistrationStates /\ Weakens(r, q) /\ q # None
      /\ q.snapshot = r.snapshot /\ (IsSynced(q) <=> IsSynced(r))
      /\ q.terminal = r.terminal
  <2>1. q \in RegistrationStates /\ Weakens(r, q)
    BY <1>1, EventsWeaken
  <2>2. /\ q.snapshot = r.snapshot /\ q.terminal = r.terminal /\ q.lease = r.lease
        /\ q.validate = r.validate /\ q.synced = r.synced /\ q.version = r.version
    BY <1>1 DEF RegistrationStates
  <2> QED BY <2>1, <2>2, AbsenceAssumption DEF IsSynced
<1>4. /\ Q \in [Sessions -> {None} \cup RegistrationStates]
      /\ Q[s] = q /\ \A u \in Sessions \ {s} : Q[u] = registrations[u]
  BY <1>0, <1>3 DEF Settled
<1> HIDE DEF Q
<1>5. ASSUME NEW u \in Sessions
      PROVE  \/ registrations[u] = None /\ Q[u] = None
             \/ /\ registrations[u] # None /\ Q[u] # None
                /\ Weakens(registrations[u], Q[u])
  <2>1. CASE u = s
    BY <1>1, <1>3, <1>4, <2>1
  <2>2. CASE u # s
    BY <1>4, <2>2 DEF Weakens
  <2> QED BY <2>1, <2>2
<1>6. CountsOf(registrations) = CountsOf(Q)
  <2>1. ASSUME NEW u \in Sessions
        PROVE  \/ Q[u] = registrations[u]
               \/ /\ Q[u] = q /\ registrations[u] = r
    BY <1>4
  <2>2. ASSUME NEW u \in Sessions
        PROVE  /\ (registrations[u] # None /\ registrations[u].snapshot # None)
                     <=> (Q[u] # None /\ Q[u].snapshot # None)
               /\ IsSynced(registrations[u]) <=> IsSynced(Q[u])
               /\ registrations[u].terminal <=> Q[u].terminal
    BY <1>1, <1>3, <2>1
  <2> QED BY <2>2, SameCounts
<1>7. Settled(Q, operation, late, counts)
      /\ \A u \in Sessions : Kept(registrations[u], Q[u])
  <2>1. counts = CountsOf(Q)
    BY <1>0, <1>6 DEF Settled
  <2> QED BY <1>0, <1>4, <1>5, <2>1, WeakenAll
<1>8. StoreOK(Q, observed_version, removed)
  <2>1. sessions \in [Sessions -> {None} \cup Desired]
    BY DEF IInv, TypeOK
  <2> QED BY <1>0, <1>7, <2>1, StoreKept
<1>9. WorkerFrame /\ UNCHANGED <<observed_version, removed>>
  BY <1>2, EventFrame
<1>10. worker_terminal \in BOOLEAN /\ (worker_terminal => refuses)
  BY DEF IInv, TypeOK, RefusalOK
<1>11. /\ Settled(Q, operation, late', counts) /\ StoreOK(Q, observed_version', removed')
       /\ connected <= connection_epoch'
       /\ operation # None => operation.epoch <= connection_epoch'
       /\ Loop(Q, operation, connected, worker_terminal, counts)
  BY <1>0, <1>2, <1>7, <1>8, <1>9 DEF Q
<1> QED BY <1>0, <1>9, <1>10, <1>11, WorkerStep

(***************************************************************************)
(* The request in flight ends, with an answer, with an error or throttled. *)
(* Whatever its registration is turned into, the worker is in step.        *)
(***************************************************************************)
LEMMA EndedKeeps ==
    ASSUME IInv, operation # None,
           NEW rest, NEW q,
           LET t == operation.ticket
               r == registrations[t.session]
           IN  \/ /\ rest = late
                  /\ \/ operation.answer # None /\ q = Applied(r, t, operation.answer)
                     \/ q = TransientFailure(r, t)
                     \/ \E gives_up \in BOOLEAN : q = Failed(r, t, gives_up)
               \/ /\ rest = late \cup {t}
                  /\ \/ q = TransientFailure(r, t)
                     \/ \E gives_up \in BOOLEAN : q = Failed(r, t, gives_up)
    PROVE  LET Q == Completed(operation.ticket.session, q)
           IN  /\ Settled(Q, None, rest, CountsOf(Q))
               /\ StoreOK(Q, observed_version, removed)
<1> DEFINE t == operation.ticket
           s == t.session
           r == registrations[s]
           Q == Completed(s, q)
<1>0. /\ Settled(registrations, operation, late, counts) /\ TableTypes
      /\ StoreOK(registrations, observed_version, removed)
      /\ sessions \in [Sessions -> {None} \cup Desired]
      /\ s \in Sessions
  BY InvariantSettles DEF IInv, TypeOK, Requests, Tickets
<1>1. rest \in {late, late \cup {t}}
  OBVIOUS
<1>2. ASSUME r # None
      PROVE  Completes(s, r, t, q, rest)
  <2>1. InStep(s, r, t, operation.answer, late) /\ InStep(s, r, t, None, late \cup {t})
    BY <1>0, <1>2, InStepHolds
  <2>2. /\ operation.answer # None => Completes(s, r, t, Applied(r, t, operation.answer), late)
        /\ \A gives_up \in BOOLEAN : Completes(s, r, t, Failed(r, t, gives_up), late)
        /\ Completes(s, r, t, TransientFailure(r, t), late)
    BY <1>0, <2>1, EveryEndCompletes
  <2>3. /\ \A gives_up \in BOOLEAN :
              Completes(s, r, t, Failed(r, t, gives_up), late \cup {t})
        /\ Completes(s, r, t, TransientFailure(r, t), late \cup {t})
    BY <1>0, <2>1, EveryEndCompletes
  <2> QED BY <2>2, <2>3
<1>3. Settled(Q, None, rest, CountsOf(Q)) /\ \A u \in Sessions : Kept(registrations[u], Q[u])
  BY <1>0, <1>1, <1>2, CompletesKeeps
<1>4. StoreOK(Q, observed_version, removed)
  BY <1>0, <1>3, StoreKept
<1> QED BY <1>3, <1>4

(* The loop after a request ended, with the connection as it was. *)
LEMMA EndedLoopStep ==
    ASSUME IInv, WorkerFrame, UNCHANGED <<observed_version, removed>>,
           NEW Q, Settled(Q, None, late', CountsOf(Q)),
           StoreOK(Q, observed_version, removed),
           Loop(Q, None, connected, worker_terminal, CountsOf(Q))
    PROVE  IInv'
<1>1. /\ connected \in Nat /\ connected <= connection_epoch
      /\ worker_terminal \in BOOLEAN /\ (worker_terminal => refuses)
      /\ connection_epoch \in Nat
  BY InvariantSettles DEF IInv, TypeOK, RefusalOK
<1>2. connected <= connection_epoch'
  BY <1>1 DEF WorkerFrame
<1>3. StoreOK(Q, observed_version', removed')
  OBVIOUS
<1> QED BY <1>1, <1>2, <1>3, WorkerStep

(* The worker takes the answer to its request. *)
LEMMA OperationCompletesStep == ASSUME IInv, OperationCompletes PROVE IInv'
<1> DEFINE t == operation.ticket
           s == t.session
           r == registrations[s]
           of_this == operation.epoch = connected
           q == IF of_this THEN Applied(r, t, operation.answer) ELSE TransientFailure(r, t)
           Q == Completed(s, q)
<1>1. /\ operation # None /\ operation.answer # None
      /\ UNCHANGED <<store, observed_version, connection_epoch, failure, stopped,
                     routeTable, dead, late, faults>>
      /\ IF of_this /\ r # None /\ RefusesShard(t) THEN EnterTerminal(Q, None)
         ELSE /\ Loop(Q, None, connected, worker_terminal, CountsOf(Q))
              /\ UNCHANGED reconnect_wait
  BY DEF OperationCompletes
<1> HIDE DEF q
<1>2. Settled(Q, None, late, CountsOf(Q)) /\ StoreOK(Q, observed_version, removed)
  <2>1. \/ q = Applied(r, t, operation.answer)
        \/ q = TransientFailure(r, t)
    BY DEF q
  <2> QED BY <1>1, <2>1, EndedKeeps
<1>3. Settled(Q, None, late', CountsOf(Q))
  BY <1>1, <1>2
<1> HIDE DEF Q
<1>4. CASE RefusesShard(t) /\ EnterTerminal(Q, None)
  <2>1. WorkerFrame /\ UNCHANGED <<observed_version, removed>>
    BY <1>1, <1>4, EventFrame DEF EnterTerminal
  <2>2. refuses
    <3>1. AnswerOK(t, operation.answer, late, table[s], next_lease[s])
      BY <1>1 DEF IInv, OperationOK
    <3> QED BY <1>4, <3>1 DEF AnswerOK, RefusesShard
  <2> QED BY <1>2, <1>3, <1>4, <2>1, <2>2, LossStep
<1>5. CASE /\ Loop(Q, None, connected, worker_terminal, CountsOf(Q))
           /\ UNCHANGED reconnect_wait
  <2>1. WorkerFrame /\ UNCHANGED <<observed_version, removed>>
    BY <1>1, <1>5, EventFrame
  <2> QED BY <1>2, <1>3, <1>5, <2>1, EndedLoopStep
<1> QED BY <1>1, <1>4, <1>5

(* The request in flight fails and may stay behind. *)
LEMMA OperationFailsStep == ASSUME IInv, OperationFails PROVE IInv'
<1> DEFINE t == operation.ticket
           s == t.session
           r == registrations[s]
<1>1. /\ operation # None
      /\ UNCHANGED <<store, observed_version, connection_epoch, failure, stopped,
                     routeTable, dead>>
      /\ faults' = faults \/ Fault("request")
      /\ late' = late \/ late' = late \cup {t}
  BY DEF OperationFails
<1>2. CASE /\ \E R \in {Completed(s, TransientFailure(r, t))} :
                 Loop(R, None, connected, worker_terminal, CountsOf(R))
           /\ UNCHANGED reconnect_wait
  <2> DEFINE Q == Completed(s, TransientFailure(r, t))
  <2>1. WorkerFrame /\ UNCHANGED <<observed_version, removed>>
    BY <1>1, <1>2, EventFrame
  <2>2. Settled(Q, None, late', CountsOf(Q)) /\ StoreOK(Q, observed_version, removed)
    BY <1>1, EndedKeeps
  <2> HIDE DEF Q
  <2>3. Loop(Q, None, connected, worker_terminal, CountsOf(Q))
    BY <1>2 DEF Q
  <2> QED BY <2>1, <2>2, <2>3, EndedLoopStep
<1>3. ASSUME NEW gives_up \in BOOLEAN,
             LoseConnection(Completed(s, Failed(r, t, gives_up)), None)
      PROVE  IInv'
  <2> DEFINE Q == Completed(s, Failed(r, t, gives_up))
  <2>1. WorkerFrame /\ UNCHANGED <<observed_version, removed>>
    BY <1>1, <1>3, EventFrame DEF LoseConnection
  <2>2. Settled(Q, None, late', CountsOf(Q)) /\ StoreOK(Q, observed_version, removed)
    BY <1>1, EndedKeeps
  <2> HIDE DEF Q
  <2>3. LoseConnection(Q, None)
    BY <1>3 DEF Q
  <2> QED BY <2>1, <2>2, <2>3, LossStep
<1> QED BY <1>2, <1>3 DEF OperationFails

(* The request in flight finds a full queue. *)
LEMMA OperationThrottledStep == ASSUME IInv, OperationThrottled PROVE IInv'
<1> DEFINE t == operation.ticket
           s == t.session
           r == registrations[s]
<1>1. /\ operation # None
      /\ UNCHANGED <<store, observed_version, connection_epoch, reconnect_wait,
                     failure, stopped, routeTable, dead, late>>
      /\ Fault("throttle")
  BY DEF OperationThrottled
<1>2. PICK gives_up \in BOOLEAN :
          LET R == Completed(s, Failed(r, t, gives_up))
          IN  Loop(R, None, connected, worker_terminal, CountsOf(R))
  BY DEF OperationThrottled
<1> DEFINE Q == Completed(s, Failed(r, t, gives_up))
<1>3. WorkerFrame /\ UNCHANGED <<observed_version, removed>>
  BY <1>1, EventFrame
<1>4. Settled(Q, None, late', CountsOf(Q)) /\ StoreOK(Q, observed_version, removed)
  BY <1>1, EndedKeeps
<1> HIDE DEF Q
<1>5. Loop(Q, None, connected, worker_terminal, CountsOf(Q))
  BY <1>2 DEF Q
<1> QED BY <1>3, <1>4, <1>5, EndedLoopStep

(***************************************************************************)
(* What a step of the RouteTable may do to the entry of a session: drop    *)
(* it, give out a fresh lease, or accept a later revision that one of the  *)
(* requests carries.                                                       *)
(***************************************************************************)
Advances(s, requests, entry, e, fresh, next) ==
    /\ fresh \in Nat /\ next \in Nat /\ fresh <= next
    /\ entry \in {None} \cup Entries /\ e \in {None} \cup Entries
    /\ \/ e = None
       \/ e = entry
       \/ e.lease = fresh /\ e.revision = 0 /\ next = fresh + 1
       \/ /\ entry # None /\ e.lease = entry.lease /\ entry.revision < e.revision
          /\ \E x \in requests :
                /\ x.action = "Update" /\ x.session = s /\ x.lease = e.lease
                /\ x.revision = e.revision

(* A request is executed. *)
LEMMA ExecuteAdvances ==
    ASSUME TableTypes, NEW requests \in SUBSET Tickets, NEW t \in requests,
           EntryOK(t.session, table[t.session], requests, next_lease[t.session]),
           Execute(t)
    PROVE  /\ table' \in [Sessions -> {None} \cup Entries]
           /\ next_lease' \in [Sessions -> Nat \ {0}]
           /\ table'[t.session] = Registered(t)
           /\ refuses' = refuses
           /\ \A s \in Sessions :
                 Advances(s, requests, table[s], table'[s], next_lease[s], next_lease'[s])
<1> DEFINE s == t.session
           f == next_lease[s]
           entry == table[s]
           e == Registered(t)
<1>1. /\ t \in Tickets /\ s \in Sessions /\ t.lease \in Nat /\ t.revision \in Nat
      /\ t.snapshot \in Snapshots \cup {None}
  BY DEF Tickets
<1>2. /\ f \in Nat \ {0} /\ entry \in {None} \cup Entries
      /\ entry # None => entry.lease \in Nat \ {0} /\ entry.revision \in Nat
  BY <1>1 DEF TableTypes, Entries
<1>3. entry # None => entry.lease < f
  BY DEF EntryOK
<1>4. \/ e = None
      \/ e = entry
      \/ e = [lease |-> f, revision |-> 0, snapshot |-> None]
      \/ /\ entry # None /\ entry.lease = t.lease
         /\ e = [lease |-> t.lease, revision |-> t.revision, snapshot |-> t.snapshot]
         /\ t.action = "Update" /\ entry.revision < t.revision
  <2>1. CASE /\ t.action = "Update" /\ ~ refuses /\ Holds(s, t.lease)
             /\ Accepts(entry, t.revision, t.snapshot)
    <3>1. /\ e = [lease |-> t.lease, revision |-> t.revision, snapshot |-> t.snapshot]
          /\ entry # None /\ entry.lease = t.lease
      BY <2>1 DEF Registered, Holds
    <3>2. CASE t.revision = entry.revision /\ t.snapshot = entry.snapshot
      BY <1>2, <3>1, <3>2 DEF Entries
    <3>3. CASE IF entry.revision = 0 THEN t.revision = 1 ELSE t.revision > entry.revision
      <4>1. entry.revision < t.revision
        BY <1>1, <1>2, <3>1, <3>3
      <4> QED BY <2>1, <3>1, <4>1
    <3> QED BY <2>1, <3>2, <3>3 DEF Accepts
  <2>2. CASE ~ (/\ t.action = "Update" /\ ~ refuses /\ Holds(s, t.lease)
                /\ Accepts(entry, t.revision, t.snapshot))
    BY <2>2 DEF Registered
  <2> QED BY <2>1, <2>2
<1> HIDE DEF e
<1>5. e \in {None} \cup Entries
  BY <1>1, <1>2, <1>4 DEF Entries
<1>6. /\ table' = [table EXCEPT ![s] = e]
      /\ next_lease' = [next_lease EXCEPT ![s] =
                           IF e # None /\ e.lease = f THEN f + 1 ELSE f]
      /\ refuses' = refuses
  BY DEF Execute, e
<1>7. /\ table' \in [Sessions -> {None} \cup Entries] /\ table'[s] = e
      /\ \A u \in Sessions \ {s} : table'[u] = table[u]
  BY <1>1, <1>5, <1>6 DEF TableTypes
<1>8. /\ next_lease' \in [Sessions -> Nat \ {0}]
      /\ next_lease'[s] = IF e # None /\ e.lease = f THEN f + 1 ELSE f
      /\ \A u \in Sessions \ {s} : next_lease'[u] = next_lease[u]
  BY <1>1, <1>2, <1>6 DEF TableTypes
<1>9. Advances(s, requests, entry, e, f, next_lease'[s])
  <2>1. next_lease'[s] \in Nat /\ f <= next_lease'[s]
    BY <1>2, <1>8
  <2>2. CASE e = None \/ e = entry
    BY <1>2, <1>5, <2>1, <2>2 DEF Advances
  <2>3. CASE e = [lease |-> f, revision |-> 0, snapshot |-> None]
    <3>1. e # None
      BY <1>2, <2>3, AbsenceAssumption DEF Entries
    <3> QED BY <1>2, <1>5, <1>8, <2>1, <2>3, <3>1 DEF Advances
  <2>4. CASE /\ entry # None /\ entry.lease = t.lease
             /\ e = [lease |-> t.lease, revision |-> t.revision, snapshot |-> t.snapshot]
             /\ t.action = "Update" /\ entry.revision < t.revision
    BY <1>2, <1>5, <2>1, <2>4 DEF Advances
  <2> QED BY <1>4, <2>2, <2>3, <2>4
<1>10. ASSUME NEW u \in Sessions \ {s}
       PROVE  Advances(u, requests, table[u], table'[u], next_lease[u], next_lease'[u])
  BY <1>7, <1>8 DEF Advances, TableTypes
<1> QED BY <1>6, <1>7, <1>8, <1>9, <1>10 DEF e

(* Such a step keeps everything in step with the requests that remain. *)
LEMMA AdvancesKeeps ==
    ASSUME NEW s \in Sessions, NEW requests \in SUBSET Tickets,
           NEW entry, NEW e, NEW fresh, NEW next,
           Advances(s, requests, entry, e, fresh, next),
           EntryOK(s, entry, requests, fresh),
           \A x \in requests : x.session = s => x.lease < fresh
    PROVE  /\ EntryOK(s, e, requests, next)
           /\ \A r \in {None} \cup RegistrationStates :
                 LeaseOK(s, r, requests, entry, fresh)
                    => LeaseOK(s, r, requests, e, next)
           /\ \A t \in Tickets, answer \in Answers, left \in SUBSET requests :
                 /\ AnswerOK(t, answer, left, entry, fresh) /\ t.session = s
                 /\ requests \subseteq left \cup {t}
                 /\ t.action = "Update" => UpTo(left, s, t.lease, t.revision)
                 => AnswerOK(t, answer, left, e, next)
<1>0. /\ fresh \in Nat /\ next \in Nat /\ fresh <= next
      /\ entry # None => entry.lease \in Nat /\ entry.revision \in Nat
      /\ e # None => e.lease \in Nat /\ e.revision \in Nat
  BY DEF Advances, Entries
<1>1. ASSUME NEW lease \in Nat, lease < fresh, HoldsLease(e, lease), e # entry
      PROVE  /\ HoldsLease(entry, lease) /\ entry.revision < e.revision
             /\ \E x \in requests :
                   /\ x.action = "Update" /\ x.session = s /\ x.lease = lease
                   /\ x.revision = e.revision
  BY <1>0, <1>1 DEF Advances, HoldsLease
<1>2. EntryOK(s, e, requests, next)
  <2> SUFFICES ASSUME e # None
               PROVE  e.lease < next /\ UpTo(requests, s, e.lease, e.revision + 1)
    BY DEF EntryOK
  <2>1. CASE e = entry
    BY <1>0, <2>1 DEF EntryOK
  <2>2. CASE e.lease = fresh /\ e.revision = 0 /\ next = fresh + 1
    <3>1. ASSUME NEW x \in requests, x.session = s, x.lease = fresh
          PROVE  FALSE
      BY <1>0, <3>1
    <3> QED BY <1>0, <2>2, <3>1 DEF UpTo
  <2>3. CASE entry # None /\ e.lease = entry.lease /\ entry.revision < e.revision
    <3>1. UpTo(requests, s, entry.lease, entry.revision + 1) /\ entry.lease < fresh
      BY <2>3 DEF EntryOK
    <3>2. UpTo(requests, s, e.lease, e.revision + 1)
      <4>1. entry.revision + 1 \in Nat /\ e.revision + 1 \in Nat
            /\ entry.revision + 1 <= e.revision + 1
        BY <1>0, <2>3
      <4> QED BY <2>3, <3>1, <4>1, UpToMonotone
    <3> QED BY <1>0, <2>3, <3>1, <3>2
  <2> QED BY <2>1, <2>2, <2>3 DEF Advances
<1>3. ASSUME NEW r \in {None} \cup RegistrationStates,
             LeaseOK(s, r, requests, entry, fresh)
      PROVE  LeaseOK(s, r, requests, e, next)
  <2> SUFFICES ASSUME r # None, r.lease # None
               PROVE  LeaseOK(s, r, requests, e, next)
    BY DEF LeaseOK
  <2>1. r.lease.id \in Nat /\ r.lease.revision \in Nat
    BY DEF RegistrationStates, Leases
  <2>2. /\ r.lease.id < fresh
        /\ UpTo(requests, s, r.lease.id, r.lease.revision + 1)
        /\ HoldsLease(entry, r.lease.id) => r.lease.revision <= entry.revision
        /\ Acknowledged(r) =>
              /\ UpTo(requests, s, r.lease.id, r.lease.revision)
              /\ HoldsLease(entry, r.lease.id) =>
                    entry.revision = r.lease.revision /\ entry.snapshot = r.snapshot
    BY <1>3 DEF LeaseOK
  <2>3. r.lease.id < next
    BY <1>0, <2>1, <2>2
  <2>4. CASE ~ HoldsLease(e, r.lease.id) \/ e = entry
    BY <2>2, <2>3, <2>4 DEF LeaseOK
  <2>5. CASE HoldsLease(e, r.lease.id) /\ e # entry
    <3>1. PICK x \in requests :
              /\ HoldsLease(entry, r.lease.id) /\ entry.revision < e.revision
              /\ x.action = "Update" /\ x.session = s /\ x.lease = r.lease.id
              /\ x.revision = e.revision
      BY <1>1, <2>1, <2>2, <2>5
    <3>2. entry # None /\ e # None
      BY <2>5, <3>1 DEF HoldsLease
    <3>3. r.lease.revision <= e.revision
      BY <1>0, <2>1, <2>2, <3>1, <3>2
    <3>4. ~ Acknowledged(r)
      BY <1>0, <2>1, <2>2, <3>1, <3>2 DEF UpTo
    <3> QED BY <2>2, <2>3, <3>3, <3>4 DEF LeaseOK
  <2> QED BY <2>4, <2>5
<1>4. ASSUME NEW t \in Tickets, NEW answer \in Answers, NEW left \in SUBSET requests,
             AnswerOK(t, answer, left, entry, fresh), t.session = s,
             requests \subseteq left \cup {t},
             t.action = "Update" => UpTo(left, s, t.lease, t.revision)
      PROVE  AnswerOK(t, answer, left, e, next)
  <2>1. CASE answer.kind # "Ack"
    BY <1>4, <2>1 DEF AnswerOK
  <2>2. CASE answer.kind = "Ack"
    <3>1. /\ answer.lease \in Nat /\ answer.revision \in Nat
          /\ t.lease \in Nat /\ t.revision \in Nat
      BY <2>2 DEF Answers, Done, FailedPrecondition, Tickets
    <3>2. /\ answer.kind = "Done" <=> t.action = "Deregister" /\ answer # FailedPrecondition
          /\ answer = FailedPrecondition /\ t.action = "Register" => refuses
          /\ answer.lease < fresh
          /\ UpTo(left, t.session, answer.lease, answer.revision + 1)
          /\ HoldsLease(entry, answer.lease) => answer.revision <= entry.revision
          /\ t.action = "Update" =>
                /\ answer.lease = t.lease /\ answer.revision = t.revision
                /\ HoldsLease(entry, t.lease) =>
                      entry.revision = t.revision /\ entry.snapshot = t.snapshot
      BY <1>4, <2>2 DEF AnswerOK
    <3>3. answer.lease < next
      BY <1>0, <3>1, <3>2
    <3>4. CASE ~ HoldsLease(e, answer.lease) \/ e = entry
      BY <3>2, <3>3, <3>4 DEF AnswerOK
    <3>5. CASE HoldsLease(e, answer.lease) /\ e # entry
      <4>1. PICK x \in requests :
                /\ HoldsLease(entry, answer.lease) /\ entry.revision < e.revision
                /\ x.action = "Update" /\ x.session = s /\ x.lease = answer.lease
                /\ x.revision = e.revision
        BY <1>1, <3>1, <3>2, <3>5
      <4>2. entry # None /\ e # None
        BY <3>5, <4>1 DEF HoldsLease
      <4>3. answer.revision <= e.revision
        BY <1>0, <3>1, <3>2, <4>1, <4>2
      <4>4. t.action # "Update"
        <5> SUFFICES ASSUME t.action = "Update" PROVE FALSE
          OBVIOUS
        <5>1. x \in left \/ x = t
          BY <1>4
        <5>2. x.revision <= t.revision
          BY <1>4, <3>1, <3>2, <4>1, <5>1 DEF UpTo
        <5>3. entry.revision = t.revision
          BY <3>2, <4>1
        <5> QED BY <1>0, <3>1, <4>1, <4>2, <5>2, <5>3
      <4> QED BY <3>2, <3>3, <4>3, <4>4 DEF AnswerOK
    <3> QED BY <3>4, <3>5
  <2> QED BY <2>1, <2>2
<1> QED BY <1>2, <1>3, <1>4

(* The RouteTable moves on: what stays true of the worker's side. *)
LEMMA TableMoves ==
    ASSUME IInv,
           \A s \in Sessions : Advances(s, late \cup InFlight(operation), table[s],
                                        table'[s], next_lease[s], next_lease'[s])
    PROVE  /\ late \cup InFlight(operation) \in SUBSET Tickets
           /\ \A s \in Sessions :
                 /\ LeaseOK(s, registrations[s], late \cup InFlight(operation),
                            table'[s], next_lease'[s])
                 /\ EntryOK(s, table'[s], late \cup InFlight(operation), next_lease'[s])
           /\ \A t \in late \cup InFlight(operation) : t.lease < next_lease'[t.session]
           /\ operation # None /\ operation.answer # None =>
                 LET t == operation.ticket
                 IN  AnswerOK(t, operation.answer, late, table'[t.session],
                              next_lease'[t.session])
<1> DEFINE requests == late \cup InFlight(operation)
<1>1. TypeOK
  BY DEF IInv
<1>2. operation # None => /\ operation.ticket \in Tickets
                          /\ operation.answer \in {None} \cup Answers
                          /\ operation.ticket.session \in Sessions
  BY <1>1 DEF TypeOK, Requests, Tickets
<1>3. requests \in SUBSET Tickets
  BY <1>1, <1>2 DEF TypeOK, InFlight
<1>4. /\ \A s \in Sessions : EntryOK(s, table[s], requests, next_lease[s])
      /\ \A t \in requests : t.lease < next_lease[t.session]
  BY DEF IInv, TableOK
<1> HIDE DEF requests
<1>5. ASSUME NEW s \in Sessions
      PROVE  /\ EntryOK(s, table'[s], requests, next_lease'[s])
             /\ \A r \in {None} \cup RegistrationStates :
                   LeaseOK(s, r, requests, table[s], next_lease[s])
                      => LeaseOK(s, r, requests, table'[s], next_lease'[s])
             /\ \A t \in Tickets, answer \in Answers, left \in SUBSET requests :
                   /\ AnswerOK(t, answer, left, table[s], next_lease[s]) /\ t.session = s
                   /\ requests \subseteq left \cup {t}
                   /\ t.action = "Update" => UpTo(left, s, t.lease, t.revision)
                   => AnswerOK(t, answer, left, table'[s], next_lease'[s])
  <2>1. Advances(s, requests, table[s], table'[s], next_lease[s], next_lease'[s])
    BY DEF requests
  <2>2. EntryOK(s, table[s], requests, next_lease[s])
    BY <1>4
  <2>3. \A x \in requests : x.session = s => x.lease < next_lease[s]
    BY <1>4
  <2> DEFINE entry == table[s]
             e == table'[s]
             fresh == next_lease[s]
             next == next_lease'[s]
  <2>4. /\ Advances(s, requests, entry, e, fresh, next)
        /\ EntryOK(s, entry, requests, fresh)
        /\ \A x \in requests : x.session = s => x.lease < fresh
    BY <2>1, <2>2, <2>3
  <2> HIDE DEF entry, e, fresh, next
  <2>5. /\ EntryOK(s, e, requests, next)
        /\ \A r \in {None} \cup RegistrationStates :
              LeaseOK(s, r, requests, entry, fresh)
                 => LeaseOK(s, r, requests, e, next)
        /\ \A t \in Tickets, answer \in Answers, left \in SUBSET requests :
              /\ AnswerOK(t, answer, left, entry, fresh) /\ t.session = s
              /\ requests \subseteq left \cup {t}
              /\ t.action = "Update" => UpTo(left, s, t.lease, t.revision)
              => AnswerOK(t, answer, left, e, next)
    BY <1>3, <2>4, AdvancesKeeps
  <2> QED BY <2>5 DEF entry, e, fresh, next
<1>6. ASSUME NEW s \in Sessions
      PROVE  LeaseOK(s, registrations[s], requests, table'[s], next_lease'[s])
  <2>1. registrations[s] \in {None} \cup RegistrationStates
    BY <1>1 DEF TypeOK
  <2>2. LeaseOK(s, registrations[s], requests, table[s], next_lease[s])
    BY DEF IInv, LeasesOK, requests
  <2> QED BY <1>5, <2>1, <2>2
<1>7. ASSUME NEW t \in requests
      PROVE  t.lease < next_lease'[t.session]
  <2>1. t.session \in Sessions /\ t.lease \in Nat /\ t.lease < next_lease[t.session]
    BY <1>3, <1>4 DEF Tickets
  <2>2. /\ next_lease[t.session] \in Nat /\ next_lease'[t.session] \in Nat
        /\ next_lease[t.session] <= next_lease'[t.session]
    BY <2>1 DEF Advances
  <2> QED BY <2>1, <2>2
<1>8. ASSUME operation # None, operation.answer # None
      PROVE  LET t == operation.ticket
             IN  AnswerOK(t, operation.answer, late, table'[t.session],
                          next_lease'[t.session])
  <2> DEFINE t == operation.ticket
  <2>1. /\ late \in SUBSET requests /\ requests \subseteq late \cup {t}
        /\ t \in Tickets /\ t.session \in Sessions /\ operation.answer \in Answers
    BY <1>2, <1>8 DEF requests, InFlight
  <2>2. /\ AnswerOK(t, operation.answer, late, table[t.session], next_lease[t.session])
        /\ t.action = "Update" => UpTo(late, t.session, t.lease, t.revision)
    BY <1>8 DEF IInv, OperationOK
  <2> QED BY <1>5, <2>1, <2>2
<1> QED BY <1>3, <1>5, <1>6, <1>7, <1>8 DEF requests

(* A step of the RouteTable that the worker does not notice. *)
LEMMA UnnoticedStep ==
    ASSUME IInv,
           \A s \in Sessions : Advances(s, late \cup InFlight(operation), table[s],
                                        table'[s], next_lease[s], next_lease'[s]),
           table' \in [Sessions -> {None} \cup Entries],
           next_lease' \in [Sessions -> Nat \ {0}],
           refuses' \in {refuses, TRUE}, late' \subseteq late,
           dead' \subseteq 1 .. connection_epoch, faults' \in 0 .. MaxFaults,
           UNCHANGED <<store, observed_version, worker, failure, stopped>>
    PROVE  IInv'
<1> DEFINE requests == late \cup InFlight(operation)
<1>1. UNCHANGED <<registrations, operation, counts, connected, connection_epoch,
                  reconnect_wait, worker_terminal, store_version, sessions,
                  removed, withdrawn, observed_version, failure, stopped>>
  BY DEF worker, client, store
<1>2. TypeOK /\ refuses \in BOOLEAN
  BY DEF IInv, TypeOK
<1>3. TypeOK'
  BY <1>1, <1>2 DEF TypeOK
<1>4. /\ requests \in SUBSET Tickets
      /\ \A s \in Sessions :
            /\ LeaseOK(s, registrations[s], requests, table'[s], next_lease'[s])
            /\ EntryOK(s, table'[s], requests, next_lease'[s])
      /\ \A t \in requests : t.lease < next_lease'[t.session]
      /\ operation # None /\ operation.answer # None =>
            LET t == operation.ticket
            IN  AnswerOK(t, operation.answer, late, table'[t.session],
                         next_lease'[t.session])
  BY TableMoves
<1> DEFINE fewer == late' \cup InFlight(operation)
<1>5. fewer \in SUBSET requests
  OBVIOUS
<1> HIDE DEF requests
<1>6. LeasesOK(registrations, operation, late)'
  <2>1. ASSUME NEW s \in Sessions
        PROVE  LeaseOK(s, registrations[s], fewer, table'[s], next_lease'[s])
    <3>1. registrations[s] \in RegistrationStates \cup {None}
      BY <1>2 DEF TypeOK
    <3>2. LeaseOK(s, registrations[s], requests, table'[s], next_lease'[s])
      BY <1>4
    <3> HIDE DEF fewer
    <3> QED BY <1>4, <1>5, <3>1, <3>2, FewerRequests
  <2>2. InFlight(operation)' = InFlight(operation)
    BY <1>1 DEF InFlight
  <2> QED BY <1>1, <2>1, <2>2 DEF LeasesOK
<1>7. TableOK(operation, late)'
  <2>1. ASSUME NEW s \in Sessions
        PROVE  EntryOK(s, table'[s], fewer, next_lease'[s])
    BY <1>4, <1>5 DEF EntryOK, UpTo
  <2>2. InFlight(operation)' = InFlight(operation)
    BY <1>1 DEF InFlight
  <2>3. \A t \in fewer : t.lease < next_lease'[t.session]
    BY <1>4, <1>5
  <2> QED BY <1>1, <2>1, <2>2, <2>3 DEF TableOK
<1>8. OperationOK(operation, late)'
  <2> SUFFICES ASSUME operation # None
               PROVE  OperationOK(operation, late)'
    BY <1>1 DEF OperationOK
  <2> DEFINE t == operation.ticket
  <2>1. t.action = "Update" => UpTo(late', t.session, t.lease, t.revision)
    BY DEF IInv, OperationOK, UpTo
  <2>3. ASSUME operation.answer # None, NEW entry, NEW fresh,
               AnswerOK(t, operation.answer, late, entry, fresh)
        PROVE  /\ operation.answer.kind = "Done"
                     <=> t.action = "Deregister" /\ operation.answer # FailedPrecondition
               /\ operation.answer = FailedPrecondition /\ t.action = "Register" => refuses'
               /\ operation.answer.kind = "Ack" =>
                     /\ operation.answer.lease < fresh
                     /\ UpTo(late', t.session, operation.answer.lease,
                             operation.answer.revision + 1)
                     /\ HoldsLease(entry, operation.answer.lease) =>
                           operation.answer.revision <= entry.revision
                     /\ t.action = "Update" =>
                           /\ operation.answer.lease = t.lease
                           /\ operation.answer.revision = t.revision
                           /\ HoldsLease(entry, t.lease) =>
                                 entry.revision = t.revision /\ entry.snapshot = t.snapshot
    BY <2>3 DEF AnswerOK, UpTo
  <2>4. operation.answer # None =>
           AnswerOK(t, operation.answer, late, table'[t.session], next_lease'[t.session])
    BY <1>4
  <2> QED BY <1>1, <2>1, <2>3, <2>4 DEF OperationOK, AnswerOK
<1>9. TicketsOK(registrations, operation)' /\ CountsAreExact'
  BY <1>1 DEF IInv, TicketsOK, CountsAreExact
<1>10. StoreOK(registrations, observed_version, removed)'
  BY <1>1 DEF IInv, StoreOK
<1>11. RefusalOK'
  BY <1>1, <1>2 DEF IInv, RefusalOK
<1> QED BY <1>3, <1>6, <1>7, <1>8, <1>9, <1>10, <1>11 DEF IInv

(* The RouteTable changes behind the worker's back. *)
LEMMA RouteTableSteps ==
    ASSUME IInv,
           \/ \E t \in late : ServeLate(t)
           \/ \E s \in Sessions : LeaseExpires(s)
           \/ Restart
    PROVE  IInv'
<1>0. TypeOK /\ TableTypes
  BY DEF IInv, TypeOK, TableTypes
<1> DEFINE requests == late \cup InFlight(operation)
<1>1. requests \in SUBSET Tickets
  BY <1>0 DEF TypeOK, InFlight, Requests
<1>2. ASSUME NEW s \in Sessions
      PROVE  /\ Advances(s, requests, table[s], table[s], next_lease[s], next_lease[s])
             /\ Advances(s, requests, table[s], None, next_lease[s], next_lease[s])
  BY <1>0 DEF TableTypes, Advances
<1>3. ASSUME NEW t \in late, ServeLate(t) PROVE IInv'
  <2>1. /\ late' \subseteq late
        /\ UNCHANGED <<store, observed_version, worker, failure, stopped, dead, faults>>
        /\ Execute(t) \/ UNCHANGED routeTable
    BY <1>3 DEF ServeLate
  <2>2. CASE Execute(t)
    <3>1. t \in requests /\ t.session \in Sessions
      BY <1>1 DEF Tickets
    <3>2. EntryOK(t.session, table[t.session], requests, next_lease[t.session])
      BY <3>1 DEF IInv, TableOK
    <3> HIDE DEF requests
    <3>3. /\ table' \in [Sessions -> {None} \cup Entries]
          /\ next_lease' \in [Sessions -> Nat \ {0}]
          /\ refuses' = refuses
          /\ \A s \in Sessions :
                Advances(s, requests, table[s], table'[s], next_lease[s], next_lease'[s])
      BY <1>0, <1>1, <2>2, <3>1, <3>2, ExecuteAdvances
    <3>4. dead' \subseteq 1 .. connection_epoch /\ faults' \in 0 .. MaxFaults
      BY <1>0, <2>1 DEF TypeOK
    <3> QED BY <2>1, <3>3, <3>4, UnnoticedStep DEF requests
  <2>3. CASE UNCHANGED routeTable
    <3>1. UNCHANGED <<table, next_lease, refuses>>
      BY <2>3 DEF routeTable
    <3>2. dead' \subseteq 1 .. connection_epoch /\ faults' \in 0 .. MaxFaults
      BY <1>0, <2>1 DEF TypeOK
    <3>3. \A s \in Sessions :
              Advances(s, requests, table[s], table'[s], next_lease[s], next_lease'[s])
      BY <1>2, <3>1
    <3> QED BY <1>0, <2>1, <3>1, <3>2, <3>3, UnnoticedStep DEF TableTypes
  <2> QED BY <2>1, <2>2, <2>3
<1>4. ASSUME NEW s \in Sessions, LeaseExpires(s) PROVE IInv'
  <2>1. /\ table' = [table EXCEPT ![s] = None]
        /\ UNCHANGED <<store, observed_version, worker, failure, stopped,
                       next_lease, refuses, dead, late>>
        /\ faults' = faults \/ Fault("expiry")
    BY <1>4 DEF LeaseExpires
  <2>2. /\ table' \in [Sessions -> {None} \cup Entries]
        /\ \A u \in Sessions : table'[u] = table[u] \/ table'[u] = None
    BY <1>0, <2>1 DEF TableTypes
  <2>3. dead' \subseteq 1 .. connection_epoch /\ faults' \in 0 .. MaxFaults
    BY <1>0, <2>1, BoundAssumption DEF TypeOK, Fault
  <2>4. \A u \in Sessions :
            Advances(u, requests, table[u], table'[u], next_lease[u], next_lease'[u])
    BY <1>2, <2>1, <2>2
  <2> QED BY <1>0, <2>1, <2>2, <2>3, <2>4, UnnoticedStep DEF TableTypes
<1>5. ASSUME Restart PROVE IInv'
  <2>1. /\ table' = [s \in Sessions |-> None]
        /\ refuses' \in {refuses, TRUE} /\ dead' = 1 .. connection_epoch /\ late' = {}
        /\ UNCHANGED <<store, observed_version, worker, failure, stopped, next_lease>>
        /\ Fault("restart")
    BY <1>5 DEF Restart
  <2>2. /\ table' \in [Sessions -> {None} \cup Entries]
        /\ \A u \in Sessions : table'[u] = None
    BY <2>1
  <2>3. dead' \subseteq 1 .. connection_epoch /\ faults' \in 0 .. MaxFaults /\ late' \subseteq late
    BY <1>0, <2>1, BoundAssumption DEF TypeOK, Fault
  <2>4. \A u \in Sessions :
            Advances(u, requests, table[u], table'[u], next_lease[u], next_lease'[u])
    BY <1>2, <2>1, <2>2
  <2> QED BY <1>0, <2>1, <2>2, <2>3, <2>4, UnnoticedStep DEF TableTypes
<1> QED BY <1>3, <1>4, <1>5

(* An accepted Register or Update leaves an entry. *)
LEMMA RegisteredIsPresent ==
    ASSUME TableTypes, NEW t \in Tickets, ~ refuses,
           \/ t.action = "Register"
           \/ /\ t.action = "Update" /\ Holds(t.session, t.lease)
              /\ Accepts(table[t.session], t.revision, t.snapshot)
    PROVE  Registered(t) # None
<1>1. CASE t.action = "Register" /\ table[t.session] = None
  <2>1. Registered(t) = [lease |-> next_lease[t.session], revision |-> 0, snapshot |-> None]
    BY <1>1 DEF Registered
  <2>2. next_lease[t.session] \in Nat \ {0}
    BY DEF TableTypes, Tickets
  <2> QED BY <2>1, <2>2, AbsenceAssumption DEF Entries
<1>2. CASE t.action = "Register" /\ table[t.session] # None
  BY <1>2 DEF Registered
<1>3. CASE /\ t.action = "Update" /\ Holds(t.session, t.lease)
           /\ Accepts(table[t.session], t.revision, t.snapshot)
  <2>1. Registered(t) = [lease |-> t.lease, revision |-> t.revision, snapshot |-> t.snapshot]
    BY <1>3 DEF Registered
  <2>2. t.lease \in Nat \ {0} /\ t.revision \in Nat /\ t.snapshot \in Snapshots \cup {None}
    BY <1>3 DEF Holds, TableTypes, Entries, Tickets
  <2> QED BY <2>1, <2>2, AbsenceAssumption DEF Entries
<1> QED BY <1>1, <1>2, <1>3

(* What the service answers. *)
LEMMA AnswerIsOK ==
    ASSUME TableTypes, NEW t \in Tickets, NEW left, NEW fresh, NEW e, e = Registered(t),
           e # None => e \in Entries /\ e.lease < fresh
                       /\ UpTo(left, t.session, e.lease, e.revision + 1)
    PROVE  Answer(t) \in Answers /\ AnswerOK(t, Answer(t), left, e, fresh)
<1> DEFINE a == Answer(t)
<1>1. /\ Done.kind = "Done" /\ FailedPrecondition.kind = "FailedPrecondition"
      /\ Done # FailedPrecondition
  BY DEF Done, FailedPrecondition
<1>2. CASE a = FailedPrecondition /\ (t.action = "Register" => refuses)
  BY <1>1, <1>2 DEF Answers, AnswerOK
<1>3. CASE a = Done /\ t.action = "Deregister"
  BY <1>1, <1>3 DEF Answers, AnswerOK
<1>4. CASE /\ a = Ack(e) /\ e # None /\ t.action # "Deregister"
           /\ t.action = "Update" =>
                 e = [lease |-> t.lease, revision |-> t.revision, snapshot |-> t.snapshot]
  <2>1. /\ a.kind = "Ack" /\ a.lease = e.lease /\ a.revision = e.revision
        /\ a = [kind |-> "Ack", lease |-> e.lease, revision |-> e.revision]
        /\ e.lease \in Nat \ {0} /\ e.revision \in Nat
    BY <1>4 DEF Ack, Entries
  <2>2. a # FailedPrecondition
    BY <1>1, <2>1
  <2> HIDE DEF a
  <2>3. AnswerOK(t, a, left, e, fresh)
    BY <1>4, <2>1, <2>2 DEF AnswerOK, HoldsLease
  <2> QED BY <2>1, <2>3 DEF Answers, a
<1>5. \/ a = FailedPrecondition /\ (t.action = "Register" => refuses)
      \/ a = Done /\ t.action = "Deregister"
      \/ /\ a = Ack(e) /\ e # None /\ t.action # "Deregister"
         /\ t.action = "Update" =>
               e = [lease |-> t.lease, revision |-> t.revision, snapshot |-> t.snapshot]
  <2>1. CASE refuses \/ t.action = "Deregister"
    BY <2>1 DEF Answer
  <2>2. CASE ~ refuses /\ t.action = "Register"
    <3>1. e # None
      BY <2>2, RegisteredIsPresent
    <3> QED BY <2>2, <3>1 DEF Answer
  <2>3. CASE ~ refuses /\ t.action = "Update"
    <3>1. CASE /\ Holds(t.session, t.lease)
               /\ Accepts(table[t.session], t.revision, t.snapshot)
      <4>1. e = [lease |-> t.lease, revision |-> t.revision, snapshot |-> t.snapshot]
        BY <2>3, <3>1 DEF Registered
      <4>2. e # None
        BY <2>3, <3>1, RegisteredIsPresent
      <4> QED BY <2>3, <3>1, <4>1, <4>2 DEF Answer
    <3>2. CASE ~ (/\ Holds(t.session, t.lease)
                  /\ Accepts(table[t.session], t.revision, t.snapshot))
      BY <2>3, <3>2 DEF Answer
    <3> QED BY <3>1, <3>2
  <2>4. CASE ~ refuses /\ t.action = "KeepAlive"
    <3>1. e = table[t.session]
      BY <2>4 DEF Registered
    <3> QED BY <2>4, <3>1 DEF Answer, Holds
  <2> QED BY <2>1, <2>2, <2>3, <2>4 DEF Tickets
<1> QED BY <1>2, <1>3, <1>4, <1>5

(* The service executes the request in flight. *)
LEMMA ServeAnswers ==
    ASSUME IInv, Serve
    PROVE  LET t == operation.ticket
               requests == late \cup InFlight(operation)
           IN  /\ operation' \in Requests /\ operation' # None
               /\ operation'.ticket = t /\ operation'.epoch = operation.epoch
               /\ operation'.answer = Answer(t) /\ Answer(t) \in Answers
               /\ AnswerOK(t, Answer(t), late, table'[t.session], next_lease'[t.session])
               /\ table' \in [Sessions -> {None} \cup Entries]
               /\ next_lease' \in [Sessions -> Nat \ {0}]
               /\ refuses' = refuses
               /\ \A s \in Sessions :
                     /\ LeaseOK(s, registrations[s], requests, table'[s], next_lease'[s])
                     /\ EntryOK(s, table'[s], requests, next_lease'[s])
               /\ \A x \in requests : x.lease < next_lease'[x.session]
<1> DEFINE t == operation.ticket
           requests == late \cup InFlight(operation)
           op == operation'
<1>0. TypeOK /\ TableTypes
  BY DEF IInv, TypeOK, TableTypes
<1>1. /\ operation # None /\ operation.answer = None
      /\ Execute(t)
      /\ op = [operation EXCEPT !.answer = Answer(t)]
      /\ UNCHANGED <<store, observed_version, registrations, counts, client,
                     failure, stopped, dead, late, faults>>
  BY DEF Serve
<1>2. /\ operation \in Requests /\ t \in Tickets /\ t.session \in Sessions
      /\ t \in requests /\ requests \in SUBSET Tickets
  BY <1>0, <1>1 DEF TypeOK, Requests, Tickets, InFlight
<1>3. EntryOK(t.session, table[t.session], requests, next_lease[t.session])
  BY <1>2 DEF IInv, TableOK
<1> HIDE DEF requests
<1>4. /\ table' \in [Sessions -> {None} \cup Entries]
      /\ next_lease' \in [Sessions -> Nat \ {0}]
      /\ table'[t.session] = Registered(t)
      /\ refuses' = refuses
      /\ \A s \in Sessions :
            Advances(s, requests, table[s], table'[s], next_lease[s], next_lease'[s])
  BY <1>0, <1>1, <1>2, <1>3, ExecuteAdvances
<1>5. /\ \A s \in Sessions :
            /\ LeaseOK(s, registrations[s], requests, table'[s], next_lease'[s])
            /\ EntryOK(s, table'[s], requests, next_lease'[s])
      /\ \A x \in requests : x.lease < next_lease'[x.session]
  BY <1>4, TableMoves DEF requests
<1>6. /\ Answer(t) \in Answers
      /\ AnswerOK(t, Answer(t), late, table'[t.session], next_lease'[t.session])
  <2> DEFINE e == table'[t.session]
             fresh == next_lease'[t.session]
  <2>1. e # None => /\ e \in Entries /\ e.lease < fresh
                    /\ UpTo(late, t.session, e.lease, e.revision + 1)
    BY <1>2, <1>4, <1>5 DEF EntryOK, UpTo, requests
  <2>2. e = Registered(t)
    BY <1>4
  <2> HIDE DEF e, fresh
  <2>3. Answer(t) \in Answers /\ AnswerOK(t, Answer(t), late, e, fresh)
    BY <1>0, <1>2, <2>1, <2>2, AnswerIsOK
  <2> QED BY <2>3 DEF e, fresh
<1>7. /\ op \in Requests /\ op # None /\ op.ticket = t /\ op.epoch = operation.epoch
      /\ op.answer = Answer(t)
  <2> HIDE DEF t
  <2>1. Answer(t) \in {None} \cup Answers
    BY <1>6
  <2>2. op \in Requests /\ op.ticket = operation.ticket /\ op.epoch = operation.epoch
        /\ op.answer = Answer(t)
    BY <1>1, <1>2, <2>1 DEF Requests
  <2> QED BY <2>2, AbsenceAssumption DEF t
<1> QED BY <1>4, <1>5, <1>6, <1>7 DEF requests

(* The service takes the request in flight. *)
LEMMA ServeStep == ASSUME IInv, Serve PROVE IInv'
<1> DEFINE t == operation.ticket
           requests == late \cup InFlight(operation)
           op == operation'
<1>0. TypeOK
  BY DEF IInv
<1>1. /\ operation # None /\ operation.answer = None
      /\ UNCHANGED <<store, observed_version, registrations, counts, client,
                     failure, stopped, dead, late, faults>>
  BY DEF Serve
<1>4. /\ table' \in [Sessions -> {None} \cup Entries]
      /\ next_lease' \in [Sessions -> Nat \ {0}]
      /\ refuses' = refuses
  BY ServeAnswers
<1>5. /\ \A s \in Sessions :
            /\ LeaseOK(s, registrations[s], requests, table'[s], next_lease'[s])
            /\ EntryOK(s, table'[s], requests, next_lease'[s])
      /\ \A x \in requests : x.lease < next_lease'[x.session]
  BY ServeAnswers
<1>6. /\ Answer(t) \in Answers
      /\ AnswerOK(t, Answer(t), late, table'[t.session], next_lease'[t.session])
  BY ServeAnswers
<1>7. /\ op \in Requests /\ op # None /\ op.ticket = t /\ op.epoch = operation.epoch
      /\ op.answer = Answer(t)
  BY ServeAnswers
<1> HIDE DEF requests
<1>8. InFlight(operation)' = InFlight(operation)
  BY <1>1, <1>7 DEF InFlight
<1>9. UNCHANGED <<registrations, counts, connected, connection_epoch,
                  reconnect_wait, worker_terminal, store_version, sessions,
                  removed, withdrawn, observed_version, failure, stopped,
                  dead, late, faults, refuses>>
  BY <1>1, <1>4 DEF client, store
<1>10. TypeOK'
  BY <1>0, <1>1, <1>4, <1>7, <1>9 DEF TypeOK
<1>11. LeasesOK(registrations, operation, late)' /\ TableOK(operation, late)'
  BY <1>5, <1>8, <1>9 DEF LeasesOK, TableOK, requests
<1>12. TicketsOK(registrations, operation)'
  BY <1>1, <1>7, <1>9 DEF IInv, TicketsOK, TicketOK
<1>13. OperationOK(operation, late)'
  <2>1. t.action = "Update" => UpTo(late, t.session, t.lease, t.revision)
    BY <1>1 DEF IInv, OperationOK
  <2> QED BY <1>6, <1>7, <1>9, <2>1 DEF OperationOK, AnswerOK
<1>14. StoreOK(registrations, observed_version, removed)' /\ RefusalOK' /\ CountsAreExact'
  BY <1>9 DEF IInv, StoreOK, RefusalOK, CountsAreExact
<1> QED BY <1>10, <1>11, <1>12, <1>13, <1>14 DEF IInv

(* The worker drops everything; what it leaves behind is in order. *)
LEMMA ShutdownStep == ASSUME IInv, Shutdown PROVE IInv'
<1> DEFINE requests == late \cup InFlight(operation)
<1>0. TypeOK /\ TableTypes
  BY DEF IInv, TypeOK, TableTypes
<1>1. /\ stopped' = TRUE /\ registrations' = [s \in Sessions |-> None]
      /\ operation' = None /\ connected' = 0 /\ counts' = NoCounts
      /\ late' \subseteq requests
      /\ UNCHANGED <<store, observed_version, connection_epoch, reconnect_wait,
                     worker_terminal, failure, next_lease, refuses, dead, faults>>
  BY DEF Shutdown, InFlight
<1>2. /\ table' \in [Sessions -> {None} \cup Entries]
      /\ \A s \in Sessions : table'[s] = table[s] \/ table'[s] = None
  BY <1>0 DEF Shutdown, TableTypes
<1>3. /\ requests \in SUBSET Tickets
      /\ \A s \in Sessions : EntryOK(s, table[s], requests, next_lease[s])
      /\ \A t \in requests : t.lease < next_lease[t.session]
  BY <1>0 DEF IInv, TableOK, TypeOK, InFlight, Requests
<1> HIDE DEF requests
<1>4. UNCHANGED <<store_version, sessions, removed, withdrawn>>
  BY <1>1 DEF store
<1>5. TypeOK'
  <2>1. counts' \in [synced : Nat, unsynced : Nat, terminal : Nat]
    BY <1>1 DEF NoCounts
  <2> QED BY <1>0, <1>1, <1>2, <1>3, <1>4, <2>1 DEF TypeOK
<1>6. LeasesOK(registrations, operation, late)' /\ TicketsOK(registrations, operation)'
  BY <1>1 DEF LeasesOK, LeaseOK, TicketsOK, TicketOK
<1>7. TableOK(operation, late)'
  <2>1. late' \cup InFlight(operation)' \subseteq requests
    BY <1>1 DEF InFlight
  <2>2. ASSUME NEW s \in Sessions
        PROVE  EntryOK(s, table'[s], late' \cup InFlight(operation)', next_lease[s])
    BY <1>2, <1>3, <2>1 DEF EntryOK, UpTo
  <2> QED BY <1>1, <1>3, <2>1, <2>2 DEF TableOK
<1>8. OperationOK(operation, late)'
  BY <1>1 DEF OperationOK
<1>9. StoreOK(registrations, observed_version, removed)'
  BY <1>1, <1>4 DEF IInv, StoreOK
<1>10. RefusalOK'
  BY <1>1 DEF IInv, RefusalOK
<1>11. CountsAreExact'
  <2>1. Present(registrations') = {}
    BY <1>1 DEF Present
  <2>2. CountsOf(registrations') = NoCounts
    <3> DEFINE R == registrations'
               wanted == {s \in Present(R) : R[s].snapshot # None}
               synced == {s \in wanted : IsSynced(R[s])}
    <3>1. wanted = {} /\ synced = {} /\ wanted \ synced = {}
          /\ {s \in wanted : R[s].terminal} = {}
      BY <2>1
    <3>2. CountsOf(R) = [synced   |-> Cardinality(synced),
                         unsynced |-> Cardinality(wanted \ synced),
                         terminal |-> Cardinality({s \in wanted : R[s].terminal})]
      BY DEF CountsOf
    <3>3. Cardinality({}) = 0
      BY FS_EmptySet
    <3> HIDE DEF R, wanted, synced
    <3>4. CountsOf(R) = NoCounts
      BY <3>1, <3>2, <3>3 DEF NoCounts
    <3> QED BY <3>4 DEF R
  <2> QED BY <1>1, <2>2 DEF CountsAreExact
<1> QED BY <1>5, <1>6, <1>7, <1>8, <1>9, <1>10, <1>11 DEF IInv

(* The Gateway publishes or removes a session. *)
LEMMA CommitStep ==
    ASSUME IInv, NEW s \in Sessions, NEW snapshot \in Snapshots \cup {None},
           Commit(s, snapshot)
    PROVE  IInv'
<1>0. TypeOK
  BY DEF IInv
<1>1. /\ ~ stopped /\ store_version < MaxVersion /\ store_version' = store_version + 1
      /\ UNCHANGED <<observed_version, registrations, operation, counts, connected,
                     connection_epoch, reconnect_wait, worker_terminal, failure,
                     stopped, table, next_lease, refuses, dead, late, faults>>
  BY DEF Commit, worker, client, routeTable
<1> DEFINE v == store_version + 1
<1>2. v \in 1 .. MaxVersion /\ v \in Nat /\ store_version \in Nat
      /\ observed_version \in Nat /\ observed_version <= store_version
  BY <1>0, <1>1, BoundAssumption DEF TypeOK, IInv, StoreOK
<1>3. /\ [version |-> v, snapshot |-> snapshot] \in Desired \/ snapshot = None
      /\ sessions \in [Sessions -> {None} \cup Desired]
      /\ removed \in [Sessions -> 0 .. MaxVersion]
      /\ withdrawn \subseteq Sessions
      /\ v \in 0 .. MaxVersion /\ 0 \in 0 .. MaxVersion
  BY <1>0, <1>2, BoundAssumption DEF TypeOK, Desired
<1>4. /\ sessions' \in [Sessions -> {None} \cup Desired]
      /\ removed' \in [Sessions -> 0 .. MaxVersion]
      /\ withdrawn' \subseteq Sessions
  BY <1>3 DEF Commit
<1>5. ASSUME NEW u \in Sessions
      PROVE  \/ sessions'[u] = sessions[u] /\ removed'[u] = removed[u]
             \/ sessions'[u] # None /\ sessions'[u].version = v /\ removed'[u] = 0
             \/ sessions'[u] = None /\ removed'[u] = v
  <2>1. CASE /\ snapshot # None
             /\ sessions' = [sessions EXCEPT ![s] = [version |-> v, snapshot |-> snapshot]]
             /\ removed' = [removed EXCEPT ![s] = 0]
    <3>1. [version |-> v, snapshot |-> snapshot] # None
      BY <1>3, <2>1, AbsenceAssumption
    <3> QED BY <1>3, <2>1, <3>1
  <2>2. CASE /\ sessions' = [sessions EXCEPT ![s] = None]
             /\ removed' = [removed EXCEPT ![s] = v]
    BY <1>3, <2>2
  <2>3. CASE UNCHANGED <<sessions, removed>>
    BY <2>3
  <2> QED BY <2>1, <2>2, <2>3 DEF Commit
<1>6. TypeOK'
  BY <1>0, <1>1, <1>2, <1>3, <1>4 DEF TypeOK
<1>7. StoreOK(registrations, observed_version, removed)'
  <2>1. \A u \in Sessions : /\ sessions[u] # None => sessions[u].version \in Nat
                            /\ removed[u] \in Nat
    BY <1>3 DEF Desired
  <2>2. StoreOK(registrations, observed_version, removed)
    BY DEF IInv
  <2>3. ASSUME NEW u \in Sessions
        PROVE  /\ registrations[u] # None => registrations[u].version <= observed_version
               /\ removed'[u] # 0 =>
                     /\ sessions'[u] = None /\ observed_version < removed'[u]
                     /\ removed'[u] <= v
               /\ sessions'[u] # None => sessions'[u].version <= v
               /\ sessions'[u] = None /\ removed'[u] = 0 =>
                     registrations[u] = None \/ registrations[u].snapshot = None
               /\ sessions'[u] # None /\ sessions'[u].version <= observed_version =>
                     /\ registrations[u] # None
                     /\ registrations[u].snapshot = sessions'[u].snapshot
                     /\ registrations[u].version = sessions'[u].version
    <3>1. CASE sessions'[u] = sessions[u] /\ removed'[u] = removed[u]
      BY <1>1, <1>2, <2>1, <2>2, <3>1 DEF StoreOK
    <3>2. CASE sessions'[u] # None /\ sessions'[u].version = v /\ removed'[u] = 0
      BY <1>2, <2>2, <3>2 DEF StoreOK
    <3>3. CASE sessions'[u] = None /\ removed'[u] = v
      BY <1>2, <2>2, <3>3 DEF StoreOK
    <3> QED BY <1>5, <3>1, <3>2, <3>3
  <2> QED BY <1>1, <1>2, <2>3 DEF StoreOK
<1> QED BY <1>1, <1>6, <1>7 DEF IInv, LeasesOK, TicketsOK, TableOK, OperationOK,
           AnswerOK, RefusalOK, CountsAreExact

(* The steps that change the worker's timer or a report only. *)
LEMMA ReportSteps ==
    ASSUME IInv, ReconnectDue \/ (\E epoch \in 1 .. connection_epoch : ResolveFails(epoch))
    PROVE  IInv'
<1>0. TypeOK
  BY DEF IInv
<1>1. UNCHANGED <<store_version, sessions, removed, withdrawn, observed_version,
                  registrations, operation, counts, connected, connection_epoch,
                  worker_terminal, stopped, table, next_lease, refuses, late>>
  BY DEF ReconnectDue, ResolveFails, store, worker, client, routeTable
<1>2. /\ reconnect_wait' \in BOOLEAN
      /\ failure' \in {None} \cup Failures
      /\ failure' # None => failure'.epoch <= connection_epoch
      /\ failure' # None /\ failure'.terminal => refuses
      /\ dead' \subseteq 1 .. connection_epoch
      /\ faults' \in 0 .. MaxFaults
  <2>1. CASE ReconnectDue
    BY <1>0, <2>1 DEF ReconnectDue, TypeOK, IInv, RefusalOK
  <2>2. ASSUME NEW epoch \in 1 .. connection_epoch, ResolveFails(epoch)
        PROVE  /\ reconnect_wait' \in BOOLEAN
               /\ failure' \in Failures
               /\ failure'.epoch <= connection_epoch
               /\ failure'.terminal => refuses
               /\ dead' \subseteq 1 .. connection_epoch
               /\ faults' \in 0 .. MaxFaults
    <3>1. refuses \in BOOLEAN /\ connection_epoch \in Nat /\ epoch \in Nat \ {0}
      BY <1>0 DEF TypeOK
    <3>2. failure' \in [epoch : {epoch}, terminal : {FALSE, refuses}]
      BY <2>2 DEF ResolveFails
    <3>3. failure' \in Failures /\ failure'.epoch = epoch /\ failure'.terminal \in {FALSE, refuses}
      BY <3>1, <3>2 DEF Failures
    <3>4. dead' \subseteq 1 .. connection_epoch
      BY <1>0, <2>2 DEF TypeOK, ResolveFails
    <3>5. faults' \in 0 .. MaxFaults
      BY <1>0, <2>2, BoundAssumption DEF TypeOK, ResolveFails, Fault
    <3>6. reconnect_wait' \in BOOLEAN
      BY <1>0, <2>2 DEF TypeOK, ResolveFails, worker, client
    <3>7. failure'.terminal => refuses
      BY <3>3, Zenon
    <3>8. failure'.epoch <= connection_epoch
      BY <3>1, <3>3
    <3> QED BY <3>3, <3>4, <3>5, <3>6, <3>7, <3>8
  <2> QED BY <2>1, <2>2
<1>3. TypeOK'
  BY <1>0, <1>1, <1>2 DEF TypeOK
<1>4. RefusalOK'
  BY <1>1, <1>2 DEF IInv, RefusalOK
<1> QED BY <1>1, <1>3, <1>4 DEF IInv, LeasesOK, TicketsOK, TableOK, OperationOK,
           AnswerOK, StoreOK, CountsAreExact

(* The worker starts with nothing, and so does the RouteTable. *)
LEMMA InitIsOK == Init => IInv
<1> SUFFICES ASSUME Init PROVE IInv
  OBVIOUS
<1>1. CountsOf(registrations) = NoCounts
  <2> DEFINE R == registrations
             wanted == {s \in Present(R) : R[s].snapshot # None}
             synced == {s \in wanted : IsSynced(R[s])}
  <2>1. wanted = {} /\ synced = {} /\ wanted \ synced = {}
        /\ {s \in wanted : R[s].terminal} = {}
    BY DEF Init, Present
  <2>2. CountsOf(R) = [synced   |-> Cardinality(synced),
                       unsynced |-> Cardinality(wanted \ synced),
                       terminal |-> Cardinality({s \in wanted : R[s].terminal})]
    BY DEF CountsOf
  <2>3. Cardinality({}) = 0
    BY FS_EmptySet
  <2> HIDE DEF R, wanted, synced
  <2>4. CountsOf(R) = NoCounts
    BY <2>1, <2>2, <2>3 DEF NoCounts
  <2> QED BY <2>4 DEF R
<1>2. TypeOK
  <2>1. NoCounts \in [synced : Nat, unsynced : Nat, terminal : Nat]
    BY DEF NoCounts
  <2>2. /\ store_version \in 0 .. MaxVersion /\ observed_version \in 0 .. MaxVersion
        /\ faults \in 0 .. MaxFaults
        /\ connection_epoch \in Nat /\ connected \in 0 .. connection_epoch
    BY BoundAssumption DEF Init
  <2>3. /\ sessions \in [Sessions -> {None} \cup Desired]
        /\ removed \in [Sessions -> 0 .. MaxVersion]
        /\ registrations \in [Sessions -> {None} \cup RegistrationStates]
        /\ table \in [Sessions -> {None} \cup Entries]
        /\ next_lease \in [Sessions -> Nat \ {0}]
    BY BoundAssumption DEF Init
  <2> QED BY <2>1, <2>2, <2>3 DEF Init, TypeOK
<1>3. CountsAreExact
  BY <1>1 DEF Init, CountsAreExact
<1>4. /\ LeasesOK(registrations, operation, late) /\ TicketsOK(registrations, operation)
      /\ OperationOK(operation, late)
  BY DEF Init, LeasesOK, LeaseOK, TicketsOK, TicketOK, OperationOK
<1>5. TableOK(operation, late)
  BY DEF Init, TableOK, EntryOK, InFlight
<1>6. StoreOK(registrations, observed_version, removed) /\ RefusalOK
  BY DEF Init, StoreOK, RefusalOK
<1> QED BY <1>2, <1>3, <1>4, <1>5, <1>6 DEF IInv

(* Every step keeps the invariant. *)
LEMMA StepIsOK == IInv /\ [Next]_vars => IInv'
<1> SUFFICES ASSUME IInv, [Next]_vars PROVE IInv'
  OBVIOUS
<1>1. CASE GatewayNext
  BY <1>1, CommitStep, ShutdownStep, ReportSteps DEF GatewayNext
<1>2. CASE WorkerNext
  BY <1>2, ReconcileStep, ConnectSteps, OperationCompletesStep, OperationFailsStep,
     OperationThrottledStep, ClientFailureStep, ReportSteps, TimerSteps
     DEF WorkerNext
<1>3. CASE RouteTableNext
  BY <1>3, ServeStep, RouteTableSteps DEF RouteTableNext
<1>4. CASE UNCHANGED vars
  <2>1. UNCHANGED <<store_version, sessions, removed, withdrawn, observed_version,
                    registrations, operation, counts, connected, connection_epoch,
                    reconnect_wait, worker_terminal, failure, stopped, table,
                    next_lease, refuses, dead, late, faults>>
    BY <1>4 DEF vars, store, worker, client, routeTable
  <2>2. TypeOK'
    BY <2>1 DEF IInv, TypeOK
  <2> QED BY <2>1, <2>2 DEF IInv, LeasesOK, TicketsOK, TableOK, OperationOK,
             AnswerOK, StoreOK, RefusalOK, CountsAreExact
<1> QED BY <1>1, <1>2, <1>3, <1>4 DEF Next

(***************************************************************************)
(* The revisions order what the worker, the RouteTable and the requests left *)
(* behind know of each lease, and the store orders the versions: in every  *)
(* reachable state of the worker, for any Sessions, commits and faults.    *)
(***************************************************************************)
THEOREM InvariantHolds == Spec => []IInv
BY InitIsOK, StepIsOK, PTL DEF Spec

(***************************************************************************)
(* update_succeeded and publish never claim more than the RouteTable has:  *)
(* a registration that the worker reports as synced is held with the       *)
(* wanted snapshot or not at all.  Revisions make it so: while a snapshot  *)
(* counts as acknowledged, no request left behind carries a later one.     *)
(***************************************************************************)
THEOREM SyncedIsHeldAlways == Spec => []SyncedIsHeld
<1>1. IInv => SyncedIsHeld
  <2> SUFFICES ASSUME IInv, NEW s \in Present(registrations),
                      IsSynced(registrations[s]), Holds(s, LeaseOf(registrations[s]))
               PROVE  table[s].snapshot = registrations[s].snapshot
    BY DEF SyncedIsHeld
  <2> DEFINE r == registrations[s]
  <2>1. s \in Sessions /\ r # None
    BY DEF Present
  <2>2. Acknowledged(r) /\ r.lease # None /\ LeaseOf(r) = r.lease.id
    BY DEF IsSynced, Acknowledged, LeaseOf
  <2>3. HoldsLease(table[s], r.lease.id)
    BY <2>2 DEF Holds, HoldsLease
  <2>4. LeaseOK(s, r, late \cup InFlight(operation), table[s], next_lease[s])
    BY <2>1 DEF IInv, LeasesOK
  <2> QED BY <2>1, <2>2, <2>3, <2>4 DEF LeaseOK
<1> QED BY <1>1, InvariantHolds, PTL

(***************************************************************************)
(* The worker's books follow the store and the request in flight: no       *)
(* ticket is left pending, no removal that shard_view_after hands out once *)
(* is lost, no counter of the health report drifts.                        *)
(***************************************************************************)
THEOREM WorkerBooksAgreeAlways == Spec => []WorkerBooksAgree
<1>1. IInv => WorkerBooksAgree
  <2> SUFFICES ASSUME IInv PROVE WorkerBooksAgree
    OBVIOUS
  <2>1. PendingIsInFlight
    BY DEF IInv, TicketsOK, TicketOK, PendingIsInFlight, Present
  <2>2. ReconciledIsDesired
    <3> SUFFICES ASSUME observed_version = store_version, ~ stopped,
                        NEW s \in Sessions
                 PROVE  IF sessions[s] = None
                        THEN registrations[s] = None \/ registrations[s].snapshot = None
                        ELSE /\ registrations[s] # None
                             /\ registrations[s].snapshot = sessions[s].snapshot
                             /\ registrations[s].version = sessions[s].version
      BY DEF ReconciledIsDesired
    <3>1. removed[s] \in Nat /\ store_version \in Nat
      BY BoundAssumption DEF IInv, TypeOK
    <3>2. removed[s] = 0
      BY <3>1 DEF IInv, StoreOK
    <3> QED BY <3>2 DEF IInv, StoreOK
  <2> QED BY <2>1, <2>2 DEF IInv, WorkerBooksAgree
<1> QED BY <1>1, InvariantHolds, PTL

=============================================================================
