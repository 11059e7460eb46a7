---------------------------- MODULE PeerManager ----------------------------
(***************************************************************************)
(* The peer runtime of one Gateway (crates/relaygate-gateway-peer/src/     *)
(* runtime/{handle,mod}.rs, runtime/manager/*.rs, pool.rs, handshake.rs).  *)
(*                                                                         *)
(* The Manager owns the pair slots, the OPENs that wait for a transport,   *)
(* and the transports; PeerHandle gives it commands through a bounded      *)
(* queue, handshake tasks and transport actors give it notices.  The       *)
(* manager never waits: each select branch is one action.  A handshake     *)
(* task and the notice it leaves behind are one stage of its candidate     *)
(* transport; the notices of a transport are a queue of their own, which   *)
(* the manager merges in any order.  A transport actor is reduced to its   *)
(* command queue, the streams of local OPENs and its cancellation token;   *)
(* PeerTransport.tla is the actor itself.                                  *)
(*                                                                         *)
(* A call is one PeerHandle::open, with the OpenIdentity and the remote    *)
(* Gateway it names; two calls may name one identity.  committed, told and *)
(* released are history: the calls whose OPEN reached a writer queue, the  *)
(* calls whose end the Gateway heard of, and those it ended itself; data   *)
(* and cancelled bound what the Gateway asks.                              *)
(***************************************************************************)
EXTENDS Integers, Sequences, FiniteSets, FiniteSetsExt, SequencesExt

CONSTANTS
    Calls,            \* the calls of PeerHandle::open
    Identity,         \* call -> its OpenIdentity
    Target,           \* call -> the Gateway it opens to
    Remotes,          \* the other Gateways
    Local,            \* this Gateway
    Inbound,          \* PeerTransportIds of the connections remotes make
    Workloads,        \* the calls and connections that are made, one of these
    ManagerCapacity,  \* config.manager_queue_capacity
    QueueCapacity,    \* config.transport_queue_capacity
    EventCapacity,    \* config.event_queue_capacity
    MaxPendingOpens,  \* config.max_pending_opens
    MaxHandshakes,    \* config.max_handshakes
    MaxStreams,       \* config.max_streams_per_transport
    MaxData,          \* bound on the stream commands that are not terminal
    Cancellable,      \* identities the Gateway may cancel, each once
    Faults,           \* {"shutdown", "listener"}: what may stop the runtime
    None

(* The candidate a call starts has the call's name for its PeerTransportId. *)
Transports == Calls \union Inbound

Identities == {Identity[c] : c \in Calls}
Gateways == Remotes \union {Local}
SlotKeys == {<<Local, r>> : r \in Remotes} \union {<<r, Local>> : r \in Remotes}

ASSUME CallAssumption ==
    /\ Identity \in [Calls -> Identities]
    /\ Target \in [Calls -> Gateways]
    /\ Local \notin Remotes
    /\ Calls \intersect Inbound = {}
    /\ None \notin Transports
    /\ Workloads \subseteq SUBSET Transports
ASSUME BoundAssumption ==
    /\ {ManagerCapacity, QueueCapacity, EventCapacity, MaxPendingOpens,
        MaxHandshakes, MaxStreams} \subseteq Nat \ {0}
    /\ MaxData \in Nat /\ Cancellable \subseteq Identities
    /\ Faults \subseteq {"shutdown", "listener"}

VARIABLE rt

vars == <<rt>>

(***************************************************************************)
(* Stages of a candidate.  A task runs in the first four; the next seven   *)
(* are the HandshakeNotice it left for the manager.                        *)
(***************************************************************************)
TaskStages == {"dialing", "hello", "completing", "rejecting"}
NoticeStages == {"outbound_ok", "outbound_err", "hello_ok", "hello_err",
                 "complete_ok", "complete_err", "rejected"}
Stages == {"unused", "done"} \union TaskStages \union NoticeStages

NewTransport == [queue |-> <<>>, streams |-> {}, token |-> "open", notices |-> <<>>]

Init ==
    \E made \in Workloads :
    rt = [phase       |-> "running",
          shutdown    |-> FALSE,      \* the CancellationToken
          commands    |-> <<>>,
          slots       |-> [k \in SlotKeys |-> [state |-> "Idle", t |-> None]],
          transports  |-> {},         \* also the registry shared with the handle
          pending     |-> <<>>,
          assignments |-> [x \in Identities |-> None],
          inflight    |-> 0,          \* handshakes_inflight
          counts      |-> [connecting |-> 0, ready |-> 0],
          active      |-> {},         \* ActiveOpenSet
          stage       |-> [t \in Transports |-> IF t \in made THEN "unused" ELSE "done"],
          peer        |-> [t \in Transports |-> None],
          actor       |-> [t \in Transports |-> NewTransport],
          events      |-> <<>>,
          answer      |-> [c \in Calls |-> "none"],
          key         |-> [c \in Calls |-> None],
          committed   |-> {},
          told        |-> {},
          released    |-> {},
          data        |-> 0,
          cancelled   |-> {}]

-----------------------------------------------------------------------------
(***************************************************************************)
(* Pair slots (pool.rs): one candidate per direction.                      *)
(***************************************************************************)

(* PeerPool::connect takes the slot only when it is Idle. *)
CanConnect(s, k) == s.slots[k].state = "Idle"

Connect(s, k, t) == [s EXCEPT !.slots[k] = [state |-> "Connecting", t |-> t]]

(* PeerPool::ready: the candidate must still own its slot. *)
OwnsSlot(s, k, t) == s.slots[k] = [state |-> "Connecting", t |-> t]

RemoveTransport(s, t) ==
    [s EXCEPT !.slots = [k \in SlotKeys |->
        IF s.slots[k].t = t THEN [state |-> "Idle", t |-> None] ELSE s.slots[k]]]

(* PeerPool::ready_transport: the Ready transports to remote, either direction. *)
ReadyTransports(s, remote) ==
    {s.slots[k].t : k \in {q \in SlotKeys : /\ remote \in {q[1], q[2]}
                                            /\ s.slots[q].state = "Ready"}}

InState(s, state) == Cardinality({k \in SlotKeys : s.slots[k].state = state})

(* SharedCounts::update_pool *)
UpdateCounts(s) ==
    [s EXCEPT !.counts = [connecting |-> InState(s, "Connecting"),
                          ready |-> InState(s, "Ready")]]

-----------------------------------------------------------------------------
(***************************************************************************)
(* OPENs.                                                                  *)
(***************************************************************************)

Answer(s, c, a) == [s EXCEPT !.answer[c] = a]
Release(s, x) == [s EXCEPT !.active = @ \ {x}]

(* The OPEN fails: its identity is free again and its caller is answered. *)
Refuse(s, c) == Answer(Release(s, Identity[c]), c, "not_observed")

ForTarget(remote, c) == Target[c] = remote
NotForTarget(remote, c) == Target[c] # remote

(* fail_pending_for *)
FailPendingFor(s, remote) ==
    FoldLeft(Refuse,
             [s EXCEPT !.pending = SelectSeq(s.pending, LAMBDA c : NotForTarget(remote, c))],
             SelectSeq(s.pending, LAMBDA c : ForTarget(remote, c)))

Cancelled(s, t) == s.actor[t].token = "cancelled" \/ s.shutdown

(* TransportHandle::try_send: a full or closed queue refuses the command. *)
Accepts(s, t) == s.actor[t].token # "ended" /\ Len(s.actor[t].queue) < QueueCapacity

Enqueue(s, t, command) == [s EXCEPT !.actor[t].queue = Append(@, command)]

ForceClose(s, t) ==
    [s EXCEPT !.actor[t].token = IF @ = "ended" THEN @ ELSE "cancelled"]

OpenCommand(c) == [op |-> "open", call |-> c]

(* Mutant of DispatchOpen: a refused OPEN keeps its identity. *)
DispatchOpenLeaks(s, t, c) ==
    IF t \in s.transports /\ Accepts(s, t)
    THEN Enqueue([s EXCEPT !.assignments[Identity[c]] = t], t, OpenCommand(c))
    ELSE Answer([s EXCEPT !.assignments[Identity[c]] = None], c, "not_observed")

(* dispatch_open: the assignment of an OPEN the queue refuses is taken back. *)
DispatchOpen(s, t, c) ==
    CASE t \notin s.transports -> Refuse(s, c)
      [] ~ Accepts(s, t) -> Refuse([s EXCEPT !.assignments[Identity[c]] = None], c)
      [] OTHER -> Enqueue([s EXCEPT !.assignments[Identity[c]] = t], t, OpenCommand(c))

(* flush_pending_for *)
FlushPendingFor(s, remote, t) ==
    FoldLeft(LAMBDA b, c : DispatchOpen(b, t, c),
             [s EXCEPT !.pending = SelectSeq(s.pending, LAMBDA c : NotForTarget(remote, c))],
             SelectSeq(s.pending, LAMBDA c : ForTarget(remote, c)))

(***************************************************************************)
(* start_open, once no transport is ready: the OPEN waits for the          *)
(* candidate of its direction, which it starts unless there is one.        *)
(***************************************************************************)
AwaitCandidate(s, c) ==
    LET k == <<Local, Target[c]>>
        waiting == [s EXCEPT !.pending = Append(@, c)]
        connecting == UpdateCounts(Connect(waiting, k, c))
    IN  CASE ~ CanConnect(s, k) -> waiting
          [] s.inflight >= MaxHandshakes ->
                 FailPendingFor(UpdateCounts(RemoveTransport(connecting, c)), Target[c])
          [] OTHER -> [connecting EXCEPT !.inflight = @ + 1,
                                         !.stage[c] = "dialing", !.peer[c] = Target[c]]

(* start_open; the choice of t is the order of the slots by GatewayId. *)
StartOpen(s, c, t) ==
    LET x == Identity[c]
        reserved == [s EXCEPT !.active = @ \union {x}]
    IN  CASE Target[c] = Local \/ x \in s.active -> Answer(s, c, "not_observed")
          [] t # None -> DispatchOpen(reserved, t, c)
          [] Len(s.pending) >= MaxPendingOpens -> Refuse(reserved, c)
          [] OTHER -> AwaitCandidate(reserved, c)

(* Vec::swap_remove *)
SwapRemove(seq, i) ==
    SubSeq([seq EXCEPT ![i] = Last(seq)], 1, Len(seq) - 1)

(* cancel_open *)
CancelOpen(s, x) ==
    LET waiting == {i \in DOMAIN s.pending : Identity[s.pending[i]] = x}
        t == s.assignments[x]
    IN  IF waiting # {}
        THEN Refuse([s EXCEPT !.pending = SwapRemove(@, Min(waiting))], s.pending[Min(waiting)])
        ELSE CASE t = None -> s
               [] t \notin s.transports -> Release([s EXCEPT !.assignments[x] = None], x)
               [] Accepts(s, t) -> Enqueue(s, t, [op |-> "cancel", identity |-> x])
               [] OTHER -> ForceClose(s, t)

(* Mutant of DispatchStreamCommand: a terminal command may be lost. *)
DispatchOrDrop(s, c, op) ==
    LET t == s.key[c]
    IN  IF t \in s.transports /\ Accepts(s, t)
        THEN Enqueue(s, t, [op |-> op, call |-> c]) ELSE s

(***************************************************************************)
(* dispatch_stream_command: a terminal command that the queue refuses      *)
(* closes the transport.                                                   *)
(***************************************************************************)
DispatchStreamCommand(s, c, op) ==
    LET t == s.key[c]
    IN  CASE t \notin s.transports -> s
          [] Accepts(s, t) -> Enqueue(s, t, [op |-> op, call |-> c])
          [] op = "close" -> ForceClose(s, t)
          [] OTHER -> s

-----------------------------------------------------------------------------
(***************************************************************************)
(* PeerHandle: the calls of the Gateway.                                   *)
(***************************************************************************)

(* try_manager_send *)
ManagerTakes == rt.phase # "ended" /\ Len(rt.commands) < ManagerCapacity

Send(command) == [rt EXCEPT !.commands = Append(@, command)]

CallOpen(c) ==
    /\ rt.answer[c] = "none" /\ rt.stage[c] = "unused"
    /\ rt' = IF ManagerTakes THEN Answer(Send(OpenCommand(c)), c, "asked")
                             ELSE Answer(rt, c, "not_observed")

CallCancel(x) ==
    /\ x \in Cancellable \ rt.cancelled
    /\ rt' = [IF ManagerTakes THEN Send([op |-> "cancel", identity |-> x]) ELSE rt
                  EXCEPT !.cancelled = @ \union {x}]

CallData(c) ==
    /\ rt.answer[c] = "opened" /\ c \notin rt.released \union rt.told
    /\ rt.data < MaxData
    /\ rt' = [IF ManagerTakes THEN Send([op |-> "data", call |-> c]) ELSE rt
                  EXCEPT !.data = @ + 1]

(* close_transport goes round the queue, to the transports still registered. *)
CloseTransport(s, t) == IF t \in s.transports THEN ForceClose(s, t) ELSE s

(* Mutant of CallClose: a terminal command that does not fit is forgotten. *)
CallCloseOnce(c) ==
    /\ rt.answer[c] = "opened" /\ c \notin rt.released \union rt.told
    /\ rt' = [IF ManagerTakes THEN Send([op |-> "close", call |-> c]) ELSE rt
                  EXCEPT !.released = @ \union {c}]

(* command_or_close: send_failed, send_close and send_reset. *)
CallClose(c) ==
    /\ rt.answer[c] = "opened" /\ c \notin rt.released \union rt.told
    /\ rt' = [IF ManagerTakes THEN Send([op |-> "close", call |-> c])
                              ELSE CloseTransport(rt, rt.key[c])
                  EXCEPT !.released = @ \union {c}]

(* The Gateway takes the next event; an event names the calls it ends. *)
RecvEvent ==
    /\ rt.events # <<>>
    /\ rt' = [rt EXCEPT !.events = Tail(@), !.told = @ \union Head(rt.events)]

-----------------------------------------------------------------------------
(***************************************************************************)
(* Handshake tasks.  The outcome of a handshake depends on the other       *)
(* Gateway, the network and the timeouts.                                  *)
(***************************************************************************)

Becomes(t, stage) == rt' = [rt EXCEPT !.stage[t] = stage]

DialAndHandshake(t) ==
    /\ rt.stage[t] = "dialing"
    /\ Becomes(t, "outbound_ok") \/ Becomes(t, "outbound_err")

(* A task may fail before it knows who is calling. *)
ReceiveInboundHello(t) ==
    /\ rt.stage[t] = "hello"
    /\ \/ \E r \in Remotes : rt' = [rt EXCEPT !.stage[t] = "hello_ok", !.peer[t] = r]
       \/ Becomes(t, "hello_err")

CompleteInboundHandshake(t) ==
    /\ rt.stage[t] = "completing"
    /\ Becomes(t, "complete_ok") \/ Becomes(t, "complete_err")

RejectDuplicate(t) == rt.stage[t] = "rejecting" /\ Becomes(t, "rejected")

Handshake(t) ==
    \/ DialAndHandshake(t) \/ ReceiveInboundHello(t)
    \/ CompleteInboundHandshake(t) \/ RejectDuplicate(t)

-----------------------------------------------------------------------------
(***************************************************************************)
(* The transport actor, as the manager sees it.                            *)
(***************************************************************************)

Notify(s, t, notice) == [s EXCEPT !.actor[t].notices = Append(@, notice)]
Event(calls) == [kind |-> "event", calls |-> calls]
Ended(c) == [kind |-> "ended", call |-> c]

(* A stream ends: the identity is free before the manager hears of it. *)
FinishStream(s, t, c) ==
    Notify(Release([s EXCEPT !.actor[t].streams = @ \ {c}], Identity[c]), t, Ended(c))

Runs(t) == t \in rt.transports /\ rt.actor[t].token # "ended"

Dequeued(t) == [rt EXCEPT !.actor[t].queue = Tail(@)]

(* Mutant of ActorOpens: the limits are looked at after the commit. *)
ActorOpensFirst(t, c) ==
    \/ /\ Cardinality(rt.actor[t].streams) < MaxStreams
       /\ rt' = [Answer(Dequeued(t), c, "opened") EXCEPT
                     !.actor[t].streams = @ \union {c},
                     !.key[c] = t,
                     !.committed = @ \union {c}]
    \/ rt' = [Notify(Refuse(Dequeued(t), c), t, [kind |-> "attempt", identity |-> Identity[c]])
                  EXCEPT !.committed = @ \union {c}]

(* open: the OPEN is committed, or refused at a limit or by the channel. *)
ActorOpens(t, c) ==
    \/ /\ Cardinality(rt.actor[t].streams) < MaxStreams
       /\ rt' = [Answer(Dequeued(t), c, "opened") EXCEPT
                     !.actor[t].streams = @ \union {c},
                     !.key[c] = t,
                     !.committed = @ \union {c}]
    \/ rt' = Notify(Refuse(Dequeued(t), c), t, [kind |-> "attempt", identity |-> Identity[c]])

ActorCommand(t) ==
    /\ Runs(t) /\ rt.actor[t].queue # <<>>
    /\ LET command == Head(rt.actor[t].queue)
           streams == rt.actor[t].streams
       IN  \/ command.op = "open" /\ ActorOpens(t, command.call)
           \/ /\ command.op = "cancel"
              /\ LET of == {c \in streams : Identity[c] = command.identity}
                 IN  rt' = FoldSet(LAMBDA c, s : FinishStream(s, t, c), Dequeued(t), of)
           \/ command.op = "data" /\ rt' = Dequeued(t)
           \/ /\ command.op = "close"
              /\ rt' = IF command.call \in streams
                       THEN FinishStream(Dequeued(t), t, command.call) ELSE Dequeued(t)

(* The other end answers FAILED, CLOSE or RESET. *)
ActorStreamEnds(t) ==
    /\ Runs(t)
    /\ \E c \in rt.actor[t].streams :
           rt' = FinishStream(Notify(rt, t, Event({c})), t, c)

(* The connection breaks, the heartbeat times out or an idle transport retires. *)
ActorFails(t) ==
    /\ Runs(t) /\ ~ Cancelled(rt, t)
    /\ rt' = ForceClose(rt, t)

(***************************************************************************)
(* The loop ends: the streams are lost, the commands left in the queue are *)
(* dropped with their replies.                                             *)
(***************************************************************************)
DropCalls(s, queue) ==
    LET dropped == {queue[i].call : i \in {j \in DOMAIN queue : queue[j].op = "open"}}
    IN  [s EXCEPT !.answer = [c \in Calls |->
            IF c \in dropped THEN "not_observed" ELSE s.answer[c]]]

ActorEnds(t) ==
    /\ Runs(t) /\ Cancelled(rt, t)
    /\ LET a == rt.actor[t]
       IN  rt' = [DropCalls(rt, a.queue) EXCEPT
                     !.active = @ \ {Identity[c] : c \in a.streams},
                     !.actor[t] = [queue |-> <<>>, streams |-> {}, token |-> "ended",
                                   notices |-> Append(a.notices,
                                       [kind |-> "lost", calls |-> a.streams])]]

-----------------------------------------------------------------------------
(***************************************************************************)
(* The manager's select loop.                                              *)
(***************************************************************************)

(* begin_shutdown: waiting OPENs are refused, every transport is closed. *)
BeginShutdown(s) ==
    LET closed == FoldSet(LAMBDA t, b : ForceClose(b, t), s, s.transports)
    IN  [FoldLeft(Refuse, closed, s.pending) EXCEPT
             !.phase = "shutting", !.shutdown = TRUE, !.pending = <<>>]

ReadyOrNone(c) ==
    LET ready == ReadyTransports(rt, Target[c]) IN IF ready = {} THEN {None} ELSE ready

HandleCommand ==
    /\ rt.phase = "running" /\ rt.commands # <<>>
    /\ LET command == Head(rt.commands)
           s == [rt EXCEPT !.commands = Tail(@)]
       IN  \/ /\ command.op = "open"
              /\ \E t \in ReadyOrNone(command.call) : rt' = StartOpen(s, command.call, t)
           \/ command.op = "cancel" /\ rt' = CancelOpen(s, command.identity)
           \/ /\ command.op \in {"data", "close"}
              /\ rt' = DispatchStreamCommand(s, command.call, command.op)

(* start_inbound_handshake: above the limit the connection is dropped. *)
AcceptInbound(t) ==
    /\ rt.phase = "running" /\ t \in Inbound /\ rt.stage[t] = "unused"
    /\ rt' = IF rt.inflight >= MaxHandshakes
             THEN [rt EXCEPT !.stage[t] = "done"]
             ELSE [rt EXCEPT !.stage[t] = "hello", !.inflight = @ + 1]

(***************************************************************************)
(* admit_established: the candidate's slot becomes Ready, its actor starts *)
(* and the OPENs that wait for the pair go to it.                          *)
(***************************************************************************)
AdmitEstablished(s, t) ==
    LET remote == s.peer[t]
        owned == {k \in {<<Local, remote>>, <<remote, Local>>} : OwnsSlot(s, k, t)}
        admitted == [s EXCEPT
            !.slots = [k \in SlotKeys |->
                IF k \in owned THEN [state |-> "Ready", t |-> t] ELSE s.slots[k]],
            !.transports = @ \union {t}]
    IN  IF owned = {}
        THEN FailPendingFor(UpdateCounts(RemoveTransport(s, t)), remote)
        ELSE FlushPendingFor(UpdateCounts(admitted), remote, t)

(* Mutant of CandidateFails: the OPENs that wait for the candidate stay. *)
CandidateFailsQuietly(s, t) == UpdateCounts(RemoveTransport(s, t))

CandidateFails(s, t) == FailPendingFor(UpdateCounts(RemoveTransport(s, t)), s.peer[t])

(***************************************************************************)
(* An inbound HELLO takes the slot of its direction or is rejected; either *)
(* way a task answers it.                                                  *)
(***************************************************************************)
AdmitHello(s, t) ==
    LET k == <<s.peer[t], Local>>
    IN  IF CanConnect(s, k)
        THEN [UpdateCounts(Connect(s, k, t)) EXCEPT !.inflight = @ + 1,
                                                    !.stage[t] = "completing"]
        ELSE [s EXCEPT !.inflight = @ + 1, !.stage[t] = "rejecting"]

HandleHandshakeNotice(t) ==
    /\ rt.phase # "ended" /\ rt.stage[t] \in NoticeStages
    /\ LET stage == rt.stage[t]
           s == [rt EXCEPT !.inflight = @ - 1, !.stage[t] = "done"]
       IN  \/ stage \in {"outbound_ok", "complete_ok"} /\ rt' = AdmitEstablished(s, t)
           \/ stage \in {"outbound_err", "complete_err"} /\ rt' = CandidateFails(s, t)
           \/ stage = "hello_ok" /\ rt' = AdmitHello(s, t)
           \/ stage \in {"hello_err", "rejected"} /\ rt' = s

(* Mutant of EmitEvent: an event that does not fit is dropped. *)
EmitEventOrDrop(s, calls) ==
    IF s.shutdown \/ Len(s.events) >= EventCapacity THEN s
    ELSE [s EXCEPT !.events = Append(@, calls)]

(* try_emit_event: a full queue stops the runtime, unless it is stopping. *)
EmitEvent(s, calls) ==
    CASE s.shutdown -> s
      [] Len(s.events) < EventCapacity -> [s EXCEPT !.events = Append(@, calls)]
      [] OTHER -> BeginShutdown(s)

(* Mutant of Unassign: the end of an earlier stream forgets a later one. *)
UnassignAny(s, t, x) == [s EXCEPT !.assignments[x] = None]

(* StreamEnded: an identity in use again keeps its assignment. *)
Unassign(s, t, x) ==
    IF x \notin s.active /\ s.assignments[x] = t
    THEN [s EXCEPT !.assignments[x] = None] ELSE s

(* AttemptEnded *)
UnassignAttempt(s, x) ==
    IF x \notin s.active THEN [s EXCEPT !.assignments[x] = None] ELSE s

(* Mutant of TransportLost: OPENs left in the queue keep their identities. *)
TransportLostKeepsOpens(s, t, calls) ==
    LET lost == {x \in Identities : s.assignments[x] = t}
    IN  EmitEvent(UpdateCounts(
            [RemoveTransport(s, t) EXCEPT
                !.transports = @ \ {t},
                !.assignments = [x \in Identities |-> IF x \in lost THEN None ELSE @[x]]]),
            calls)

(***************************************************************************)
(* TransportLost: the slot is free, and so are the identities assigned to  *)
(* the transport, whose OPENs may have been left in its queue.             *)
(***************************************************************************)
TransportLost(s, t, calls) ==
    LET lost == {x \in Identities : s.assignments[x] = t}
    IN  EmitEvent(UpdateCounts(
            [RemoveTransport(s, t) EXCEPT
                !.transports = @ \ {t},
                !.active = @ \ lost,
                !.assignments = [x \in Identities |-> IF x \in lost THEN None ELSE @[x]]]),
            calls)

HandleTransportNotice(t) ==
    /\ rt.phase # "ended" /\ rt.actor[t].notices # <<>>
    /\ LET notice == Head(rt.actor[t].notices)
           s == [rt EXCEPT !.actor[t].notices = Tail(@)]
       IN  \/ notice.kind = "event" /\ rt' = EmitEvent(s, notice.calls)
           \/ notice.kind = "ended" /\ rt' = Unassign(s, t, Identity[notice.call])
           \/ notice.kind = "attempt" /\ rt' = UnassignAttempt(s, notice.identity)
           \/ notice.kind = "lost" /\ rt' = TransportLost(s, t, notice.calls)

(* RunningGateway cancels the runtime; the transports' tokens are children. *)
CancelRuntime ==
    /\ "shutdown" \in Faults /\ ~ rt.shutdown
    /\ rt' = [rt EXCEPT !.shutdown = TRUE]

(* accept fails or a task panics. *)
ListenerFails == "listener" \in Faults /\ rt.phase = "running" /\ rt' = BeginShutdown(rt)

ObserveShutdown == rt.phase = "running" /\ rt.shutdown /\ rt' = BeginShutdown(rt)

(***************************************************************************)
(* run returns, drained or at the shutdown deadline: the tasks that are    *)
(* left are aborted and every queue is dropped.                            *)
(***************************************************************************)
EndRun ==
    /\ rt.phase = "shutting"
    /\ LET dropped == FoldSet(LAMBDA t, s : DropCalls(s, rt.actor[t].queue),
                              DropCalls(rt, rt.commands), Transports)
       IN  rt' = [dropped EXCEPT
               !.phase = "ended",
               !.commands = <<>>,
               !.stage = [t \in Transports |-> IF @[t] = "unused" THEN "unused" ELSE "done"],
               !.actor = [t \in Transports |-> [NewTransport EXCEPT !.token = "ended"]],
               !.transports = {},
               !.counts = [connecting |-> 0, ready |-> 0]]

(* The steps of the Gateway, of the other Gateways and of the network. *)
Environment ==
    \/ \E c \in Calls : CallOpen(c) \/ CallData(c) \/ CallClose(c)
    \/ \E x \in Identities : CallCancel(x)
    \/ RecvEvent
    \/ \E t \in Transports : AcceptInbound(t) \/ ActorStreamEnds(t) \/ ActorFails(t)
    \/ CancelRuntime \/ ListenerFails

(* The steps of the manager and of its tasks. *)
Runtime ==
    \/ HandleCommand \/ ObserveShutdown \/ EndRun
    \/ \E t \in Transports :
           \/ HandleHandshakeNotice(t) \/ HandleTransportNotice(t)
           \/ Handshake(t) \/ ActorCommand(t) \/ ActorEnds(t)

Next == Environment \/ Runtime

(***************************************************************************)
(* The manager and its tasks go on while there is something to do:         *)
(* handshakes end by their timeouts and the shutdown deadline comes.       *)
(* Nothing is assumed of the Gateway or of the other ends.                 *)
(***************************************************************************)
Fairness == WF_vars(Runtime)

Spec == Init /\ [][Next]_vars
FairSpec == Spec /\ Fairness

-----------------------------------------------------------------------------
(***************************************************************************)
(* Properties.                                                             *)
(***************************************************************************)

Queued(t) == {rt.actor[t].queue[i].call :
                 i \in {j \in DOMAIN rt.actor[t].queue : rt.actor[t].queue[j].op = "open"}}

(* The calls that hold their identity: waiting, queued or open. *)
Holders == ToSet(rt.pending) \union UNION {Queued(t) \union rt.actor[t].streams : t \in Transports}

(***************************************************************************)
(* The books agree while the runtime runs: one identity, one holder; an    *)
(* identity without a holder belongs to a transport whose loss is on its   *)
(* way; every candidate of the pool is a handshake or a transport; and the *)
(* counters match.                                                         *)
(***************************************************************************)
RuntimeBooks ==
    rt.phase # "ended" =>
        /\ \A c, d \in Holders : Identity[c] = Identity[d] => c = d
        /\ {Identity[c] : c \in Holders} \subseteq rt.active
        /\ \A x \in rt.active \ {Identity[c] : c \in Holders} :
               LET t == rt.assignments[x]
               IN  t # None /\ rt.actor[t].token = "ended"
        /\ \A c \in Holders \ ToSet(rt.pending) :
               LET t == rt.assignments[Identity[c]]
               IN  t # None /\ c \in Queued(t) \union rt.actor[t].streams
        /\ rt.inflight = Cardinality({t \in Transports :
                             rt.stage[t] \in TaskStages \union NoticeStages})
        /\ rt.inflight <= MaxHandshakes
        /\ {rt.slots[k].t : k \in {q \in SlotKeys : rt.slots[q].state = "Ready"}} = rt.transports
        /\ rt.counts = [connecting |-> InState(rt, "Connecting"), ready |-> InState(rt, "Ready")]

(* An OPEN waits only for a candidate that is still on its way. *)
PendingHasCandidate ==
    \A i \in DOMAIN rt.pending :
        LET slot == rt.slots[<<Local, Target[rt.pending[i]]>>]
        IN  /\ slot.state = "Connecting"
            /\ rt.stage[slot.t] \in {"dialing", "outbound_ok", "outbound_err"}
            /\ ReadyTransports(rt, Target[rt.pending[i]]) = {}

(* The books of the pool, the handshakes, the transports and the OPENs that *)
(* wait agree, whatever crosses between them.                              *)
BooksAgree == RuntimeBooks /\ PendingHasCandidate

(* An OPEN reported as not observed never reached a writer queue. *)
NotObservedIsTrue == \A c \in Calls : rt.answer[c] = "not_observed" => c \notin rt.committed

(***************************************************************************)
(* No stream ends unheard: when the runtime still runs and its queues are  *)
(* empty, an OPEN that succeeded is open, was ended or cancelled by the    *)
(* Gateway, or the Gateway heard of its end.                               *)
(***************************************************************************)
StreamsAreAccountedFor ==
    \A c \in Calls :
        LET t == rt.key[c]
        IN  (rt.answer[c] = "opened" /\ Identity[c] \notin rt.cancelled) =>
                \/ rt.shutdown
                \/ c \in rt.actor[t].streams \union rt.told \union rt.released
                \/ \E i \in DOMAIN rt.actor[t].notices :
                       LET n == rt.actor[t].notices[i]
                       IN  n.kind \in {"event", "lost"} /\ c \in n.calls
                \/ \E i \in DOMAIN rt.events : c \in rt.events[i]

(* Every OPEN is answered, whatever the handshakes and transports do. *)
OpensAreAnswered ==
    \A c \in Calls : (rt.answer[c] = "asked") ~> (rt.answer[c] \in {"opened", "not_observed"})

(* A stream the Gateway ended is gone, however full the queues were. *)
EndedStreamsAreReleased ==
    \A c \in Calls : (c \in rt.released) ~> (\A t \in Transports : c \notin rt.actor[t].streams)

=============================================================================
