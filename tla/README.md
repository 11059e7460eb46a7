# RelayGate: TLA+ specifications

RelayGate relays byte streams ("Pipes") between SDK sessions.  A session
publishes Destinations on the Gateway it is connected to; another session dials
a Destination, and the Gateways set up and relay a Pipe between the two.  This
directory models the parts of the system that carry its protocol state,
model-checks them with TLC on small instances, and proves with TLAPS what the
RouteTable shard, the state core of a Gateway, the runtime that keeps the two in
step, the SDK's Relay and its Pipes promise for instances of any size.

To check one run: `tlc -config RouteTableShard.cfg MCRouteTableShard`.  To check
the proofs of a module: `tlapm RouteTableShardProofs.tla`, likewise for each of the
other `...Proofs` modules.  `PROJECT.json` holds the index:
components, runs, mutants, the map from definitions to source lines, hazards,
findings and theorems.

## 1. The system

```
 SDK (Relay, Listener, Pipe)                              SDK
      |  frames over TLS                                   |
  Gateway A ------- peer transport (multiplexed) ------ Gateway B
      |  Register / Update / KeepAlive / Deregister / Resolve
      +----------------- RouteTable shards ----------------+
```

| Component | State it keeps | Operations | Talks to |
|---|---|---|---|
| RouteTable shard (`relaygate-route-table`) | registrations by key; indexes by Destination, deadline and lease; two counters | register, update, keep_alive, deregister, resolve, expire_due | its actor |
| Service actor and connections (`relaygate-route-table-transport/service`) | one request queue, the next expiry deadline, the connections | take a request, fire the timer, answer | shard, client |
| RouteTable client (`.../client`) | one connection, one request in flight | request with a deadline | shard worker, resolver |
| Registration runtime (`relaygate-gateway-routing`) | DesiredStore; per session a RegistrationState (lease, revision, synced version, pending ticket, probe); connection epoch; counters | commit, reconcile, begin, complete, retry, keep alive, reconnect, shut down | Gateway state, client |
| Gateway state (`relaygate-gateway/state`, `registry`) | sessions, bindings, pipes, remote attempts, peer stream indexes, counters, draining | every SDK frame, control result, peer event, sweep, disconnect | effects |
| Gateway effects (`gateway/effects.rs`, `transition.rs`) | spawned control effects, writer queues | execute the actions a transition returned | routing, peer runtime, SDK writers |
| Gateway SDK server (`gateway/session.rs`, `sdk_server.rs`, `heartbeat.rs`) | connections, admission permits, token buckets, heartbeat | accept, read loop, heartbeat, drain | Gateway state |
| Peer transport (`relaygate-gateway-peer/transport`) | streams, per-stream queues, open deadlines, heartbeat | commands, frames, deadlines | peer runtime, the other Gateway |
| Peer runtime and pool (`.../runtime`, `pool`) | pair slots, pending opens, assignments, handshakes | open, cancel, handshake done, transport lost | Gateway effects |
| SDK (`relaygate-sdk`) | current session, listeners, dials, Pipes, byte budgets | listen, dial, accept, read, write, close, reconnect | Gateway |
| Codecs, configuration, TLS, token issuer, server binaries | none that a protocol depends on | | |

### What is hard about it

* **State read outside a lock.**  Token verification, route resolution and the
  opening of a peer stream run between two critical sections of the Gateway;
  the session, the limit or the attempt they started from may be gone.
* **Answers on different channels.**  "Your OPEN was committed as stream k" and
  the events of stream k arrive through different tasks, in either order.
* **Requests whose outcome is unknown.**  A timed-out Update may have been
  executed, or may still be executed after the client has reconnected.
* **Soft state with leases.**  A RouteTable forgets everything on restart, an
  expired lease is only purged lazily, and a lease id may be a stale one.
* **Several indexes over one set.**  The shard keeps four and the Gateway
  state five, plus counters adjusted by hand on each path.
* **Threads that meet without a lock.**  The two halves of an SDK Pipe and the
  session task share atomics, wakers and a bounded lane; an application may drop
  any future half way.
* **Things that must happen.**  Each DIAL is answered, a drain ends, dead
  registrations disappear without traffic, the RouteTable converges.

The `hazards` list of `PROJECT.json` gives each at its line, with the properties
that would catch it going wrong.

### What makes each component correct

* RouteTable: Resolve answers with all and only the live bindings; a lease's
  revision and deadline never move back; a stale request changes nothing.
* Gateway state: no dangling reference between sessions, bindings, Pipes and
  streams; one answer per DIAL; every endpoint that was told of a Pipe is told
  of its end; limits hold; draining only shrinks; the RouteTable is given what
  the registry holds.
* Registration runtime: "synced" means held by the RouteTable; no commit and
  no removal is lost; a race alone never ends a registration; convergence.
* Peer transport: frames of a stream in order, one outcome per stream, both ends
  agree, no stream lost without a report.
* Peer runtime: one identity, one holder; each OPEN is answered, and called not
  observed only if it was; no stream ends unheard, however full the queues are.
* SDK Pipe: one terminal state, no byte lost before EOF, a flush vouches only for
  what was sent, no wake is lost, an ended Pipe gives back what it held.
* SDK Relay: the Gateway's bindings are the desired Listeners; work for the
  session task always has a wake; what listen() and dial() report is true; no
  Pipe is left that nobody will close; an ended session is replaced and its
  Listeners come back.

## 2. Modules

| Module | Role |
|---|---|
| `RouteTableTypes` | the records that contract and shard share: keys, projections, leases, replies, request validation |
| `RouteTable` | the contract (docs/spec/004): a table whose leases vanish at their deadline |
| `RouteTableShard` | the shard with its indexes, its actor and timer; `Contract == INSTANCE RouteTable` with expired registrations hidden |
| `RouteTableShardProofs` | its theorems |
| `GatewayState` | the state core of one Gateway with its control effects and the peer streams it sees |
| `GatewayRegistryProofs` | its inductive invariant, and the registry's part of the proof |
| `GatewayTableProofs` | the Pipe table, its counters and limits, who was told of which Pipe, and the stages of each DIAL |
| `GatewayStateProofs` | the peer indexes, streams and effects, and the theorems |
| `RegistrationLifecycle` | DesiredStore, shard worker, RegistrationState, connection, and the RouteTable as this Gateway sees it |
| `RegistrationProofs` | its inductive invariant: revisions and versions, and the theorems that follow |
| `RegistrationSurvivalProofs` | a session that stays published survives one fault |
| `PeerTransport` | both ends of one PeerTransport: actor, stream queues, heartbeat, writer task, and the socket |
| `PeerManager` | the peer runtime of one Gateway: handle, manager, pair slots, handshakes, and the transports behind it |
| `SdkPipe` | the Pipes of one Relay session: reader, writer and session task over the shared lane |
| `SdkPipeProofs` | its inductive invariant and the theorems |
| `SdkListener` | listen(), accept() and the handles of a Relay, its session task and its supervisor |
| `SdkRelay` | `SdkListener` composed with the dial() calls that share its session |
| `SdkRelayProofs` | its inductive invariant, for the Listeners and for the dials, and the theorems |
| `MC...` (one per specification that a run uses) | values of constants, scenarios and symmetry sets |

Operators named `...Uncounted`, `...Ignored`, `...KeepingEmpty` and the like,
commented "Mutant of X", are variants of X with one plausible mistake.  No
specification uses them; substituted for X each one makes a property fail,
which is how we know that the property says something about X.

### RouteTableShard

`registration_index`, `destination_index`, `active_lease_ids`, `expiry_index`,
`binding_count` and `expiry_record_count` are the fields of `RouteTableShard` in
`shard.rs`; `now` is the clock the actor reads and `reply` the last response.
The actor handles one request at a time, so each operation is one action.  Every
request purges first (`LiveRegistrations`, `LiveDestinations`, ... are the
indexes after `expire_due`), then validates, then changes the state; `Reject`
collects the early returns that precede the purge's effects on a reply.
`ExpireTimer` is the `wait_until` branch, `Restart` a process restart, `Tick` the
clock.  Maps are partial functions, so an empty bucket that is left behind is
visible.  Requests carry any key, any lease and any revision up to the bound,
which covers lost, duplicated, delayed and reordered requests without a network
variable.  A generation, a gateway that is not the connection's and a
Destination of another shard are inputs too.

### GatewayState

The variables are the fields of `GatewayState` and `LocalRegistry`, plus what is in
flight outside the lock: `authorizing` (an operation whose token is being
verified, `prepare_authorization` to `commit_authorized`), `resolving`, `opening`
and `cancelling` (the control effects), `undelivered` (OFFERs not yet in the
acceptor's queue) and `streams` (the peer streams behind the keys).  `dials` and
`held` are history: what each DIAL came to, and which session was told of which
Pipe.  A handler runs under the state lock and is one action with everything it
calls: `RemoveSessions`, for example, ends the session's bindings, attempts and
Pipes, tells the other ends and publishes, as `remove_session` does.
`Next` is the union of `SessionNext` (frames), `PipeNext` (offers and relaying),
`OpenNext` (control results), `StreamNext` (peer events) and the sweep,
transport loss and drain.  A peer transport is modelled from how the Gateway
uses it: it commits or refuses an OPEN, and reports the end of a stream once.

### RegistrationLifecycle

`Commit` is `DesiredStore::publish`; `Reconcile` is `apply_desired`; `Loop` is the head
of the worker's loop (prune, count, start the next request), which runs inside
every event just as the code reaches it after each `select!` arm.  `Serve` is the
RouteTable executing the request in flight, `OperationCompletes`,
`OperationFails` and `OperationThrottled` the three ways the worker hears of it, and
`ServeLate` a request executed after its sender gave up.  `dead` marks connections
that have broken whether or not the worker has noticed; `ResolveFails` and
`ClientFailureSeen` are the one-slot watch through which a resolve reports a broken
connection.  Instants are reduced to "reached or not".

### PeerTransport

`actors[e]` is the `TransportActor` of one end with its `TransportLiveness`:
the stream table, `ready_streams`, `active_opens`, `stream_count`, the id allocator
and guard, the `aggregate_writer` channel and the pending heartbeat; `wire[e]` is what
the socket carries and `broken` its failure.  Each method of the actor
(`SendFin`, `ReceiveClose`, `FinishStream`, ...) is an operator from actor to actor,
and each branch of the loop's `select!` an action that applies one and then
`AfterActivity`, the flush and the liveness sync.  `flush_stream_queues` loops
over rounds; `Flush` states its result: frames enter the channel ordered by
round and StreamId, as many as fit.  A loop whose token is cancelled may run
another branch before it ends, and the writer may write or drop what is left in
the channel, as `select!` permits.  `told` and `sent` are history: the events given to
the Gateway and the frames committed per stream.  `active_opens` is shared by all
transports of a Gateway; here it holds this transport's part.  `inputs` is the scenario:
the OPENs of each end, the commands the Gateway gives, how many DATA a stream may
carry in each direction (`inputs.data`) and what may fail.

### PeerManager

`rt` is the `Manager` with everything that feeds it: `commands` (the queue behind
`PeerHandle`), `slots` (`pool.rs`: a pair of Gateways has one slot per direction),
`pending`, `assignments`, `active`, the `stage` of each candidate's handshake task and
the `actor` behind each ready transport, reduced to its command queue, its
streams and its token.  A candidate that a call starts has the call's name.  The
manager never waits, so each branch of its `select!` is one action; notices of one
transport keep their order and those of different ones do not.  Which OPEN,
cancel and terminal command meets which full queue is left to the interleaving.
`answer`, `committed`, `told` and `released` are history.  Shutdown, a failing
accept loop and the drain after either are actions too.

### SdkPipe

A poll and a handler are split at each point where another thread can come
between: the atomics of `PipeState`, a reservation in the lane, the registration
of a waiter, the lock of the read buffer.  `pipe[p]` is the `PipeState` with its
`PipeReadBuffer` and both halves; `pipe[p].writer.stage`, `pipe[p].reader.stage` and
`task.stage` say where each thread is, and `task.pipe` whose handler the session is in.
`lane` is the bounded channel with its flush markers (`laneOpen`: its receiver is not
closed), `entries` the session's map of Pipes, `abandoned` the queue of dropped Pipes,
`wire` what the Gateway got.  The frames of a writer are numbered and a marker carries
the number of the last one before it, which stands for the identity of the oneshot
channel: a marker whose flush was given up answers nobody.  A writer may give up a
pending poll (`CancelWrite`); the waiter and the marker outlive it.  The biased
`select!` polls the lane and then the queue of dropped Pipes while writers go on, so
those are two steps: `FindsLaneEmpty` and then `OnAbandoned` or `FindsNothing`.  A Pipe may
be written to and dropped between them; `task.seen` is history, the frames each writer
had queued when the lane was found empty.  A chunk keeps its whole reservation
(`Reserved`) until its last byte is read.  Atomics are sequentially
consistent; the code uses acquire and release, which for the two FIN flags is
weaker, so `BothFinsClose` shows the order of the accesses right and not the
memory ordering.  Two things the code does and the properties allow: a DATA frame
that arrives after the application closed the Pipe may be buffered although the
reader saw EOF, and DATA still in the lane may follow a RESET the session sent.

### SdkListener

`state`, `calls`, `accepts` and `queue` are the application's side of each Listener:
`ListenerState` under its lock, how far the call or handle has come, the accept() that
may hold the `lane` (the `incoming_rx` lock) and the incoming Pipes.  `desired`,
`permit`, `epoch` and `timers` are the shared registry, the stored permit of the
reconcile `Notify` and the retry of republication.  `loop`, `todo`, `pend`,
`committed`, `regs` and `drains` are the session task with its supervisor.  `held`
is what the Gateway may hold.  Reconciliation is `ReconcileSnapshot`, one
`Register` per Listener and `Settle`, since the application may act in between.  The
Gateway answers a PUBLISH in any way and loses the session at any time.  A
refused or failed registration ends its queue in the same step, which waits for
the lane; a second listen() for a Destination in use and an OFFER that is rejected
change nothing.

### SdkRelay

`dials[d].stage` is where a `dial_inner` call is: looking for a session, waiting
for its token, for the lock, for room in the command queue, pushing, waiting for
the answer.  `relay` is the part of the session that is about dials: the id
counter, `commands`, `cancellations` and `abandoned` (three queues that overtake each
other), `pending_dials` and `pipes`, and `poll`, the branch of the `select!` that is polled
next: the application goes on between two branches, and what is queued on one already
passed waits for the next poll.  `dials[d].crossed` is history: the DIAL was queued in
the middle of a poll.  Any write may fail and end the session (`WriteFails`).  `ListenerStep` is any step of `SdkListener`; the
cleanup of a session also ends its dials and a new session starts with none.  Our
frames reach the Gateway at once, its frames wait in `inbox` in order.  Whether the
limit of live Pipes is exhausted is left open, since incoming Pipes share it.  A
command pushed after the ended session drained its queue gets no answer; the
dial's deadline reports it as maybe observed.  A deadline that passes after the
commit cancels the whole session, as `dial_inner` does.

## 3. Runs

A property named with parts is the conjunction of those invariants; each part has
its own mutant.

| Run | Instance | Checks |
|---|---|---|
| `route_table_shard` | two Gateways, two bindings, three Destinations (one of another shard), two leases, TTL 2, clock to 3, revisions to 2; 8 742 states | `IndexesAgree` (five parts), `ResolveAnswersLiveBindings`, `LeaseOnlyMovesForward`, the refinement `ImplementsContract`, `ExpiredRegistrationsArePurged` |
| `gateway_local` | two sessions that publish the same Destination, dial each other and a peer; 78 226 states | `RegistryIndexesAgree`, `EndpointsAreTold`, `OpensAreSettled` (every DIAL is answered; draining settles every open) |
| `gateway_remote` | two sessions, a peer session, two peer streams, one attempt and one live Pipe allowed; 101 580 states | `PipeBooksAgree` (type, counters, peer indexes, stream ownership, attempts, limits), `EndpointsAreLive`, `OneAnswerPerDial`, `PublicationMatchesRegistry`, `NothingRevives` (ended dials, draining) |
| `registration_sync` | one session, two snapshots, three commits, two faults of any kind; 604 567 states | `SyncedIsHeld`, `WorkerBooksAgree` (type, pending ticket, reconciled versions, counts), `LossesAreSurvived` (a refusal only ends the shard, one fault ends nothing), `RouteTableConverges` |
| `peer_transport` | one stream with every command, deadline and failure; or with two DATA in each direction and each way to end; or one stream from each end with two DATA in each direction; queues of two frames; 438 447 states | `CrossingsSettle` (no protocol RESET, ends agree), `BooksAgree`, `DeliveredInOrder`, `EveryEndIsHeard` (one outcome, none vanishes) |
| `peer_transport_liveness` | one stream, all deadlines, both ends probing, nonces to 2; 40 631 states | `ProbeOnItsWay`, `StreamsAreSettled` (OPENs answered, ended streams released) |
| `peer_manager` | two OPENs of one identity to one Gateway that also dials in, a cancel, shutdown and a failing listener, every queue of length one; or two inbound connections, the later a duplicate; 2.1 million states | `BooksAgree` (runtime books, waiting OPENs), `NotObservedIsTrue`, `StreamsAreAccountedFor` |
| `peer_manager_liveness` | two OPENs of two identities; 150 694 states | `OpensAreAnswered`, `EndedStreamsAreReleased` |
| `sdk_pipe` | one Pipe with every operation, or two Pipes whose writers compete for the lane and give up; 2.3 million states | `NothingAfterClose`, `FlushMeansSent`, `BothFinsClose`, `EofMeansAll`, `EndedPipesRelease` (bytes, map entry), `NoWakeIsLost` |
| `sdk_relay` | two Listeners of one Destination that replace each other, or one Listener or two dials while the Relay may be closed, over sessions of which one breaks; 1.7 million states | `BindingsAgree` (type, bindings known, ACTIVE is registered), `ReconcileIsDue`, `CallsTellTruth` (listen, dial), `PipesHaveOwners` (offered, dialled) |
| `sdk_listener_recovery` | Listeners of two Destinations, or one Listener with every operation while the Relay may be closed; one broken session; 155 662 states | `ListensAreAnswered`, `RelayRecovers` (sessions replaced, handles recover) |
| `registration_terminal` | two sessions, one snapshot, six commits, no fault | finds `TerminalOnPermanentFailureOnly` violated (section 5) |

Bounds and why they are enough:

* `MaxTime`, `LeaseTtl`: with a TTL of two and a clock to three a lease can be
  renewed before, at and after half its life, expire at the exact deadline and
  be replaced; a second Gateway's lease expires in the same or another bucket.
* `LeaseIds`: two, so that a request can name a stale or a foreign lease.  An id
  that is in use is not given out again; one that has ended may be, which is
  harder on the shard than the code's fresh UUIDs.
* `MaxRevision`: two gives the first, the next, the repeated and the older revision.
* `MaxLivePipes = 1`, `MaxPendingOffers = 2`, `MaxRemoteDialAttempts = 1`: each
  limit is reached by the second or third dial, before and after promotion.
* `CursorWrap`: the `usize` cursor wraps within the run rather than at 2^64.
* `Keys`: two streams let a peer's OPEN cross one of ours, and one stream end
  while the other is opening.  Sessions and connection ids are used once, as in
  the code (a session id is a fresh UUID; connection ids increase).
* `MaxVersion = 3`: publish, withdraw, publish again, which every race between
  a removal and a new publication needs; `MaxFaults = 2` lets one fault hit the
  recovery from another.  Two sessions share the connection and the one request
  in flight but no other state; the theorems of section 4 are about any number.

* Peer transport: `WriterCapacity`, `WireCapacity` and `StreamQueueCapacity` are two and a
  stream carries up to two DATA each way, so that each queue can hold two frames of
  one stream, a flush can move both or only the first, and the third frame of a
  direction waits or is refused.  A scenario has many commands and failures, or much
  DATA.  In the liveness run all three are one: a queue is full after one frame, and
  every wait for a slot occurs.  `CounterLimit` exhausts the id allocator, `NonceLimit` wraps the
  nonce; in the liveness run `MaxStreams = 1` makes an OPEN meet a stream the other
  end has not released.
* Peer manager: all capacities are one, so a queue is full as soon as it is used.
  Two calls of one identity are the reuse of an identity whose earlier end is
  still being reported; with a third call or a second Gateway nothing new is
  shared but the queues, which are full already.
* `sdk_pipe`: a lane of two slots holds a frame and a marker, so a flush waits
  both for room and for its turn; a budget of four bytes and chunks of two make
  the third chunk exceed it, also while one of the two is half read.  The second scenario leaves out what needs only
  one Pipe.
* `sdk_relay`: two calls are what replacement, the shared lock and the
  allocation order need; one broken session gives the race with the cleanup and a
  second session to return to.  `CommandCapacity = 1` makes the second dial wait
  for room while it holds the lock.  `MaxEpoch = 1` is one scheduled retry, its
  timer, and a reset before it fires.
* Where one state space cannot hold all combinations, `Init` chooses a scenario
  (`Inputs` of `PeerTransport`, `Operations` of `SdkPipe`, `Workloads` of `PeerManager`,
  `SdkListener` and `SdkRelay`).

Symmetry is declared only for names that nothing orders or tells apart
(sessions, bindings and stream keys in `gateway_remote`; the two calls of one
identity; the two Listeners of one Destination; the two dials) and only where no liveness is
checked.
Deadlock checking is off where the bounded system may stop: sessions, streams
and commits are used up.

### Fairness

* `route_table_shard` assumes weak fairness of `ExpireTimer` only: the actor
  arms `sleep_until(next_expiry)` on each turn (`service/actor.rs` 36, 61).
* `gateway_local` assumes weak fairness of what a timeout or a spawned task
  guarantees: verification ends within `authorization_timeout`; a resolve within
  the client's `request_timeout`; an OpenPeer or CancelPeerOpen effect replies,
  since a pending open is bounded by the handshake timeout; a committed OPEN is
  answered or failed at `open_response_timeout`; the offer sweep runs in the
  serve loop and in `wait_until_drained`.  No fairness is assumed of an SDK.
* `registration_sync` assumes weak fairness of the worker's own branches and
  timers (`WorkerBranch`, `KeepAliveDue`), of a request in flight ending
  (`RequestEnds`: served, answered or timed out) and of the RouteTable tidying up
  (`ServiceTidies`: a left-behind request is executed or lost with its connection,
  a lease nobody renews expires).  Faults and commits are bounded, so the
  property is about what happens once they cease; nothing forces an acceptance
  or a fault.
* `peer_transport_liveness` assumes weak fairness of the loop's own branches (the
  writer's wake, the cancelled token) and of the deadlines, which `sleep_until`
  guarantees.  Nothing is assumed of the writer's sends, of the socket or of
  frames arriving.  Inbound frames postpone a probe; in the model they are
  finitely many apart from heartbeats, and a heartbeat from the other end needs
  a slot for its answer, so postponement cannot go on for ever there.
* `peer_manager_liveness` assumes weak fairness of the runtime as a whole: the
  manager and its tasks go on while there is something to do, and a handshake
  ends by its timeout.  Nothing is assumed of the Gateway or of the other ends.
* `sdk_listener_recovery` assumes weak fairness of the session task, of each
  listen(), handle and accept() that is awaited, of the timers, and of the Gateway
  answering a PUBLISH; a session can be established in the end.  An accept() future
  that is kept but never polled again would keep the lane's lock and with it the
  cleanup waiting: the assumption says that it is polled or dropped.
* A dial() ends by its own deadline; no liveness is checked for it.

## 4. Proofs

`RouteTableShardProofs` proves, for any finite or infinite sets of Gateways,
sessions, bindings, Destinations and shards, and any TTL:

* `TypeCorrect`, and `DestinationIndexIsExact`, `ExpiryIndexIsExact`, `LeasesStayUnique`,
  `ScopesAreKept`, `CountersAreExact` with their conjunction `IndexesStayInStep`:
  the invariant of `route_table_shard`;
* `ResolveIsExact`, `LeasesMoveForward`: its two action properties;
* `DeadlinesStayWithinTtl`: no deadline lies more than one TTL ahead;
* `ShardImplementsContract`: the refinement `Spec => Contract!TableSpec`.

Assumptions: those named in `RouteTableTypes` and `RouteTableShard` (the TTL is
a positive natural, `None` is not a registration, snapshots in requests are
finite).  `MCRouteTableShard` evaluates them on each run.

The argument.  None of the index invariants is inductive by itself: purging
trusts the expiry index to name each due registration, removing bindings trusts
the destination index to hold them, and the counters may be subtracted only
because the two indexes agree.  The inductive invariant is their conjunction
together with finiteness of the index domains and buckets and the deadline bound.
The proof first shows what the purge does (`LiveRegistrations` etc. again
satisfy the invariant, with all due registrations gone), then treats each
operation as a change of the purged state, one step per action and under it one
per conjunct.  The counters need cardinality lemmas for the buckets and
bindings added and removed.  Refinement maps `table` to the registrations whose
deadline lies ahead: a purge is then a stutter, `Tick` performs the contract's
expiry, and each request maps to the contract's request.

### The Gateway's state core

`GatewayStateProofs` proves, for any sets of sessions, bindings, Destinations,
connections and stream keys, any limits and any interleaving of frames, control
results, peer events, sweeps and disconnects:

* `RegistryIsConsistent`: `RegistryIndexesAgree`;
* `BooksAreConsistent`: `PipeBooksAgree`, the counters, peer indexes, stream
  ownership, attempts and limits, with the type invariant;
* `NothingDangles`: `EndpointsAreLive`; `EndsAreReported`: `EndpointsAreTold`;
* `DialsAreAnsweredOnce`: `OneAnswerPerDial`;
* `RoutingIsTold`: `PublicationMatchesRegistry`;
* `LateResultsReviveNothing`: the action property `NothingRevives`;
* `Inductive`: the invariant they all follow from.

Assumptions, all named in `GatewayState`: `IdentityAssumption` (connection ids are
positive naturals, identities of different kinds differ), `LimitsAssumption` (each
limit is a positive natural), `NoneAssumption` (`None` is none of
the things it stands in for).

The argument.  `IInv` (in `GatewayRegistryProofs`) is the conjunction of

* `AdmissionOK`: ended and current sessions are apart, and only a current one has an
  operation being verified;
* `RegistryOK`: the three registry indexes name the same bindings, each of them
  once, all of current sessions;
* `TableTypes`, `EntriesOK`: what a pending or active entry says about its ends;
* `HeldOK`: who was told of a Pipe and has not been told of its end;
* `DialsOK`: the stage of a DIAL against the entry, the attempt and the effect it
  has in flight;
* `EffectTypes`, `StreamsOK`: at each moment one effect of an OPEN is under way, each
  stream in use belongs to one entry, attempt or effect, and the two peer indexes
  are the inverse of the entries;
* `CountsOK`: the counters, which needs the counted sets to be finite.

No checked property is inductive without the others.  That a Pipe gets one answer
rests on connection ids only growing and on the entry's binding being
registered; that a stream has one owner rests on the reply and the cancellation
of an OPEN following one another on one stream; that the counters are exact rests
on an entry being removed on one path only, which is what `HeldOK` and `DialsOK` say
for the paths that meet.  The proof is layered: `TableStep` first sorts every
action into one of a few changes of the Pipe table (nothing, an entry added,
promoted or a set of entries removed), and entries, counters and `held` are
proved from that; then registry, dials and streams are treated action by action.
TLC checked `IInv` on both Gateway instances before it was proved.

### The registration runtime

`RegistrationProofs` and `RegistrationSurvivalProofs` prove, for any finite set of
sessions, any snapshots and any number of commits and faults of any kind, all
three invariants of `registration_sync`:

* `SyncedIsHeldAlways`: `SyncedIsHeld`, a registration reported as synced is held
  with the wanted snapshot or not at all;
* `WorkerBooksAgreeAlways`: `WorkerBooksAgree`, the type invariant, the pending
  ticket, the reconciled versions and the counters;
* `LossesAreSurvivedAlways`: `LossesAreSurvived`, only a refusal by the RouteTable ends
  the shard and one fault ends no session that stays published;
* `InvariantHolds` and `SurvivalHolds`: the two inductive invariants behind them.

Assumptions, all named in `RegistrationLifecycle`: `SessionAssumption` (sessions are
numbers, finitely many: the worker visits them in order), `BoundAssumption` (the two
bounds are naturals), `FaultAssumption` (the faults are of the six kinds),
`NoneAssumption` and `AbsenceAssumption` (`None` is none of the things it stands in
for).

The argument.  A request that the worker gave up on may still be executed, in any
order with newer ones, so `SyncedIsHeld` needs to know what such a request can do.
`IInv` says it with revisions, for each lease: the RouteTable has every revision
that was acknowledged (`LeaseOK`); no request, in flight or left behind, is more
than one revision ahead of the worker or of the table (`LeaseOK`, `EntryOK`); none
is ahead of a registration whose wanted snapshot was acknowledged, and the table
has exactly that snapshot (`Acknowledged`); an answer the worker has not seen yet
describes the table as far as requests left behind allow (`AnswerOK`); a pending
ticket says what `begin_next` saw (`TicketOK`); and no lease is named before it is
given out.  `StoreOK` orders the store's versions, the removals that are handed out
once and the registrations.  The proof follows the code: what each transition of
a RegistrationState does to these facts, then the worker's loop, which follows
every event, then the events, and last the RouteTable's own steps, which may only
advance an entry (`Advances`).

`LossesAreSurvived` needs more: why no second refusal can follow the first.  `SInv`
is about the sessions that were never removed, while the worker runs, the
RouteTable does not refuse the Gateway and at most one fault has happened.
Until the fault has shown, the RouteTable holds the very lease and revision that the
worker expects (`Intact`), so nothing is refused.  A refusal says that the fault has
happened, that nothing is left behind and that the connection works (`Calm`); hence
the Register that probes gets a lease that is again `Intact`, and the request after
it succeeds.  Withdrawn sessions are outside: section 5 shows that for them the
statement is false.  TLC checked `IInv` and `SInv` on instances with one and with two
sessions before they were proved.

### The SDK's Relay

`SdkRelayProofs` proves, for any sets of Listeners, dials and Destinations, any
capacities, any workload and any number of lost sessions, all four invariants of
`sdk_relay`:

* `BindingsAgreeAlways`: `BindingsAgree`, the type invariant, at most one binding of a
  destination at the Gateway, known to the session, and one for each ACTIVE Listener;
* `ReconcileIsDueAlways`: `ReconcileIsDue`, no wake-up of the session task is lost;
* `CallsTellTruthAlways`: `CallsTellTruth`, NotObserved is true of a listen() and of a
  dial(), and no DIAL is sent twice or out of the order of its id;
* `PipesHaveOwnersAlways`: `PipesHaveOwners`, no offered or dialled Pipe is left that
  nobody will close;
* `RelayInvariantHolds`: the inductive invariant behind them.

Assumptions: `ListenerAssumption` of `SdkListener` (each Listener has a destination,
`NoListener` is none of them, the queue capacity is positive, the bounds are
naturals) and `RelayAssumption` of `SdkRelay` (dials are not Listeners, the command
queue has a place, the workloads name Listeners and dials).

The argument.  `RelayInv` is `ListenerInv` and `DialInv`, and every step is treated for
each.  `ListenerInv` says, for each Listener, how its call or handle, its lifecycle and
its place in the registry go together (`CallOK`), what its PUBLISH can have reached
while listen() may still answer (`TruthOK`), and whose Pipes its queue may hold
(`QueueOK`); for each destination, that the pending and the registered Listener
exclude one another and belong there (`BooksOK`); and for the loop, that whatever a
reconcile would find beyond the snapshot in hand has a permit or a notification on
its way (`DueOK`).  `ReconcileIsDue` speaks of the loop's select only and is not
inductive: work can turn up while the loop registers, so `DueOK` covers the
whole pass, less the Listeners it has still to look at.  A binding is held for
one Listener only because a committed PUBLISH keeps its destination pending until
it is answered, however often the desired Listener changes meanwhile.

`DialInv` orders what a session has of its dials by id: those on the wire, those in
the command queue, the one whose call holds the lock, the next one to be given out
(`WireOK`, `CommandsOK`, `LockOK`).  A call before its DIAL is queued is known to nobody
(`CallerOK`); a queued one has never been on the wire, which is what makes
NotObserved true when the queue is failed at the end of the session; one that the
session knows has an owner, or a cancellation or abandonment still to be handled
(`KnownOK`); the session knows what the Gateway holds, until a failed write ends it, and
the frames on their way say no more than the Gateway's state does (`GatewayOK`).
`KnownOK` has one exception, and it is the code's: commands and cancellations are two
polls of one `select!`, so a DIAL that is queued and dropped between them is cancelled
before it is taken, and is sent all the same.  The invariant says that when the
poll has passed the commands, every DIAL in the queue is such a one (`crossed`), and hence
that a cancellation is lost for no other.  Most steps are about one dial and
share one lemma (`OneDialStep`) that leaves the facts about that dial to show.  TLC
checked `ListenerInv` and `DialInv` on the instance of `sdk_relay` before they were proved.

### The SDK's Pipes

`SdkPipeProofs` proves, for any finite set of Pipes that share a lane, any capacities
and byte budgets, any workload and any number of frames, all six invariants of
`sdk_pipe`:

* `CloseIsOrdered`: `NothingAfterClose`; `FlushIsHonest`: `FlushMeansSent`;
* `BothFinsAreSeen`: `BothFinsClose`; `EofIsTheEnd`: `EofMeansAll`;
* `EndsAreReleased`: `EndedPipesRelease`; `EveryWakeArrives`: `NoWakeIsLost`;
* `TypeCorrect`, and `InvariantHolds`: the inductive invariant behind them.

Assumption: `PipeAssumption` of `SdkPipe` (finitely many Pipes, positive capacities and
chunk sizes, bounds that are naturals, workloads that name known operations).

The argument.  `IInv` is the conjunction of

* `TypeOK`;
* `PipesInv`, one predicate for each Pipe and the stage of the handler in which the
  session is for it.  A failure sets the terminal state before it has the lock of the
  buffer, and each FIN is stored before the other is looked for; between the two steps
  the properties do not hold, and the stage says which step is still to come
  (`EnderKnown`, `BufferInv`, `EofInv`, `FinInv`, `HalvesInv`);
* `LaneInv`: while the session lives, every frame a writer queued is on the wire or in
  the lane, a pending flush has its marker there, and a marker is behind every frame it
  covers.  So when a marker is taken out, all its frames are on the wire;
* `CloseInv`: only markers follow a CLOSE in the lane; after a CLOSE on the wire nothing
  of the Pipe is in the lane, it has no entry, and the session is in no handler that
  would still answer with a RESET.  After the CLOSE of a dropped Pipe the lane may hold
  DATA and FIN of it, and these are newer than the poll that sent the CLOSE;
* `LateInv`: between the two polls every frame in the lane was queued since the first, by
  its number.  The lane need not be empty when `abandoned` is taken, and no step assumes
  that it is;
* `EntriesInv`: the entry of an ended Pipe has a frame in the lane, a notice, a permit
  held for its RESET, a handler or the cleanup that removes it;
* `SleeperInv`: a writer that sleeps without a wake waits for its marker, or is
  registered and the lane is full.  Fullness counts the permits held for a RESET,
  so using such a permit keeps the lane full and giving one back notifies.

The lemmas about the operators on one Pipe come first (`CloseNormalKeeps`,
`FailBegins`, `FailEnds`, ...).  A few lemmas then say what kinds of steps keep `IInv`: one Pipe moves and the lane
stays (`PipeMoves`), a writer uses its permit (`LaneTakes`) or gives it back (`SkipKeeps`),
a handler goes on (`HandlerMoves`), the session sends or fails (`SendsKeeps`,
`SessionFails`).  Each action is shown to be one of these, with one lemma per action.
TLC checked `IInv` on the instance of `sdk_pipe` before it was proved.

### Only model-checked

The liveness properties are out of the prover's reach, as are `ENABLED` and fairness.
The invariants of `PeerTransport` and `PeerManager` are checked by TLC only.  There each
transition is a chain of operators on one record that holds the whole actor, and ending
several streams or refusing several calls is a fold of such a chain, about which
nothing can be shown without induction over the set.  Both modules would first have to
be written with one variable per field, as `SdkPipe` is, and with the folds stated by
their result.  Sequential
consistency of the atomics is an assumption of the model and not of the proofs.

## 5. Finding

`registration_terminal` shows a disagreement between documentation and code.
docs/spec/007 lists a permanent failure as the way into TERMINAL and docs/spec/004
has a Gateway re-register after a RouteTable restart.  In the code a
registration becomes terminal on the second lease-bound FAILED_PRECONDITION
before a lease operation succeeds, and a successful Register does not clear the
first one.  A session that is published again while its Deregister is in flight
uses up the one probe without any failure: `finish_deregister` drops the
acknowledgement because another version is wanted by now, so the worker keeps a
lease that has ended and the next Update of it is refused.  If the first Update
of the new lease has to wait for another session's request, and the session is
removed and published once more meanwhile, the same happens again and the
registration is terminal.  Nothing failed, and the session's Destinations are not
resolvable until it is removed.  A restart of the RouteTable before that first
Update has the same effect.  `OneFaultIsSurvived`, a part of `LossesAreSurvived`,
states what does hold, and section 4 proves it: a session that is never removed
survives one fault.

A smaller observation without a run: when the Relay is closed, listen() returns
`Error::closed()`, whose observation is NotObserved (`error.rs` 73, 261), also after
its PUBLISH was sent (`relay.rs` 222).  `ListenTellsTruth` leaves that answer out;
closing the Relay ends the session, which withdraws the binding.  Likewise a DIAL_FAILED
carries the Gateway's own observation, which `DialTellsTruth` takes as it comes.

Two more come from the biased `select!` of `run_relay_session`, whose branches are polled
one after the other while the application goes on.  No document promises otherwise,
and neither leaves a Pipe behind:

* A Pipe that is written to and dropped after the lane was polled (`session.rs` 105) and
  before the notices are (117) has its CLOSE on the wire before that DATA.  The Gateway
  ignores DATA of a Pipe it has removed (`state/pipe.rs` 99), so the last bytes are lost;
  PIPE-008 (docs/spec/002) makes a successful write the acceptance by the queue and no
  more, and a flush or shutdown() that returned is not affected (`FlushMeansSent`).
* A dial that is queued and dropped after the commands were polled (95) and before the
  cancellations are (99) is cancelled too early: `on_cancelled` finds nothing and the
  DIAL is sent afterwards.  The CANCEL of DIAL-009 (docs/spec/005) then follows only
  when the Gateway answers OPENED (`on_opened`), so the acceptor is offered a Pipe
  whose dialer has gone.

## 6. Not modelled, and why

Byte encodings, configuration checks, metrics, logging, TLS and the token issuer
have no protocol state.  Payloads, error codes and messages are abstract.
Exhaustion of 64-bit counters (request ids, revisions, store versions) is out of
reach of any real run.  Backoff durations and jitter are abstracted to "later".
The examples, the deployment files and the monitoring assets are not part of the
system's logic.

Of the modelled components: the SDK's `RelayStatus` with its subscriptions and
`last_error` reports what the modelled state already holds; the count of live
Pipes is a semaphore, modelled as "may be exhausted"; one accept() at a time is
modelled for each Listener, although `accept` takes `&self`: two would queue for the same lock.  Of the Gateway's SDK server
the heartbeat, the admission permits and the token bucket are left out: they end
or refuse a connection, which `GatewayState` allows at any time.  Frames to an SDK
other than OFFER are delivered when they are decided; the hazard at `effects.rs` 88
says what that leaves open.  Fairness between the streams of one peer transport
is promised nowhere and not checked.

## 7. Plan

Done: RouteTable shard with its contract and proofs; Gateway state and proofs; registration
lifecycle and proofs; peer transport; peer runtime; SDK Pipe and proofs; SDK Relay with
Listeners and dials and proofs.  Left, in order of what it would add:

1. Theorems about the peer modules: `NotObservedIsTrue` and `BooksAgree` of `PeerManager`,
   `CrossingsSettle` and `DeliveredInOrder` of `PeerTransport`, once their records are split
   into variables.
2. `GatewayDelivery`: decisions under the lock separated from deliveries to the
   session writers, for the order in which an SDK sees OFFER, RESET and OPENED.
3. `GatewayAdmission`: permits, token buckets and heartbeats of the SDK server.
