--------------------------- MODULE PeerTransport ---------------------------
(***************************************************************************)
(* One PeerTransport between two Gateways, both ends of it                 *)
(* (crates/relaygate-gateway-peer/src/transport/{state,command,inbound,    *)
(* actor,liveness,writer}.rs, stream.rs and identity.rs).                  *)
(*                                                                         *)
(* Each end runs a TransportActor, which owns the streams, their bounded   *)
(* queues and the heartbeat, and a writer task, which moves frames from    *)
(* the aggregate writer channel to the socket.  Every handler of the actor *)
(* is an operator from actor to actor followed by AfterActivity, as in the *)
(* TransportLoop.                                                          *)
(*                                                                         *)
(* An OpenIdentity is used for one OPEN only, so the stream's id stands    *)
(* for it.  The progress of a stream is Opened exactly when its phase is   *)
(* no longer Opening, and zero_stream_since is set exactly when a          *)
(* transport without streams waits for its next event.  Instants are       *)
(* abstracted to whether a deadline is set; the clock reaches it at an     *)
(* arbitrary later step.  Error codes and payloads are left out, DATA is   *)
(* numbered per stream.  told and sent are history variables: the events   *)
(* given to the Gateway and the frames committed for each stream.          *)
(***************************************************************************)
EXTENDS Integers, Sequences, FiniteSets, FiniteSetsExt, SequencesExt

CONSTANTS
    MaxStreams,          \* config.max_streams_per_transport
    StreamQueueCapacity, \* config.stream_queue_capacity
    WriterCapacity,      \* config.writer_queue_capacity
    WireCapacity,        \* frames the socket takes before it blocks the writer
    CounterLimit,        \* endpoint -> StreamIds it can allocate (2^63 in the code)
    NonceLimit,          \* the last heartbeat nonce (u64::MAX in the code)
    Inputs,              \* what the Gateways, clocks and socket do: one of these
    None                 \* an absent stream

Ends == {"Dialer", "Acceptor"}
Remote(e) == IF e = "Dialer" THEN "Acceptor" ELSE "Dialer"
Bit(e) == IF e = "Dialer" THEN 0 ELSE 1

(* The StreamId an endpoint gives to its counter-th stream. *)
StreamId(e, counter) == 2 * counter + Bit(e)

IdsOf(e) == {StreamId(e, c) : c \in 0 .. CounterLimit[e] - 1}
Ids == UNION {IdsOf(e) : e \in Ends}

ASSUME CapacityAssumption ==
    /\ {MaxStreams, StreamQueueCapacity, WriterCapacity, WireCapacity, NonceLimit}
           \subseteq Nat \ {0}
ASSUME InputAssumption ==
    Inputs \subseteq
        [opens    : [Ends -> Nat],  \* the streams each Gateway opens
         data     : Nat,            \* the DATA of a stream in one direction
         commands : SUBSET {"Opened", "Failed", "Data", "Fin", "Close", "Reset"},
         happens  : SUBSET (Ends \union {"open_timeout", "close", "disconnect"})]
ASSUME CounterAssumption == CounterLimit \in [Ends -> Nat]

VARIABLES
    actors,  \* endpoint -> TransportActor and its TransportLiveness
    wire,    \* endpoint -> frames it wrote that the other end has not read
    broken,  \* the socket failed
    inputs   \* the member of Inputs this behaviour takes

vars == <<actors, wire, broken, inputs>>

Frame(kind, i) == [kind |-> kind, id |-> i, n |-> 0]
DataFrame(i, n) == [kind |-> "Data", id |-> i, n |-> n]
Heartbeat(kind, nonce) == [kind |-> kind, id |-> 0, n |-> nonce]

NewActor(e) ==
    [local_endpoint |-> e,
     streams |-> [i \in Ids |-> None],
     ready_streams |-> {},
     active_opens |-> {},
     stream_count |-> 0,
     next_counter |-> 0,      \* StreamIdAllocator
     highest_counter |-> -1,  \* RemoteStreamGuard, -1 for None
     aggregate_writer |-> <<>>,
     writer |-> TRUE,         \* the writer task runs
     wake |-> FALSE,          \* its coalesced signal to the actor
     pending |-> 0,           \* nonce of the PendingHeartbeat, 0 for None
     next_nonce |-> 1,
     loop |-> "running",      \* running, closing (token cancelled) or ended
     protocol_error |-> FALSE,
     told |-> [i \in Ids |-> <<>>],
     sent |-> [i \in Ids |-> <<>>]]

Init ==
    /\ actors = [e \in Ends |-> NewActor(e)]
    /\ wire = [e \in Ends |-> <<>>]
    /\ broken = FALSE
    /\ inputs \in Inputs

-----------------------------------------------------------------------------
(***************************************************************************)
(* The stream table.                                                       *)
(***************************************************************************)

Streams(a) == {i \in Ids : a.streams[i] # None}
IsEmpty(a) == Streams(a) = {}

(* The stream exists and no terminal frame is queued for it. *)
Live(a, i) == a.streams[i] # None /\ ~ a.streams[i].terminal_queued

(* fail_transport: the token is cancelled, the loop ends at a later step. *)
Fail(a) == [a EXCEPT !.loop = IF @ = "running" THEN "closing" ELSE @]

Emit(a, i, kind, n) == [a EXCEPT !.told[i] = Append(@, [kind |-> kind, n |-> n])]

NewStream(origin) ==
    [phase |-> "Opening", finished |-> {}, queued_frames |-> <<>>,
     terminal_queued |-> FALSE, origin |-> origin,
     open_deadline |-> origin = "Local"]

InsertStream(a, i, origin) ==
    [a EXCEPT !.streams[i] = NewStream(origin),
              !.active_opens = @ \union {i},
              !.stream_count = @ + 1]

(* Mutant of FinishStream: the OpenIdentity is not released. *)
FinishKeepsIdentity(a, i) ==
    [a EXCEPT !.streams[i] = None,
              !.ready_streams = @ \ {i},
              !.stream_count = @ - 1]

FinishStream(a, i) ==
    [a EXCEPT !.streams[i] = None,
              !.ready_streams = @ \ {i},
              !.active_opens = @ \ {i},
              !.stream_count = @ - 1]

(* drain_losses: every remaining stream is reported lost. *)
DrainLosses(a) ==
    [a EXCEPT !.streams = [i \in Ids |-> None],
              !.ready_streams = {},
              !.active_opens = @ \ Streams(a),
              !.stream_count = @ - Cardinality(Streams(a)),
              !.told = [i \in Ids |->
                  IF i \in Streams(a) THEN Append(@[i], [kind |-> "Lost", n |-> 0])
                                      ELSE @[i]]]

(* The loop breaks. *)
End(a) == [DrainLosses(a) EXCEPT !.loop = "ended", !.pending = 0, !.wake = FALSE]

-----------------------------------------------------------------------------
(***************************************************************************)
(* Queues: each stream has its own, the aggregate writer channel takes the *)
(* frames of all of them.                                                  *)
(***************************************************************************)

HasRoom(a, i) == Len(a.streams[i].queued_frames) < StreamQueueCapacity
WriterTakes(a) == a.writer /\ Len(a.aggregate_writer) < WriterCapacity

(* enqueue_stream_frame, for a live stream whose queue has room. *)
Enqueue(a, i, frame, terminal) ==
    [a EXCEPT !.streams[i].queued_frames = Append(@, frame),
              !.streams[i].terminal_queued = terminal,
              !.streams[i].open_deadline = @ /\ ~ terminal,
              !.ready_streams = @ \union {i},
              !.sent[i] = Append(@, [kind |-> frame.kind, n |-> frame.n])]

(* A terminal frame that does not fit takes the whole transport down. *)
EnqueueTerminal(a, i, frame) ==
    IF HasRoom(a, i) THEN Enqueue(a, i, frame, TRUE) ELSE Fail(a)

(* A frame that bypasses the stream queues. *)
Commit(a, frame) == [a EXCEPT !.aggregate_writer = Append(@, frame)]

(***************************************************************************)
(* flush_stream_queues: rounds over the ready streams in ascending order,  *)
(* one frame per stream and round, until the channel is full or the queues *)
(* are empty.  A slot <<k, i>> is the k-th queued frame of stream i, and   *)
(* its rank the turn at which the rounds reach it.                         *)
(***************************************************************************)
Slots(a) ==
    UNION {{<<k, i>> : k \in 1 .. Len(a.streams[i].queued_frames)}
               : i \in a.ready_streams \intersect Streams(a)}

Rank(a, slot) ==
    Cardinality({x \in Slots(a) : x[1] < slot[1] \/ (x[1] = slot[1] /\ x[2] <= slot[2])})

(* The order of the frames as they enter the channel. *)
InTurn(a) ==
    [r \in 1 .. Cardinality(Slots(a)) |->
        LET slot == CHOOSE x \in Slots(a) : Rank(a, x) = r
        IN  a.streams[slot[2]].queued_frames[slot[1]]]

Moved(a) ==
    SubSeq(InTurn(a), 1, Min({Cardinality(Slots(a)),
                              WriterCapacity - Len(a.aggregate_writer)}))

(* Mutant of Remaining: a frame the channel has no room for goes to the    *)
(* back of its queue.                                                      *)
RemainingRequeued(a, i) ==
    LET moved == Cardinality({r \in DOMAIN Moved(a) : Moved(a)[r].id = i})
        queued == a.streams[i].queued_frames
    IN  IF moved = Len(queued) THEN <<>>
        ELSE Append(SubSeq(queued, moved + 2, Len(queued)), queued[moved + 1])

(* The frames of stream i left in its queue. *)
Remaining(a, i) ==
    LET moved == Cardinality({r \in DOMAIN Moved(a) : Moved(a)[r].id = i})
    IN  SubSeq(a.streams[i].queued_frames, moved + 1, Len(a.streams[i].queued_frames))

(* Streams whose terminal frame, and all before it, entered the channel. *)
Finished(a) ==
    {i \in a.ready_streams \intersect Streams(a) :
        a.streams[i].terminal_queued /\ Remaining(a, i) = <<>>}

Flush(a) ==
    FoldSet(LAMBDA i, b : FinishStream(b, i),
        [a EXCEPT !.aggregate_writer = @ \o Moved(a),
                  !.streams = [i \in Ids |-> IF i \in a.ready_streams \intersect Streams(a)
                                 THEN [@[i] EXCEPT !.queued_frames = Remaining(a, i)] ELSE @[i]],
                  !.ready_streams = {i \in @ \intersect Streams(a) : Remaining(a, i) # <<>>}],
        Finished(a))

(***************************************************************************)
(* The same after the writer task ended: the channel is closed, the first  *)
(* ready stream loses its first frame and the transport fails.             *)
(***************************************************************************)
FlushClosed(a) ==
    LET i == Min(a.ready_streams)
        rest == Tail(a.streams[i].queued_frames)
    IN  Fail([a EXCEPT !.streams[i].queued_frames = rest,
                       !.ready_streams = IF rest = <<>> THEN @ \ {i} ELSE @])

FlushStreamQueues(a) ==
    CASE a.ready_streams = {} -> a
      [] a.writer             -> Flush(a)
      [] OTHER                -> FlushClosed(a)

(* sync_stream_state: a transport without streams has no heartbeat pending. *)
SyncLiveness(a) == IF IsEmpty(a) THEN [a EXCEPT !.pending = 0] ELSE a

AfterActivity(a) == SyncLiveness(FlushStreamQueues(a))

-----------------------------------------------------------------------------
(***************************************************************************)
(* Commands of the Gateway.  A command that is refused, or comes too late, *)
(* leaves the actor as it is.                                              *)
(***************************************************************************)

CanOpen(a) ==
    Cardinality(Streams(a)) < MaxStreams /\ a.next_counter < CounterLimit[a.local_endpoint]

(* Mutant of Open: no deadline is set for the answer. *)
OpenWithoutDeadline(a) ==
    LET i == StreamId(a.local_endpoint, a.next_counter)
        b == [a EXCEPT !.next_counter = @ + 1]
    IN  CASE ~ CanOpen(a)     -> a
          [] ~ WriterTakes(a) -> b
          [] OTHER -> [Commit(InsertStream(b, i, "Local"), Frame("Open", i)) EXCEPT
                           !.sent[i] = <<[kind |-> "Open", n |-> 0]>>,
                           !.streams[i].open_deadline = FALSE]

(***************************************************************************)
(* open: the id is allocated before the frame is committed and is not used *)
(* again when the channel refuses the frame.  The reservation of a refused *)
(* OPEN is released.                                                       *)
(***************************************************************************)
Open(a) ==
    LET i == StreamId(a.local_endpoint, a.next_counter)
        b == [a EXCEPT !.next_counter = @ + 1]
    IN  CASE ~ CanOpen(a)     -> a
          [] ~ WriterTakes(a) -> b
          [] OTHER -> [Commit(InsertStream(b, i, "Local"), Frame("Open", i)) EXCEPT
                           !.sent[i] = <<[kind |-> "Open", n |-> 0]>>]

SendOpened(a, i) ==
    IF /\ Live(a, i) /\ HasRoom(a, i)
       /\ a.streams[i].origin = "Remote" /\ a.streams[i].phase = "Opening"
    THEN [Enqueue(a, i, Frame("Opened", i), FALSE) EXCEPT !.streams[i].phase = "Open"]
    ELSE a

SendFailed(a, i) ==
    IF /\ Live(a, i)
       /\ a.streams[i].origin = "Remote" /\ a.streams[i].phase = "Opening"
    THEN EnqueueTerminal(a, i, Frame("Failed", i))
    ELSE a

(* RelayStream::data: the sender e may send DATA. *)
AcceptsData(s, e) == s.phase = "Open" /\ e \notin s.finished

DataSent(a, i) == Cardinality({k \in DOMAIN a.sent[i] : a.sent[i][k].kind = "Data"})

(* Mutant of SendData: DATA is sent after FIN. *)
SendDataAfterFin(a, i) ==
    IF Live(a, i) /\ HasRoom(a, i) /\ a.streams[i].phase = "Open"
    THEN Enqueue(a, i, DataFrame(i, DataSent(a, i) + 1), FALSE)
    ELSE a

SendData(a, i) ==
    IF Live(a, i) /\ HasRoom(a, i) /\ AcceptsData(a.streams[i], a.local_endpoint)
    THEN Enqueue(a, i, DataFrame(i, DataSent(a, i) + 1), FALSE)
    ELSE a

(* RelayStream::fin by sender e: the second FIN closes the stream. *)
FinBy(s, e) ==
    [s EXCEPT !.finished = @ \union {e},
              !.phase = IF s.finished \union {e} = Ends THEN "Closed" ELSE @]

SendFin(a, i) ==
    LET e == a.local_endpoint
        terminal == a.streams[i].finished \union {e} = Ends
    IN  IF Live(a, i) /\ HasRoom(a, i) /\ AcceptsData(a.streams[i], e)
        THEN [Enqueue(a, i, Frame("Fin", i), terminal) EXCEPT !.streams[i] = FinBy(@, e)]
        ELSE a

(* Mutant of SendReset: RESET does not wait behind the queued frames. *)
SendResetAtOnce(a, i) ==
    CASE ~ Live(a, i)     -> a
      [] ~ WriterTakes(a) -> Fail(a)
      [] OTHER -> FinishStream([Commit(a, Frame("Reset", i)) EXCEPT
                      !.sent[i] = Append(@, [kind |-> "Reset", n |-> 0])], i)

(* send_reset, and cancel for the identity of the stream. *)
SendReset(a, i) == IF Live(a, i) THEN EnqueueTerminal(a, i, Frame("Reset", i)) ELSE a

SendClose(a, i) ==
    CASE ~ Live(a, i)                  -> a
      [] a.streams[i].phase # "Open"   -> SendReset(a, i)
      [] OTHER                         -> EnqueueTerminal(a, i, Frame("Close", i))

-----------------------------------------------------------------------------
(***************************************************************************)
(* Frames of the other end.                                                *)
(***************************************************************************)

(* emit_terminal_reset: an OPEN that was not answered yet fails. *)
EmitReset(a, i) ==
    Emit(a, i, IF a.streams[i].origin = "Local" /\ a.streams[i].phase = "Opening"
               THEN "Failed" ELSE "Reset", 0)

ProtocolReset(a, i) ==
    LET b == [SendReset(a, i) EXCEPT !.protocol_error = TRUE]
    IN  IF HasRoom(a, i) THEN EmitReset(b, i) ELSE b

(* reject_remote_open: FAILED goes straight to the channel. *)
RejectRemoteOpen(a, i) ==
    IF WriterTakes(a)
    THEN [Commit(a, Frame("Failed", i)) EXCEPT
              !.sent[i] = Append(@, [kind |-> "Failed", n |-> 0])]
    ELSE Fail(a)

(* RemoteStreamGuard::accept_open. *)
GuardAccepts(a, i) ==
    i % 2 = Bit(Remote(a.local_endpoint)) /\ i \div 2 > a.highest_counter

ReceiveOpen(a, i) ==
    IF ~ GuardAccepts(a, i)
    THEN [RejectRemoteOpen(a, i) EXCEPT !.protocol_error = TRUE]
    ELSE LET b == [a EXCEPT !.highest_counter = i \div 2]
         IN  IF Cardinality(Streams(a)) >= MaxStreams \/ i \in a.active_opens
             THEN RejectRemoteOpen(b, i)
             ELSE Emit(InsertStream(b, i, "Remote"), i, "IncomingOpen", 0)

(* Mutant of ReceiveOpened: a stream that timed out is opened. *)
ReceiveOpenedLate(a, i) ==
    CASE a.streams[i] = None              -> a
      [] a.streams[i].origin # "Local"    -> ProtocolReset(a, i)
      [] a.streams[i].phase = "Open"      -> a
      [] a.streams[i].phase = "Closed"    -> ProtocolReset(a, i)
      [] OTHER -> Emit([a EXCEPT !.streams[i].phase = "Open",
                                 !.streams[i].open_deadline = FALSE], i, "Opened", 0)

ReceiveOpened(a, i) ==
    CASE ~ Live(a, i)                     -> a
      [] a.streams[i].origin # "Local"    -> ProtocolReset(a, i)
      [] a.streams[i].phase # "Opening"   -> a
      [] OTHER -> Emit([a EXCEPT !.streams[i].phase = "Open",
                                 !.streams[i].open_deadline = FALSE], i, "Opened", 0)

ReceiveFailed(a, i) ==
    CASE ~ Live(a, i)                     -> a
      [] a.streams[i].origin # "Local" \/ a.streams[i].phase # "Opening"
                                          -> ProtocolReset(a, i)
      [] OTHER -> FinishStream(Emit(a, i, "Failed", 0), i)

ReceiveData(a, i, n) ==
    CASE ~ Live(a, i)                     -> a
      [] ~ AcceptsData(a.streams[i], Remote(a.local_endpoint))
                                          -> ProtocolReset(a, i)
      [] OTHER -> Emit(a, i, "Data", n)

(* Mutant of ReceiveFin: the stream closed by the second FIN is kept. *)
ReceiveFinKeepsStream(a, i) ==
    LET e == Remote(a.local_endpoint)
        s == FinBy(a.streams[i], e)
    IN  CASE ~ Live(a, i)                     -> a
          [] a.streams[i].phase # "Open"      -> ProtocolReset(a, i)
          [] e \in a.streams[i].finished      -> a
          [] OTHER -> Emit([a EXCEPT !.streams[i] = s], i, "Fin", 0)

(***************************************************************************)
(* receive_fin: the second FIN ends the stream, at once when nothing is    *)
(* queued, else when the queue has been flushed.                           *)
(***************************************************************************)
ReceiveFin(a, i) ==
    LET e == Remote(a.local_endpoint)
        s == FinBy(a.streams[i], e)
        closed == s.phase = "Closed"
        b == Emit([a EXCEPT !.streams[i] = [s EXCEPT !.terminal_queued = closed,
                                                     !.open_deadline = @ /\ ~ closed]],
                  i, "Fin", 0)
    IN  CASE ~ Live(a, i)                     -> a
          [] a.streams[i].phase # "Open"      -> ProtocolReset(a, i)
          [] e \in a.streams[i].finished      -> a
          [] closed /\ s.queued_frames = <<>> -> FinishStream(b, i)
          [] OTHER                            -> b

ReceiveClose(a, i) ==
    CASE ~ Live(a, i)                     -> a
      [] a.streams[i].phase # "Open"      -> ProtocolReset(a, i)
      [] OTHER -> FinishStream(Emit(a, i, "Close", 0), i)

(* Mutant of ReceiveReset: the stream is dropped without an event. *)
ReceiveResetSilently(a, i) ==
    IF Live(a, i) THEN FinishStream(a, i) ELSE a

ReceiveReset(a, i) ==
    IF Live(a, i) THEN FinishStream(EmitReset(a, i), i) ELSE a

(* Mutant of ReceivePing: a PONG that does not fit is dropped. *)
ReceivePingDropped(a, nonce) ==
    IF WriterTakes(a) THEN AfterActivity(Commit(a, Heartbeat("Pong", nonce)))
                      ELSE AfterActivity(a)

(* A PONG that does not fit ends the transport. *)
ReceivePing(a, nonce) ==
    IF WriterTakes(a) THEN AfterActivity(Commit(a, Heartbeat("Pong", nonce)))
                      ELSE End(a)

(* observe_inbound: only the matching PONG answers the heartbeat. *)
ReceivePong(a, nonce) ==
    AfterActivity([a EXCEPT !.pending = IF @ = nonce THEN 0 ELSE @])

HandleFrame(a, f) ==
    CASE f.kind = "Ping"   -> ReceivePing(a, f.n)
      [] f.kind = "Pong"   -> ReceivePong(a, f.n)
      [] f.kind = "Open"   -> AfterActivity(ReceiveOpen(a, f.id))
      [] f.kind = "Opened" -> AfterActivity(ReceiveOpened(a, f.id))
      [] f.kind = "Failed" -> AfterActivity(ReceiveFailed(a, f.id))
      [] f.kind = "Data"   -> AfterActivity(ReceiveData(a, f.id, f.n))
      [] f.kind = "Fin"    -> AfterActivity(ReceiveFin(a, f.id))
      [] f.kind = "Close"  -> AfterActivity(ReceiveClose(a, f.id))
      [] f.kind = "Reset"  -> AfterActivity(ReceiveReset(a, f.id))

-----------------------------------------------------------------------------
(***************************************************************************)
(* TransportLoop: one action per branch of its select.  A loop whose token *)
(* is cancelled may still take another branch before it ends.              *)
(***************************************************************************)

Runs(e) == actors[e].loop # "ended"
Becomes(e, a) == actors' = [actors EXCEPT ![e] = a]
OnCommand(e, a) == Runs(e) /\ Becomes(e, AfterActivity(a)) /\ UNCHANGED <<wire, broken, inputs>>
OnStreamCommand(e, command, a) == command \in inputs.commands /\ OnCommand(e, a)

(* A Gateway has a StreamKey for the streams it opened or was told of. *)
Named(e) == {i \in Ids : actors[e].sent[i] # <<>> \/ actors[e].told[i] # <<>>}

DoOpen(e) == actors[e].next_counter < inputs.opens[e] /\ OnCommand(e, Open(actors[e]))
DoSendOpened(e, i) == OnStreamCommand(e, "Opened", SendOpened(actors[e], i))
DoSendFailed(e, i) == OnStreamCommand(e, "Failed", SendFailed(actors[e], i))
DoSendData(e, i) ==
    DataSent(actors[e], i) < inputs.data /\ OnStreamCommand(e, "Data", SendData(actors[e], i))
DoSendFin(e, i) == OnStreamCommand(e, "Fin", SendFin(actors[e], i))
DoSendClose(e, i) == OnStreamCommand(e, "Close", SendClose(actors[e], i))
DoSendReset(e, i) == OnStreamCommand(e, "Reset", SendReset(actors[e], i))

(* on_inbound with a frame. *)
Receive(e) ==
    LET inbound == wire[Remote(e)]
    IN  /\ Runs(e) /\ inbound # <<>>
        /\ Becomes(e, HandleFrame(actors[e], Head(inbound)))
        /\ wire' = [wire EXCEPT ![Remote(e)] = Tail(inbound)]
        /\ UNCHANGED <<broken, inputs>>

(* on_inbound at the end of the stream or with an I/O error. *)
RemoteClosed(e) ==
    LET r == actors[Remote(e)]
    IN  /\ Runs(e)
        /\ \/ broken
           \/ r.loop = "ended" /\ ~ r.writer /\ wire[Remote(e)] = <<>>
        /\ Becomes(e, End(actors[e]))
        /\ UNCHANGED <<wire, broken, inputs>>

(* expire_open_deadlines for the streams in expired: their queues are empty. *)
ExpireOpenDeadlines(a, expired) ==
    FoldSet(LAMBDA i, b : Emit(Enqueue(b, i, Frame("Reset", i), TRUE), i, "TimedOut", 0),
            a, expired)

(* Mutant of LivenessAction: the heartbeat's deadline is not checked. *)
LivenessWithoutTimeout(a, idle) ==
    CASE IsEmpty(a) /\ idle     -> End(a)
      [] IsEmpty(a) /\ ~ idle   -> SyncLiveness(a)
      [] a.pending # 0          -> a
      [] ~ WriterTakes(a)       -> End(a)
      [] OTHER -> [Commit(a, Heartbeat("Ping", a.next_nonce)) EXCEPT
                       !.pending = a.next_nonce,
                       !.next_nonce = IF @ = NonceLimit THEN 1 ELSE @ + 1]

(***************************************************************************)
(* TransportLiveness::on_deadline: the heartbeat, its timeout, or the      *)
(* retirement of a transport that had no stream since its last event.      *)
(***************************************************************************)
LivenessAction(a, idle) ==
    CASE IsEmpty(a) /\ idle     -> End(a)
      [] IsEmpty(a) /\ ~ idle   -> SyncLiveness(a)
      [] a.pending # 0          -> End(a)
      [] ~ WriterTakes(a)       -> End(a)
      [] OTHER -> [Commit(a, Heartbeat("Ping", a.next_nonce)) EXCEPT
                       !.pending = a.next_nonce,
                       !.next_nonce = IF @ = NonceLimit THEN 1 ELSE @ + 1]

(* The streams whose OPEN still has a deadline. *)
Unanswered(e) ==
    {i \in Streams(actors[e]) : Live(actors[e], i) /\ actors[e].streams[i].open_deadline}

(* on_deadline: some OPENs expired, or the heartbeat or idle deadline did. *)
OnDeadline(e, expired, due) ==
    /\ Runs(e)
    /\ expired # {} \/ due
    /\ due => e \in inputs.happens
    /\ expired # {} => "open_timeout" \in inputs.happens
    /\ \E a \in {FlushStreamQueues(ExpireOpenDeadlines(actors[e], expired))} :
          Becomes(e, IF due THEN LivenessAction(a, IsEmpty(actors[e])) ELSE SyncLiveness(a))
    /\ UNCHANGED <<wire, broken, inputs>>

WriterWake(e) ==
    /\ Runs(e) /\ actors[e].wake
    /\ Becomes(e, AfterActivity([actors[e] EXCEPT !.wake = FALSE]))
    /\ UNCHANGED <<wire, broken, inputs>>

(* The manager closes the transport. *)
BeginClose(e) ==
    /\ "close" \in inputs.happens
    /\ actors[e].loop = "running"
    /\ Becomes(e, Fail(actors[e]))
    /\ UNCHANGED <<wire, broken, inputs>>

(* The loop sees its token cancelled, or its writer gone. *)
EndLoop(e) ==
    /\ actors[e].loop = "closing"
    /\ Becomes(e, End(actors[e]))
    /\ UNCHANGED <<wire, broken, inputs>>

(***************************************************************************)
(* run_writer.  It may write more frames after the token was cancelled;    *)
(* the frames still in the channel when it ends are lost.                  *)
(***************************************************************************)
(* The wake is left out when nothing is queued: it would flush nothing. *)
WriterSends(e) ==
    LET a == actors[e]
    IN  /\ a.writer /\ ~ broken /\ a.aggregate_writer # <<>>
        /\ Len(wire[e]) < WireCapacity
        /\ wire' = [wire EXCEPT ![e] = Append(@, Head(a.aggregate_writer))]
        /\ Becomes(e, [a EXCEPT !.aggregate_writer = Tail(@), !.wake = @ \/ a.ready_streams # {}])
        /\ UNCHANGED <<broken, inputs>>

WriterEnds(e) ==
    LET a == actors[e]
    IN  /\ a.writer
        /\ a.loop # "running" \/ (broken /\ a.aggregate_writer # <<>>)
        /\ Becomes(e, [Fail(a) EXCEPT !.writer = FALSE, !.aggregate_writer = <<>>])
        /\ UNCHANGED <<wire, broken, inputs>>

(* The network: the socket fails and what it carried is lost. *)
Disconnect ==
    /\ "disconnect" \in inputs.happens
    /\ ~ broken
    /\ broken' = TRUE
    /\ wire' = [e \in Ends |-> <<>>]
    /\ UNCHANGED <<actors, inputs>>

Next ==
    \/ \E e \in Ends :
          \/ DoOpen(e)
          \/ \E i \in Named(e) :
                \/ DoSendOpened(e, i) \/ DoSendFailed(e, i) \/ DoSendData(e, i)
                \/ DoSendFin(e, i) \/ DoSendClose(e, i) \/ DoSendReset(e, i)
          \/ Receive(e)
          \/ RemoteClosed(e)
          \/ \E expired \in SUBSET Unanswered(e), due \in BOOLEAN : OnDeadline(e, expired, due)
          \/ WriterWake(e)
          \/ BeginClose(e)
          \/ EndLoop(e)
          \/ WriterSends(e)
          \/ WriterEnds(e)
    \/ Disconnect

Spec == Init /\ [][Next]_vars

(***************************************************************************)
(* Fairness: the loop takes a branch that stays ready, and clocks reach    *)
(* deadlines.  Nothing is assumed of the socket or of the writer's sends:  *)
(* the other end may be unreachable or stop reading.                       *)
(***************************************************************************)
OpenDeadline(e, i) ==
    \E expired \in SUBSET Unanswered(e), due \in BOOLEAN :
        i \in expired /\ OnDeadline(e, expired, due)
LivenessDeadline(e) == \E expired \in SUBSET Unanswered(e) : OnDeadline(e, expired, TRUE)

Fairness ==
    \A e \in Ends :
        /\ \A i \in IdsOf(e) : WF_vars(OpenDeadline(e, i))
        /\ WF_vars(LivenessDeadline(e))
        /\ WF_vars(WriterWake(e))
        /\ WF_vars(EndLoop(e))

FairSpec == Spec /\ Fairness

-----------------------------------------------------------------------------
(***************************************************************************)
(* Properties.                                                             *)
(***************************************************************************)

(***************************************************************************)
(* The four books an actor keeps agree: ready_streams holds exactly the    *)
(* streams with queued frames, active_opens and stream_count exactly the   *)
(* streams; the queues respect their capacities, and a stream never waits  *)
(* with a terminal frame flushed (flush_stream_queues, finish_stream,      *)
(* drain_losses).                                                          *)
(***************************************************************************)
BooksAgree ==
    \A e \in Ends :
        LET a == actors[e]
        IN  /\ a.ready_streams = {i \in Streams(a) : a.streams[i].queued_frames # <<>>}
            /\ a.active_opens = Streams(a)
            /\ a.stream_count = Cardinality(Streams(a))
            /\ Cardinality(Streams(a)) <= MaxStreams
            /\ Len(a.aggregate_writer) <= WriterCapacity
            /\ \A i \in Streams(a) :
                  /\ Len(a.streams[i].queued_frames) <= StreamQueueCapacity
                  /\ a.writer /\ a.streams[i].terminal_queued => i \in a.ready_streams

(* The event that reports a frame; a RESET fails an OPEN not yet answered. *)
Reports(event, frame) ==
    /\ event.n = frame.n
    /\ \/ event.kind = frame.kind
       \/ event.kind = "IncomingOpen" /\ frame.kind = "Open"
       \/ event.kind = "Failed" /\ frame.kind = "Reset"

FromPeer(told) == SelectSeq(told, LAMBDA event : event.kind \notin {"TimedOut", "Lost"})

(***************************************************************************)
(* What a Gateway is told of a stream is a prefix of what the other        *)
(* Gateway sent on it: no DATA is lost, repeated or reordered, and FIN or  *)
(* CLOSE arrives only after all DATA accepted before it, although frames   *)
(* wait in two bounded queues and are retried when the channel was full    *)
(* (flush_stream_queues, enqueue_stream_frame).                            *)
(***************************************************************************)
DeliveredInOrder ==
    \A e \in Ends, i \in Ids :
        LET told == FromPeer(actors[e].told[i])
            sent == actors[Remote(e)].sent[i]
        IN  /\ Len(told) <= Len(sent)
            /\ \A k \in DOMAIN told : Reports(told[k], sent[k])

Endings == {"Failed", "Close", "Reset", "TimedOut", "Lost"}

(***************************************************************************)
(* A Gateway hears of one outcome of a stream only: nothing follows an     *)
(* ending but the report that the transport was lost, so the deadline of   *)
(* an OPEN and a late OPENED, or a RESET and a CLOSE that crossed, never   *)
(* both reach it (terminal_queued, expire_open_deadlines).                 *)
(***************************************************************************)
OneOutcome ==
    \A e \in Ends, i \in Ids :
        LET told == actors[e].told[i]
        IN  \A k \in 1 .. Len(told) - 1 :
                told[k].kind \in Endings => told[k].kind # "Lost" /\ told[k + 1].kind = "Lost"

Has(history, kinds) == \E k \in DOMAIN history : history[k].kind \in kinds

(***************************************************************************)
(* No stream disappears: one that an actor no longer has was ended by its  *)
(* Gateway, was reported ended or lost, or saw a FIN in both directions    *)
(* (finish_stream, drain_losses).                                          *)
(***************************************************************************)
NoStreamVanishes ==
    \A e \in Ends, i \in Ids :
        LET a == actors[e]
        IN  (i \in IdsOf(e) /\ a.sent[i] # <<>>) \/ Has(a.told[i], {"IncomingOpen"}) =>
                \/ i \in Streams(a)
                \/ Has(a.told[i], Endings)
                \/ Has(a.sent[i], {"Failed", "Close", "Reset"})
                \/ Has(a.told[i], {"Fin"}) /\ Has(a.sent[i], {"Fin"})

Connected == ~ broken /\ \A e \in Ends : actors[e].loop = "running"

Quiet ==
    /\ Connected
    /\ \A e \in Ends : /\ wire[e] = <<>> /\ actors[e].aggregate_writer = <<>>
                       /\ actors[e].ready_streams = {}

(***************************************************************************)
(* When nothing is on its way, both ends have the same streams in the same *)
(* phase with the same directions finished: no end keeps a stream the      *)
(* other one has ended, whatever endings crossed on the wire.              *)
(***************************************************************************)
EndsAgree ==
    Quiet =>
        LET View(e) == [i \in Streams(actors[e]) |->
                           <<actors[e].streams[i].phase, actors[e].streams[i].finished>>]
        IN  View("Dialer") = View("Acceptor")

(***************************************************************************)
(* A heartbeat that waits for its answer is on its way, as PING or PONG:   *)
(* on an unbroken transport the timeout fires only because the other end   *)
(* is slow, never because the probe was dropped at a full channel          *)
(* (inbound.rs, PeerFrame::Ping; liveness.rs, sync_stream_state).          *)
(***************************************************************************)
ProbeOnItsWay ==
    Connected =>
        \A e \in Ends :
            LET probe == actors[e].pending
                Carries(s, kind) == \E k \in DOMAIN s : s[k] = Heartbeat(kind, probe)
            IN  probe # 0 =>
                    \/ Carries(actors[e].aggregate_writer \o wire[e], "Ping")
                    \/ Carries(actors[Remote(e)].aggregate_writer \o wire[Remote(e)], "Pong")

(***************************************************************************)
(* Two ends that run this code never take each other's frames for protocol *)
(* errors: no frame is invalid in its stream's phase and every StreamId is *)
(* fresh and carries the sender's bit, in any order of crossing frames     *)
(* (protocol_reset, RemoteStreamGuard::accept_open).                       *)
(***************************************************************************)
PeersConform == \A e \in Ends : ~ actors[e].protocol_error

(* Frames that cross leave both ends conforming and of one mind. *)
CrossingsSettle == PeersConform /\ EndsAgree

(* Every stream's Gateway hears of its end, and of one end only. *)
EveryEndIsHeard == OneOutcome /\ NoStreamVanishes

(***************************************************************************)
(* A stream that waits for the answer to its OPEN is answered, fails, or   *)
(* is reported lost, even when the other end is silent                     *)
(* (expire_open_deadlines).                                                *)
(***************************************************************************)
OpensAnswered ==
    \A e \in Ends : \A i \in IdsOf(e) :
        i \in Streams(actors[e]) ~>
            \/ Has(actors[e].told[i], Endings \union {"Opened"})
            \/ Has(actors[e].sent[i], {"Reset"})

(***************************************************************************)
(* A stream that has ended is released, even when the socket takes no      *)
(* frames: the heartbeat then ends the transport (flush_stream_queues,     *)
(* TransportLiveness::on_deadline).                                        *)
(***************************************************************************)
EndedStreamsReleased ==
    \A e \in Ends : \A i \in Ids :
        (i \in Streams(actors[e]) /\ ~ Live(actors[e], i)) ~> i \notin Streams(actors[e])

(* Neither an OPEN nor the end of a stream waits for ever on a silent peer. *)
StreamsAreSettled == OpensAnswered /\ EndedStreamsReleased

=============================================================================
