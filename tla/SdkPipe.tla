------------------------------ MODULE SdkPipe ------------------------------
(***************************************************************************)
(* The Pipes of one Relay session and the frame lane they share            *)
(* (crates/relaygate-sdk/src/pipe.rs, pipe/io.rs, session/outbound.rs,     *)
(* resource.rs, and the Pipe half of listener/runtime/{session,frame}.rs). *)
(*                                                                         *)
(* Three threads meet on a Pipe: the application's writer, its reader and  *)
(* the session task.  A poll of the writer or reader and a handler of the  *)
(* session are split where another thread can come between: at the atomics *)
(* of PipeState, the lane, the reader's lock and the wakers.  An atomic is *)
(* sequentially consistent here.  Registering a waker and the check that   *)
(* follows it are one step: a wake in between only causes one more poll.   *)
(*                                                                         *)
(* The frames of a writer are numbered; a flush marker carries the number  *)
(* of the last frame before it, and a RESET of the session itself 0.       *)
(* written, confirmed, pushed, taken, ender and wire are history: frames a *)
(* writer put in the lane, how many a flush vouched for, bytes buffered    *)
(* and read, who ended the Pipe, and what the Gateway was sent.  There the *)
(* CLOSE that the session sends for a dropped Pipe is called DROPPED, and  *)
(* its number is that of the last frame the session knew of (task.seen).   *)
(***************************************************************************)
EXTENDS Integers, Sequences, FiniteSets, FiniteSetsExt, SequencesExt

CONSTANTS
    Pipes,
    LaneCapacity,     \* config.outbound_capacity
    FrameCapacity,    \* max_buffered_frames_per_pipe
    PipeBytes,        \* max_buffered_bytes_per_pipe
    RelayBytes,       \* max_buffered_bytes_per_relay
    ChunkBytes,       \* the bytes of one DATA frame
    MaxWrites,        \* bound on the DATA frames of one writer
    MaxInbound,       \* bound on the frames the Gateway sends
    Operations        \* what the applications of the open Pipes do, one of these

WriterOperations == {"write", "flush", "shutdown", "close", "reset"}
AllOperations == WriterOperations \union {"read", "drop", "cancel",
                  "remote"}  \* the other end's application sends

ASSUME PipeAssumption ==
    /\ IsFiniteSet(Pipes)
    /\ {LaneCapacity, FrameCapacity, PipeBytes, RelayBytes, ChunkBytes} \subseteq Nat \ {0}
    /\ {MaxWrites, MaxInbound} \subseteq Nat
    /\ Operations \subseteq [Pipes -> SUBSET AllOperations]

VARIABLES
    ops,        \* Pipe -> what its applications do, {} for one that is not open
    pipe,       \* Pipe -> PipeState with its PipeReadBuffer and both halves
    lane,       \* the session's outbound channel
    laneOpen,
    abandoned,  \* the Pipes dropped without a terminal state
    entries,    \* RelaySessionState.pipes
    task,       \* where the session task is, and in which Pipe's handler
    received,   \* frames the Gateway sent
    wire        \* Pipe -> the frames the Gateway was sent

vars == <<ops, pipe, lane, laneOpen, abandoned, entries, task, received, wire>>

NewWriter ==
    [op |-> "none", stage |-> "idle", waiter |-> "none", woken |-> FALSE,
     dirty |-> FALSE, flushing |-> "none", written |-> 0, data |-> 0, confirmed |-> 0,
     gone |-> FALSE]

NewReader == [stage |-> "idle", woken |-> FALSE, eof |-> "no", gone |-> FALSE]

(* pair_inner: both halves are the application's, the entry the session's. *)
NewPipe ==
    [terminal |-> "none", ender |-> "none", remoteFin |-> FALSE, localFin |-> FALSE,
     chunks |-> 0,   \* the inbound channel
     current |-> 0,  \* bytes left of the chunk being read
     rxClosed |-> FALSE, pushed |-> 0, taken |-> 0,
     writer |-> NewWriter, reader |-> NewReader]

Selecting == [stage |-> "select"]
Handling(stage, p) == [stage |-> stage, pipe |-> p]

Init ==
    /\ ops \in Operations
    /\ pipe = [p \in Pipes |-> NewPipe]
    /\ lane = <<>>
    /\ laneOpen = TRUE
    /\ abandoned = <<>>
    /\ entries = {p \in Pipes : ops[p] # {}}
    /\ task = Selecting
    /\ received = 0
    /\ wire = [p \in Pipes |-> <<>>]

-----------------------------------------------------------------------------
(***************************************************************************)
(* The state of a Pipe.  A wake of a half is kept until it polls again.    *)
(***************************************************************************)
Wake(half) == [half EXCEPT !.woken = half.stage # "idle"]

WakeBoth(x) == [x EXCEPT !.writer = Wake(@), !.reader = Wake(@)]

(* try_set_terminal for Closed; the first terminal state stays. *)
CloseNormal(x, by) ==
    IF x.terminal # "none" THEN x
    ELSE WakeBoth([x EXCEPT !.terminal = "closed", !.ender = by])

(* try_set_terminal for Failed, up to the lock of the read buffer. *)
BeginFail(x, by) == [x EXCEPT !.terminal = "failed", !.ender = by]

ReaderLocks(x) == x.reader.stage = "check"

(* Mutant of Discard: the channel stays open for a late chunk. *)
DiscardOpen(x) == [x EXCEPT !.chunks = 0, !.current = 0]

(* PipeReadBuffer::discard *)
Discard(x) == [x EXCEPT !.chunks = 0, !.current = 0, !.rxClosed = TRUE]

EndFail(x) == WakeBoth(Discard(x))

IsProtocolFinished(x) == x.localFin /\ x.remoteFin

(* Steps of one Pipe that leave the lane and the session alone. *)
Becomes(p, x) ==
    /\ pipe' = [pipe EXCEPT ![p] = x]
    /\ UNCHANGED <<ops, lane, laneOpen, abandoned, entries, task, received, wire>>

-----------------------------------------------------------------------------
(***************************************************************************)
(* The reader (PipeReader::poll_read).  It holds the buffer's lock from    *)
(* the empty channel to the end of the poll.                               *)
(***************************************************************************)
Reads(p, x, available) ==
    \E n \in 1..available :
        Becomes(p, [x EXCEPT !.reader = [@ EXCEPT !.stage = "idle"],
                             !.current = available - n, !.taken = @ + n])

NextChunk(x) == [x EXCEPT !.chunks = @ - 1]

ReadDone(p, eof) ==
    Becomes(p, [pipe[p] EXCEPT !.reader = [@ EXCEPT !.stage = "idle", !.eof = eof]])

ReadStage(p, stage) == Becomes(p, [pipe[p] EXCEPT !.reader = [@ EXCEPT !.stage = stage]])

PollRead(p) ==
    LET x == pipe[p]
        polled == [x EXCEPT !.reader = [@ EXCEPT !.woken = FALSE]]
    IN  /\ "read" \in ops[p] /\ ~ x.reader.gone
        /\ x.reader.stage = "idle" \/ (x.reader.stage = "sleep" /\ x.reader.woken)
        /\ \/ x.current > 0 /\ Reads(p, polled, x.current)
           \/ /\ x.current = 0 /\ x.reader.eof = "no" /\ x.chunks > 0
              /\ Reads(p, NextChunk(polled), ChunkBytes)
           \/ /\ x.current = 0 /\ x.reader.eof = "no" /\ x.chunks = 0 /\ x.rxClosed
              /\ ReadDone(p, IF x.terminal = "failed" THEN "failed" ELSE "clean")
           \/ /\ x.current = 0 /\ x.reader.eof = "no" /\ x.chunks = 0 /\ ~ x.rxClosed
              /\ Becomes(p, [x EXCEPT !.reader = [@ EXCEPT !.stage = "check", !.woken = FALSE]])

(* Mutant of PollReadEnd: the channel is not looked at again. *)
PollReadEndAtOnce(p) ==
    LET x == pipe[p]
    IN  /\ x.reader.stage = "check"
        /\ \/ x.terminal = "failed" /\ ReadStage(p, "idle")
           \/ /\ x.terminal = "closed" \/ (x.terminal = "none" /\ x.remoteFin)
              /\ ReadDone(p, "clean")
           \/ x.terminal = "none" /\ ~ x.remoteFin /\ ReadStage(p, "sleep")

(* The end of a poll that found the channel empty: a chunk may have come since. *)
PollReadEnd(p) ==
    LET x == pipe[p]
    IN  /\ x.reader.stage = "check"
        /\ \/ x.terminal = "failed" /\ ReadStage(p, "idle")
           \/ /\ x.terminal = "closed" \/ (x.terminal = "none" /\ x.remoteFin)
              /\ IF x.chunks > 0 THEN Reads(p, NextChunk(x), ChunkBytes) ELSE ReadDone(p, "clean")
           \/ x.terminal = "none" /\ ~ x.remoteFin /\ ReadStage(p, "sleep")

-----------------------------------------------------------------------------
(***************************************************************************)
(* The lane (SessionOutbound).  A writer that resets its Pipe holds its    *)
(* permit while it waits for the reader's lock.                            *)
(***************************************************************************)
Holders == {p \in Pipes : pipe[p].writer.stage = "discard"}

Full == Len(lane) + Cardinality(Holders) >= LaneCapacity

Item(kind, p, n) == [kind |-> kind, pipe |-> p, n |-> n]

(* Mutant of NotifyWaiters: one waiter is told of the free slot. *)
NotifyOne(pipes) ==
    IF \A p \in Pipes : pipes[p].writer.waiter # "registered" THEN pipes
    ELSE LET one == CHOOSE p \in Pipes : pipes[p].writer.waiter = "registered"
         IN  [pipes EXCEPT ![one].writer = [@ EXCEPT !.waiter = "notified",
                                                     !.woken = @ \/ pipes[one].writer.stage # "idle"]]

(***************************************************************************)
(* Notify::notify_waiters.  Of the waiters, only those whose future is     *)
(* still polled have a task to wake.                                       *)
(***************************************************************************)
Notified(w) ==
    IF w.waiter = "registered"
    THEN [w EXCEPT !.waiter = "notified", !.woken = @ \/ w.stage # "idle"] ELSE w

NotifyWaiters(pipes) ==
    [p \in Pipes |-> [pipes[p] EXCEPT !.writer = Notified(@)]]

(* The future is done or dropped; waiter and marker live on in the Pipe. *)
Idle(w) == [w EXCEPT !.op = "none", !.stage = "idle", !.woken = FALSE]

(* The operation is over; cancel_wait drops its waiter. *)
WriteDone(w) == [Idle(w) EXCEPT !.waiter = "none"]

(* Mutant of Sent: the marker of an earlier flush still counts. *)
SentKeepsMarker(w) == [w EXCEPT !.dirty = TRUE, !.written = @ + 1]

(* poll_send: a frame is covered by a later marker only. *)
Sent(w) == [w EXCEPT !.flushing = "none", !.dirty = TRUE, !.written = @ + 1]

(* The permit is used, and the Pipe becomes x. *)
SendFrame(p, x, kind) ==
    /\ pipe' = [pipe EXCEPT ![p] = x]
    /\ lane' = Append(lane, Item(kind, p, pipe[p].writer.written + 1))
    /\ UNCHANGED <<ops, laneOpen, abandoned, entries, task, received, wire>>

(* A closure that has nothing to send gives its permit back. *)
SkipFrame(p, x) ==
    /\ pipe' = NotifyWaiters([pipe EXCEPT ![p] = x])
    /\ UNCHANGED <<ops, lane, laneOpen, abandoned, entries, task, received, wire>>

SetWriter(x, w) == [x EXCEPT !.writer = w]

WriteError(x) == x.terminal # "none" \/ x.localFin

(***************************************************************************)
(* commit_frame: the closure of each operation runs with the permit held.  *)
(***************************************************************************)
CommitWrite(p) ==
    LET x == pipe[p]
    IN  \/ WriteError(x) /\ SkipFrame(p, SetWriter(x, WriteDone(x.writer)))
        \/ /\ ~ WriteError(x)
           /\ SendFrame(p, SetWriter(x, [WriteDone(Sent(x.writer)) EXCEPT !.data = @ + 1]), "DATA")

CommitFin(p) ==
    LET x == pipe[p]
    IN  \/ /\ WriteError(x)
           /\ SkipFrame(p, SetWriter(x, [x.writer EXCEPT !.waiter = "none", !.op = "flush",
                                                         !.stage = "poll"]))
        \/ /\ ~ WriteError(x)
           /\ SendFrame(p, SetWriter([x EXCEPT !.localFin = TRUE],
                                     [Sent(x.writer) EXCEPT !.waiter = "none",
                                                            !.stage = "fincheck"]), "FIN")

CommitClose(p) ==
    LET x == pipe[p]
        closed == CloseNormal(x, "local")
    IN  \/ x.terminal # "none" /\ SkipFrame(p, SetWriter(x, WriteDone(x.writer)))
        \/ /\ x.terminal = "none"
           /\ SendFrame(p, SetWriter(closed, WriteDone(Sent(closed.writer))), "CLOSE")

CommitReset(p) ==
    LET x == pipe[p]
    IN  \/ x.terminal # "none" /\ SkipFrame(p, SetWriter(x, WriteDone(x.writer)))
        \/ /\ x.terminal = "none"
           /\ Becomes(p, SetWriter(BeginFail(x, "local"),
                                   [x.writer EXCEPT !.waiter = "none", !.stage = "discard"]))

(* The marker names the frames it covers, so that an old one is told apart. *)
CommitMarker(p) ==
    LET x == pipe[p]
    IN  /\ pipe' = [pipe EXCEPT ![p] = SetWriter(x,
                       [x.writer EXCEPT !.waiter = "none", !.flushing = "pending",
                                        !.stage = "poll"])]
        /\ lane' = Append(lane, Item("FLUSH", p, x.writer.written))
        /\ UNCHANGED <<ops, laneOpen, abandoned, entries, task, received, wire>>

Commit(p) ==
    LET op == pipe[p].writer.op
    IN  \/ op = "write" /\ CommitWrite(p)
        \/ op = "shutdown" /\ CommitFin(p)
        \/ op = "close" /\ CommitClose(p)
        \/ op = "reset" /\ CommitReset(p)
        \/ op = "flush" /\ CommitMarker(p)

-----------------------------------------------------------------------------
(***************************************************************************)
(* The writer (PipeWriter::poll_*, SessionOutbound::poll_enqueue).         *)
(***************************************************************************)
WriterBecomes(p, w) == Becomes(p, SetWriter(pipe[p], w))

Start(p, op) ==
    LET w == pipe[p].writer
    IN  /\ op \in ops[p] /\ ~ w.gone /\ w.stage = "idle"
        /\ op = "write" => w.data < MaxWrites
        /\ WriterBecomes(p, [w EXCEPT !.op = op, !.stage = "poll"])

(* The poll goes on to the lane. *)
Reserve(p, w) == WriterBecomes(p, [w EXCEPT !.stage = "reserve"])

(* SessionOutbound::poll_flush, before it needs the lane. *)
PollFlush(p, w) ==
    LET failed == pipe[p].terminal = "failed"
    IN  \/ failed /\ WriterBecomes(p, WriteDone(w))
        \/ ~ failed /\ ~ w.dirty /\ WriterBecomes(p, [WriteDone(w) EXCEPT !.confirmed = w.written])
        \/ ~ failed /\ w.dirty /\ w.flushing = "none" /\ Reserve(p, w)
        \/ /\ ~ failed /\ w.dirty /\ w.flushing = "pending"
           /\ WriterBecomes(p, [w EXCEPT !.stage = "sleep"])
        \/ /\ ~ failed /\ w.dirty /\ w.flushing = "ok"
           /\ WriterBecomes(p, [Idle(w) EXCEPT !.flushing = "none", !.dirty = FALSE,
                                            !.confirmed = w.written])
        \/ /\ ~ failed /\ w.dirty /\ w.flushing = "err"
           /\ WriterBecomes(p, [Idle(w) EXCEPT !.flushing = "none"])

Poll(p) ==
    LET x == pipe[p]
        w == [x.writer EXCEPT !.woken = FALSE]
        Refused(no) == \/ no /\ WriterBecomes(p, WriteDone(w))
                       \/ ~ no /\ Reserve(p, w)
    IN  /\ w.stage = "poll" \/ (w.stage = "sleep" /\ x.writer.woken)
        /\ \/ w.op = "write" /\ Refused(WriteError(x))
           \/ w.op = "flush" /\ PollFlush(p, w)
           \/ w.op = "shutdown" /\ WriteError(x) /\ PollFlush(p, [w EXCEPT !.op = "flush"])
           \/ w.op = "shutdown" /\ ~ WriteError(x) /\ Reserve(p, w)
           \/ w.op \in {"close", "reset"} /\ Refused(x.terminal # "none")

(* The first try_reserve. *)
TryReserve(p) ==
    LET w == pipe[p].writer
    IN  /\ w.stage = "reserve"
        /\ \/ ~ laneOpen /\ WriterBecomes(p, WriteDone(w))
           \/ laneOpen /\ ~ Full /\ Commit(p)
           \/ laneOpen /\ Full /\ WriterBecomes(p, [w EXCEPT !.stage = "register"])

(* Mutant of RegisterWaiter: the lane is not tried again. *)
RegisterAndSleep(p) ==
    LET w == pipe[p].writer
    IN  /\ w.stage = "register"
        /\ WriterBecomes(p, [w EXCEPT !.stage = "sleep",
                                      !.waiter = IF @ = "none" THEN "registered" ELSE "none",
                                      !.woken = @ \/ w.waiter = "notified"])

RegisterWaiter(p) ==
    LET w == pipe[p].writer
    IN  /\ w.stage = "register"
        /\ WriterBecomes(p, [w EXCEPT !.stage = "again",
                                      !.waiter = IF @ = "none" THEN "registered" ELSE @])

(* The second try_reserve; a waiter that was told already polls again at once. *)
TryReserveAgain(p) ==
    LET w == pipe[p].writer
    IN  /\ w.stage = "again"
        /\ \/ ~ laneOpen /\ WriterBecomes(p, WriteDone(w))
           \/ laneOpen /\ ~ Full /\ Commit(p)
           \/ /\ laneOpen /\ Full /\ w.waiter = "notified"
              /\ WriterBecomes(p, [w EXCEPT !.stage = "sleep", !.waiter = "none", !.woken = TRUE])
           \/ /\ laneOpen /\ Full /\ w.waiter # "notified"
              /\ WriterBecomes(p, [w EXCEPT !.stage = "sleep"])

(* Mutant of FinCheck: the session is left to see both FINs. *)
FinCheckNot(p) ==
    LET w == pipe[p].writer
    IN  /\ w.stage = "fincheck"
        /\ WriterBecomes(p, [w EXCEPT !.op = "flush", !.stage = "poll"])

(* poll_shutdown after the FIN is in the lane. *)
FinCheck(p) ==
    LET x == pipe[p]
        y == IF x.remoteFin THEN CloseNormal(x, "fins") ELSE x
    IN  /\ x.writer.stage = "fincheck"
        /\ Becomes(p, SetWriter(y, [y.writer EXCEPT !.op = "flush", !.stage = "poll"]))

(* A local RESET has the read buffer's lock: the frame goes into the lane. *)
ResetDiscards(p) ==
    LET x == EndFail(pipe[p])
    IN  /\ pipe[p].writer.stage = "discard" /\ ~ ReaderLocks(pipe[p])
        /\ \/ laneOpen /\ SendFrame(p, SetWriter(x, WriteDone(Sent(x.writer))), "RESET")
           \/ ~ laneOpen /\ Becomes(p, SetWriter(x, WriteDone(x.writer)))

(* The application drops the future. *)
CancelWrite(p) ==
    LET w == pipe[p].writer
    IN  "cancel" \in ops[p] /\ w.stage = "sleep" /\ WriterBecomes(p, Idle(w))

(* PipeOwner::drop, once both halves are gone. *)
DropOwner(p, x) ==
    LET abandons == x.reader.gone /\ x.writer.gone /\ x.terminal = "none"
    IN  /\ pipe' = [pipe EXCEPT ![p] = IF abandons THEN CloseNormal(x, "local") ELSE x]
        /\ abandoned' = IF abandons THEN Append(abandoned, p) ELSE abandoned
        /\ UNCHANGED <<ops, lane, laneOpen, entries, task, received, wire>>

DropReader(p) ==
    LET x == pipe[p]
    IN  /\ "drop" \in ops[p] /\ ~ x.reader.gone /\ x.reader.stage \in {"idle", "sleep"}
        /\ DropOwner(p, Discard([x EXCEPT !.reader = [@ EXCEPT !.gone = TRUE, !.stage = "idle",
                                                               !.woken = FALSE]]))

DropWriter(p) ==
    LET x == pipe[p]
    IN  /\ "drop" \in ops[p] /\ ~ x.writer.gone /\ x.writer.stage \in {"idle", "sleep"}
        /\ DropOwner(p, SetWriter(x, [WriteDone(x.writer) EXCEPT !.gone = TRUE,
                                                                 !.flushing = "none"]))

-----------------------------------------------------------------------------
(***************************************************************************)
(* The session task.                                                       *)
(***************************************************************************)
At(stage) == task.stage = stage
AtPipe(stage, p) == task.stage = stage /\ task.pipe = p

(* A handler goes on as t, with Pipe p as x and the entries left. *)
Continue(p, x, left, t) ==
    /\ pipe' = [pipe EXCEPT ![p] = x]
    /\ entries' = left
    /\ task' = t
    /\ UNCHANGED <<ops, lane, laneOpen, abandoned, wire>>

(* The bytes a reader has before it. *)
Buffered(x) == x.chunks * ChunkBytes + x.current

(* The chunks whose permits are held: one being read keeps its own to the end. *)
Held(x) == x.chunks + (IF x.current > 0 THEN 1 ELSE 0)

(* BufferedBytes of a Pipe *)
Reserved(x) == Held(x) * ChunkBytes

(* The permits push_data needs: a frame, and bytes of the Pipe and the Relay. *)
HasRoom(x) ==
    /\ Held(x) < FrameCapacity
    /\ Reserved(x) + ChunkBytes <= PipeBytes
    /\ MapThenSumSet(LAMBDA q : Reserved(pipe[q]), Pipes) + ChunkBytes <= RelayBytes

(* The session ended: a marker in the lane is answered with the failure. *)
FlushFails(w) ==
    IF w.flushing = "pending"
    THEN [w EXCEPT !.flushing = "err", !.woken = w.stage # "idle"] ELSE w

(* The session loop breaks: the lane is failed, its markers are answered. *)
FailLane ==
    /\ pipe' = NotifyWaiters([p \in Pipes |-> SetWriter(pipe[p], FlushFails(pipe[p].writer))])
    /\ lane' = <<>>
    /\ laneOpen' = FALSE
    /\ task' = [stage |-> "cleanup"]
    /\ UNCHANGED <<ops, wire>>

(* SessionLink::send either writes and flushes the frame or ends the session. *)
Sends(p, kind, n) ==
    /\ wire' = [wire EXCEPT ![p] = Append(@, [kind |-> kind, n |-> n])]
    /\ task' = Selecting
    /\ UNCHANGED <<ops, laneOpen>>

(* on_data: the Pipe is failed and the Gateway told. *)
RejectData(p) ==
    LET x == pipe[p]
    IN  \/ /\ x.terminal = "none"
           /\ Continue(p, BeginFail(x, "session"), entries \ {p}, Handling("reject", p))
        \/ x.terminal # "none" /\ Continue(p, x, entries \ {p}, Handling("reset", p))

Stay(p, t) == Continue(p, pipe[p], entries, t)

(* on_data, up to the checks of push_data. *)
OnData(p) ==
    LET takes == p \in entries /\ pipe[p].terminal = "none"
    IN  \/ ~ takes /\ Stay(p, Selecting)
        \/ takes /\ pipe[p].remoteFin /\ RejectData(p)
        \/ takes /\ ~ pipe[p].remoteFin /\ Stay(p, Handling("push", p))

(* push_data: the chunk is buffered, unless a limit or a closed reader refuses it. *)
PushData(p) ==
    LET x == pipe[p]
        refused == x.rxClosed \/ ~ HasRoom(x)
    IN  /\ AtPipe("push", p)
        /\ \/ refused /\ RejectData(p)
           \/ /\ ~ refused
              /\ Continue(p, [x EXCEPT !.chunks = @ + 1, !.pushed = @ + ChunkBytes,
                                       !.reader = Wake(@)], entries, Selecting)
        /\ UNCHANGED received

(* fail, once it has the lock of the read buffer. *)
SessionDiscards(p) ==
    /\ ~ ReaderLocks(pipe[p])
    /\ \/ AtPipe("reject", p) /\ Continue(p, EndFail(pipe[p]), entries, Handling("reset", p))
       \/ AtPipe("discard", p) /\ Continue(p, EndFail(pipe[p]), entries, Selecting)
    /\ UNCHANGED received

SendReset(p) ==
    /\ AtPipe("reset", p)
    /\ \/ Sends(p, "RESET", 0) /\ UNCHANGED <<pipe, lane>>
       \/ FailLane
    /\ UNCHANGED <<abandoned, entries, received>>

(* remote_fin stores the flag, then looks for the local FIN. *)
OnFin(p) ==
    LET x == pipe[p]
    IN  \/ p \notin entries /\ Stay(p, Selecting)
        \/ /\ p \in entries
           /\ Continue(p, [x EXCEPT !.remoteFin = TRUE, !.reader = Wake(@)], entries,
                       Handling("fin", p))

RemoteFin(p) ==
    LET x == pipe[p]
    IN  /\ AtPipe("fin", p)
        /\ Continue(p, IF x.localFin THEN CloseNormal(x, "fins") ELSE x, entries,
                    Handling("finished", p))
        /\ UNCHANGED received

(* Mutant of FinFinished: the entry stays. *)
FinFinishedKeeps(p) == AtPipe("finished", p) /\ Stay(p, Selecting) /\ UNCHANGED received

FinFinished(p) ==
    LET x == pipe[p]
    IN  /\ AtPipe("finished", p)
        /\ Continue(p, x, IF IsProtocolFinished(x) THEN entries \ {p} ELSE entries, Selecting)
        /\ UNCHANGED received

OnClose(p) ==
    \/ p \in entries /\ Continue(p, CloseNormal(pipe[p], "remote"), entries \ {p}, Selecting)
    \/ p \notin entries /\ Stay(p, Selecting)

OnReset(p) ==
    LET x == pipe[p]
        fails == p \in entries /\ x.terminal = "none"
    IN  \/ fails /\ Continue(p, BeginFail(x, "remote"), entries \ {p}, Handling("discard", p))
        \/ ~ fails /\ Continue(p, x, entries \ {p}, Selecting)

OnInbound(p) ==
    /\ At("select") /\ received < MaxInbound /\ "remote" \in ops[p]
    /\ OnData(p) \/ OnFin(p) \/ OnClose(p) \/ OnReset(p)
    /\ received' = received + 1

(* The transport fails, the heartbeat times out or the session is cancelled. *)
SessionBreaks == At("select") /\ FailLane /\ UNCHANGED <<abandoned, entries, received>>

(* The entry goes with the last frame the Pipe has to send. *)
EndsPipe(item) ==
    \/ item.kind \in {"CLOSE", "RESET"}
    \/ item.kind = "FIN" /\ IsProtocolFinished(pipe[item.pipe])

(* recv_item makes room, and a frame goes to on_outbound. *)
OnFrame ==
    /\ At("select") /\ lane # <<>>
    /\ LET item == Head(lane)
           p == item.pipe
       IN  /\ item.kind # "FLUSH"
           /\ \/ /\ Sends(p, item.kind, item.n)
                 /\ entries' = IF EndsPipe(item) THEN entries \ {p} ELSE entries
                 /\ pipe' = NotifyWaiters(pipe)
                 /\ lane' = Tail(lane)
              \/ FailLane /\ UNCHANGED entries
    /\ UNCHANGED <<abandoned, received>>

(* A flush is answered, if its writer still waits for this marker. *)
OnFlush ==
    /\ At("select") /\ lane # <<>>
    /\ LET item == Head(lane)
           p == item.pipe
           w == Notified(pipe[p].writer)
           current == w.flushing = "pending" /\ item.n = w.written
       IN  /\ item.kind = "FLUSH"
           /\ pipe' = [NotifyWaiters(pipe) EXCEPT ![p] =
                          SetWriter(pipe[p], IF current THEN Wake([w EXCEPT !.flushing = "ok"]) ELSE w)]
    /\ lane' = Tail(lane)
    /\ UNCHANGED <<ops, laneOpen, abandoned, entries, task, received, wire>>

(* Mutant of FindsLaneEmpty: select takes its branches in any order. *)
PassesLane ==
    /\ At("select")
    /\ task' = [stage |-> "late", seen |-> [p \in Pipes |-> pipe[p].writer.written]]
    /\ UNCHANGED <<ops, pipe, lane, laneOpen, abandoned, entries, received, wire>>

(***************************************************************************)
(* A poll of the biased select looks at the lane and then at the notices   *)
(* of dropped Pipes, while writers go on: a Pipe may be written to and     *)
(* dropped between the two.  seen is history: the frames written so far.   *)
(***************************************************************************)
FindsLaneEmpty ==
    /\ At("select") /\ lane = <<>>
    /\ task' = [stage |-> "late", seen |-> [p \in Pipes |-> pipe[p].writer.written]]
    /\ UNCHANGED <<ops, pipe, lane, laneOpen, abandoned, entries, received, wire>>

(* No notice either: the task sleeps until it is polled again. *)
FindsNothing ==
    /\ At("late") /\ abandoned = <<>>
    /\ task' = Selecting
    /\ UNCHANGED <<ops, pipe, lane, laneOpen, abandoned, entries, received, wire>>

(* on_abandoned, the last branch: CLOSE, unless the entry is gone. *)
OnAbandoned ==
    /\ At("late") /\ abandoned # <<>>
    /\ LET p == Head(abandoned)
       IN  /\ entries' = entries \ {p}
           /\ \/ p \in entries /\ FailLane
              \/ /\ p \in entries /\ Sends(p, "DROPPED", task.seen[p])
                 /\ UNCHANGED <<pipe, lane>>
              \/ /\ p \notin entries /\ task' = Selecting
                 /\ UNCHANGED <<ops, pipe, lane, laneOpen, wire>>
    /\ abandoned' = Tail(abandoned)
    /\ UNCHANGED received

(* cleanup_relay_session: every Pipe left is failed. *)
CleanupPipe(p) ==
    LET x == pipe[p]
    IN  /\ At("cleanup") /\ p \in entries
        /\ \/ x.terminal # "none" /\ Continue(p, x, entries \ {p}, task)
           \/ /\ x.terminal = "none" /\ ~ ReaderLocks(x)
              /\ Continue(p, EndFail(BeginFail(x, "session")), entries \ {p}, task)
        /\ UNCHANGED received

Reader(p) == PollRead(p) \/ PollReadEnd(p)
Writer(p) ==
    Poll(p) \/ TryReserve(p) \/ RegisterWaiter(p) \/ TryReserveAgain(p) \/ FinCheck(p) \/ ResetDiscards(p)
Application(p) ==
    \/ \E op \in WriterOperations : Start(p, op)
    \/ CancelWrite(p) \/ DropReader(p) \/ DropWriter(p)
Session(p) ==
    \/ PushData(p) \/ SessionDiscards(p) \/ SendReset(p) \/ RemoteFin(p) \/ FinFinished(p)
    \/ OnInbound(p) \/ CleanupPipe(p)

Next ==
    \/ \E p \in Pipes : Reader(p) \/ Writer(p) \/ Application(p) \/ Session(p)
    \/ OnFrame \/ OnFlush \/ FindsLaneEmpty \/ FindsNothing \/ OnAbandoned \/ SessionBreaks

Spec == Init /\ [][Next]_vars

-----------------------------------------------------------------------------
(***************************************************************************)
(* Properties.                                                             *)
(***************************************************************************)

(* f is on the wire: may g, of the same Pipe, come after it?               *)
MayFollow(f, g) ==
    /\ f.kind # "CLOSE"
    /\ f.kind = "DROPPED" => g.kind \in {"DATA", "FIN"} /\ g.n > f.n

(***************************************************************************)
(* Nothing follows a writer's CLOSE (on_outbound).  The CLOSE of a dropped *)
(* Pipe (on_abandoned) is overtaken by no frame the session could know of: *)
(* what follows it was queued after that very poll found the lane empty.   *)
(***************************************************************************)
NothingAfterClose ==
    \A p \in Pipes : \A i, j \in DOMAIN wire[p] :
        i < j => MayFollow(wire[p][i], wire[p][j])

(* The nth frame of the writer of p. *)
OnWire(p, n) == \E i \in DOMAIN wire[p] : wire[p][i].n = n /\ wire[p][i].kind # "DROPPED"

(* A flush that succeeded vouches only for frames the transport has. *)
FlushMeansSent ==
    \A p \in Pipes : \A n \in 1 .. pipe[p].writer.confirmed : OnWire(p, n)

(* Both FINs end the Pipe, whichever thread saw the other's. *)
BothFinsClose ==
    \A p \in Pipes :
        LET x == pipe[p]
        IN  (IsProtocolFinished(x) /\ x.writer.stage # "fincheck" /\ ~ AtPipe("fin", p)) =>
                x.terminal # "none"

(* EOF comes after the last byte, unless this side closed the Pipe. *)
EofMeansAll ==
    \A p \in Pipes :
        LET x == pipe[p]
        IN  (x.reader.eof = "clean" /\ x.ender # "local") => x.taken = x.pushed

(* try_set_terminal waits for the lock of the read buffer. *)
Failing(p) ==
    pipe[p].writer.stage = "discard" \/ AtPipe("discard", p) \/ AtPipe("reject", p)

(* A Pipe that failed, or whose reader is gone, holds no bytes of the Relay. *)
FailedHoldsNothing ==
    \A p \in Pipes :
        LET x == pipe[p]
        IN  (x.reader.gone \/ (x.terminal = "failed" /\ ~ Failing(p))) => Reserved(x) = 0

InLane(p, kinds) == \E i \in DOMAIN lane : lane[i].pipe = p /\ lane[i].kind \in kinds

(***************************************************************************)
(* A Pipe that ended leaves the session's map, unless the frame or the     *)
(* notice that removes it is on its way.                                   *)
(***************************************************************************)
EndedPipesLeave ==
    \A p \in entries :
        pipe[p].terminal # "none" =>
            \/ InLane(p, {"CLOSE", "RESET", "FIN"})
            \/ \E i \in DOMAIN abandoned : abandoned[i] = p
            \/ pipe[p].writer.stage = "discard"
            \/ AtPipe("fin", p) \/ AtPipe("finished", p)
            \/ At("cleanup")

(* An ended Pipe gives back what it holds of the Relay: bytes and its entry. *)
EndedPipesRelease == FailedHoldsNothing /\ EndedPipesLeave

(***************************************************************************)
(* No wake is lost: a half sleeps without one only while there is nothing  *)
(* for it.  A reader has no chunk, no FIN and no end to see; a writer has  *)
(* its marker in the lane, or waits for a slot of a full one.              *)
(***************************************************************************)
NoWakeIsLost ==
    \A p \in Pipes :
        LET x == pipe[p]
            w == x.writer
            open == x.terminal = "none" \/ Failing(p)
        IN  /\ (x.reader.stage = "sleep" /\ ~ x.reader.woken) =>
                   open /\ x.chunks = 0 /\ ~ x.remoteFin
            /\ (w.stage = "sleep" /\ ~ w.woken) =>
                   /\ laneOpen
                   /\ \/ w.flushing = "pending" /\ InLane(p, {"FLUSH"})
                      \/ w.waiter = "registered" /\ Full /\ (w.op = "flush" \/ open)

=============================================================================
