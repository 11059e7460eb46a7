--------------------------- MODULE SdkPipeProofs ---------------------------
(***************************************************************************)
(* Proofs about SdkPipe, for any number of Pipes and any capacities.       *)
(***************************************************************************)
EXTENDS SdkPipe, FiniteSetTheorems, SequenceTheorems, TLAPS

-----------------------------------------------------------------------------
(***************************************************************************)
(* The types of the state.                                                 *)
(***************************************************************************)
WriterType ==
    [op : WriterOperations \union {"none"},
     stage : {"idle", "poll", "reserve", "register", "again", "sleep", "fincheck", "discard"},
     waiter : {"none", "registered", "notified"}, woken : BOOLEAN, dirty : BOOLEAN,
     flushing : {"none", "pending", "ok", "err"},
     written : Nat, data : Nat, confirmed : Nat, gone : BOOLEAN]

(* A ReadHalf: what it is doing, and what it last reported. *)
ReaderType ==
    [stage : {"idle", "check", "sleep"}, woken : BOOLEAN,
     eof : {"no", "clean", "failed"}, gone : BOOLEAN]

(* A Pipe: its state, its read buffer and its two halves. *)
PipeType ==
    [terminal : {"none", "closed", "failed"},
     ender : {"none", "local", "remote", "session", "fins"},
     remoteFin : BOOLEAN, localFin : BOOLEAN, chunks : Nat, current : Nat,
     rxClosed : BOOLEAN, pushed : Nat, taken : Nat,
     writer : WriterType, reader : ReaderType]

(* The frames of a Pipe, the lane's items (a flush marker is one, and n
   counts the frames written before it) and what reaches the wire. *)
FrameKinds == {"DATA", "FIN", "CLOSE", "RESET"}
ItemType == [kind : FrameKinds \union {"FLUSH"}, pipe : Pipes, n : Nat]
FrameType == [kind : FrameKinds \union {"DROPPED"}, n : Nat]

(* Where the session task is: selecting, cleaning up, inside a handler for
   one Pipe, or late in a poll that found the lane empty. *)
HandlerStages == {"push", "reject", "discard", "reset", "fin", "finished"}
EarlyType == [stage : {"select", "cleanup"}] \union [stage : HandlerStages, pipe : Pipes]
TaskType == EarlyType \union [stage : {"late"}, seen : [Pipes -> Nat]]

(* Every variable has its type; the queues hold items of the Pipes. *)
TypeOK ==
    /\ ops \in [Pipes -> SUBSET AllOperations]
    /\ pipe \in [Pipes -> PipeType]
    /\ lane \in Seq(ItemType)
    /\ laneOpen \in BOOLEAN
    /\ abandoned \in Seq(Pipes)
    /\ entries \subseteq Pipes
    /\ task \in TaskType
    /\ received \in Nat
    /\ wire \in [Pipes -> Seq(FrameType)]

-----------------------------------------------------------------------------
(***************************************************************************)
(* The invariant of one Pipe x while the session is at stage b of a        *)
(* handler for it ("none": the session is elsewhere).                      *)
(***************************************************************************)
Doing(t, p) == IF t.stage \in HandlerStages /\ t.pipe = p THEN t.stage ELSE "none"

(* A failure has set the terminal state and not yet discarded the buffer. *)
Fails(x, b) == x.writer.stage = "discard" \/ b \in {"discard", "reject"}

(* Who ended the Pipe is known once it ended, and a failing one failed. *)
EnderKnown(x, b) ==
    /\ x.ender = "none" <=> x.terminal = "none"
    /\ Fails(x, b) => x.terminal = "failed"

(* The read buffer: what was pushed was taken, is buffered or was discarded. *)
BufferInv(x, b) ==
    /\ x.rxClosed => x.chunks = 0 /\ x.current = 0
    /\ x.rxClosed => x.reader.gone \/ x.terminal = "failed"
    /\ x.reader.gone => x.rxClosed /\ x.reader.stage = "idle"
    /\ (x.terminal = "failed" /\ ~ Fails(x, b)) => x.rxClosed
    /\ ~ x.rxClosed => x.pushed = x.taken + Buffered(x)

(* EOF is reported by a reader that found the buffer empty after the end. *)
EofInv(x, b) ==
    /\ x.reader.stage = "check" => x.current = 0 /\ x.reader.eof = "no"
    /\ x.reader.eof # "no" => x.current = 0
    /\ x.reader.eof = "clean" => x.remoteFin \/ x.terminal # "none"
    /\ (x.reader.eof = "clean" /\ x.ender # "local") => x.taken = x.pushed
    /\ b = "push" => ~ x.remoteFin /\ (x.terminal # "none" => x.ender = "local")

(* Whichever side saw the second FIN has ended the Pipe or is about to. *)
FinInv(x, b) ==
    /\ x.writer.stage = "fincheck" => x.localFin
    /\ b = "fin" => x.remoteFin
    /\ (x.localFin /\ x.remoteFin /\ x.writer.stage # "fincheck" /\ b # "fin") =>
           x.terminal # "none"

(* A half that goes to sleep without a wake has nothing to see. *)
HalvesInv(x, b) ==
    /\ (x.reader.stage \in {"check", "sleep"} /\ ~ x.reader.woken) => x.chunks = 0
    /\ (x.reader.stage = "sleep" /\ ~ x.reader.woken) =>
           (x.terminal = "none" \/ Fails(x, b)) /\ ~ x.remoteFin
    /\ (/\ x.writer.stage \in {"reserve", "register", "again", "sleep"}
        /\ ~ x.writer.woken /\ x.writer.op # "flush") => x.terminal = "none" \/ Fails(x, b)
    /\ x.writer.stage = "again" => x.writer.waiter # "none"
    /\ x.writer.gone => x.writer.stage = "idle"

(* All of it, for one Pipe and for every Pipe. *)
PipeInv(x, b) ==
    EnderKnown(x, b) /\ BufferInv(x, b) /\ EofInv(x, b) /\ FinInv(x, b) /\ HalvesInv(x, b)

PipesInv == \A p \in Pipes : PipeInv(pipe[p], Doing(task, p))

-----------------------------------------------------------------------------
(***************************************************************************)
(* The lane: what a writer wrote is on the wire or queued, a marker is     *)
(* behind the frames it covers, and nothing the session knew of follows    *)
(* the CLOSE of its Pipe.                                                  *)
(***************************************************************************)
Queued(p, n) == \E i \in DOMAIN lane : lane[i].pipe = p /\ lane[i].kind # "FLUSH" /\ lane[i].n = n

(* The receiver is gone only in the cleanup; nothing is queued then and no
   flush waits. *)
ClosedLane ==
    ~ laneOpen => /\ task.stage = "cleanup" /\ lane = <<>>
                  /\ \A p \in Pipes : pipe[p].writer.flushing # "pending"

(* What was written is on the wire or queued; a pending flush has its
   marker, and a clean or confirmed writer has everything on the wire. *)
FlushInv(p) ==
    LET w == pipe[p].writer
    IN  /\ w.flushing = "pending" => \E i \in DOMAIN lane : lane[i] = Item("FLUSH", p, w.written)
        /\ laneOpen => \A n \in 1 .. w.written : OnWire(p, n) \/ Queued(p, n)
        /\ (w.flushing = "ok" \/ ~ w.dirty) => \A n \in 1 .. w.written : OnWire(p, n)
        /\ \A n \in 1 .. w.confirmed : OnWire(p, n)

(* No item counts more frames than its writer wrote. *)
Numbered == \A i \in DOMAIN lane : lane[i].n <= pipe[lane[i].pipe].writer.written

(* A flush marker is behind the frames that it covers. *)
MarkersBehind ==
    \A i, j \in DOMAIN lane :
        (/\ lane[i].kind = "FLUSH" /\ lane[j].kind # "FLUSH"
         /\ lane[i].pipe = lane[j].pipe /\ lane[j].n <= lane[i].n) => j < i

(* A CLOSE or RESET is queued for an ended Pipe, and nothing but a marker
   behind a CLOSE. *)
CloseIsLast ==
    \A i \in DOMAIN lane :
        /\ lane[i].kind \in {"CLOSE", "RESET"} => pipe[lane[i].pipe].terminal # "none"
        /\ lane[i].kind = "CLOSE" =>
              /\ pipe[lane[i].pipe].writer.stage # "discard"
              /\ \A j \in DOMAIN lane :
                    (j > i /\ lane[j].pipe = lane[i].pipe) => lane[j].kind = "FLUSH"

(* The stages from which the session may still send a RESET. *)
Resetting == {"push", "reject", "reset"}

(* The session has forgotten the Pipe and its application has ended it: no
   frame is added, and nobody answers the peer's late ones with a RESET. *)
Quiet(p) ==
    /\ p \notin entries
    /\ pipe[p].terminal # "none" /\ pipe[p].writer.stage # "discard"
    /\ Doing(task, p) \notin Resetting

(* What is so once the frame f of Pipe p is on the wire: after a CLOSE the
   Pipe is quiet, and what is still queued may follow. *)
Settled(p, f) ==
    /\ f.kind \in {"CLOSE", "DROPPED"} => Quiet(p)
    /\ \A i \in DOMAIN lane :
          (lane[i].pipe = p /\ lane[i].kind # "FLUSH") => MayFollow(f, lane[i])

(* All that was sent is settled. *)
AfterClose(p) == \A k \in DOMAIN wire[p] : Settled(p, wire[p][k])

(* A CLOSE of the Pipe is on the wire, its writer's or the session's. *)
ClosedOnWire(p) == \E i \in DOMAIN wire[p] : wire[p][i].kind \in {"CLOSE", "DROPPED"}

(* Only a dropped WriteHalf of an ended Pipe is abandoned, and that Pipe
   has queued no CLOSE or RESET of its own. *)
Dropped(p) ==
    /\ pipe[p].writer.gone /\ pipe[p].terminal # "none" /\ pipe[p].writer.stage # "discard"
    /\ ~ InLane(p, {"CLOSE", "RESET"})
AbandonedInv == \A i \in DOMAIN abandoned : Dropped(abandoned[i])

(* Late in a poll, the lane holds only frames written since it was empty. *)
LateInv ==
    task.stage = "late" =>
        /\ \A p \in Pipes : task.seen[p] <= pipe[p].writer.written
        /\ \A i \in DOMAIN lane : lane[i].kind # "FLUSH" => lane[i].n > task.seen[lane[i].pipe]

(* The entry of a Pipe that ended has something that will remove it. *)
EntryInv(p) ==
    /\ IsProtocolFinished(pipe[p]) =>
           InLane(p, {"FIN"}) \/ Doing(task, p) \in {"fin", "finished"} \/ task.stage = "cleanup"
    /\ pipe[p].terminal # "none" =>
           \/ InLane(p, {"CLOSE", "RESET"})
           \/ \E i \in DOMAIN abandoned : abandoned[i] = p
           \/ pipe[p].writer.stage = "discard"
           \/ IsProtocolFinished(pipe[p])
           \/ task.stage = "cleanup"

(* A writer sleeps for its marker or for a slot of a full lane. *)
SleeperInv ==
    \A p \in Pipes :
        LET w == pipe[p].writer
        IN  (w.stage = "sleep" /\ ~ w.woken) =>
                laneOpen /\ (w.flushing = "pending" \/ (w.waiter = "registered" /\ Full))

(* The part of the invariant about the lane and the flushes. *)
LaneInv ==
    /\ ClosedLane /\ Numbered /\ MarkersBehind
    /\ \A p \in Pipes : FlushInv(p)

(* The part about the CLOSE. *)
CloseInv ==
    /\ CloseIsLast /\ AbandonedInv /\ NothingAfterClose
    /\ \A p \in Pipes : AfterClose(p)

(* The part about the session's table of Pipes. *)
EntriesInv == \A p \in entries : EntryInv(p)

(* The inductive invariant. *)
IInv == TypeOK /\ PipesInv /\ LaneInv /\ LateInv /\ CloseInv /\ EntriesInv /\ SleeperInv

-----------------------------------------------------------------------------
(***************************************************************************)
(* Lemmas about the operators on one Pipe.                                 *)
(***************************************************************************)

(* The constants are what PipeAssumption says. *)
LEMMA ConstantsMean ==
    /\ IsFiniteSet(Pipes)
    /\ LaneCapacity \in Nat \ {0} /\ ChunkBytes \in Nat \ {0}
    /\ Operations \subseteq [Pipes -> SUBSET AllOperations]
BY PipeAssumption

(* A wake marks a writer that is polling or asleep, and nothing else of it. *)
LEMMA WakeWriterMeans ==
    ASSUME NEW w \in WriterType
    PROVE  /\ Wake(w) \in WriterType
           /\ Wake(w) = [w EXCEPT !.woken = w.stage # "idle"]
           /\ Wake(w).woken = (w.stage # "idle")
           /\ Wake(w).op = w.op /\ Wake(w).stage = w.stage /\ Wake(w).waiter = w.waiter
           /\ Wake(w).dirty = w.dirty /\ Wake(w).flushing = w.flushing
           /\ Wake(w).written = w.written /\ Wake(w).data = w.data
           /\ Wake(w).confirmed = w.confirmed /\ Wake(w).gone = w.gone
BY DEF Wake, WriterType

(* The same for a reader. *)
LEMMA WakeReaderMeans ==
    ASSUME NEW r \in ReaderType
    PROVE  /\ Wake(r) \in ReaderType
           /\ Wake(r).woken = (r.stage # "idle")
           /\ Wake(r).stage = r.stage /\ Wake(r).eof = r.eof /\ Wake(r).gone = r.gone
BY DEF Wake, ReaderType

(* Both halves are woken; the Pipe stays what it is. *)
LEMMA WakeBothMeans ==
    ASSUME NEW x \in PipeType
    PROVE  /\ WakeBoth(x) \in PipeType
           /\ WakeBoth(x).writer = Wake(x.writer) /\ WakeBoth(x).reader = Wake(x.reader)
           /\ WakeBoth(x).terminal = x.terminal /\ WakeBoth(x).ender = x.ender
           /\ WakeBoth(x).remoteFin = x.remoteFin /\ WakeBoth(x).localFin = x.localFin
           /\ WakeBoth(x).chunks = x.chunks /\ WakeBoth(x).current = x.current
           /\ WakeBoth(x).rxClosed = x.rxClosed /\ WakeBoth(x).pushed = x.pushed
           /\ WakeBoth(x).taken = x.taken
BY WakeReaderMeans, WakeWriterMeans DEF WakeBoth, PipeType

(* close_normal ends an open Pipe, wakes both halves and keeps the buffer. *)
LEMMA CloseNormalMeans ==
    ASSUME NEW x \in PipeType, NEW by \in {"local", "remote", "session", "fins"},
           x.terminal = "none"
    PROVE  LET y == CloseNormal(x, by)
           IN  /\ y \in PipeType
               /\ y.terminal = "closed" /\ y.ender = by
               /\ y.writer = Wake(x.writer) /\ y.reader = Wake(x.reader)
               /\ y.remoteFin = x.remoteFin /\ y.localFin = x.localFin
               /\ y.chunks = x.chunks /\ y.current = x.current
               /\ y.rxClosed = x.rxClosed /\ y.pushed = x.pushed /\ y.taken = x.taken
<1> DEFINE z == [x EXCEPT !.terminal = "closed", !.ender = by]
<1>1. /\ z \in PipeType
      /\ z.terminal = "closed" /\ z.ender = by
      /\ z.writer = x.writer /\ z.reader = x.reader
      /\ z.remoteFin = x.remoteFin /\ z.localFin = x.localFin
      /\ z.chunks = x.chunks /\ z.current = x.current
      /\ z.rxClosed = x.rxClosed /\ z.pushed = x.pushed /\ z.taken = x.taken
  BY DEF PipeType
<1>2. CloseNormal(x, by) = WakeBoth(z)
  BY DEF CloseNormal
<1> HIDE DEF z
<1> QED BY <1>1, <1>2, WakeBothMeans

(* An open Pipe may be closed by anyone, but during a push by its own
   application only. *)
LEMMA CloseNormalKeeps ==
    ASSUME NEW x \in PipeType, NEW by \in {"local", "remote", "session", "fins"}, NEW b,
           PipeInv(x, b), x.terminal = "none", b = "push" => by = "local"
    PROVE  PipeInv(CloseNormal(x, by), b)
<1> DEFINE y == CloseNormal(x, by)
<1>1. /\ y \in PipeType
               /\ y.terminal = "closed" /\ y.ender = by
               /\ y.writer = Wake(x.writer) /\ y.reader = Wake(x.reader)
               /\ y.remoteFin = x.remoteFin /\ y.localFin = x.localFin
               /\ y.chunks = x.chunks /\ y.current = x.current
               /\ y.rxClosed = x.rxClosed /\ y.pushed = x.pushed /\ y.taken = x.taken
  BY CloseNormalMeans
<1>2. x.writer \in WriterType /\ x.reader \in ReaderType
  BY DEF PipeType
<1> HIDE DEF y
<1>3. PipeInv(y, b)
  BY <1>1, <1>2, WakeReaderMeans, WakeWriterMeans
     DEF PipeInv, EnderKnown, BufferInv, EofInv, FinInv, HalvesInv, Fails, Buffered, WriterType,
         ReaderType
<1> QED BY <1>3 DEF y

(* The fields of a Pipe that the read buffer and the end are kept in. *)
SameBuffer(x, y) ==
    /\ y.chunks = x.chunks /\ y.current = x.current /\ y.rxClosed = x.rxClosed
    /\ y.pushed = x.pushed /\ y.taken = x.taken

(* The Pipe has not ended and no FIN has come in between. *)
SameEnd(x, y) ==
    /\ y.terminal = x.terminal /\ y.ender = x.ender
    /\ y.remoteFin = x.remoteFin /\ y.localFin = x.localFin

(* The halves of a Pipe. *)
LEMMA HalvesTyped ==
    ASSUME NEW x \in PipeType
    PROVE  x.writer \in WriterType /\ x.reader \in ReaderType
BY DEF PipeType

(* A new writer changes nothing else. *)
LEMMA SetWriterMeans ==
    ASSUME NEW x \in PipeType, NEW w \in WriterType
    PROVE  LET y == SetWriter(x, w)
           IN  /\ y \in PipeType /\ y.writer = w /\ y.reader = x.reader
               /\ SameBuffer(x, y) /\ SameEnd(x, y)
BY DEF SetWriter, PipeType, SameBuffer, SameEnd

(* A writer moves, and neither enters nor leaves discard or fincheck. *)
LEMMA WriterMoves ==
    ASSUME NEW x \in PipeType, NEW y \in PipeType, NEW b, PipeInv(x, b),
           SameBuffer(x, y), SameEnd(x, y), y.reader = x.reader,
           \/ y.writer.stage = x.writer.stage
           \/ {x.writer.stage, y.writer.stage} \cap {"discard", "fincheck"} = {},
           (/\ y.writer.stage \in {"reserve", "register", "again", "sleep"}
            /\ ~ y.writer.woken /\ y.writer.op # "flush") => x.terminal = "none" \/ Fails(x, b),
           y.writer.stage = "again" => y.writer.waiter # "none",
           y.writer.gone => y.writer.stage = "idle"
    PROVE  PipeInv(y, b)
<1> USE DEF PipeInv, EnderKnown, BufferInv, EofInv, FinInv, HalvesInv, SameBuffer, SameEnd
<1>1. x.writer.stage = "discard" <=> y.writer.stage = "discard"
  OBVIOUS
<1>2. x.writer.stage = "fincheck" <=> y.writer.stage = "fincheck"
  OBVIOUS
<1>3. Fails(x, b) <=> Fails(y, b)
  BY <1>1 DEF Fails
<1>4. Buffered(y) = Buffered(x)
  BY DEF Buffered
<1> QED BY <1>1, <1>2, <1>3, <1>4

(* The bytes of a chunk that leaves the buffer. *)
LEMMA ChunkTaken ==
    ASSUME NEW c \in Nat, c > 0, NEW m \in Nat
    PROVE  c * m = (c - 1) * m + m
OBVIOUS

(* The bytes of a chunk that enters the buffer. *)
LEMMA ChunkAdded ==
    ASSUME NEW c \in Nat, NEW m \in Nat
    PROVE  (c + 1) * m = c * m + m
OBVIOUS

(* A reader takes n bytes of what is available to it. *)
LEMMA ReadKeeps ==
    ASSUME NEW x \in PipeType, NEW y \in PipeType, NEW b, PipeInv(x, b),
           NEW available \in Nat, NEW n \in 1 .. available,
           \/ x.current > 0 /\ available = x.current /\ y.chunks = x.chunks
           \/ /\ x.current = 0 /\ x.chunks > 0 /\ x.reader.eof = "no"
              /\ available = ChunkBytes /\ y.chunks = x.chunks - 1,
           y.current = available - n, y.taken = x.taken + n,
           y.pushed = x.pushed, y.rxClosed = x.rxClosed, SameEnd(x, y), y.writer = x.writer,
           y.reader.stage = "idle", y.reader.eof = x.reader.eof, y.reader.gone = x.reader.gone
    PROVE  PipeInv(y, b)
<1> USE DEF SameEnd
<1>1. ~ x.rxClosed /\ x.reader.eof = "no"
  BY DEF PipeInv, BufferInv, EofInv, PipeType, ReaderType
<1>2. x.pushed = x.taken + Buffered(x)
  BY <1>1 DEF PipeInv, BufferInv
<1>3. y.pushed = y.taken + Buffered(y)
  <2> x.chunks \in Nat /\ x.current \in Nat /\ x.pushed \in Nat /\ x.taken \in Nat
    BY DEF PipeType
  <2> ChunkBytes \in Nat
    BY ConstantsMean
  <2> x.chunks * ChunkBytes \in Nat
    OBVIOUS
  <2>1. CASE x.current > 0 /\ available = x.current /\ y.chunks = x.chunks
    BY <1>2, <2>1 DEF Buffered
  <2>2. CASE x.current = 0 /\ x.chunks > 0 /\ available = ChunkBytes /\ y.chunks = x.chunks - 1
    <3>1. x.chunks * ChunkBytes = y.chunks * ChunkBytes + ChunkBytes
      BY <2>2, ChunkTaken
    <3>2. y.chunks * ChunkBytes \in Nat
      BY <2>2
    <3> QED BY <1>2, <2>2, <3>1, <3>2 DEF Buffered
  <2> QED BY <2>1, <2>2
<1>4. Fails(x, b) <=> Fails(y, b)
  BY DEF Fails
<1>5. EnderKnown(y, b) /\ FinInv(y, b)
  BY <1>4 DEF PipeInv, EnderKnown, FinInv
<1>6. BufferInv(y, b)
  BY <1>1, <1>3, <1>4 DEF PipeInv, BufferInv
<1>7. EofInv(y, b) /\ HalvesInv(y, b)
  BY <1>1, <1>4 DEF PipeInv, EofInv, HalvesInv
<1> QED BY <1>5, <1>6, <1>7 DEF PipeInv

(* A reader moves to stage with the EOF eof, and takes nothing. *)
LEMMA ReaderMoves ==
    ASSUME NEW x \in PipeType, NEW y \in PipeType, NEW b, PipeInv(x, b),
           SameBuffer(x, y), SameEnd(x, y), y.writer = x.writer,
           y.reader.gone = x.reader.gone, ~ x.reader.gone,
           \/ y.reader.stage = "idle" /\ y.reader.eof = x.reader.eof
           \/ /\ y.reader.stage = "check" /\ y.reader.eof = "no"
              /\ x.reader.eof = "no" /\ x.current = 0 /\ x.chunks = 0
           \/ /\ y.reader.stage = "sleep" /\ x.reader.stage = "check"
              /\ x.terminal = "none" /\ ~ x.remoteFin
              /\ y.reader.eof = x.reader.eof /\ y.reader.woken = x.reader.woken
           \/ /\ y.reader.stage = "idle" /\ y.reader.eof = "failed" /\ x.current = 0
           \/ /\ y.reader.stage = "idle" /\ y.reader.eof = "clean"
              /\ x.current = 0 /\ x.chunks = 0 /\ x.terminal # "failed"
              /\ x.terminal # "none" \/ x.remoteFin
    PROVE  PipeInv(y, b)
<1> USE DEF SameEnd, SameBuffer
<1>1. Fails(x, b) <=> Fails(y, b)
  BY DEF Fails
<1>2. Buffered(y) = Buffered(x)
  BY DEF Buffered
<1>3. EnderKnown(y, b) /\ FinInv(y, b) /\ BufferInv(y, b) /\ HalvesInv(y, b)
  BY <1>1, <1>2 DEF PipeInv, EnderKnown, FinInv, BufferInv, HalvesInv
<1>4. (y.reader.eof = "clean" /\ y.ender # "local") => y.taken = y.pushed
  <2>1. CASE y.reader.eof = x.reader.eof
    BY <2>1 DEF PipeInv, EofInv
  <2>2. CASE y.reader.eof = "clean" /\ x.current = 0 /\ x.chunks = 0 /\ x.terminal # "failed"
    <3>1. ~ x.rxClosed
      BY <2>2 DEF PipeInv, BufferInv
    <3>2. Buffered(x) = 0
      BY <2>2, ConstantsMean DEF Buffered
    <3>3. x.pushed = x.taken + 0 /\ x.taken \in Nat
      BY <3>1, <3>2 DEF PipeInv, BufferInv, PipeType
    <3> QED BY <3>3
  <2> QED BY <2>1, <2>2
<1>5. EofInv(y, b)
  BY <1>4 DEF PipeInv, EofInv
<1> QED BY <1>3, <1>5 DEF PipeInv

(* The local FIN is in the lane. *)
LEMMA FinStarts ==
    ASSUME NEW x \in PipeType, NEW y \in PipeType, NEW b, PipeInv(x, b),
           SameBuffer(x, y), y.reader = x.reader, y.localFin, y.remoteFin = x.remoteFin,
           y.terminal = x.terminal, y.ender = x.ender, x.terminal = "none",
           y.writer.stage = "fincheck", ~ y.writer.gone, x.writer.stage # "discard"
    PROVE  PipeInv(y, b)
<1>1. Fails(x, b) <=> Fails(y, b)
  BY DEF Fails
<1>2. Buffered(y) = Buffered(x)
  BY DEF Buffered, SameBuffer
<1> QED
  BY <1>1, <1>2
     DEF PipeInv, EnderKnown, BufferInv, EofInv, FinInv, HalvesInv, SameBuffer

(* poll_shutdown has looked for the remote FIN. *)
LEMMA FinChecked ==
    ASSUME NEW x \in PipeType, NEW y \in PipeType, NEW b, PipeInv(x, b),
           SameBuffer(x, y), SameEnd(x, y), y.reader = x.reader,
           x.writer.stage = "fincheck", y.writer.stage = "poll", ~ y.writer.gone,
           x.remoteFin => x.terminal # "none"
    PROVE  PipeInv(y, b)
<1>1. Fails(x, b) <=> Fails(y, b)
  BY DEF Fails
<1>2. Buffered(y) = Buffered(x)
  BY DEF Buffered, SameBuffer
<1> QED
  BY <1>1, <1>2
     DEF PipeInv, EnderKnown, BufferInv, EofInv, FinInv, HalvesInv, SameBuffer, SameEnd

(* A failing Pipe has its terminal state first, and its buffer still. *)
LEMMA BeginFailMeans ==
    ASSUME NEW x \in PipeType, NEW by \in {"local", "remote", "session", "fins"}
    PROVE  LET y == BeginFail(x, by)
           IN  /\ y \in PipeType
               /\ y.terminal = "failed" /\ y.ender = by
               /\ y.writer = x.writer /\ y.reader = x.reader
               /\ y.remoteFin = x.remoteFin /\ y.localFin = x.localFin /\ SameBuffer(x, y)
BY DEF BeginFail, PipeType, SameBuffer

(* A Pipe fails, and whoever failed it will discard its buffer. *)
LEMMA FailBegins ==
    ASSUME NEW x \in PipeType, NEW y \in PipeType, NEW b, NEW b2, PipeInv(x, b),
           x.terminal = "none", y.terminal = "failed", y.ender # "none",
           y.remoteFin = x.remoteFin, y.localFin = x.localFin, SameBuffer(x, y),
           y.reader = x.reader, x.writer.gone => y.writer.stage = "idle",
           \/ b2 \in {"reject", "discard"} /\ y.writer = x.writer
           \/ /\ b2 = b /\ y.ender = "local"
              /\ y.writer.stage = "discard" /\ ~ y.writer.gone
    PROVE  PipeInv(y, b2)
<1>1. Fails(y, b2) /\ ~ Fails(x, b)
  BY DEF Fails, PipeInv, EnderKnown
<1>2. Buffered(y) = Buffered(x)
  BY DEF Buffered, SameBuffer
<1>3. EnderKnown(y, b2) /\ BufferInv(y, b2)
  BY <1>1, <1>2 DEF PipeInv, EnderKnown, BufferInv, SameBuffer
<1>4. EofInv(y, b2) /\ FinInv(y, b2)
  BY <1>1 DEF PipeInv, EnderKnown, EofInv, FinInv, SameBuffer
<1>5. HalvesInv(y, b2)
  BY <1>1 DEF PipeInv, HalvesInv, SameBuffer
<1> QED BY <1>3, <1>4, <1>5 DEF PipeInv

(* discard_read_buffer empties the buffer and closes it. *)
LEMMA DiscardMeans ==
    ASSUME NEW x \in PipeType
    PROVE  LET y == Discard(x)
           IN  /\ y \in PipeType
               /\ y.chunks = 0 /\ y.current = 0 /\ y.rxClosed
               /\ y.pushed = x.pushed /\ y.taken = x.taken
               /\ y.writer = x.writer /\ y.reader = x.reader /\ SameEnd(x, y)
BY DEF Discard, PipeType, SameEnd

(* The end of a failure: the buffer is discarded and both halves are woken. *)
LEMMA EndFailMeans ==
    ASSUME NEW x \in PipeType
    PROVE  LET y == EndFail(x)
           IN  /\ y \in PipeType
               /\ y.chunks = 0 /\ y.current = 0 /\ y.rxClosed
               /\ y.pushed = x.pushed /\ y.taken = x.taken
               /\ y.writer = Wake(x.writer) /\ y.reader = Wake(x.reader) /\ SameEnd(x, y)
<1> DEFINE z == Discard(x)
<1>1. z \in PipeType
  BY DiscardMeans
<1>2. EndFail(x) = WakeBoth(z)
  BY DEF EndFail
<1>3. /\ z.chunks = 0 /\ z.current = 0 /\ z.rxClosed
      /\ z.pushed = x.pushed /\ z.taken = x.taken
      /\ z.writer = x.writer /\ z.reader = x.reader /\ SameEnd(x, z)
  BY DiscardMeans
<1> HIDE DEF z
<1> QED BY <1>1, <1>2, <1>3, WakeBothMeans DEF SameEnd

(* The buffer of a failed Pipe is discarded and both halves are woken. *)
LEMMA FailEnds ==
    ASSUME NEW x \in PipeType, NEW y \in PipeType, NEW b, NEW b2, PipeInv(x, b),
           x.terminal = "failed", x.reader.stage # "check",
           y.chunks = 0, y.current = 0, y.rxClosed, y.pushed = x.pushed, y.taken = x.taken,
           y.reader = Wake(x.reader), SameEnd(x, y),
           \/ b2 = b
           \/ b2 \in {"reset", "none"},
           \/ y.writer = Wake(x.writer)
           \/ y.writer.stage = "idle"
    PROVE  PipeInv(y, b2)
<1> USE DEF SameEnd
<1>1. /\ y.reader.stage = x.reader.stage /\ y.reader.eof = x.reader.eof
      /\ y.reader.gone = x.reader.gone /\ y.reader.woken = (x.reader.stage # "idle")
  BY HalvesTyped, WakeReaderMeans
<1>2. \/ y.writer.stage = "idle"
      \/ /\ y.writer.stage = x.writer.stage /\ y.writer.woken = (x.writer.stage # "idle")
         /\ y.writer.waiter = x.writer.waiter /\ y.writer.gone = x.writer.gone
  BY HalvesTyped, WakeWriterMeans
<1>3. EnderKnown(y, b2) /\ BufferInv(y, b2)
  BY <1>1 DEF PipeInv, EnderKnown, BufferInv
<1>4. EofInv(y, b2) /\ FinInv(y, b2)
  BY <1>1, <1>2 DEF PipeInv, EnderKnown, EofInv, FinInv
<1>5. HalvesInv(y, b2)
  <2>1. (y.reader.stage = "sleep") => y.reader.woken
    BY <1>1
  <2>2. (y.writer.stage \in {"reserve", "register", "again", "sleep"}) => y.writer.woken
    BY <1>2
  <2>3. y.writer.stage = "again" => y.writer.waiter # "none"
    BY <1>2 DEF PipeInv, HalvesInv
  <2>4. y.writer.gone => y.writer.stage = "idle"
    BY <1>2 DEF PipeInv, HalvesInv
  <2> QED BY <2>1, <2>2, <2>3, <2>4 DEF HalvesInv
<1> QED BY <1>3, <1>4, <1>5 DEF PipeInv

(* The reader is dropped with its buffer. *)
LEMMA ReaderDropped ==
    ASSUME NEW x \in PipeType, NEW y \in PipeType, NEW b, PipeInv(x, b),
           y.chunks = 0, y.current = 0, y.rxClosed, y.pushed = x.pushed, y.taken = x.taken,
           y.reader.gone, y.reader.stage = "idle", y.reader.eof = x.reader.eof,
           y.writer = x.writer, SameEnd(x, y)
    PROVE  PipeInv(y, b)
<1>1. Fails(x, b) <=> Fails(y, b)
  BY DEF Fails
<1> QED
  BY <1>1 DEF PipeInv, EnderKnown, BufferInv, EofInv, FinInv, HalvesInv, SameEnd

(* The session moves on from stage b to stage b2, the Pipe unchanged. *)
LEMMA SessionMoves ==
    ASSUME NEW x \in PipeType, NEW b, NEW b2, PipeInv(x, b),
           {b, b2} \cap {"discard", "reject"} = {},
           b2 = "push" => ~ x.remoteFin /\ x.terminal = "none", b2 = "fin" => b = "fin",
           b = "fin" => b2 = "fin" \/ (x.localFin => x.terminal # "none")
    PROVE  PipeInv(x, b2)
<1>1. Fails(x, b) <=> Fails(x, b2)
  BY DEF Fails
<1> QED
  BY <1>1 DEF PipeInv, EnderKnown, BufferInv, EofInv, FinInv, HalvesInv

(* remote_fin stores the flag and wakes the reader. *)
LEMMA FinArrives ==
    ASSUME NEW x \in PipeType, NEW y \in PipeType, PipeInv(x, "none"),
           SameBuffer(x, y), y.terminal = x.terminal, y.ender = x.ender,
           y.localFin = x.localFin, y.remoteFin, y.writer = x.writer, y.reader = Wake(x.reader)
    PROVE  PipeInv(y, "fin")
<1>1. /\ y.reader.stage = x.reader.stage /\ y.reader.eof = x.reader.eof
      /\ y.reader.gone = x.reader.gone /\ y.reader.woken = (x.reader.stage # "idle")
  BY HalvesTyped, WakeReaderMeans
<1>2. Fails(x, "none") <=> Fails(y, "fin")
  BY DEF Fails
<1>3. Buffered(y) = Buffered(x)
  BY DEF Buffered, SameBuffer
<1>4. EnderKnown(y, "fin") /\ BufferInv(y, "fin") /\ EofInv(y, "fin") /\ FinInv(y, "fin")
  BY <1>1, <1>2, <1>3 DEF PipeInv, EnderKnown, BufferInv, EofInv, FinInv, SameBuffer
<1>5. HalvesInv(y, "fin")
  BY <1>1, <1>2 DEF PipeInv, HalvesInv, SameBuffer
<1> QED BY <1>4, <1>5 DEF PipeInv

(* push_data buffers a chunk and wakes the reader. *)
LEMMA ChunkPushed ==
    ASSUME NEW x \in PipeType, NEW y \in PipeType, PipeInv(x, "push"),
           ~ x.rxClosed, y.rxClosed = x.rxClosed, y.chunks = x.chunks + 1, y.current = x.current,
           y.pushed = x.pushed + ChunkBytes, y.taken = x.taken, SameEnd(x, y),
           y.writer = x.writer, y.reader = Wake(x.reader)
    PROVE  PipeInv(y, "none")
<1> USE DEF SameEnd
<1>1. /\ y.reader.stage = x.reader.stage /\ y.reader.eof = x.reader.eof
      /\ y.reader.gone = x.reader.gone /\ y.reader.woken = (x.reader.stage # "idle")
  BY HalvesTyped, WakeReaderMeans
<1>2. Fails(x, "push") <=> Fails(y, "none")
  BY DEF Fails
<1>3. y.pushed = y.taken + Buffered(y)
  <2>1. x.pushed = x.taken + Buffered(x)
    BY DEF PipeInv, BufferInv
  <2>2. x.chunks \in Nat /\ x.current \in Nat /\ x.pushed \in Nat /\ x.taken \in Nat
    BY DEF PipeType
  <2>3. ChunkBytes \in Nat
    BY ConstantsMean
  <2>4. y.chunks * ChunkBytes = x.chunks * ChunkBytes + ChunkBytes
    BY <2>2, <2>3, ChunkAdded
  <2>5. x.chunks * ChunkBytes \in Nat
    BY <2>2, <2>3
  <2> QED BY <2>1, <2>2, <2>3, <2>4, <2>5 DEF Buffered
<1>4. EnderKnown(y, "none") /\ BufferInv(y, "none")
  BY <1>1, <1>2, <1>3 DEF PipeInv, EnderKnown, BufferInv
<1>5. FinInv(y, "none") /\ HalvesInv(y, "none")
  BY <1>1, <1>2 DEF PipeInv, FinInv, HalvesInv
<1>6. EofInv(y, "none")
  BY <1>1 DEF PipeInv, EofInv
<1> QED BY <1>4, <1>5, <1>6 DEF PipeInv

-----------------------------------------------------------------------------
(***************************************************************************)
(* Lemmas about queues.                                                    *)
(***************************************************************************)

(* What Append does, index by index. *)
LEMMA AppendMeans ==
    ASSUME NEW S, NEW s \in Seq(S), NEW e \in S
    PROVE  /\ Append(s, e) \in Seq(S)
           /\ Len(Append(s, e)) = Len(s) + 1
           /\ DOMAIN s = 1 .. Len(s) /\ DOMAIN Append(s, e) = 1 .. Len(s) + 1
           /\ Len(s) \in Nat
           /\ \A i \in DOMAIN s : i \in DOMAIN Append(s, e) /\ Append(s, e)[i] = s[i]
           /\ Append(s, e)[Len(s) + 1] = e
           /\ \A i \in DOMAIN Append(s, e) : i \in DOMAIN s \/ i = Len(s) + 1
OBVIOUS

(* What Tail does, index by index. *)
LEMMA TailMeans ==
    ASSUME NEW S, NEW s \in Seq(S), s # <<>>
    PROVE  /\ Tail(s) \in Seq(S)
           /\ Len(Tail(s)) = Len(s) - 1 /\ Len(s) \in Nat /\ Len(s) > 0
           /\ DOMAIN s = 1 .. Len(s) /\ DOMAIN Tail(s) = 1 .. Len(s) - 1
           /\ 1 \in DOMAIN s /\ Head(s) = s[1] /\ Head(s) \in S
           /\ \A i \in DOMAIN Tail(s) : i + 1 \in DOMAIN s /\ Tail(s)[i] = s[i + 1]
           /\ \A i \in DOMAIN s : i = 1 \/ (i - 1 \in DOMAIN Tail(s) /\ Tail(s)[i - 1] = s[i])
OBVIOUS

(* The empty queue. *)
LEMMA EmptyMeans ==
    ASSUME NEW S
    PROVE  <<>> \in Seq(S) /\ DOMAIN <<>> = {} /\ Len(<<>>) = 0
OBVIOUS

(* The elements of a sequence. *)
LEMMA ElementsTyped ==
    ASSUME NEW S, NEW s \in Seq(S)
    PROVE  DOMAIN s = 1 .. Len(s) /\ Len(s) \in Nat /\ \A i \in DOMAIN s : s[i] \in S
OBVIOUS

(* The items of the lane. *)
LEMMA ItemsTyped ==
    ASSUME TypeOK
    PROVE  /\ DOMAIN lane = 1 .. Len(lane) /\ Len(lane) \in Nat
           /\ \A i \in DOMAIN lane :
                 /\ lane[i] \in ItemType /\ lane[i].pipe \in Pipes /\ lane[i].n \in Nat
                 /\ lane[i].kind \in FrameKinds \union {"FLUSH"}
<1>1. \A i \in DOMAIN lane : lane[i] \in ItemType
  BY ElementsTyped DEF TypeOK
<1> QED BY <1>1, ElementsTyped DEF TypeOK, ItemType

(* The fields of a Pipe that the lane's invariants count with. *)
LEMMA PipesTyped ==
    ASSUME TypeOK, NEW p \in Pipes
    PROVE  /\ pipe[p] \in PipeType
           /\ pipe[p].writer \in WriterType /\ pipe[p].reader \in ReaderType
           /\ pipe[p].writer.written \in Nat /\ pipe[p].writer.confirmed \in Nat
BY DEF TypeOK, PipeType, WriterType

-----------------------------------------------------------------------------
(***************************************************************************)
(* The lane group.                                                         *)
(***************************************************************************)

(* A writer's frames and its marker are where they were. *)
LaneCalm(w, v) ==
    /\ v.written = w.written
    /\ v.flushing = "pending" => w.flushing = "pending"
    /\ (v.flushing = "ok" \/ ~ v.dirty) => (w.flushing = "ok" \/ ~ w.dirty)
    /\ \/ v.confirmed = w.confirmed
       \/ v.confirmed = w.written /\ (w.flushing = "ok" \/ ~ w.dirty)

(* The lane's invariants survive a step that leaves the lane alone and asks
   nothing more of it. *)
LEMMA LaneCalmKeeps ==
    ASSUME TypeOK, LaneInv, lane' = lane, laneOpen' = laneOpen,
           ~ laneOpen => task'.stage = "cleanup",
           \A p \in Pipes : \A n \in Nat : OnWire(p, n) => OnWire(p, n)',
           \A p \in Pipes : LaneCalm(pipe[p].writer, pipe'[p].writer)
    PROVE  LaneInv'
<1>1. ClosedLane'
  BY DEF LaneInv, ClosedLane, LaneCalm
<1>2. Numbered' /\ MarkersBehind'
  <2>1. \A i \in DOMAIN lane : lane[i].pipe \in Pipes
    BY ItemsTyped
  <2> QED BY <2>1 DEF LaneInv, Numbered, MarkersBehind, LaneCalm
<1>3. ASSUME NEW p \in Pipes
      PROVE  FlushInv(p)'
  <2> DEFINE w == pipe[p].writer
             v == pipe'[p].writer
  <2>1. FlushInv(p) /\ LaneCalm(w, v) /\ w.written \in Nat /\ w.confirmed \in Nat
    BY PipesTyped DEF LaneInv
  <2>2. v.flushing = "pending" => \E i \in DOMAIN lane : lane[i] = Item("FLUSH", p, v.written)
    BY <2>1 DEF FlushInv, LaneCalm
  <2>3. laneOpen => \A n \in 1 .. v.written : OnWire(p, n)' \/ Queued(p, n)'
    BY <2>1 DEF FlushInv, LaneCalm, Queued
  <2>4. (v.flushing = "ok" \/ ~ v.dirty) => \A n \in 1 .. v.written : OnWire(p, n)'
    BY <2>1 DEF FlushInv, LaneCalm
  <2>5. \A n \in 1 .. v.confirmed : OnWire(p, n)'
    BY <2>1 DEF FlushInv, LaneCalm
  <2> QED BY <2>2, <2>3, <2>4, <2>5 DEF FlushInv
<1> QED BY <1>1, <1>2, <1>3 DEF LaneInv

(* The lane takes a frame, or the marker, of the writer of Pipe p. *)
LEMMA LaneGrows ==
    ASSUME TypeOK, LaneInv, laneOpen, laneOpen', NEW p \in Pipes, NEW kind, NEW n \in Nat,
           Item(kind, p, n) \in ItemType, lane' = Append(lane, Item(kind, p, n)), wire' = wire,
           \A q \in Pipes \ {p} : pipe'[q] = pipe[q],
           pipe'[p].writer.confirmed = pipe[p].writer.confirmed,
           \/ /\ kind # "FLUSH" /\ n = pipe[p].writer.written + 1
              /\ pipe'[p].writer.written = n /\ pipe'[p].writer.flushing = "none"
              /\ pipe'[p].writer.dirty
           \/ /\ kind = "FLUSH" /\ n = pipe[p].writer.written
              /\ pipe'[p].writer.written = n /\ pipe'[p].writer.flushing = "pending"
              /\ pipe'[p].writer.dirty = pipe[p].writer.dirty
    PROVE  LaneInv'
<1> DEFINE item == Item(kind, p, n)
           L == Len(lane) + 1
           w == pipe[p].writer
           v == pipe'[p].writer
<1>1. item.kind = kind /\ item.pipe = p /\ item.n = n
  BY DEF Item
<1>2. /\ DOMAIN lane = 1 .. Len(lane) /\ DOMAIN lane' = 1 .. L /\ Len(lane) \in Nat
      /\ \A i \in DOMAIN lane : i \in DOMAIN lane' /\ lane'[i] = lane[i]
      /\ lane'[L] = item /\ L \in DOMAIN lane'
      /\ \A i \in DOMAIN lane' : i \in DOMAIN lane \/ i = L
  BY AppendMeans DEF TypeOK
<1>3. w.written \in Nat /\ \A i \in DOMAIN lane : lane[i].pipe \in Pipes /\ lane[i].n \in Nat
  BY ItemsTyped, PipesTyped
<1> HIDE DEF item, L
<1>4. ClosedLane'
  BY DEF ClosedLane
<1>5. Numbered'
  <2> SUFFICES ASSUME NEW i \in DOMAIN lane'
               PROVE  lane'[i].n <= pipe'[lane'[i].pipe].writer.written
    BY DEF Numbered
  <2>1. CASE i = L
    BY <2>1, <1>1, <1>2
  <2>2. CASE i \in DOMAIN lane
    <3>1. lane[i].n <= pipe[lane[i].pipe].writer.written
      BY <2>2 DEF LaneInv, Numbered
    <3>2. CASE lane[i].pipe = p
      BY <3>1, <3>2, <2>2, <1>2, <1>3
    <3>3. CASE lane[i].pipe # p
      BY <3>1, <3>3, <2>2, <1>2, <1>3
    <3> QED BY <3>2, <3>3
  <2> QED BY <2>1, <2>2, <1>2
<1>6. MarkersBehind'
  <2> SUFFICES ASSUME NEW i \in DOMAIN lane', NEW j \in DOMAIN lane',
                      lane'[i].kind = "FLUSH", lane'[j].kind # "FLUSH",
                      lane'[i].pipe = lane'[j].pipe, lane'[j].n <= lane'[i].n
               PROVE  j < i
    BY DEF MarkersBehind
  <2>1. CASE i \in DOMAIN lane /\ j \in DOMAIN lane
    BY <2>1, <1>2 DEF LaneInv, MarkersBehind
  <2>2. CASE i = L /\ j \in DOMAIN lane
    BY <2>2, <1>2 DEF L
  <2>3. CASE i \in DOMAIN lane /\ j = L
    <3>1. lane[i].n <= pipe[lane[i].pipe].writer.written
      BY <2>3 DEF LaneInv, Numbered
    <3>2. lane'[j].pipe = p /\ lane'[j].n = w.written + 1
      BY <2>3, <1>1, <1>2
    <3> QED BY <3>1, <3>2, <2>3, <1>2, <1>3
  <2>4. CASE i = L /\ j = L
    BY <2>4
  <2> QED BY <2>1, <2>2, <2>3, <2>4, <1>2
<1>7. \A q \in Pipes, m \in Nat : OnWire(q, m)' <=> OnWire(q, m)
  BY DEF OnWire
<1>8. \A q \in Pipes, m \in Nat : Queued(q, m) => Queued(q, m)'
  BY <1>2 DEF Queued
<1>9. ASSUME NEW q \in Pipes
      PROVE  FlushInv(q)'
  <2>1. FlushInv(q)
    BY DEF LaneInv
  <2>2. pipe[q].writer.written \in Nat /\ pipe[q].writer.confirmed \in Nat
    BY PipesTyped
  <2>3. pipe'[q].writer.confirmed = pipe[q].writer.confirmed
    OBVIOUS
  <2>4. \A m \in 1 .. pipe'[q].writer.confirmed : OnWire(q, m)'
    BY <2>1, <2>2, <2>3, <1>7 DEF FlushInv
  <2>5. CASE q # p
    <3>1. pipe'[q].writer = pipe[q].writer
      BY <2>5
    <3>2. pipe'[q].writer.flushing = "pending" =>
              \E i \in DOMAIN lane' : lane'[i] = Item("FLUSH", q, pipe'[q].writer.written)
      BY <2>1, <3>1, <1>2 DEF FlushInv
    <3>3. \A m \in 1 .. pipe'[q].writer.written : OnWire(q, m)' \/ Queued(q, m)'
      BY <2>1, <2>2, <3>1, <1>7, <1>8 DEF FlushInv
    <3>4. (pipe'[q].writer.flushing = "ok" \/ ~ pipe'[q].writer.dirty) =>
              \A m \in 1 .. pipe'[q].writer.written : OnWire(q, m)'
      BY <2>1, <2>2, <3>1, <1>7 DEF FlushInv
    <3> QED BY <2>4, <3>2, <3>3, <3>4 DEF FlushInv
  <2>6. CASE q = p /\ kind = "FLUSH"
    <3>1. lane'[L] = Item("FLUSH", p, v.written)
      BY <2>6, <1>2 DEF item
    <3>2. v.flushing = "pending" /\ v.written = w.written /\ v.dirty = w.dirty
      BY <2>6
    <3>3. \A m \in 1 .. v.written : OnWire(p, m)' \/ Queued(p, m)'
      BY <2>1, <2>2, <2>6, <3>2, <1>7, <1>8 DEF FlushInv
    <3>4. ~ v.dirty => \A m \in 1 .. v.written : OnWire(p, m)'
      BY <2>1, <2>2, <2>6, <3>2, <1>7 DEF FlushInv
    <3> QED BY <2>4, <2>6, <3>1, <3>2, <3>3, <3>4, <1>2 DEF FlushInv
  <2>7. CASE q = p /\ kind # "FLUSH"
    <3>1. Queued(p, n)'
      BY <2>7, <1>1, <1>2 DEF Queued
    <3>2. v.written = n /\ v.flushing = "none" /\ v.dirty /\ n = w.written + 1
      BY <2>7
    <3>3. \A m \in 1 .. n : m \in 1 .. w.written \/ m = n
      BY <1>3, <3>2
    <3>4. \A m \in 1 .. w.written : OnWire(p, m)' \/ Queued(p, m)'
      BY <2>1, <2>2, <2>7, <1>7, <1>8 DEF FlushInv
    <3> QED BY <2>4, <2>7, <3>1, <3>2, <3>3, <3>4 DEF FlushInv
  <2> QED BY <2>5, <2>6, <2>7
<1> QED BY <1>4, <1>5, <1>6, <1>9 DEF LaneInv

(* A lane with an item in it is open. *)
LEMMA LaneIsOpen ==
    ASSUME LaneInv, lane # <<>>, TypeOK
    PROVE  laneOpen
BY DEF LaneInv, ClosedLane

(* The frame at the head of the lane goes to the wire. *)
LEMMA LaneSends ==
    ASSUME TypeOK, LaneInv, lane # <<>>, Head(lane).kind # "FLUSH", lane' = Tail(lane),
           laneOpen' = laneOpen, NEW p, p = Head(lane).pipe, NEW n, n = Head(lane).n,
           NEW f \in FrameType, f.n = n, f.kind # "DROPPED", wire' = [wire EXCEPT ![p] = Append(@, f)],
           \A q \in Pipes : LaneCalm(pipe[q].writer, pipe'[q].writer)
    PROVE  LaneInv'
<1>1. /\ DOMAIN lane = 1 .. Len(lane) /\ Len(lane) \in Nat
      /\ 1 \in DOMAIN lane /\ Head(lane) = lane[1]
      /\ \A i \in DOMAIN lane' : i + 1 \in DOMAIN lane /\ lane'[i] = lane[i + 1] /\ i \in Int
      /\ \A i \in DOMAIN lane : i = 1 \/ (i - 1 \in DOMAIN lane' /\ lane'[i - 1] = lane[i])
  <2> lane \in Seq(ItemType)
    BY DEF TypeOK
  <2> QED BY TailMeans
<1>2. laneOpen
  BY LaneIsOpen
<1>3. ClosedLane'
  BY <1>2 DEF ClosedLane
<1>4. \A i \in DOMAIN lane : lane[i].pipe \in Pipes /\ lane[i].n \in Nat
  BY ItemsTyped
<1>5. Numbered'
  <2> SUFFICES ASSUME NEW i \in DOMAIN lane'
               PROVE  lane'[i].n <= pipe'[lane'[i].pipe].writer.written
    BY DEF Numbered
  <2>1. i + 1 \in DOMAIN lane /\ lane'[i] = lane[i + 1]
    BY <1>1
  <2> QED BY <2>1, <1>4 DEF LaneInv, Numbered, LaneCalm
<1>6. MarkersBehind'
  <2> SUFFICES ASSUME NEW i \in DOMAIN lane', NEW j \in DOMAIN lane',
                      lane'[i].kind = "FLUSH", lane'[j].kind # "FLUSH",
                      lane'[i].pipe = lane'[j].pipe, lane'[j].n <= lane'[i].n
               PROVE  j < i
    BY DEF MarkersBehind
  <2>1. /\ i + 1 \in DOMAIN lane /\ lane'[i] = lane[i + 1] /\ i \in Int
        /\ j + 1 \in DOMAIN lane /\ lane'[j] = lane[j + 1] /\ j \in Int
    BY <1>1
  <2>2. j + 1 < i + 1
    BY <2>1 DEF LaneInv, MarkersBehind
  <2> QED BY <2>1, <2>2
<1>7. p \in Pipes /\ n \in Nat
  BY <1>1, <1>4
<1>8. /\ \A i \in DOMAIN wire[p] : i \in DOMAIN wire'[p] /\ wire'[p][i] = wire[p][i]
      /\ \E i \in DOMAIN wire'[p] : wire'[p][i] = f
      /\ \A q \in Pipes \ {p} : wire'[q] = wire[q]
  <2>1. wire[p] \in Seq(FrameType) /\ wire'[p] = Append(wire[p], f)
    BY <1>7 DEF TypeOK
  <2>2. \A q \in Pipes \ {p} : wire'[q] = wire[q]
    BY <1>7 DEF TypeOK
  <2>3. Len(wire[p]) + 1 \in DOMAIN wire'[p] /\ wire'[p][Len(wire[p]) + 1] = f
    BY <2>1, AppendMeans
  <2>4. \A i \in DOMAIN wire[p] : i \in DOMAIN wire'[p] /\ wire'[p][i] = wire[p][i]
    BY <2>1, AppendMeans
  <2> QED BY <2>2, <2>3, <2>4
<1>9. \A q \in Pipes, m \in Nat : OnWire(q, m) => OnWire(q, m)'
  BY <1>8 DEF OnWire
<1>10. OnWire(p, n)'
  BY <1>7, <1>8 DEF OnWire
<1>11. \A q \in Pipes, m \in Nat : Queued(q, m) => Queued(q, m)' \/ OnWire(q, m)'
  <2> SUFFICES ASSUME NEW q \in Pipes, NEW m \in Nat, Queued(q, m)
               PROVE  Queued(q, m)' \/ OnWire(q, m)'
    OBVIOUS
  <2>1. PICK i \in DOMAIN lane : lane[i].pipe = q /\ lane[i].kind # "FLUSH" /\ lane[i].n = m
    BY DEF Queued
  <2>2. CASE i = 1
    BY <2>1, <2>2, <1>1, <1>10
  <2>3. CASE i # 1
    <3>1. i - 1 \in DOMAIN lane' /\ lane'[i - 1] = lane[i]
      BY <2>3, <1>1
    <3> QED BY <2>1, <3>1 DEF Queued
  <2> QED BY <2>2, <2>3
<1>12. ASSUME NEW q \in Pipes
       PROVE  FlushInv(q)'
  <2> DEFINE w == pipe[q].writer
             v == pipe'[q].writer
  <2>1. FlushInv(q) /\ LaneCalm(w, v) /\ w.written \in Nat /\ w.confirmed \in Nat
    BY PipesTyped DEF LaneInv
  <2>2. v.flushing = "pending" => \E i \in DOMAIN lane' : lane'[i] = Item("FLUSH", q, v.written)
    <3>1. SUFFICES ASSUME v.flushing = "pending"
                   PROVE  \E i \in DOMAIN lane' : lane'[i] = Item("FLUSH", q, v.written)
      OBVIOUS
    <3>2. PICK i \in DOMAIN lane : lane[i] = Item("FLUSH", q, w.written)
      BY <2>1, <3>1 DEF FlushInv, LaneCalm
    <3>3. i # 1
      BY <3>2, <1>1 DEF Item
    <3> QED BY <3>2, <3>3, <2>1, <1>1 DEF LaneCalm
  <2>3. \A m \in 1 .. v.written : OnWire(q, m)' \/ Queued(q, m)'
    BY <2>1, <1>2, <1>9, <1>11 DEF FlushInv, LaneCalm
  <2>4. (v.flushing = "ok" \/ ~ v.dirty) => \A m \in 1 .. v.written : OnWire(q, m)'
    BY <2>1, <1>9 DEF FlushInv, LaneCalm
  <2>5. \A m \in 1 .. v.confirmed : OnWire(q, m)'
    BY <2>1, <1>9 DEF FlushInv, LaneCalm
  <2> QED BY <2>2, <2>3, <2>4, <2>5 DEF FlushInv
<1> QED BY <1>3, <1>5, <1>6, <1>12 DEF LaneInv

(* The marker at the head of the lane is answered, or its writer is gone. *)
LEMMA LaneAnswers ==
    ASSUME TypeOK, LaneInv, lane # <<>>, Head(lane).kind = "FLUSH", lane' = Tail(lane),
           laneOpen' = laneOpen, wire' = wire, NEW p, p = Head(lane).pipe,
           \A q \in Pipes \ {p} : LaneCalm(pipe[q].writer, pipe'[q].writer),
           pipe'[p].writer.written = pipe[p].writer.written,
           pipe'[p].writer.dirty = pipe[p].writer.dirty,
           pipe'[p].writer.confirmed = pipe[p].writer.confirmed,
           LET current == pipe[p].writer.flushing = "pending"
                              /\ Head(lane).n = pipe[p].writer.written
           IN  pipe'[p].writer.flushing = IF current THEN "ok" ELSE pipe[p].writer.flushing
    PROVE  LaneInv'
<1>1. /\ DOMAIN lane = 1 .. Len(lane) /\ Len(lane) \in Nat
      /\ 1 \in DOMAIN lane /\ Head(lane) = lane[1]
      /\ \A i \in DOMAIN lane' : i + 1 \in DOMAIN lane /\ lane'[i] = lane[i + 1] /\ i \in Int
      /\ \A i \in DOMAIN lane : i = 1 \/ (i - 1 \in DOMAIN lane' /\ lane'[i - 1] = lane[i])
  <2> lane \in Seq(ItemType)
    BY DEF TypeOK
  <2> QED BY TailMeans
<1>2. laneOpen
  BY LaneIsOpen
<1>3. ClosedLane'
  BY <1>2 DEF ClosedLane
<1>4. \A i \in DOMAIN lane : lane[i].pipe \in Pipes /\ lane[i].n \in Nat
  BY ItemsTyped
<1>5. Numbered'
  <2> SUFFICES ASSUME NEW i \in DOMAIN lane'
               PROVE  lane'[i].n <= pipe'[lane'[i].pipe].writer.written
    BY DEF Numbered
  <2>1. i + 1 \in DOMAIN lane /\ lane'[i] = lane[i + 1]
    BY <1>1
  <2>2. lane[i + 1].n <= pipe[lane[i + 1].pipe].writer.written
    BY <2>1 DEF LaneInv, Numbered
  <2> QED BY <2>1, <2>2, <1>4 DEF LaneCalm
<1>6. MarkersBehind'
  <2> SUFFICES ASSUME NEW i \in DOMAIN lane', NEW j \in DOMAIN lane',
                      lane'[i].kind = "FLUSH", lane'[j].kind # "FLUSH",
                      lane'[i].pipe = lane'[j].pipe, lane'[j].n <= lane'[i].n
               PROVE  j < i
    BY DEF MarkersBehind
  <2>1. /\ i + 1 \in DOMAIN lane /\ lane'[i] = lane[i + 1] /\ i \in Int
        /\ j + 1 \in DOMAIN lane /\ lane'[j] = lane[j + 1] /\ j \in Int
    BY <1>1
  <2>2. j + 1 < i + 1
    BY <2>1 DEF LaneInv, MarkersBehind
  <2> QED BY <2>1, <2>2
<1>7. p \in Pipes
  BY <1>1, <1>4
<1>8. \A q \in Pipes, m \in Nat : OnWire(q, m)' <=> OnWire(q, m)
  BY DEF OnWire
<1>9. \A q \in Pipes, m \in Nat : Queued(q, m) => Queued(q, m)'
  <2> SUFFICES ASSUME NEW q \in Pipes, NEW m \in Nat, Queued(q, m)
               PROVE  Queued(q, m)'
    OBVIOUS
  <2>1. PICK i \in DOMAIN lane : lane[i].pipe = q /\ lane[i].kind # "FLUSH" /\ lane[i].n = m
    BY DEF Queued
  <2>2. i # 1
    BY <2>1, <1>1
  <2>3. i - 1 \in DOMAIN lane' /\ lane'[i - 1] = lane[i]
    BY <2>2, <1>1
  <2> QED BY <2>1, <2>3 DEF Queued
<1>10. ASSUME NEW q \in Pipes, q # p
       PROVE  FlushInv(q)'
  <2> DEFINE w == pipe[q].writer
             v == pipe'[q].writer
  <2>1. FlushInv(q) /\ LaneCalm(w, v) /\ w.written \in Nat /\ w.confirmed \in Nat
    BY <1>10, PipesTyped DEF LaneInv
  <2>2. v.flushing = "pending" => \E i \in DOMAIN lane' : lane'[i] = Item("FLUSH", q, v.written)
    <3>1. SUFFICES ASSUME v.flushing = "pending"
                   PROVE  \E i \in DOMAIN lane' : lane'[i] = Item("FLUSH", q, v.written)
      OBVIOUS
    <3>2. PICK i \in DOMAIN lane : lane[i] = Item("FLUSH", q, w.written)
      BY <2>1, <3>1 DEF FlushInv, LaneCalm
    <3>3. i # 1
      BY <3>2, <1>1, <1>10 DEF Item
    <3> QED BY <3>2, <3>3, <2>1, <1>1 DEF LaneCalm
  <2>3. \A m \in 1 .. v.written : OnWire(q, m)' \/ Queued(q, m)'
    BY <2>1, <1>2, <1>8, <1>9 DEF FlushInv, LaneCalm
  <2>4. (v.flushing = "ok" \/ ~ v.dirty) => \A m \in 1 .. v.written : OnWire(q, m)'
    BY <2>1, <1>8 DEF FlushInv, LaneCalm
  <2>5. \A m \in 1 .. v.confirmed : OnWire(q, m)'
    BY <2>1, <1>8 DEF FlushInv, LaneCalm
  <2> QED BY <2>2, <2>3, <2>4, <2>5 DEF FlushInv
<1>11. FlushInv(p)'
  <2> DEFINE w == pipe[p].writer
             v == pipe'[p].writer
             current == w.flushing = "pending" /\ Head(lane).n = w.written
  <2>1. FlushInv(p) /\ w.written \in Nat /\ w.confirmed \in Nat
    BY <1>7, PipesTyped DEF LaneInv
  <2>2. v.flushing = "pending" => \E i \in DOMAIN lane' : lane'[i] = Item("FLUSH", p, v.written)
    <3>1. SUFFICES ASSUME v.flushing = "pending"
                   PROVE  \E i \in DOMAIN lane' : lane'[i] = Item("FLUSH", p, v.written)
      OBVIOUS
    <3>2. w.flushing = "pending" /\ Head(lane).n # w.written
      BY <3>1
    <3>3. PICK i \in DOMAIN lane : lane[i] = Item("FLUSH", p, w.written)
      BY <2>1, <3>2 DEF FlushInv
    <3>4. i # 1
      BY <3>2, <3>3, <1>1 DEF Item
    <3> QED BY <3>3, <3>4, <1>1
  <2>3. \A m \in 1 .. w.written : OnWire(p, m)' \/ Queued(p, m)'
    BY <2>1, <1>2, <1>7, <1>8, <1>9 DEF FlushInv
  <2>4. ASSUME current
        PROVE  \A m \in 1 .. w.written : OnWire(p, m)'
    <3> SUFFICES ASSUME NEW m \in 1 .. w.written, Queued(p, m)
                 PROVE  FALSE
      BY <2>1, <1>2, <1>7, <1>8 DEF FlushInv
    <3>1. PICK j \in DOMAIN lane : lane[j].pipe = p /\ lane[j].kind # "FLUSH" /\ lane[j].n = m
      BY DEF Queued
    <3>2. j < 1
      BY <2>1, <2>4, <3>1, <1>1 DEF LaneInv, MarkersBehind
    <3> QED BY <3>2, <1>1
  <2>5. (v.flushing = "ok" \/ ~ v.dirty) => \A m \in 1 .. w.written : OnWire(p, m)'
    <3>1. CASE current
      BY <2>4, <3>1
    <3>2. CASE ~ current
      BY <2>1, <3>2, <1>7, <1>8 DEF FlushInv
    <3> QED BY <3>1, <3>2
  <2>6. \A m \in 1 .. w.confirmed : OnWire(p, m)'
    BY <2>1, <1>7, <1>8 DEF FlushInv
  <2> QED BY <2>2, <2>3, <2>5, <2>6 DEF FlushInv
<1> QED BY <1>3, <1>5, <1>6, <1>10, <1>11 DEF LaneInv

(* The lane is failed: no marker waits any more. *)
LEMMA LaneFails ==
    ASSUME TypeOK, LaneInv, lane' = <<>>, ~ laneOpen', task'.stage = "cleanup", wire' = wire,
           \A q \in Pipes : /\ LaneCalm(pipe[q].writer, pipe'[q].writer)
                            /\ pipe'[q].writer.flushing # "pending"
    PROVE  LaneInv'
<1>1. DOMAIN lane' = {}
  BY EmptyMeans
<1>2. ClosedLane' /\ Numbered' /\ MarkersBehind'
  BY <1>1 DEF ClosedLane, Numbered, MarkersBehind
<1>3. ASSUME NEW q \in Pipes
      PROVE  FlushInv(q)'
  <2> DEFINE w == pipe[q].writer
             v == pipe'[q].writer
  <2>1. FlushInv(q) /\ LaneCalm(w, v) /\ w.written \in Nat /\ w.confirmed \in Nat
    BY PipesTyped DEF LaneInv
  <2>2. \A m \in Nat : OnWire(q, m)' <=> OnWire(q, m)
    BY DEF OnWire
  <2>3. (v.flushing = "ok" \/ ~ v.dirty) => \A m \in 1 .. v.written : OnWire(q, m)'
    BY <2>1, <2>2 DEF FlushInv, LaneCalm
  <2>4. \A m \in 1 .. v.confirmed : OnWire(q, m)'
    BY <2>1, <2>2 DEF FlushInv, LaneCalm
  <2> QED BY <2>3, <2>4 DEF FlushInv
<1> QED BY <1>2, <1>3 DEF LaneInv

-----------------------------------------------------------------------------
(***************************************************************************)
(* The CLOSE group.                                                        *)
(***************************************************************************)

(* A Pipe stays ended, and one that ended does not begin to reset. *)
CloseCalm(x, y) ==
    /\ x.terminal # "none" => y.terminal # "none"
    /\ y.writer.stage = "discard" => x.writer.stage = "discard" \/ x.terminal = "none"
    /\ x.writer.gone => y.writer.gone

(* The frame f of Pipe p is on the wire. *)
IsSent(p, f) == \E k \in DOMAIN wire[p] : wire[p][k] = f

(* The invariant after the CLOSE, for frames instead of their places. *)
LEMMA AfterCloseMeans ==
    ASSUME NEW p \in Pipes
    PROVE  /\ AfterClose(p) <=> \A f : IsSent(p, f) => Settled(p, f)
           /\ ClosedOnWire(p) <=> \E f : IsSent(p, f) /\ f.kind \in {"CLOSE", "DROPPED"}
           /\ AfterClose(p)' <=> \A f : IsSent(p, f)' => Settled(p, f)'
<1>1. AfterClose(p) <=> \A f : IsSent(p, f) => Settled(p, f)
  BY DEF AfterClose, IsSent
<1>2. ClosedOnWire(p) <=> \E f : IsSent(p, f) /\ f.kind \in {"CLOSE", "DROPPED"}
  BY DEF ClosedOnWire, IsSent
<1>3. ASSUME AfterClose(p)', NEW f, IsSent(p, f)'
      PROVE  Settled(p, f)'
  BY <1>3 DEF AfterClose, IsSent
<1>4. ASSUME \A f : IsSent(p, f)' => Settled(p, f)'
      PROVE  AfterClose(p)'
  <2> SUFFICES ASSUME NEW k \in (DOMAIN wire[p])'
               PROVE  Settled(p, wire[p][k])'
    BY DEF AfterClose
  <2>1. PICK f : f = wire'[p][k]
    OBVIOUS
  <2>2. IsSent(p, f)'
    BY <2>1 DEF IsSent
  <2>3. Settled(p, f)'
    BY <2>2, <1>4
  <2> QED BY <2>1, <2>3 DEF Settled, MayFollow
<1> QED BY <1>1, <1>2, <1>3, <1>4

(* The CLOSE invariants survive a step that takes d items off the lane and
   adds none. *)
LEMMA CloseCore ==
    ASSUME TypeOK, CloseInv, NEW d \in Nat,
           \A i \in DOMAIN lane' : i \in Int /\ i + d \in DOMAIN lane /\ lane'[i] = lane[i + d],
           entries' \subseteq entries,
           \A q \in Pipes : CloseCalm(pipe[q], pipe'[q]),
           \A q \in Pipes : Doing(task', q) \in Resetting =>
                                Doing(task, q) \in Resetting \/ q \in entries,
           \A i \in DOMAIN abandoned' :
               \/ \E j \in DOMAIN abandoned : abandoned[j] = abandoned'[i]
               \/ \E q \in Pipes : q = abandoned'[i] /\ Dropped(q)',
           NothingAfterClose',
           \A q \in Pipes : \A f : IsSent(q, f)' => IsSent(q, f) \/ Settled(q, f)'
    PROVE  CloseInv'
<1>1. \A i \in DOMAIN lane : lane[i].pipe \in Pipes
  BY ItemsTyped
<1>2. CloseIsLast'
  <2> SUFFICES ASSUME NEW i \in DOMAIN lane'
               PROVE  /\ lane'[i].kind \in {"CLOSE", "RESET"} => pipe'[lane'[i].pipe].terminal # "none"
                      /\ lane'[i].kind = "CLOSE" =>
                            /\ pipe'[lane'[i].pipe].writer.stage # "discard"
                            /\ \A j \in DOMAIN lane' :
                                  (j > i /\ lane'[j].pipe = lane'[i].pipe) => lane'[j].kind = "FLUSH"
    BY DEF CloseIsLast
  <2>1. i \in Int /\ i + d \in DOMAIN lane /\ lane'[i] = lane[i + d]
    OBVIOUS
  <2>2. /\ lane[i + d].kind \in {"CLOSE", "RESET"} => pipe[lane[i + d].pipe].terminal # "none"
        /\ lane[i + d].kind = "CLOSE" =>
              /\ pipe[lane[i + d].pipe].writer.stage # "discard"
              /\ \A j \in DOMAIN lane :
                    (j > i + d /\ lane[j].pipe = lane[i + d].pipe) => lane[j].kind = "FLUSH"
    BY <2>1 DEF CloseInv, CloseIsLast
  <2>3. lane'[i].kind \in {"CLOSE", "RESET"} => pipe'[lane'[i].pipe].terminal # "none"
    BY <2>1, <2>2, <1>1 DEF CloseCalm
  <2>4. ASSUME lane'[i].kind = "CLOSE"
        PROVE  pipe'[lane'[i].pipe].writer.stage # "discard"
    BY <2>1, <2>2, <2>4, <1>1 DEF CloseCalm
  <2>5. ASSUME lane'[i].kind = "CLOSE", NEW j \in DOMAIN lane', j > i, lane'[j].pipe = lane'[i].pipe
        PROVE  lane'[j].kind = "FLUSH"
    <3>1. j \in Int /\ j + d \in DOMAIN lane /\ lane'[j] = lane[j + d]
      OBVIOUS
    <3>2. j + d > i + d
      BY <2>1, <2>5, <3>1
    <3> QED BY <2>1, <2>2, <2>5, <3>1, <3>2
  <2> QED BY <2>3, <2>4, <2>5
<1>3. AbandonedInv'
  <2> SUFFICES ASSUME NEW i \in DOMAIN abandoned', NEW q, q = abandoned'[i]
               PROVE  Dropped(q)'
    BY DEF AbandonedInv, Dropped, InLane
  <2>1. CASE \E j \in DOMAIN abandoned : abandoned[j] = abandoned'[i]
    <3>1. q \in Pipes /\ Dropped(q)
      <4>1. PICK j \in DOMAIN abandoned : abandoned[j] = q
        BY <2>1
      <4>2. abandoned[j] \in Pipes
        BY ElementsTyped DEF TypeOK
      <4>3. Dropped(abandoned[j])
        BY DEF CloseInv, AbandonedInv
      <4> QED BY <4>1, <4>2, <4>3
    <3>2. /\ pipe'[q].writer.gone /\ pipe'[q].terminal # "none"
          /\ pipe'[q].writer.stage # "discard"
      BY <3>1 DEF Dropped, CloseCalm
    <3>3. ~ InLane(q, {"CLOSE", "RESET"})'
      BY <3>1 DEF Dropped, InLane
    <3> QED BY <3>2, <3>3 DEF Dropped
  <2> QED BY <2>1
<1>4. ASSUME NEW p \in Pipes, NEW f, IsSent(p, f)'
      PROVE  Settled(p, f)'
  <2>1. CASE IsSent(p, f)
    <3>1. Settled(p, f)
      BY <2>1, AfterCloseMeans DEF CloseInv
    <3>2. Quiet(p) => Quiet(p)'
      BY DEF Quiet, CloseCalm
    <3>3. ASSUME NEW i \in DOMAIN lane', lane'[i].pipe = p, lane'[i].kind # "FLUSH"
          PROVE  MayFollow(f, lane'[i])
      <4>1. i + d \in DOMAIN lane /\ lane'[i] = lane[i + d]
        OBVIOUS
      <4> QED BY <3>1, <3>3, <4>1 DEF Settled
    <3> QED BY <3>1, <3>2, <3>3 DEF Settled, MayFollow
  <2> QED BY <2>1, <1>4
<1>5. \A p \in Pipes : AfterClose(p)'
  BY <1>4, AfterCloseMeans
<1> QED BY <1>2, <1>3, <1>5 DEF CloseInv

(* Nothing new goes into the lane or onto the wire. *)
LEMMA CloseKeeps ==
    ASSUME TypeOK, CloseInv, wire' = wire, NEW d \in Nat,
           \A i \in DOMAIN lane' : i \in Int /\ i + d \in DOMAIN lane /\ lane'[i] = lane[i + d],
           entries' \subseteq entries,
           \A q \in Pipes : CloseCalm(pipe[q], pipe'[q]),
           \A q \in Pipes : Doing(task', q) \in Resetting =>
                                Doing(task, q) \in Resetting \/ q \in entries,
           \A i \in DOMAIN abandoned' :
               \/ \E j \in DOMAIN abandoned : abandoned[j] = abandoned'[i]
               \/ \E q \in Pipes : q = abandoned'[i] /\ Dropped(q)'
    PROVE  CloseInv'
<1>1. NothingAfterClose'
  BY DEF CloseInv, NothingAfterClose, MayFollow
<1>2. \A q \in Pipes : \A f : IsSent(q, f)' => IsSent(q, f)
  BY DEF IsSent
<1> QED BY <1>1, <1>2, CloseCore

(* A frame of Pipe p that may follow what is on the wire goes there. *)
LEMMA CloseSends ==
    ASSUME TypeOK, CloseInv, NEW p \in Pipes, NEW f \in FrameType,
           wire' = [wire EXCEPT ![p] = Append(@, f)],
           \A k \in DOMAIN wire[p] : MayFollow(wire[p][k], f),
           Settled(p, f)', NEW d \in Nat,
           \A i \in DOMAIN lane' : i \in Int /\ i + d \in DOMAIN lane /\ lane'[i] = lane[i + d],
           entries' \subseteq entries,
           \A q \in Pipes : CloseCalm(pipe[q], pipe'[q]),
           \A q \in Pipes : Doing(task', q) \in Resetting =>
                                Doing(task, q) \in Resetting \/ q \in entries,
           \A i \in DOMAIN abandoned' :
               \E j \in DOMAIN abandoned : abandoned[j] = abandoned'[i]
    PROVE  CloseInv'
<1>1. /\ wire[p] \in Seq(FrameType) /\ wire'[p] = Append(wire[p], f)
      /\ \A q \in Pipes \ {p} : wire'[q] = wire[q]
  BY DEF TypeOK
<1>2. /\ Len(wire'[p]) = Len(wire[p]) + 1 /\ Len(wire[p]) \in Nat
      /\ DOMAIN wire[p] = 1 .. Len(wire[p])
      /\ \A i \in DOMAIN wire'[p] :
            \/ i \in DOMAIN wire[p] /\ wire'[p][i] = wire[p][i]
            \/ i = Len(wire[p]) + 1 /\ wire'[p][i] = f
  BY <1>1, AppendMeans
<1>3. NothingAfterClose'
  <2> SUFFICES ASSUME NEW q \in Pipes, NEW i \in DOMAIN wire'[q], NEW j \in DOMAIN wire'[q], i < j
               PROVE  MayFollow(wire'[q][i], wire'[q][j])
    BY DEF NothingAfterClose, MayFollow
  <2>1. CASE q # p
    BY <2>1, <1>1 DEF CloseInv, NothingAfterClose
  <2>2. CASE q = p
    <3>1. i \in DOMAIN wire[p] /\ wire'[p][i] = wire[p][i]
      <4>1. j \in 1 .. Len(wire[p]) + 1
        BY <2>2, <1>2
      <4> QED BY <4>1, <2>2, <1>2
    <3>2. CASE j \in DOMAIN wire[p] /\ wire'[p][j] = wire[p][j]
      BY <2>2, <3>1, <3>2 DEF CloseInv, NothingAfterClose
    <3>3. CASE wire'[p][j] = f
      BY <2>2, <3>1, <3>3
    <3> QED BY <2>2, <3>2, <3>3, <1>2
  <2> QED BY <2>1, <2>2
<1>4. \A q \in Pipes : \A g : IsSent(q, g)' => IsSent(q, g) \/ Settled(q, g)'
  <2> SUFFICES ASSUME NEW q \in Pipes, NEW g, IsSent(q, g)'
               PROVE  IsSent(q, g) \/ Settled(q, g)'
    OBVIOUS
  <2>1. CASE q = p
    <3>1. IsSent(q, g) \/ g = f
      BY <2>1, <1>2 DEF IsSent
    <3> QED BY <2>1, <3>1
  <2>2. CASE q # p
    BY <2>2, <1>1 DEF IsSent
  <2> QED BY <2>1, <2>2
<1> QED BY <1>3, <1>4, CloseCore

(* A frame or a marker of Pipe p goes into the lane. *)
LEMMA CloseGrows ==
    ASSUME TypeOK, CloseInv, NEW p \in Pipes, NEW kind, NEW n \in Nat,
           Item(kind, p, n) \in ItemType, lane' = Append(lane, Item(kind, p, n)),
           wire' = wire, entries' = entries, task' = task, abandoned' = abandoned,
           \A q \in Pipes : CloseCalm(pipe[q], pipe'[q]),
           \/ kind = "FLUSH"
           \/ pipe[p].terminal = "none"
           \/ pipe[p].writer.stage = "discard",
           kind \in {"CLOSE", "RESET"} => pipe'[p].terminal # "none",
           kind = "CLOSE" => pipe'[p].writer.stage # "discard"
    PROVE  CloseInv'
<1> DEFINE item == Item(kind, p, n)
           L == Len(lane) + 1
<1>1. item.kind = kind /\ item.pipe = p /\ item.n = n
  BY DEF Item
<1>2. /\ DOMAIN lane = 1 .. Len(lane) /\ DOMAIN lane' = 1 .. L /\ Len(lane) \in Nat
      /\ \A i \in DOMAIN lane : i \in DOMAIN lane' /\ lane'[i] = lane[i]
      /\ lane'[L] = item /\ L \in DOMAIN lane'
      /\ \A i \in DOMAIN lane' : i \in DOMAIN lane \/ i = L
  BY AppendMeans DEF TypeOK
<1>3. \A i \in DOMAIN lane : lane[i].pipe \in Pipes
  BY ItemsTyped
<1> HIDE DEF item
<1>4. CloseIsLast'
  <2> SUFFICES ASSUME NEW i \in DOMAIN lane'
               PROVE  /\ lane'[i].kind \in {"CLOSE", "RESET"} => pipe'[lane'[i].pipe].terminal # "none"
                      /\ lane'[i].kind = "CLOSE" =>
                            /\ pipe'[lane'[i].pipe].writer.stage # "discard"
                            /\ \A j \in DOMAIN lane' :
                                  (j > i /\ lane'[j].pipe = lane'[i].pipe) => lane'[j].kind = "FLUSH"
    BY DEF CloseIsLast
  <2>1. CASE i = L
    <3>1. \A j \in DOMAIN lane' : ~ (j > i)
      BY <2>1, <1>2
    <3> QED BY <2>1, <3>1, <1>1, <1>2
  <2>2. CASE i \in DOMAIN lane
    <3>1. /\ lane[i].kind \in {"CLOSE", "RESET"} => pipe[lane[i].pipe].terminal # "none"
          /\ lane[i].kind = "CLOSE" =>
                /\ pipe[lane[i].pipe].writer.stage # "discard"
                /\ \A j \in DOMAIN lane :
                      (j > i /\ lane[j].pipe = lane[i].pipe) => lane[j].kind = "FLUSH"
      BY <2>2, <1>2 DEF CloseInv, CloseIsLast
    <3>2. lane[i].kind \in {"CLOSE", "RESET"} => pipe'[lane[i].pipe].terminal # "none"
      BY <2>2, <3>1, <1>3 DEF CloseCalm
    <3>3. lane[i].kind = "CLOSE" => pipe'[lane[i].pipe].writer.stage # "discard"
      BY <2>2, <3>1, <1>3 DEF CloseCalm
    <3>4. ASSUME lane[i].kind = "CLOSE", NEW j \in DOMAIN lane', j > i, lane'[j].pipe = lane'[i].pipe
          PROVE  lane'[j].kind = "FLUSH"
      <4>1. CASE j \in DOMAIN lane
        BY <4>1, <2>2, <3>1, <3>4, <1>2
      <4>2. CASE j = L
        <5>1. lane[i].pipe = p
          BY <4>2, <2>2, <3>4, <1>1, <1>2
        <5>2. kind = "FLUSH"
          BY <5>1, <3>1, <3>4
        <5> QED BY <4>2, <5>2, <1>1, <1>2
      <4> QED BY <4>1, <4>2, <1>2
    <3> QED BY <2>2, <3>2, <3>3, <3>4, <1>2
  <2> QED BY <2>1, <2>2, <1>2
<1>5. AbandonedInv'
  <2> SUFFICES ASSUME NEW i \in DOMAIN abandoned, NEW q, q = abandoned[i]
               PROVE  Dropped(q)'
    BY DEF AbandonedInv, Dropped, InLane
  <2>1. q \in Pipes
    BY ElementsTyped DEF TypeOK
  <2>2. Dropped(q)
    BY DEF CloseInv, AbandonedInv
  <2>3. /\ pipe'[q].writer.gone /\ pipe'[q].terminal # "none"
        /\ pipe'[q].writer.stage # "discard"
    BY <2>1, <2>2 DEF Dropped, CloseCalm
  <2>4. q = p => kind = "FLUSH"
    BY <2>2 DEF Dropped
  <2>5. ASSUME NEW j \in DOMAIN lane', lane'[j].pipe = q
        PROVE  lane'[j].kind \notin {"CLOSE", "RESET"}
    <3>1. CASE j \in DOMAIN lane
      BY <2>2, <2>5, <3>1, <1>2 DEF Dropped, InLane
    <3>2. CASE j = L
      BY <2>4, <2>5, <3>2, <1>1, <1>2
    <3> QED BY <3>1, <3>2, <1>2
  <2> QED BY <2>3, <2>5 DEF Dropped, InLane
<1>6. NothingAfterClose'
  BY DEF CloseInv, NothingAfterClose, MayFollow
<1>7. ASSUME NEW q \in Pipes
      PROVE  AfterClose(q)'
  <2> SUFFICES ASSUME NEW f, IsSent(q, f)'
               PROVE  Settled(q, f)'
    BY AfterCloseMeans
  <2>1. Settled(q, f)
    <3>1. IsSent(q, f)
      BY DEF IsSent
    <3> QED BY <3>1, AfterCloseMeans DEF CloseInv
  <2>2. Quiet(q) => Quiet(q)'
    BY DEF Quiet, CloseCalm
  <2>3. ASSUME NEW i \in DOMAIN lane', lane'[i].pipe = q, lane'[i].kind # "FLUSH"
        PROVE  MayFollow(f, lane'[i])
    <3>1. CASE i \in DOMAIN lane
      BY <2>1, <2>3, <3>1, <1>2 DEF Settled
    <3>2. CASE i = L
      <4>1. q = p /\ lane'[i].kind = kind
        BY <2>3, <3>2, <1>1, <1>2
      <4>2. ~ Quiet(q)
        BY <2>3, <4>1 DEF Quiet
      <4> QED BY <2>1, <4>2 DEF Settled, MayFollow
    <3> QED BY <3>1, <3>2, <1>2
  <2> QED BY <2>1, <2>2, <2>3 DEF Settled, MayFollow
<1> QED BY <1>4, <1>5, <1>6, <1>7 DEF CloseInv

(* Late in a poll, a step that leaves the task there writes on. *)
LEMMA LateKeeps ==
    ASSUME TypeOK, LateInv,
           task'.stage = "late" =>
               /\ task' = task /\ lane' = lane
               /\ \A q \in Pipes : pipe'[q].writer.written = pipe[q].writer.written
    PROVE  LateInv'
<1> SUFFICES ASSUME task'.stage = "late"
             PROVE  /\ \A p \in Pipes : task.seen[p] <= pipe'[p].writer.written
                    /\ \A i \in DOMAIN lane : lane[i].kind # "FLUSH" => lane[i].n > task.seen[lane[i].pipe]
  BY DEF LateInv
<1> QED BY DEF LateInv

(* A frame put into the lane has a number that was not seen. *)
LEMMA LateGrows ==
    ASSUME TypeOK, LateInv, task' = task, NEW p \in Pipes, NEW kind, NEW n \in Nat,
           Item(kind, p, n) \in ItemType, lane' = Append(lane, Item(kind, p, n)),
           pipe'[p].writer.written = n, n >= pipe[p].writer.written,
           kind = "FLUSH" \/ n = pipe[p].writer.written + 1,
           \A q \in Pipes \ {p} : pipe'[q] = pipe[q]
    PROVE  LateInv'
<1> SUFFICES ASSUME task.stage = "late"
             PROVE  /\ \A q \in Pipes : task.seen[q] <= pipe'[q].writer.written
                    /\ \A i \in DOMAIN lane' :
                          lane'[i].kind # "FLUSH" => lane'[i].n > task.seen[lane'[i].pipe]
  BY DEF LateInv
<1>1. /\ \A q \in Pipes : task.seen[q] <= pipe[q].writer.written
      /\ \A i \in DOMAIN lane : lane[i].kind # "FLUSH" => lane[i].n > task.seen[lane[i].pipe]
  BY DEF LateInv
<1>2. task.seen[p] \in Nat /\ pipe[p].writer.written \in Nat
  <2>1. task.seen \in [Pipes -> Nat]
    BY DEF TypeOK, TaskType, EarlyType, HandlerStages
  <2> QED BY <2>1 DEF TypeOK, PipeType, WriterType
<1>3. \A q \in Pipes : task.seen[q] <= pipe'[q].writer.written
  BY <1>1, <1>2
<1>4. ASSUME NEW i \in DOMAIN lane', lane'[i].kind # "FLUSH"
      PROVE  lane'[i].n > task.seen[lane'[i].pipe]
  <2>1. \/ i \in DOMAIN lane /\ lane'[i] = lane[i]
        \/ lane'[i] = Item(kind, p, n)
    BY AppendMeans DEF TypeOK
  <2>2. CASE i \in DOMAIN lane /\ lane'[i] = lane[i]
    BY <2>2, <1>1, <1>4
  <2>3. CASE lane'[i] = Item(kind, p, n)
    <3>1. lane'[i].kind = kind /\ lane'[i].pipe = p /\ lane'[i].n = n
      BY <2>3 DEF Item
    <3> QED BY <3>1, <1>1, <1>2, <1>4
  <2> QED BY <2>1, <2>2, <2>3
<1> QED BY <1>3, <1>4

-----------------------------------------------------------------------------
(***************************************************************************)
(* The entries group, and the writers that sleep.                          *)
(***************************************************************************)

(* The notice that the Pipe p was dropped is on its way. *)
Noticed(p) == \E i \in DOMAIN abandoned : abandoned[i] = p

(* What will remove the entry of an ended Pipe is still there after a step. *)
LEMMA EntryKeeps ==
    ASSUME NEW q, EntryInv(q),
           task.stage = "cleanup" => task'.stage = "cleanup",
           Noticed(q) => Noticed(q)',
           InLane(q, {"CLOSE", "RESET"}) => InLane(q, {"CLOSE", "RESET"})',
           pipe[q].writer.stage = "discard" =>
               \/ pipe'[q].writer.stage = "discard"
               \/ InLane(q, {"CLOSE", "RESET"})'
               \/ task'.stage = "cleanup",
           IsProtocolFinished(pipe[q]) => IsProtocolFinished(pipe'[q]),
           pipe'[q].terminal # "none" =>
               \/ pipe[q].terminal # "none"
               \/ InLane(q, {"CLOSE", "RESET"})'
               \/ Noticed(q)'
               \/ pipe'[q].writer.stage = "discard"
               \/ IsProtocolFinished(pipe'[q]),
           IsProtocolFinished(pipe'[q]) =>
               \/ /\ IsProtocolFinished(pipe[q])
                  /\ InLane(q, {"FIN"}) => InLane(q, {"FIN"})'
                  /\ Doing(task, q) \in {"fin", "finished"} =>
                         Doing(task', q) \in {"fin", "finished"}
               \/ InLane(q, {"FIN"})'
               \/ Doing(task', q) \in {"fin", "finished"}
    PROVE  EntryInv(q)'
BY DEF EntryInv, Noticed

(* The lane keeps its items, at the same places. *)
LEMMA LaneKept ==
    ASSUME \A i \in DOMAIN lane : i \in DOMAIN lane' /\ lane'[i] = lane[i], NEW q, NEW kinds
    PROVE  InLane(q, kinds) => InLane(q, kinds)'
BY DEF InLane

(* The lane loses its head, which was no such item. *)
LEMMA LaneShifted ==
    ASSUME TypeOK, lane # <<>>, lane' = Tail(lane), NEW q, NEW kinds,
           ~ (Head(lane).pipe = q /\ Head(lane).kind \in kinds)
    PROVE  InLane(q, kinds) => InLane(q, kinds)'
<1>1. /\ Head(lane) = lane[1]
      /\ \A i \in DOMAIN lane : i = 1 \/ (i - 1 \in DOMAIN lane' /\ lane'[i - 1] = lane[i])
  <2> lane \in Seq(ItemType)
    BY DEF TypeOK
  <2> QED BY TailMeans
<1> SUFFICES ASSUME NEW i \in DOMAIN lane, lane[i].pipe = q, lane[i].kind \in kinds
             PROVE  \E j \in DOMAIN lane' : lane'[j].pipe = q /\ lane'[j].kind \in kinds
  BY DEF InLane
<1>2. i # 1
  BY <1>1
<1>3. i - 1 \in DOMAIN lane' /\ lane'[i - 1] = lane[i]
  BY <1>1, <1>2
<1> QED BY <1>3

(* An item that was appended is in the lane. *)
LEMMA LaneHolds ==
    ASSUME TypeOK, NEW kind, NEW p, NEW n, Item(kind, p, n) \in ItemType,
           lane' = Append(lane, Item(kind, p, n)), NEW kinds, kind \in kinds
    PROVE  InLane(p, kinds)'
<1>1. Len(lane) + 1 \in DOMAIN lane' /\ lane'[Len(lane) + 1] = Item(kind, p, n)
  BY AppendMeans DEF TypeOK
<1>2. Item(kind, p, n).pipe = p /\ Item(kind, p, n).kind = kind
  BY DEF Item
<1> QED BY <1>1, <1>2 DEF InLane

(* A writer that sleeps without a wake waits for its marker or for a slot. *)
SleepsWell(w) ==
    (w.stage = "sleep" /\ ~ w.woken) =>
        laneOpen /\ (w.flushing = "pending" \/ (w.waiter = "registered" /\ Full))

(* The reserved slots can be counted. *)
LEMMA HoldersFinite ==
    IsFiniteSet(Holders) /\ Cardinality(Holders) \in Nat
BY ConstantsMean, FS_Subset, FS_CardinalityType DEF Holders

(* A full lane stays full while no item and no permit is given back. *)
LEMMA FullStays ==
    ASSUME Len(lane) \in Nat, Len(lane') \in Nat, Len(lane') >= Len(lane), Full,
           \A q \in Pipes : pipe[q].writer.stage = "discard" => pipe'[q].writer.stage = "discard"
    PROVE  Full'
<1>1. Holders \subseteq Holders'
  BY DEF Holders
<1>2. IsFiniteSet(Holders') /\ Cardinality(Holders') \in Nat
  BY ConstantsMean, FS_Subset, FS_CardinalityType DEF Holders
<1>3. Cardinality(Holders) <= Cardinality(Holders')
  BY <1>1, <1>2, FS_Subset
<1> QED BY <1>2, <1>3, HoldersFinite, ConstantsMean DEF Full

(* A permit that is turned into an item leaves the lane full. *)
LEMMA FullTurns ==
    ASSUME Len(lane) \in Nat, Len(lane') = Len(lane) + 1, Full, NEW p \in Pipes,
           \A q \in Pipes \ {p} : pipe'[q].writer.stage = pipe[q].writer.stage
    PROVE  Full'
<1>1. Holders \ {p} \subseteq Holders'
  BY DEF Holders
<1>2. IsFiniteSet(Holders') /\ Cardinality(Holders') \in Nat
  BY ConstantsMean, FS_Subset, FS_CardinalityType DEF Holders
<1>3. /\ IsFiniteSet(Holders \ {p}) /\ Cardinality(Holders \ {p}) \in Nat
      /\ Cardinality(Holders \ {p}) >= Cardinality(Holders) - 1
  <2>1. /\ IsFiniteSet(Holders \ {p})
        /\ Cardinality(Holders \ {p}) =
              IF p \in Holders THEN Cardinality(Holders) - 1 ELSE Cardinality(Holders)
    BY HoldersFinite, FS_RemoveElement
  <2>2. Cardinality(Holders \ {p}) \in Nat
    BY <2>1, FS_CardinalityType
  <2> QED BY <2>1, <2>2, HoldersFinite
<1>4. Cardinality(Holders \ {p}) <= Cardinality(Holders')
  BY <1>1, <1>2, FS_Subset
<1> QED BY <1>2, <1>3, <1>4, HoldersFinite, ConstantsMean DEF Full

(* The sleepers, when the lane stays as full as it was. *)
LEMMA SleepersKeep ==
    ASSUME SleeperInv, laneOpen' = laneOpen, (laneOpen /\ Full) => Full',
           \A q \in Pipes : \/ SleepsWell(pipe'[q].writer)
                            \/ pipe'[q].writer = pipe[q].writer
    PROVE  SleeperInv'
<1> SUFFICES ASSUME NEW q \in Pipes, pipe'[q].writer.stage = "sleep", ~ pipe'[q].writer.woken
             PROVE  laneOpen' /\ (\/ pipe'[q].writer.flushing = "pending"
                                  \/ pipe'[q].writer.waiter = "registered" /\ Full')
  BY DEF SleeperInv
<1>1. CASE SleepsWell(pipe'[q].writer)
  BY <1>1 DEF SleepsWell
<1>2. CASE pipe'[q].writer = pipe[q].writer
  BY <1>2 DEF SleeperInv
<1> QED BY <1>1, <1>2

(* The sleepers, when every registered waiter was told. *)
LEMMA SleepersTold ==
    ASSUME \A q \in Pipes : (pipe'[q].writer.stage = "sleep" /\ ~ pipe'[q].writer.woken) =>
                                pipe'[q].writer.flushing = "pending" /\ laneOpen'
    PROVE  SleeperInv'
BY DEF SleeperInv

(* The sleepers of a lane that is closed. *)
LEMMA SleepersWoken ==
    ASSUME \A q \in Pipes : pipe'[q].writer.stage = "sleep" => pipe'[q].writer.woken
    PROVE  SleeperInv'
BY DEF SleeperInv

-----------------------------------------------------------------------------
(***************************************************************************)
(* Steps of one Pipe.                                                      *)
(***************************************************************************)

(* One Pipe changes, and the others keep their invariant. *)
LEMMA PipeUpdated ==
    ASSUME TypeOK, NEW p \in Pipes, NEW y \in PipeType, pipe' = [pipe EXCEPT ![p] = y]
    PROVE  /\ pipe' \in [Pipes -> PipeType] /\ pipe'[p] = y
           /\ \A q \in Pipes \ {p} : pipe'[q] = pipe[q]
BY DEF TypeOK

(* A step at one Pipe has to keep that Pipe's invariant only. *)
LEMMA PipesKeep ==
    ASSUME TypeOK, PipesInv, NEW p \in Pipes, NEW y \in PipeType, pipe' = [pipe EXCEPT ![p] = y],
           \A q \in Pipes \ {p} : Doing(task', q) = Doing(task, q),
           PipeInv(y, Doing(task', p))
    PROVE  PipesInv'
<1> SUFFICES ASSUME NEW q \in Pipes
             PROVE  PipeInv(pipe'[q], Doing(task', q))
  BY DEF PipesInv
<1>1. CASE q = p
  BY <1>1, PipeUpdated
<1>2. CASE q # p
  <2>1. pipe'[q] = pipe[q] /\ Doing(task', q) = Doing(task, q)
    BY <1>2, PipeUpdated
  <2> QED BY <2>1 DEF PipesInv
<1> QED BY <1>1, <1>2

(* Nothing happening is calm. *)
LEMMA CalmRefl ==
    ASSUME NEW x
    PROVE  CloseCalm(x, x) /\ LaneCalm(x.writer, x.writer)
BY DEF CloseCalm, LaneCalm

(* A step of Pipe p and of the session, with the lane and the wire as they were. *)
LEMMA PipeMoves ==
    ASSUME IInv, NEW p \in Pipes, NEW x, x = pipe[p], NEW y \in PipeType,
           pipe' = [pipe EXCEPT ![p] = y],
           ops' = ops, lane' = lane, laneOpen' = laneOpen, wire' = wire, received' \in Nat,
           task' \in EarlyType \/ task' = task, task.stage = "cleanup" => task'.stage = "cleanup",
           \A q \in Pipes \ {p} : Doing(task', q) = Doing(task, q),
           entries' \subseteq entries,
           \/ abandoned' = abandoned
           \/ /\ abandoned' = Append(abandoned, p) /\ y.writer.gone /\ y.terminal # "none"
              /\ y.writer.stage # "discard" /\ x.terminal = "none",
           NEW b, b = Doing(task, p), NEW b2, b2 = Doing(task', p),
           PipeInv(y, b2), LaneCalm(x.writer, y.writer), CloseCalm(x, y),
           b2 \in Resetting => b \in Resetting \/ p \in entries,
           SleepsWell(y.writer) \/ y.writer = x.writer,
           x.writer.stage = "discard" => y.writer.stage = "discard" \/ ~ laneOpen,
           p \in entries' =>
               /\ IsProtocolFinished(x) => IsProtocolFinished(y)
               /\ y.terminal # "none" =>
                      \/ x.terminal # "none" \/ y.writer.stage = "discard"
                      \/ IsProtocolFinished(y) \/ abandoned' = Append(abandoned, p)
               /\ IsProtocolFinished(y) =>
                      \/ /\ IsProtocolFinished(x)
                         /\ b \in {"fin", "finished"} => b2 \in {"fin", "finished"}
                      \/ b2 \in {"fin", "finished"}
    PROVE  IInv'
<1> USE DEF IInv
<1>1. pipe' \in [Pipes -> PipeType] /\ pipe'[p] = y /\ \A q \in Pipes \ {p} : pipe'[q] = pipe[q]
  BY PipeUpdated
<1>2. /\ abandoned' \in Seq(Pipes)
      /\ \A i \in DOMAIN abandoned : i \in DOMAIN abandoned' /\ abandoned'[i] = abandoned[i]
      /\ \A i \in DOMAIN abandoned' :
            \/ i \in DOMAIN abandoned /\ abandoned'[i] = abandoned[i]
            \/ /\ abandoned'[i] = p /\ y.writer.gone /\ y.terminal # "none"
               /\ y.writer.stage # "discard" /\ x.terminal = "none"
      /\ abandoned' = Append(abandoned, p) => \E i \in DOMAIN abandoned' : abandoned'[i] = p
  <2>1. abandoned \in Seq(Pipes)
    BY DEF TypeOK
  <2>2. CASE abandoned' = abandoned /\ abandoned' # Append(abandoned, p)
    BY <2>1, <2>2
  <2>3. CASE /\ abandoned' = Append(abandoned, p) /\ y.writer.gone /\ y.terminal # "none"
             /\ y.writer.stage # "discard" /\ x.terminal = "none"
    BY <2>1, <2>3, AppendMeans
  <2>4. abandoned # Append(abandoned, p)
    <3>1. Len(Append(abandoned, p)) = Len(abandoned) + 1 /\ Len(abandoned) \in Nat
      BY <2>1, AppendMeans
    <3> QED BY <3>1
  <2> QED BY <2>2, <2>3, <2>4
<1>3. TypeOK'
  <2>1. task' \in TaskType
    BY DEF TaskType, TypeOK
  <2> QED BY <2>1, <1>1, <1>2 DEF TypeOK
<1>4. PipesInv'
  BY PipesKeep
<1>5. LaneInv'
  <2>1. ~ laneOpen => task'.stage = "cleanup"
    BY DEF LaneInv, ClosedLane
  <2>2. \A q \in Pipes : \A n \in Nat : OnWire(q, n) => OnWire(q, n)'
    BY DEF OnWire
  <2>3. \A q \in Pipes : LaneCalm(pipe[q].writer, pipe'[q].writer)
    BY <1>1, CalmRefl
  <2> QED BY <2>1, <2>2, <2>3, LaneCalmKeeps
<1>6. CloseInv'
  <2>1. \A i \in DOMAIN lane' : i \in Int /\ i + 0 \in DOMAIN lane /\ lane'[i] = lane[i + 0]
    BY ItemsTyped
  <2>2. \A q \in Pipes : CloseCalm(pipe[q], pipe'[q])
    BY <1>1, CalmRefl
  <2>3. \A q \in Pipes : Doing(task', q) \in Resetting => Doing(task, q) \in Resetting \/ q \in entries
    OBVIOUS
  <2>4. \A i \in DOMAIN abandoned' :
            \/ \E j \in DOMAIN abandoned : abandoned[j] = abandoned'[i]
            \/ \E q \in Pipes : q = abandoned'[i] /\ Dropped(q)'
    <3>1. x.terminal = "none" => ~ InLane(p, {"CLOSE", "RESET"})'
      BY DEF CloseInv, CloseIsLast, InLane
    <3>2. (/\ y.writer.gone /\ y.terminal # "none"
           /\ y.writer.stage # "discard" /\ x.terminal = "none") => Dropped(p)'
      BY <3>1, <1>1 DEF Dropped
    <3> QED BY <3>2, <1>2
  <2>5. 0 \in Nat
    OBVIOUS
  <2> HIDE DEF IInv
  <2>6. TypeOK /\ CloseInv
    BY DEF IInv
  <2> QED BY <2>1, <2>2, <2>3, <2>4, <2>5, <2>6, CloseKeeps
<1>7. EntriesInv'
  <2> SUFFICES ASSUME NEW q \in entries'
               PROVE  EntryInv(q)'
    BY DEF EntriesInv
  <2>1. EntryInv(q) /\ q \in Pipes
    BY DEF EntriesInv, TypeOK
  <2>2. Noticed(q) => Noticed(q)'
    BY <1>2 DEF Noticed
  <2>3. \A kinds : InLane(q, kinds) => InLane(q, kinds)'
    BY DEF InLane
  <2>4. CASE q # p
    <3>1. pipe'[q] = pipe[q] /\ Doing(task', q) = Doing(task, q)
      BY <2>1, <2>4, <1>1
    <3> QED BY <2>1, <2>2, <2>3, <3>1, EntryKeeps
  <2>5. CASE q = p
    <3>1. ~ laneOpen => task'.stage = "cleanup"
      BY DEF LaneInv, ClosedLane
    <3>2. abandoned' = Append(abandoned, p) => Noticed(q)'
      BY <1>2, <2>5 DEF Noticed
    <3> QED BY <2>1, <2>2, <2>3, <2>5, <3>1, <3>2, <1>1, EntryKeeps
  <2> QED BY <2>4, <2>5
<1>8. SleeperInv'
  <2>1. (laneOpen /\ Full) => Full'
    <3> SUFFICES ASSUME laneOpen, Full
                 PROVE  Full'
      OBVIOUS
    <3>1. Len(lane) \in Nat /\ Len(lane') \in Nat /\ Len(lane') >= Len(lane)
      BY ItemsTyped
    <3>2. \A q \in Pipes :
              pipe[q].writer.stage = "discard" => pipe'[q].writer.stage = "discard"
      BY <1>1
    <3> QED BY <3>1, <3>2, FullStays
  <2>2. \A q \in Pipes : SleepsWell(pipe'[q].writer) \/ pipe'[q].writer = pipe[q].writer
    BY <1>1
  <2> QED BY <2>1, <2>2, SleepersKeep
<1>9. LateInv'
  <2>1. task'.stage = "late" => task' = task
    BY DEF EarlyType, HandlerStages
  <2>2. \A q \in Pipes : pipe'[q].writer.written = pipe[q].writer.written
    BY <1>1 DEF LaneCalm
  <2> QED BY <2>1, <2>2, LateKeeps
<1> QED BY <1>3, <1>4, <1>5, <1>6, <1>7, <1>8, <1>9

(* The writer of Pipe p puts a frame or its marker into the lane. *)
LEMMA LaneTakes ==
    ASSUME IInv, laneOpen, NEW p \in Pipes, NEW x, x = pipe[p], NEW y \in PipeType,
           NEW kind, NEW n \in Nat, Item(kind, p, n) \in ItemType,
           pipe' = [pipe EXCEPT ![p] = y], lane' = Append(lane, Item(kind, p, n)),
           UNCHANGED <<ops, laneOpen, abandoned, entries, task, received, wire>>,
           PipeInv(y, Doing(task, p)), CloseCalm(x, y), y.writer.stage # "sleep",
           y.writer.confirmed = x.writer.confirmed,
           \/ /\ kind # "FLUSH" /\ n = x.writer.written + 1
              /\ y.writer.written = n /\ y.writer.flushing = "none" /\ y.writer.dirty
           \/ /\ kind = "FLUSH" /\ n = x.writer.written
              /\ y.writer.written = n /\ y.writer.flushing = "pending"
              /\ y.writer.dirty = x.writer.dirty,
           kind = "FLUSH" \/ x.terminal = "none" \/ x.writer.stage = "discard",
           kind \in {"CLOSE", "RESET"} => y.terminal # "none",
           kind = "CLOSE" => y.writer.stage # "discard",
           x.writer.stage = "discard" => y.writer.stage = "discard" \/ kind \in {"CLOSE", "RESET"},
           IsProtocolFinished(x) => IsProtocolFinished(y),
           y.terminal # "none" => x.terminal # "none" \/ kind \in {"CLOSE", "RESET"},
           IsProtocolFinished(y) => IsProtocolFinished(x) \/ kind = "FIN"
    PROVE  IInv'
<1> USE DEF IInv
<1>1. pipe' \in [Pipes -> PipeType] /\ pipe'[p] = y /\ \A q \in Pipes \ {p} : pipe'[q] = pipe[q]
  BY PipeUpdated
<1>2. /\ lane' \in Seq(ItemType) /\ Len(lane') = Len(lane) + 1 /\ Len(lane) \in Nat
      /\ \A i \in DOMAIN lane : i \in DOMAIN lane' /\ lane'[i] = lane[i]
  BY AppendMeans DEF TypeOK
<1>3. TypeOK'
  BY <1>1, <1>2 DEF TypeOK
<1>4. PipesInv'
  BY PipesKeep
<1>5. LaneInv'
  BY <1>1, LaneGrows
<1>6. CloseInv'
  <2>1. \A q \in Pipes : CloseCalm(pipe[q], pipe'[q])
    BY <1>1, CalmRefl
  <2> QED BY <1>1, <2>1, CloseGrows
<1>7. EntriesInv'
  <2> SUFFICES ASSUME NEW q \in entries
               PROVE  EntryInv(q)'
    BY DEF EntriesInv
  <2>1. EntryInv(q) /\ q \in Pipes
    BY DEF EntriesInv, TypeOK
  <2>2. Noticed(q) => Noticed(q)'
    BY DEF Noticed
  <2>3. \A kinds : InLane(q, kinds) => InLane(q, kinds)'
    BY <1>2, LaneKept
  <2>4. CASE q # p
    <3>1. pipe'[q] = pipe[q]
      BY <2>1, <2>4, <1>1
    <3> QED BY <2>1, <2>2, <2>3, <3>1, EntryKeeps
  <2>5. CASE q = p
    <3>1. kind \in {"CLOSE", "RESET"} => InLane(p, {"CLOSE", "RESET"})'
      BY LaneHolds
    <3>2. kind = "FIN" => InLane(p, {"FIN"})'
      BY LaneHolds
    <3> QED BY <2>1, <2>2, <2>3, <2>5, <3>1, <3>2, <1>1, EntryKeeps
  <2> QED BY <2>4, <2>5
<1>8. SleeperInv'
  <2>1. Full => Full'
    BY <1>1, <1>2, FullTurns
  <2>2. \A q \in Pipes : SleepsWell(pipe'[q].writer) \/ pipe'[q].writer = pipe[q].writer
    BY <1>1 DEF SleepsWell
  <2> QED BY <2>1, <2>2, SleepersKeep
<1>9. LateInv'
  <2>1. x.writer.written \in Nat
    BY DEF TypeOK, PipeType, WriterType
  <2>2. n >= x.writer.written
    BY <2>1
  <2> QED BY <2>2, <1>1, LateGrows
<1> QED BY <1>3, <1>4, <1>5, <1>6, <1>7, <1>8, <1>9

-----------------------------------------------------------------------------
(***************************************************************************)
(* Steps that tell the waiters of the lane.                                *)
(***************************************************************************)

(* A notified waiter is not registered any more, and its task is woken. *)
LEMMA NotifiedMeans ==
    ASSUME NEW w \in WriterType
    PROVE  LET v == Notified(w)
           IN  /\ v \in WriterType /\ v.waiter # "registered"
               /\ v.waiter = "none" <=> w.waiter = "none"
               /\ v.woken = (w.woken \/ (w.waiter = "registered" /\ w.stage # "idle"))
               /\ v.op = w.op /\ v.stage = w.stage /\ v.dirty = w.dirty
               /\ v.flushing = w.flushing /\ v.written = w.written /\ v.data = w.data
               /\ v.confirmed = w.confirmed /\ v.gone = w.gone
<1>1. CASE w.waiter = "registered"
  BY <1>1 DEF Notified, WriterType
<1>2. CASE w.waiter # "registered"
  BY <1>2 DEF Notified, WriterType
<1> QED BY <1>1, <1>2

(* A pending flush fails and its task is woken. *)
LEMMA FlushFailsMeans ==
    ASSUME NEW w \in WriterType
    PROVE  LET v == FlushFails(w)
           IN  /\ v \in WriterType /\ v.flushing # "pending"
               /\ v.flushing = "ok" <=> w.flushing = "ok"
               /\ v.woken = IF w.flushing = "pending" THEN w.stage # "idle" ELSE w.woken
               /\ v.op = w.op /\ v.stage = w.stage /\ v.dirty = w.dirty
               /\ v.waiter = w.waiter /\ v.written = w.written /\ v.data = w.data
               /\ v.confirmed = w.confirmed /\ v.gone = w.gone
<1>1. CASE w.flushing = "pending"
  BY <1>1 DEF FlushFails, WriterType
<1>2. CASE w.flushing # "pending"
  BY <1>2 DEF FlushFails, WriterType
<1> QED BY <1>1, <1>2

(* A writer v that is where w was, except for a wake and a notice. *)
Told(w, v) ==
    /\ v.stage = w.stage /\ v.op = w.op /\ v.gone = w.gone /\ v.written = w.written
    /\ v.dirty = w.dirty /\ v.confirmed = w.confirmed
    /\ w.stage # "idle" => (w.woken => v.woken)
    /\ v.waiter = "none" <=> w.waiter = "none"

(* The writer of a Pipe is told something, and nothing else changes. *)
LEMMA ToldKeeps ==
    ASSUME NEW x \in PipeType, NEW y \in PipeType, NEW b, PipeInv(x, b),
           SameBuffer(x, y), SameEnd(x, y), y.reader = x.reader, Told(x.writer, y.writer)
    PROVE  PipeInv(y, b) /\ CloseCalm(x, y)
<1>1. CloseCalm(x, y)
  BY DEF CloseCalm, Told, SameEnd
<1>2. (/\ y.writer.stage \in {"reserve", "register", "again", "sleep"}
       /\ ~ y.writer.woken /\ y.writer.op # "flush") => x.terminal = "none" \/ Fails(x, b)
  BY DEF Told, PipeInv, HalvesInv
<1>3. y.writer.stage = "again" => y.writer.waiter # "none"
  BY DEF Told, PipeInv, HalvesInv
<1>4. y.writer.gone => y.writer.stage = "idle"
  BY DEF Told, PipeInv, HalvesInv
<1>5. y.writer.stage = x.writer.stage
  BY DEF Told
<1>6. PipeInv(y, b)
  BY <1>2, <1>3, <1>4, <1>5, WriterMoves
<1> QED BY <1>1, <1>6

(* Every registered waiter is notified. *)
LEMMA NotifyMeans ==
    ASSUME NEW f \in [Pipes -> PipeType]
    PROVE  /\ NotifyWaiters(f) \in [Pipes -> PipeType]
           /\ \A q \in Pipes :
                 /\ NotifyWaiters(f)[q] = SetWriter(f[q], Notified(f[q].writer))
                 /\ NotifyWaiters(f)[q].writer = Notified(f[q].writer)
                 /\ NotifyWaiters(f)[q].reader = f[q].reader
                 /\ SameBuffer(f[q], NotifyWaiters(f)[q]) /\ SameEnd(f[q], NotifyWaiters(f)[q])
<1> SUFFICES ASSUME NEW q \in Pipes
             PROVE  /\ NotifyWaiters(f)[q] \in PipeType
                    /\ NotifyWaiters(f)[q] = SetWriter(f[q], Notified(f[q].writer))
                    /\ NotifyWaiters(f)[q].writer = Notified(f[q].writer)
                    /\ NotifyWaiters(f)[q].reader = f[q].reader
                    /\ SameBuffer(f[q], NotifyWaiters(f)[q]) /\ SameEnd(f[q], NotifyWaiters(f)[q])
  BY DEF NotifyWaiters
<1>1. NotifyWaiters(f)[q] = SetWriter(f[q], Notified(f[q].writer))
  BY DEF NotifyWaiters, SetWriter
<1>2. f[q] \in PipeType /\ f[q].writer \in WriterType
  BY HalvesTyped
<1>3. Notified(f[q].writer) \in WriterType
  BY <1>2, NotifiedMeans
<1> QED BY <1>1, <1>2, <1>3, SetWriterMeans

(* What telling a waiter does to its Pipe. *)
LEMMA NotifyKeeps ==
    ASSUME NEW x \in PipeType, NEW y \in PipeType, NEW b, PipeInv(x, b),
           y = SetWriter(x, Notified(x.writer))
    PROVE  /\ PipeInv(y, b) /\ CloseCalm(x, y) /\ LaneCalm(x.writer, y.writer)
           /\ SameEnd(x, y) /\ Told(x.writer, y.writer) /\ y.writer.flushing = x.writer.flushing
           /\ (SleepsWell(x.writer) /\ y.writer.stage = "sleep" /\ ~ y.writer.woken) =>
                  y.writer.flushing = "pending" /\ laneOpen
<1> DEFINE w == x.writer
           v == Notified(w)
<1>1. w \in WriterType /\ x.reader \in ReaderType
  BY HalvesTyped
<1>2. v \in WriterType /\ v.waiter # "registered"
  BY <1>1, NotifiedMeans
<1>3. /\ v.waiter = "none" <=> w.waiter = "none"
      /\ v.woken = (w.woken \/ (w.waiter = "registered" /\ w.stage # "idle"))
      /\ v.op = w.op /\ v.stage = w.stage /\ v.dirty = w.dirty
      /\ v.flushing = w.flushing /\ v.written = w.written
      /\ v.confirmed = w.confirmed /\ v.gone = w.gone
  BY <1>1, NotifiedMeans
<1>4. y.writer = v /\ y.reader = x.reader /\ SameBuffer(x, y) /\ SameEnd(x, y)
  BY <1>2, SetWriterMeans
<1> HIDE DEF v
<1>5. Told(w, v)
  BY <1>3 DEF Told
<1>6. LaneCalm(w, v)
  BY <1>3 DEF LaneCalm
<1>7. PipeInv(y, b) /\ CloseCalm(x, y)
  BY <1>4, <1>5, ToldKeeps
<1>8. (SleepsWell(w) /\ v.stage = "sleep" /\ ~ v.woken) => v.flushing = "pending" /\ laneOpen
  BY <1>3 DEF SleepsWell
<1> QED BY <1>3, <1>4, <1>5, <1>6, <1>7, <1>8

(* What the invariant says of one Pipe. *)
LEMMA PipeOf ==
    ASSUME IInv, NEW p \in Pipes
    PROVE  /\ pipe[p] \in PipeType /\ PipeInv(pipe[p], Doing(task, p))
           /\ pipe[p].writer \in WriterType /\ pipe[p].reader \in ReaderType
           /\ SleepsWell(pipe[p].writer)
<1>1. pipe[p] \in PipeType /\ PipeInv(pipe[p], Doing(task, p))
  BY DEF IInv, TypeOK, PipesInv
<1>2. SleepsWell(pipe[p].writer)
  BY DEF IInv, SleeperInv, SleepsWell
<1> QED BY <1>1, <1>2, HalvesTyped

(* Calm steps compose. *)
LEMMA LaneCalmTrans ==
    ASSUME NEW w1, NEW w2, NEW w3, LaneCalm(w1, w2), LaneCalm(w2, w3)
    PROVE  LaneCalm(w1, w3)
BY DEF LaneCalm

(* A closure that had nothing to send: its permit is given back. *)
LEMMA SkipKeeps ==
    ASSUME IInv, NEW p \in Pipes, NEW x, x = pipe[p], NEW z \in PipeType, SkipFrame(p, z),
           PipeInv(z, Doing(task, p)), LaneCalm(x.writer, z.writer), SameEnd(x, z),
           z.writer.stage \in {"idle", "poll"}, x.writer.stage # "discard",
           x.writer.gone => z.writer.gone
    PROVE  IInv'
<1> USE DEF IInv
<1> DEFINE f == [pipe EXCEPT ![p] = z]
<1>1. /\ pipe' = NotifyWaiters(f)
      /\ UNCHANGED <<ops, lane, laneOpen, abandoned, entries, task, received, wire>>
  BY DEF SkipFrame
<1>2. f \in [Pipes -> PipeType] /\ f[p] = z /\ \A q \in Pipes \ {p} : f[q] = pipe[q]
  BY DEF TypeOK
<1> HIDE DEF f
<1>3. /\ pipe' \in [Pipes -> PipeType]
      /\ \A q \in Pipes : pipe'[q] = SetWriter(f[q], Notified(f[q].writer))
  BY <1>1, <1>2, NotifyMeans
<1>4. ASSUME NEW q \in Pipes
      PROVE  /\ PipeInv(pipe'[q], Doing(task, q)) /\ LaneCalm(pipe[q].writer, pipe'[q].writer)
             /\ CloseCalm(pipe[q], pipe'[q]) /\ SameEnd(pipe[q], pipe'[q])
             /\ pipe[q].writer.stage = "discard" => pipe'[q].writer.stage = "discard"
             /\ (pipe'[q].writer.stage = "sleep" /\ ~ pipe'[q].writer.woken) =>
                    pipe'[q].writer.flushing = "pending" /\ laneOpen'
  <2>1. PipeInv(f[q], Doing(task, q)) /\ f[q] \in PipeType /\ pipe'[q] \in PipeType
    BY <1>2, <1>3, PipeOf
  <2>2. SleepsWell(f[q].writer)
    BY <1>2, PipeOf DEF SleepsWell
  <2>3. /\ LaneCalm(pipe[q].writer, f[q].writer) /\ SameEnd(pipe[q], f[q])
        /\ pipe[q].writer.gone => f[q].writer.gone
        /\ f[q].writer.stage = "discard" <=> pipe[q].writer.stage = "discard"
    BY <1>2, CalmRefl DEF SameEnd
  <2>4. /\ PipeInv(pipe'[q], Doing(task, q)) /\ LaneCalm(f[q].writer, pipe'[q].writer)
        /\ SameEnd(f[q], pipe'[q]) /\ Told(f[q].writer, pipe'[q].writer)
        /\ (pipe'[q].writer.stage = "sleep" /\ ~ pipe'[q].writer.woken) =>
               pipe'[q].writer.flushing = "pending" /\ laneOpen
    BY <2>1, <2>2, <1>3, NotifyKeeps
  <2>5. LaneCalm(pipe[q].writer, pipe'[q].writer)
    BY <2>3, <2>4, LaneCalmTrans
  <2>6. SameEnd(pipe[q], pipe'[q]) /\ CloseCalm(pipe[q], pipe'[q])
    BY <2>3, <2>4 DEF SameEnd, CloseCalm, Told
  <2>7. pipe[q].writer.stage = "discard" => pipe'[q].writer.stage = "discard"
    BY <2>3, <2>4 DEF Told
  <2> QED BY <2>4, <2>5, <2>6, <2>7, <1>1
<1>5. TypeOK'
  BY <1>1, <1>3 DEF TypeOK
<1>6. PipesInv'
  BY <1>1, <1>4 DEF PipesInv
<1>7. LaneInv'
  <2>1. ~ laneOpen => task'.stage = "cleanup"
    BY <1>1 DEF LaneInv, ClosedLane
  <2>2. \A q \in Pipes : \A n \in Nat : OnWire(q, n) => OnWire(q, n)'
    BY <1>1 DEF OnWire
  <2> QED BY <1>1, <1>4, <2>1, <2>2, LaneCalmKeeps
<1>8. CloseInv'
  <2>1. \A i \in DOMAIN lane' : i \in Int /\ i + 0 \in DOMAIN lane /\ lane'[i] = lane[i + 0]
    BY <1>1, ItemsTyped
  <2>2. 0 \in Nat /\ TypeOK /\ CloseInv
    OBVIOUS
  <2> HIDE DEF IInv
  <2> QED BY <1>1, <1>4, <2>1, <2>2, CloseKeeps
<1>9. EntriesInv'
  <2> SUFFICES ASSUME NEW q \in entries
               PROVE  EntryInv(q)'
    BY <1>1 DEF EntriesInv
  <2>1. EntryInv(q) /\ q \in Pipes
    BY DEF EntriesInv, TypeOK
  <2>2. Noticed(q) => Noticed(q)'
    BY <1>1 DEF Noticed
  <2>3. \A kinds : InLane(q, kinds) => InLane(q, kinds)'
    BY <1>1 DEF InLane
  <2>4. /\ IsProtocolFinished(pipe'[q]) <=> IsProtocolFinished(pipe[q])
        /\ pipe'[q].terminal = pipe[q].terminal
    BY <2>1, <1>4 DEF SameEnd, IsProtocolFinished
  <2> QED BY <2>1, <2>2, <2>3, <2>4, <1>1, <1>4, EntryKeeps
<1>10. SleeperInv'
  BY <1>4, SleepersTold
<1>11. LateInv'
  BY <1>1, <1>4, LateKeeps DEF LaneCalm
<1> QED BY <1>5, <1>6, <1>7, <1>8, <1>9, <1>10, <1>11

(* The session task between two handlers. *)
LEMMA SelectMeans ==
    /\ Selecting \in EarlyType /\ Selecting \in TaskType /\ Selecting.stage = "select"
    /\ \A q : Doing(Selecting, q) = "none"
    /\ task.stage \in {"select", "late"} => \A q : Doing(task, q) = "none"
    /\ task'.stage = "cleanup" => \A q : Doing(task', q) = "none"
BY DEF Selecting, TaskType, EarlyType, Doing, HandlerStages

(* The session ends: the lane is failed, and every waiter and flush is told. *)
LEMMA SessionFails ==
    ASSUME IInv, FailLane, \A q \in Pipes : Doing(task, q) \in {"none", "reset"},
           entries' \subseteq entries, received' = received,
           \/ abandoned' = abandoned
           \/ abandoned # <<>> /\ abandoned' = Tail(abandoned)
    PROVE  IInv'
<1> USE DEF IInv
<1> DEFINE f == [q \in Pipes |-> SetWriter(pipe[q], FlushFails(pipe[q].writer))]
<1>1. /\ pipe' = NotifyWaiters(f) /\ lane' = <<>> /\ laneOpen' = FALSE
      /\ task' = [stage |-> "cleanup"] /\ ops' = ops /\ wire' = wire
  BY DEF FailLane
<1>2. \A q \in Pipes : f[q] = SetWriter(pipe[q], FlushFails(pipe[q].writer))
  OBVIOUS
<1>3. f \in [Pipes -> PipeType]
  <2> SUFFICES ASSUME NEW q \in Pipes
               PROVE  SetWriter(pipe[q], FlushFails(pipe[q].writer)) \in PipeType
    OBVIOUS
  <2> QED BY PipeOf, FlushFailsMeans, SetWriterMeans
<1> HIDE DEF f
<1>4. /\ pipe' \in [Pipes -> PipeType]
      /\ \A q \in Pipes : pipe'[q] = SetWriter(f[q], Notified(f[q].writer))
  BY <1>1, <1>3, NotifyMeans
<1>5. task' \in TaskType /\ task'.stage = "cleanup" /\ \A q : Doing(task', q) = "none"
  BY <1>1, SelectMeans DEF TaskType, EarlyType
<1>6. ASSUME NEW q \in Pipes
      PROVE  /\ PipeInv(pipe'[q], "none") /\ LaneCalm(pipe[q].writer, pipe'[q].writer)
             /\ CloseCalm(pipe[q], pipe'[q]) /\ pipe'[q].writer.flushing # "pending"
             /\ pipe'[q].writer.stage = "sleep" => pipe'[q].writer.woken
  <2> DEFINE x == pipe[q]
             w == x.writer
             u == FlushFails(w)
             v == Notified(u)
             y == pipe'[q]
  <2>1. x \in PipeType /\ w \in WriterType /\ SleepsWell(w) /\ y \in PipeType
    BY PipeOf, <1>4
  <2>2. u \in WriterType /\ v \in WriterType
    BY <2>1, FlushFailsMeans, NotifiedMeans
  <2>3. f[q] \in PipeType /\ f[q].writer = u /\ f[q].reader = x.reader
        /\ SameBuffer(x, f[q]) /\ SameEnd(x, f[q])
    BY <2>1, <2>2, <1>2, SetWriterMeans
  <2>4. y.writer = v /\ y.reader = f[q].reader /\ SameBuffer(f[q], y) /\ SameEnd(f[q], y)
    BY <2>2, <2>3, <1>4, SetWriterMeans
  <2>5. SameBuffer(x, y) /\ SameEnd(x, y) /\ y.reader = x.reader
    BY <2>3, <2>4 DEF SameBuffer, SameEnd
  <2>6. /\ u.flushing # "pending" /\ (u.flushing = "ok" <=> w.flushing = "ok")
        /\ u.woken = IF w.flushing = "pending" THEN w.stage # "idle" ELSE w.woken
        /\ u.op = w.op /\ u.stage = w.stage /\ u.dirty = w.dirty
        /\ u.waiter = w.waiter /\ u.written = w.written
        /\ u.confirmed = w.confirmed /\ u.gone = w.gone
    BY <2>1, FlushFailsMeans
  <2>7. /\ v.waiter = "none" <=> u.waiter = "none"
        /\ v.woken = (u.woken \/ (u.waiter = "registered" /\ u.stage # "idle"))
        /\ v.op = u.op /\ v.stage = u.stage /\ v.dirty = u.dirty
        /\ v.flushing = u.flushing /\ v.written = u.written
        /\ v.confirmed = u.confirmed /\ v.gone = u.gone
    BY <2>2, NotifiedMeans
  <2>8. PipeInv(x, "none")
    <3>1. PipeInv(x, Doing(task, q)) /\ Doing(task, q) \in {"none", "reset"}
      BY PipeOf
    <3> QED BY <2>1, <3>1, SessionMoves
  <2> HIDE DEF u, v, y
  <2>9. Told(w, v)
    BY <2>6, <2>7 DEF Told
  <2>10. PipeInv(y, "none") /\ CloseCalm(x, y)
    BY <2>1, <2>4, <2>5, <2>8, <2>9, ToldKeeps
  <2>11. LaneCalm(w, v) /\ v.flushing # "pending"
    BY <2>6, <2>7 DEF LaneCalm
  <2>12. v.stage = "sleep" => v.woken
    BY <2>1, <2>6, <2>7 DEF SleepsWell
  <2> QED BY <2>4, <2>10, <2>11, <2>12 DEF y
<1>7. /\ abandoned' \in Seq(Pipes)
      /\ \A i \in DOMAIN abandoned' : \E j \in DOMAIN abandoned : abandoned[j] = abandoned'[i]
  <2>1. abandoned \in Seq(Pipes)
    BY DEF TypeOK
  <2>2. CASE abandoned' = abandoned
    BY <2>1, <2>2
  <2>3. CASE abandoned # <<>> /\ abandoned' = Tail(abandoned)
    BY <2>1, <2>3, TailMeans
  <2> QED BY <2>2, <2>3
<1>8. TypeOK'
  <2>1. lane' \in Seq(ItemType) /\ DOMAIN lane' = {}
    BY <1>1, EmptyMeans
  <2> QED BY <2>1, <1>1, <1>4, <1>5, <1>7 DEF TypeOK
<1>9. PipesInv'
  BY <1>5, <1>6 DEF PipesInv
<1>10. LaneInv'
  BY <1>1, <1>5, <1>6, LaneFails
<1>11. CloseInv'
  <2>1. \A i \in DOMAIN lane' : i \in Int /\ i + 0 \in DOMAIN lane /\ lane'[i] = lane[i + 0]
    BY <1>1, EmptyMeans
  <2>2. 0 \in Nat /\ TypeOK /\ CloseInv
    OBVIOUS
  <2>3. \A q \in Pipes : Doing(task', q) \notin Resetting
    BY <1>5 DEF Resetting
  <2> HIDE DEF IInv
  <2> QED BY <1>1, <1>6, <1>7, <2>1, <2>2, <2>3, CloseKeeps
<1>12. EntriesInv'
  BY <1>5 DEF EntriesInv, EntryInv
<1>13. SleeperInv'
  BY <1>6, SleepersWoken
<1>14. LateInv'
  BY <1>5, LateKeeps
<1> QED BY <1>8, <1>9, <1>10, <1>11, <1>12, <1>13, <1>14

-----------------------------------------------------------------------------
(***************************************************************************)
(* Steps of the session that put something on the wire or answer a flush.  *)
(***************************************************************************)

(* The head of the lane is a frame, and goes to the Gateway. *)
FrameSent(item, p) ==
    /\ item.kind # "FLUSH"
    /\ entries' = (IF EndsPipe(item) THEN entries \ {p} ELSE entries)
    /\ Sends(p, item.kind, item.n)
    /\ pipe' = NotifyWaiters(pipe)
    /\ lane' = Tail(lane)
    /\ UNCHANGED <<abandoned, received>>

(* The session takes a frame off the lane and puts it on the wire. *)
LEMMA FrameSentKeeps ==
    ASSUME IInv, At("select"), lane # <<>>, NEW item, item = Head(lane),
           NEW p, p = item.pipe, FrameSent(item, p)
    PROVE  IInv'
<1> USE DEF IInv
<1>1. /\ lane' \in Seq(ItemType) /\ Len(lane') = Len(lane) - 1 /\ Len(lane) \in Nat
      /\ DOMAIN lane = 1 .. Len(lane) /\ 1 \in DOMAIN lane /\ item = lane[1]
      /\ \A i \in DOMAIN lane' : i \in Int /\ i >= 1 /\ i + 1 \in DOMAIN lane
                                 /\ lane'[i] = lane[i + 1]
  <2> lane \in Seq(ItemType) /\ lane' = Tail(lane)
    BY DEF TypeOK, FrameSent
  <2> QED BY TailMeans
<1>2. item.pipe \in Pipes /\ item.n \in Nat /\ item.kind \in FrameKinds /\ p \in Pipes
  BY <1>1, ItemsTyped DEF FrameSent
<1> DEFINE frame == [kind |-> item.kind, n |-> item.n]
<1>3. frame \in FrameType /\ frame.kind = item.kind /\ frame.n = item.n
  BY <1>2 DEF FrameType
<1>4. /\ wire' = [wire EXCEPT ![p] = Append(@, frame)] /\ task' = Selecting
      /\ UNCHANGED <<ops, laneOpen, abandoned, received>> /\ entries' \subseteq entries
  BY DEF FrameSent, Sends
<1> HIDE DEF frame
<1>5. \A q : Doing(task, q) = "none" /\ Doing(task', q) = "none"
  BY <1>4, SelectMeans DEF At
<1>6. /\ pipe' \in [Pipes -> PipeType]
      /\ \A q \in Pipes : pipe'[q] = SetWriter(pipe[q], Notified(pipe[q].writer))
  BY NotifyMeans DEF TypeOK, FrameSent
<1>7. \A q \in Pipes :
          /\ PipeInv(pipe'[q], "none") /\ LaneCalm(pipe[q].writer, pipe'[q].writer)
          /\ CloseCalm(pipe[q], pipe'[q]) /\ SameEnd(pipe[q], pipe'[q])
          /\ Told(pipe[q].writer, pipe'[q].writer)
          /\ (pipe'[q].writer.stage = "sleep" /\ ~ pipe'[q].writer.woken) =>
                 pipe'[q].writer.flushing = "pending" /\ laneOpen'
  <2> SUFFICES ASSUME NEW q \in Pipes
               PROVE  /\ PipeInv(pipe'[q], "none") /\ LaneCalm(pipe[q].writer, pipe'[q].writer)
                      /\ CloseCalm(pipe[q], pipe'[q]) /\ SameEnd(pipe[q], pipe'[q])
                      /\ Told(pipe[q].writer, pipe'[q].writer)
                      /\ (pipe'[q].writer.stage = "sleep" /\ ~ pipe'[q].writer.woken) =>
                             pipe'[q].writer.flushing = "pending" /\ laneOpen'
    OBVIOUS
  <2>1. /\ pipe[q] \in PipeType /\ PipeInv(pipe[q], "none") /\ SleepsWell(pipe[q].writer)
        /\ pipe'[q] \in PipeType
    BY <1>5, <1>6, PipeOf
  <2> QED BY <2>1, <1>4, <1>6, NotifyKeeps
<1>8. TypeOK'
  <2>1. wire' \in [Pipes -> Seq(FrameType)]
    <3>1. wire[p] \in Seq(FrameType)
      BY <1>2 DEF TypeOK
    <3>2. Append(wire[p], frame) \in Seq(FrameType)
      BY <3>1, <1>3, AppendMeans
    <3> QED BY <3>2, <1>4 DEF TypeOK
  <2> QED BY <2>1, <1>1, <1>4, <1>6, SelectMeans DEF TypeOK
<1>9. PipesInv'
  BY <1>5, <1>7 DEF PipesInv
<1>10. LaneInv'
  <2>1. lane' = Tail(lane) /\ item.kind # "FLUSH"
    BY DEF FrameSent
  <2>2. frame.kind # "DROPPED"
    BY <1>2, <1>3 DEF FrameKinds
  <2> QED BY <2>1, <2>2, <1>3, <1>4, <1>7, LaneSends
<1>11. CloseInv'
  <2>1. \A k \in DOMAIN wire[p] : MayFollow(wire[p][k], frame)
    <3> SUFFICES ASSUME NEW k \in DOMAIN wire[p]
                 PROVE  MayFollow(wire[p][k], frame)
      OBVIOUS
    <3>1. Settled(p, wire[p][k])
      BY <1>2 DEF CloseInv, AfterClose
    <3>2. MayFollow(wire[p][k], item)
      BY <3>1, <1>1, <1>2 DEF Settled, FrameSent
    <3> QED BY <3>2, <1>3 DEF MayFollow
  <2>2. Settled(p, frame)'
    <3>1. CASE frame.kind = "CLOSE"
      <4>1. /\ pipe[p].terminal # "none" /\ pipe[p].writer.stage # "discard"
            /\ \A j \in DOMAIN lane : (j > 1 /\ lane[j].pipe = p) => lane[j].kind = "FLUSH"
        BY <3>1, <1>1, <1>3 DEF CloseInv, CloseIsLast
      <4>2. p \notin entries'
        BY <3>1, <1>3 DEF FrameSent, EndsPipe
      <4>3. pipe'[p].terminal # "none" /\ pipe'[p].writer.stage # "discard"
        BY <4>1, <1>2, <1>7 DEF SameEnd, Told
      <4>4. \A i \in DOMAIN lane' : lane'[i].pipe = p => lane'[i].kind = "FLUSH"
        <5> SUFFICES ASSUME NEW i \in DOMAIN lane', lane'[i].pipe = p
                     PROVE  lane'[i].kind = "FLUSH"
          OBVIOUS
        <5>1. i + 1 \in DOMAIN lane /\ lane'[i] = lane[i + 1] /\ i + 1 > 1
          BY <1>1
        <5> QED BY <5>1, <4>1
      <4>5. Quiet(p)'
        BY <4>2, <4>3, <1>5 DEF Quiet, Resetting
      <4> QED BY <4>4, <4>5 DEF Settled
    <3>2. CASE frame.kind # "CLOSE"
      <4>1. frame.kind \notin {"CLOSE", "DROPPED"}
        BY <3>2, <1>2, <1>3 DEF FrameKinds
      <4> QED BY <4>1 DEF Settled, MayFollow
    <3> QED BY <3>1, <3>2
  <2>3. \A i \in DOMAIN lane' : i \in Int /\ i + 1 \in DOMAIN lane /\ lane'[i] = lane[i + 1]
    BY <1>1
  <2>4. \A q \in Pipes : Doing(task', q) \notin Resetting
    BY <1>5 DEF Resetting
  <2>5. \A i \in DOMAIN abandoned' : \E j \in DOMAIN abandoned : abandoned[j] = abandoned'[i]
    BY <1>4
  <2>6. 1 \in Nat /\ TypeOK /\ CloseInv
    OBVIOUS
  <2>7. \A q \in Pipes : CloseCalm(pipe[q], pipe'[q])
    BY <1>7
  <2> HIDE DEF IInv
  <2> QED BY <2>1, <2>2, <2>3, <2>4, <2>5, <2>6, <2>7, <1>2, <1>3, <1>4, CloseSends
<1>12. EntriesInv'
  <2> SUFFICES ASSUME NEW q \in entries'
               PROVE  EntryInv(q)'
    BY DEF EntriesInv
  <2>1. EntryInv(q) /\ q \in Pipes
    BY <1>4 DEF EntriesInv, TypeOK
  <2>2. Noticed(q) => Noticed(q)'
    BY <1>4 DEF Noticed
  <2>3. /\ IsProtocolFinished(pipe'[q]) <=> IsProtocolFinished(pipe[q])
        /\ pipe'[q].terminal = pipe[q].terminal
        /\ pipe'[q].writer.stage = pipe[q].writer.stage
    BY <2>1, <1>7 DEF SameEnd, IsProtocolFinished, Told
  <2>4. q = p => ~ EndsPipe(item)
    BY DEF FrameSent
  <2>5. InLane(q, {"CLOSE", "RESET"}) => InLane(q, {"CLOSE", "RESET"})'
    <3>1. ~ (item.pipe = q /\ item.kind \in {"CLOSE", "RESET"})
      BY <2>4 DEF EndsPipe
    <3> QED BY <3>1, LaneShifted DEF FrameSent
  <2>6. IsProtocolFinished(pipe[q]) => (InLane(q, {"FIN"}) => InLane(q, {"FIN"})')
    <3>1. IsProtocolFinished(pipe[q]) => ~ (item.pipe = q /\ item.kind \in {"FIN"})
      BY <2>4 DEF EndsPipe
    <3> QED BY <3>1, LaneShifted DEF FrameSent
  <2>7. task.stage # "cleanup" /\ Doing(task, q) = "none"
    BY <1>5 DEF At
  <2> QED BY <2>1, <2>2, <2>3, <2>5, <2>6, <2>7, EntryKeeps
<1>13. SleeperInv'
  BY <1>7, SleepersTold
<1>14. LateInv'
  BY <1>4, SelectMeans, LateKeeps
<1> QED BY <1>8, <1>9, <1>10, <1>11, <1>12, <1>13, <1>14

(* A frame that the session sends by itself, of a Pipe that is not closed. *)
LEMMA SendsKeeps ==
    ASSUME IInv, NEW p \in Pipes, NEW kind \in {"RESET", "DROPPED"}, NEW n \in Nat, Sends(p, kind, n),
           pipe' = pipe, lane' = lane, received' = received, ~ ClosedOnWire(p),
           \A q \in Pipes : Doing(task, q) \in {"none", "reset"}, task.stage # "cleanup",
           entries' \subseteq entries,
           \/ abandoned' = abandoned
           \/ /\ abandoned # <<>> /\ abandoned' = Tail(abandoned)
              /\ p = Head(abandoned) /\ p \notin entries',
           NEW frame, frame = [kind |-> kind, n |-> n], Settled(p, frame)'
    PROVE  IInv'
<1> USE DEF IInv
<1>1. frame \in FrameType /\ frame.kind = kind
  BY DEF FrameType, FrameKinds
<1>2. /\ wire' = [wire EXCEPT ![p] = Append(@, frame)] /\ task' = Selecting
      /\ ops' = ops /\ laneOpen' = laneOpen
  BY DEF Sends
<1>3. \A q : Doing(task', q) = "none"
  BY <1>2, SelectMeans
<1>4. /\ abandoned' \in Seq(Pipes)
      /\ \A i \in DOMAIN abandoned' : \E j \in DOMAIN abandoned : abandoned[j] = abandoned'[i]
      /\ \A q \in entries' : Noticed(q) => Noticed(q)'
  <2>1. abandoned \in Seq(Pipes)
    BY DEF TypeOK
  <2>2. CASE abandoned' = abandoned
    BY <2>1, <2>2 DEF Noticed
  <2>3. CASE abandoned # <<>> /\ abandoned' = Tail(abandoned) /\ p = Head(abandoned) /\ p \notin entries'
    <3>1. abandoned' \in Seq(Pipes)
      BY <2>1, <2>3, TailMeans
    <3>2. /\ Head(abandoned) = abandoned[1]
          /\ \A i \in DOMAIN abandoned' : i + 1 \in DOMAIN abandoned /\ abandoned'[i] = abandoned[i + 1]
          /\ \A i \in DOMAIN abandoned :
                i = 1 \/ (i - 1 \in DOMAIN abandoned' /\ abandoned'[i - 1] = abandoned[i])
      BY <2>1, <2>3, TailMeans
    <3>3. ASSUME NEW q \in entries', Noticed(q)
          PROVE  Noticed(q)'
      <4>1. PICK i \in DOMAIN abandoned : abandoned[i] = q
        BY <3>3 DEF Noticed
      <4>2. i # 1
        BY <4>1, <3>2, <2>3
      <4>3. i - 1 \in DOMAIN abandoned' /\ abandoned'[i - 1] = q
        BY <4>1, <4>2, <3>2
      <4> QED BY <4>3 DEF Noticed
    <3> QED BY <3>1, <3>2, <3>3
  <2> QED BY <2>2, <2>3
<1>5. wire[p] \in Seq(FrameType) /\ wire'[p] = Append(wire[p], frame)
      /\ \A q \in Pipes \ {p} : wire'[q] = wire[q]
  BY <1>2 DEF TypeOK
<1>6. TypeOK'
  <2>1. Append(wire[p], frame) \in Seq(FrameType)
    BY <1>1, <1>5, AppendMeans
  <2>2. wire' \in [Pipes -> Seq(FrameType)]
    BY <2>1, <1>2 DEF TypeOK
  <2> QED BY <2>2, <1>2, <1>4, SelectMeans DEF TypeOK
<1>7. PipesInv'
  <2> SUFFICES ASSUME NEW q \in Pipes
               PROVE  PipeInv(pipe[q], "none")
    BY <1>3 DEF PipesInv
  <2>1. PipeInv(pipe[q], Doing(task, q)) /\ pipe[q] \in PipeType
    BY PipeOf
  <2> QED BY <2>1, SessionMoves
<1>8. LaneInv'
  <2>1. \A q \in Pipes : \A m \in Nat : OnWire(q, m) => OnWire(q, m)'
    <3> SUFFICES ASSUME NEW q \in Pipes, NEW m \in Nat, OnWire(q, m)
                 PROVE  OnWire(q, m)'
      OBVIOUS
    <3>1. CASE q = p
      BY <3>1, <1>1, <1>5, AppendMeans DEF OnWire
    <3>2. CASE q # p
      BY <3>2, <1>5 DEF OnWire
    <3> QED BY <3>1, <3>2
  <2>2. laneOpen
    BY DEF LaneInv, ClosedLane, TypeOK
  <2>3. \A q \in Pipes : LaneCalm(pipe[q].writer, pipe'[q].writer)
    BY CalmRefl
  <2> QED BY <2>1, <2>2, <2>3, <1>2, LaneCalmKeeps
<1>9. CloseInv'
  <2>1. \A i \in DOMAIN lane' : i \in Int /\ i + 0 \in DOMAIN lane /\ lane'[i] = lane[i + 0]
    BY ItemsTyped
  <2>2. \A q \in Pipes : CloseCalm(pipe[q], pipe'[q])
    BY CalmRefl
  <2>3. \A q \in Pipes : Doing(task', q) \notin Resetting
    BY <1>3 DEF Resetting
  <2>4. 0 \in Nat /\ TypeOK /\ CloseInv
    OBVIOUS
  <2>5. \A k \in DOMAIN wire[p] : MayFollow(wire[p][k], frame)
    BY DEF ClosedOnWire, MayFollow
  <2> HIDE DEF IInv
  <2> QED BY <2>1, <2>2, <2>3, <2>4, <2>5, <1>1, <1>2, <1>4, CloseSends
<1>10. EntriesInv'
  <2> SUFFICES ASSUME NEW q \in entries'
               PROVE  EntryInv(q)'
    BY DEF EntriesInv
  <2>1. EntryInv(q) /\ q \in Pipes /\ Doing(task, q) \notin {"fin", "finished"}
    BY DEF EntriesInv, TypeOK
  <2>2. \A kinds : InLane(q, kinds) => InLane(q, kinds)'
    BY DEF InLane
  <2> QED BY <2>1, <2>2, <1>4, EntryKeeps
<1>11. SleeperInv'
  <2>1. Full => Full'
    BY DEF Full, Holders
  <2> QED BY <2>1, <1>2, SleepersKeep
<1>12. LateInv'
  BY <1>2, SelectMeans, LateKeeps
<1> QED BY <1>6, <1>7, <1>8, <1>9, <1>10, <1>11, <1>12

(* A marker leaves the lane; its flush is answered if it still waits for it. *)
LEMMA OnFlushKeeps ==
    ASSUME IInv, OnFlush
    PROVE  IInv'
<1> USE DEF IInv
<1> DEFINE item == Head(lane)
           p == item.pipe
           x == pipe[p]
           w == x.writer
           u == Notified(w)
           current == w.flushing = "pending" /\ item.n = w.written
           v == IF current THEN Wake([u EXCEPT !.flushing = "ok"]) ELSE u
           y == SetWriter(x, v)
<1>1. /\ lane # <<>> /\ item.kind = "FLUSH" /\ lane' = Tail(lane) /\ At("select")
      /\ UNCHANGED <<ops, laneOpen, abandoned, entries, task, received, wire>>
  BY DEF OnFlush
<1>2. /\ lane' \in Seq(ItemType) /\ item = lane[1] /\ 1 \in DOMAIN lane
      /\ \A i \in DOMAIN lane' : i \in Int /\ i + 1 \in DOMAIN lane /\ lane'[i] = lane[i + 1]
  <2> lane \in Seq(ItemType)
    BY DEF TypeOK
  <2> QED BY <1>1, TailMeans
<1>3. p \in Pipes /\ item.n \in Nat
  BY <1>2, ItemsTyped
<1>4. x \in PipeType /\ w \in WriterType /\ PipeInv(x, Doing(task, p)) /\ SleepsWell(w)
  BY <1>3, PipeOf
<1>5. /\ u \in WriterType
      /\ u.waiter = "none" <=> w.waiter = "none"
      /\ u.woken = (w.woken \/ (w.waiter = "registered" /\ w.stage # "idle"))
      /\ u.op = w.op /\ u.stage = w.stage /\ u.dirty = w.dirty
      /\ u.flushing = w.flushing /\ u.written = w.written
      /\ u.confirmed = w.confirmed /\ u.gone = w.gone
  BY <1>4, NotifiedMeans
<1>6. pipe' = [NotifyWaiters(pipe) EXCEPT ![p] = y]
  <2>1. pipe' = [NotifyWaiters(pipe) EXCEPT ![p] =
                    SetWriter(pipe[p], IF u.flushing = "pending" /\ item.n = u.written
                                       THEN Wake([u EXCEPT !.flushing = "ok"]) ELSE u)]
    BY DEF OnFlush
  <2>2. current <=> (u.flushing = "pending" /\ item.n = u.written)
    BY <1>5
  <2> HIDE DEF u
  <2> QED BY <2>1, <2>2
<1> HIDE DEF u
<1>7. /\ v \in WriterType /\ Told(w, v)
      /\ v.flushing = IF current THEN "ok" ELSE w.flushing
      /\ (v.stage = "sleep" /\ ~ v.woken) => v.flushing = "pending" /\ laneOpen
  <2>1. CASE current
    <3> DEFINE z == [u EXCEPT !.flushing = "ok"]
    <3>1. /\ z \in WriterType /\ z.flushing = "ok" /\ z.waiter = u.waiter /\ z.stage = u.stage
          /\ z.op = u.op /\ z.dirty = u.dirty /\ z.written = u.written
          /\ z.confirmed = u.confirmed /\ z.gone = u.gone
      BY <1>5 DEF WriterType
    <3> HIDE DEF z
    <3>2. v = Wake(z)
      BY <2>1 DEF z
    <3>3. /\ v \in WriterType /\ v.woken = (z.stage # "idle") /\ v.flushing = "ok"
          /\ v.op = z.op /\ v.stage = z.stage /\ v.waiter = z.waiter /\ v.dirty = z.dirty
          /\ v.written = z.written /\ v.confirmed = z.confirmed /\ v.gone = z.gone
      BY <3>1, <3>2, WakeWriterMeans
    <3> HIDE DEF v
    <3> QED BY <2>1, <3>1, <3>3, <1>5 DEF Told
  <2>2. CASE ~ current
    <3>1. v = u
      BY <2>2
    <3> HIDE DEF v, current
    <3> QED BY <2>2, <3>1, <1>4, <1>5 DEF Told, SleepsWell
  <2> QED BY <2>1, <2>2
<1> HIDE DEF v
<1>8. /\ y \in PipeType /\ y.writer = v /\ y.reader = x.reader
      /\ SameBuffer(x, y) /\ SameEnd(x, y)
  BY <1>4, <1>7, SetWriterMeans
<1> HIDE DEF y
<1>9. /\ pipe' \in [Pipes -> PipeType] /\ pipe'[p] = y
      /\ \A q \in Pipes \ {p} : pipe'[q] = SetWriter(pipe[q], Notified(pipe[q].writer))
  <2>1. /\ NotifyWaiters(pipe) \in [Pipes -> PipeType]
        /\ \A q \in Pipes : NotifyWaiters(pipe)[q] = SetWriter(pipe[q], Notified(pipe[q].writer))
    BY NotifyMeans DEF TypeOK
  <2> QED BY <2>1, <1>3, <1>6, <1>8
<1>10. PipeInv(y, Doing(task, p)) /\ CloseCalm(x, y)
  BY <1>4, <1>7, <1>8, ToldKeeps
<1>11. \A q \in Pipes \ {p} :
          /\ PipeInv(pipe'[q], Doing(task, q)) /\ LaneCalm(pipe[q].writer, pipe'[q].writer)
          /\ CloseCalm(pipe[q], pipe'[q]) /\ SameEnd(pipe[q], pipe'[q])
          /\ Told(pipe[q].writer, pipe'[q].writer)
          /\ (pipe'[q].writer.stage = "sleep" /\ ~ pipe'[q].writer.woken) =>
                 pipe'[q].writer.flushing = "pending" /\ laneOpen
  <2> SUFFICES ASSUME NEW q \in Pipes \ {p}
               PROVE  /\ PipeInv(pipe'[q], Doing(task, q)) /\ LaneCalm(pipe[q].writer, pipe'[q].writer)
                      /\ CloseCalm(pipe[q], pipe'[q]) /\ SameEnd(pipe[q], pipe'[q])
                      /\ Told(pipe[q].writer, pipe'[q].writer)
                      /\ (pipe'[q].writer.stage = "sleep" /\ ~ pipe'[q].writer.woken) =>
                             pipe'[q].writer.flushing = "pending" /\ laneOpen
    OBVIOUS
  <2>1. /\ pipe[q] \in PipeType /\ PipeInv(pipe[q], Doing(task, q)) /\ SleepsWell(pipe[q].writer)
        /\ pipe'[q] \in PipeType
    BY <1>9, PipeOf
  <2> QED BY <2>1, <1>9, NotifyKeeps
<1>12. \A q \in Pipes :
          /\ PipeInv(pipe'[q], Doing(task, q))
          /\ CloseCalm(pipe[q], pipe'[q]) /\ SameEnd(pipe[q], pipe'[q])
          /\ Told(pipe[q].writer, pipe'[q].writer)
          /\ (pipe'[q].writer.stage = "sleep" /\ ~ pipe'[q].writer.woken) =>
                 pipe'[q].writer.flushing = "pending" /\ laneOpen
  BY <1>7, <1>8, <1>9, <1>10, <1>11
<1>13. TypeOK'
  BY <1>1, <1>2, <1>9 DEF TypeOK
<1>14. PipesInv'
  BY <1>1, <1>12 DEF PipesInv
<1>15. LaneInv'
  <2>1. /\ pipe'[p].writer.written = pipe[p].writer.written
        /\ pipe'[p].writer.dirty = pipe[p].writer.dirty
        /\ pipe'[p].writer.confirmed = pipe[p].writer.confirmed
        /\ pipe'[p].writer.flushing = IF current THEN "ok" ELSE pipe[p].writer.flushing
    BY <1>7, <1>8, <1>9 DEF Told
  <2>2. \A q \in Pipes \ {p} : LaneCalm(pipe[q].writer, pipe'[q].writer)
    BY <1>11
  <2> QED BY <2>1, <2>2, <1>1, LaneAnswers
<1>16. CloseInv'
  <2>1. 1 \in Nat /\ TypeOK /\ CloseInv
    OBVIOUS
  <2>2. \A i \in DOMAIN lane' : i \in Int /\ i + 1 \in DOMAIN lane /\ lane'[i] = lane[i + 1]
    BY <1>2
  <2>3. \A q \in Pipes : CloseCalm(pipe[q], pipe'[q])
    BY <1>12
  <2> HIDE DEF IInv
  <2> QED BY <2>1, <2>2, <2>3, <1>1, CloseKeeps
<1>17. EntriesInv'
  <2> SUFFICES ASSUME NEW q \in entries
               PROVE  EntryInv(q)'
    BY <1>1 DEF EntriesInv
  <2>1. EntryInv(q) /\ q \in Pipes
    BY DEF EntriesInv, TypeOK
  <2>2. Noticed(q) => Noticed(q)'
    BY <1>1 DEF Noticed
  <2>3. /\ IsProtocolFinished(pipe'[q]) <=> IsProtocolFinished(pipe[q])
        /\ pipe'[q].terminal = pipe[q].terminal
        /\ pipe'[q].writer.stage = pipe[q].writer.stage
    BY <2>1, <1>12 DEF SameEnd, IsProtocolFinished, Told
  <2>4. /\ InLane(q, {"CLOSE", "RESET"}) => InLane(q, {"CLOSE", "RESET"})'
        /\ InLane(q, {"FIN"}) => InLane(q, {"FIN"})'
    BY <1>1, LaneShifted
  <2> QED BY <2>1, <2>2, <2>3, <2>4, <1>1, EntryKeeps
<1>18. SleeperInv'
  BY <1>1, <1>12, SleepersTold
<1>19. LateInv'
  BY <1>1, LateKeeps DEF At
<1> QED BY <1>13, <1>14, <1>15, <1>16, <1>17, <1>18, <1>19

(* recv_item makes room, and a frame goes to on_outbound. *)
LEMMA OnFrameKeeps ==
    ASSUME IInv, OnFrame
    PROVE  IInv'
<1> DEFINE item == Head(lane)
           p == item.pipe
<1>1. \/ FrameSent(item, p)
      \/ FailLane /\ entries' \subseteq entries /\ UNCHANGED <<abandoned, received>>
  BY DEF OnFrame, FrameSent
<1>2. At("select") /\ lane # <<>>
  BY DEF OnFrame
<1>3. \A q \in Pipes : Doing(task, q) \in {"none", "reset"}
  BY <1>2, SelectMeans DEF At
<1>4. CASE FrameSent(item, p)
  BY <1>2, <1>4, FrameSentKeeps
<1>5. CASE FailLane /\ entries' \subseteq entries /\ UNCHANGED <<abandoned, received>>
  BY <1>3, <1>5, SessionFails
<1> QED BY <1>1, <1>4, <1>5

(* The poll goes on, and may take the notice of a Pipe that left the map. *)
LEMMA PollGoesOn ==
    ASSUME IInv, task.stage \in {"select", "late"}, task' \in TaskType,
           task'.stage \in {"select", "late"}, LateInv',
           \/ abandoned' = abandoned
           \/ /\ abandoned # <<>> /\ abandoned' = Tail(abandoned)
              /\ Head(abandoned) \notin entries,
           UNCHANGED <<ops, pipe, lane, laneOpen, entries, received, wire>>
    PROVE  IInv'
<1> USE DEF IInv
<1>1. abandoned \in Seq(Pipes)
  BY DEF TypeOK
<1>2. /\ abandoned' \in Seq(Pipes)
      /\ \A i \in DOMAIN abandoned' : \E j \in DOMAIN abandoned : abandoned'[i] = abandoned[j]
      /\ \A i \in DOMAIN abandoned :
            \/ abandoned[i] \notin entries
            \/ \E j \in DOMAIN abandoned' : abandoned'[j] = abandoned[i]
  <2>1. CASE abandoned' = abandoned
    BY <1>1, <2>1
  <2>2. CASE /\ abandoned # <<>> /\ abandoned' = Tail(abandoned)
             /\ Head(abandoned) \notin entries
    BY <1>1, <2>2, TailMeans
  <2> QED BY <2>1, <2>2
<1>0. \A q : Doing(task, q) = "none" /\ Doing(task', q) = "none"
  BY DEF Doing, HandlerStages
<1>3. TypeOK'
  BY <1>2 DEF TypeOK
<1>4. PipesInv'
  BY <1>0 DEF PipesInv
<1>5. LaneInv'
  BY DEF LaneInv, ClosedLane, Numbered, MarkersBehind, FlushInv, OnWire, Queued
<1>6. CloseInv'
  <2>1. AbandonedInv'
    <3> SUFFICES ASSUME NEW i \in DOMAIN abandoned', NEW q, q = abandoned'[i]
                 PROVE  Dropped(q)'
      BY DEF AbandonedInv, Dropped, InLane
    <3>1. Dropped(q)
      BY <1>2 DEF CloseInv, AbandonedInv
    <3> QED BY <3>1 DEF Dropped, InLane
  <2>2. CloseIsLast' /\ NothingAfterClose'
    BY DEF CloseInv, CloseIsLast, NothingAfterClose, MayFollow
  <2>3. \A p \in Pipes : AfterClose(p)'
    BY <1>0 DEF CloseInv, AfterClose, Settled, Quiet, MayFollow
  <2> QED BY <2>1, <2>2, <2>3 DEF CloseInv
<1>7. EntriesInv'
  <2> SUFFICES ASSUME NEW q \in entries
               PROVE  EntryInv(q)'
    BY DEF EntriesInv
  <2>1. EntryInv(q)
    BY DEF EntriesInv
  <2>2. Noticed(q) => Noticed(q)'
    <3> SUFFICES ASSUME NEW i \in DOMAIN abandoned, abandoned[i] = q
                 PROVE  \E j \in DOMAIN abandoned' : abandoned'[j] = q
      BY DEF Noticed
    <3> QED BY <1>2
  <2>3. \A kinds : InLane(q, kinds) => InLane(q, kinds)'
    BY DEF InLane
  <2> QED BY <2>1, <2>2, <2>3, <1>0, EntryKeeps
<1>8. SleeperInv'
  BY DEF SleeperInv, Full, Holders
<1> QED BY <1>3, <1>4, <1>5, <1>6, <1>7, <1>8

(* The lane is empty, and the poll goes on to the notices. *)
LEMMA FindsLaneEmptyKeeps ==
    ASSUME IInv, FindsLaneEmpty
    PROVE  IInv'
<1>1. /\ task.stage = "select" /\ lane = <<>>
      /\ task' = [stage |-> "late", seen |-> [p \in Pipes |-> pipe[p].writer.written]]
      /\ UNCHANGED <<ops, pipe, lane, laneOpen, abandoned, entries, received, wire>>
  BY DEF FindsLaneEmpty, At
<1>2. \A p \in Pipes : pipe[p].writer.written \in Nat
  BY PipeOf DEF WriterType
<1>3. task'.stage = "late" /\ task'.seen = [p \in Pipes |-> pipe[p].writer.written]
  BY <1>1
<1>4. task' \in TaskType
  BY <1>1, <1>2 DEF TaskType
<1>5. LateInv'
  <2>1. DOMAIN lane' = {}
    BY <1>1, EmptyMeans
  <2>2. \A p \in Pipes : task'.seen[p] <= pipe'[p].writer.written
    BY <1>1, <1>2, <1>3
  <2> QED BY <2>1, <2>2 DEF LateInv
<1> QED BY <1>1, <1>3, <1>4, <1>5, PollGoesOn

(* No notice either. *)
LEMMA FindsNothingKeeps ==
    ASSUME IInv, FindsNothing
    PROVE  IInv'
<1>1. /\ task.stage = "late" /\ task' = Selecting
      /\ UNCHANGED <<ops, pipe, lane, laneOpen, abandoned, entries, received, wire>>
  BY DEF FindsNothing, At
<1>2. LateInv'
  BY <1>1, SelectMeans DEF LateInv
<1> QED BY <1>1, <1>2, SelectMeans, PollGoesOn

(* on_abandoned: only what was written since the lane was empty follows. *)
LEMMA OnAbandonedKeeps ==
    ASSUME IInv, OnAbandoned
    PROVE  IInv'
<1>0. PICK p, n : p = Head(abandoned) /\ n = task.seen[p]
  OBVIOUS
<1>1. /\ At("late") /\ abandoned # <<>> /\ abandoned' = Tail(abandoned)
      /\ entries' = entries \ {p} /\ received' = received
      /\ \/ p \in entries /\ FailLane
         \/ p \in entries /\ Sends(p, "DROPPED", n) /\ UNCHANGED <<pipe, lane>>
         \/ p \notin entries /\ task' = Selecting /\ UNCHANGED <<ops, pipe, lane, laneOpen, wire>>
  BY <1>0 DEF OnAbandoned
<1>2. \A q : Doing(task, q) = "none"
  BY <1>1, SelectMeans DEF At
<1>3. CASE p \in entries /\ FailLane
  BY <1>1, <1>2, <1>3, SessionFails
<1>4. CASE p \in entries /\ Sends(p, "DROPPED", n) /\ UNCHANGED <<pipe, lane>>
  <2>1. p \in Pipes /\ 1 \in DOMAIN abandoned /\ p = abandoned[1]
    <3>1. abandoned \in Seq(Pipes) /\ entries \subseteq Pipes
      BY DEF IInv, TypeOK
    <3> QED BY <3>1, <1>0, <1>1, TailMeans
  <2>2. ~ ClosedOnWire(p)
    BY <2>1, <1>4 DEF IInv, CloseInv, AfterClose, Settled, Quiet, ClosedOnWire
  <2>3. Dropped(p)
    BY <2>1 DEF IInv, CloseInv, AbandonedInv
  <2>4. n \in Nat
    <3>1. task.seen \in [Pipes -> Nat]
      BY <1>1 DEF At, IInv, TypeOK, TaskType, EarlyType, HandlerStages
    <3> QED BY <3>1, <2>1, <1>0
  <2>5. task' = Selecting
    BY <1>4 DEF Sends
  <2>6. PICK frame : frame = [kind |-> "DROPPED", n |-> n]
    OBVIOUS
  <2>7. Settled(p, frame)'
    <3>1. Quiet(p)'
      BY <2>3, <2>5, <1>1, <1>4, SelectMeans DEF Dropped, Quiet, Resetting
    <3>2. ASSUME NEW i \in DOMAIN lane, lane[i].pipe = p, lane[i].kind # "FLUSH"
          PROVE  MayFollow(frame, lane[i])
      <4>1. lane[i].n > n
        BY <3>2, <1>0, <1>1 DEF At, IInv, LateInv
      <4>2. lane[i].kind \in {"DATA", "FIN"}
        <5>1. lane[i].kind \in FrameKinds \union {"FLUSH"}
          BY ItemsTyped DEF IInv
        <5> QED BY <5>1, <3>2, <2>3 DEF Dropped, InLane, FrameKinds
      <4> QED BY <4>1, <4>2, <2>6 DEF MayFollow
    <3> QED BY <3>1, <3>2, <1>4, <2>6 DEF Settled, MayFollow
  <2>8. task.stage # "cleanup"
    BY <1>1 DEF At
  <2> QED BY <2>1, <2>2, <2>4, <2>6, <2>7, <2>8, <1>0, <1>1, <1>2, <1>4, SendsKeeps
<1>5. CASE p \notin entries /\ task' = Selecting /\ UNCHANGED <<ops, pipe, lane, laneOpen, wire>>
  <2>1. entries' = entries
    BY <1>1, <1>5
  <2>2. LateInv'
    BY <1>5, SelectMeans DEF LateInv
  <2> QED BY <2>1, <2>2, <1>0, <1>1, <1>5, SelectMeans, PollGoesOn DEF At
<1> QED BY <1>1, <1>3, <1>4, <1>5

(* The session's connection breaks. *)
LEMMA SessionBreaksKeeps ==
    ASSUME IInv, SessionBreaks
    PROVE  IInv'
<1>1. \A q \in Pipes : Doing(task, q) \in {"none", "reset"}
  BY SelectMeans DEF SessionBreaks, At
<1> QED BY <1>1, SessionFails DEF SessionBreaks

-----------------------------------------------------------------------------
(***************************************************************************)
(* The handlers of the session task.                                       *)
(***************************************************************************)

(* The session is in one handler, for one Pipe. *)
LEMMA TaskMeans ==
    ASSUME NEW p \in Pipes
    PROVE  /\ \A s \in HandlerStages :
                 /\ Handling(s, p) \in EarlyType /\ Handling(s, p).stage = s
                 /\ Doing(Handling(s, p), p) = s
                 /\ \A q \in Pipes \ {p} : Doing(Handling(s, p), q) = "none"
           /\ \A s \in HandlerStages : AtPipe(s, p) =>
                 /\ Doing(task, p) = s /\ task.stage # "cleanup"
                 /\ \A q \in Pipes \ {p} : Doing(task, q) = "none"
           /\ At("select") => task.stage # "cleanup" /\ \A q \in Pipes : Doing(task, q) = "none"
           /\ At("cleanup") => \A q \in Pipes : Doing(task, q) = "none"
BY DEF Handling, EarlyType, HandlerStages, Doing, AtPipe, At

(* A writer that is at most woken. *)
LEMMA WriterWoken ==
    ASSUME NEW w \in WriterType, NEW v \in {w, Wake(w)}
    PROVE  /\ LaneCalm(w, v) /\ (SleepsWell(v) \/ v = w)
           /\ v.stage = w.stage /\ v.gone = w.gone
<1>1. CASE v = w
  BY <1>1 DEF LaneCalm
<1>2. CASE v = Wake(w)
  <2>1. /\ v.woken = (w.stage # "idle") /\ v.stage = w.stage /\ v.gone = w.gone
        /\ v.written = w.written /\ v.flushing = w.flushing /\ v.dirty = w.dirty
        /\ v.confirmed = w.confirmed
    BY <1>2, WakeWriterMeans
  <2> QED BY <2>1 DEF LaneCalm, SleepsWell
<1> QED BY <1>1, <1>2

(* A handler goes on: Pipe p becomes y, the session goes to t. *)
LEMMA HandlerMoves ==
    ASSUME IInv, NEW p \in Pipes, NEW x, x = pipe[p], NEW y \in PipeType, NEW left, NEW t \in EarlyType,
           Continue(p, y, left, t), received' \in Nat, left \subseteq entries,
           task.stage = "cleanup" => t.stage = "cleanup",
           \A q \in Pipes \ {p} : Doing(task, q) = "none" /\ Doing(t, q) = "none",
           NEW b, b = Doing(task, p), NEW b2, b2 = Doing(t, p), PipeInv(y, b2),
           y.writer \in {x.writer, Wake(x.writer)}, x.terminal # "none" => y.terminal # "none",
           x.localFin => y.localFin, x.remoteFin => y.remoteFin,
           b2 \in Resetting => b \in Resetting \/ p \in entries,
           p \in left =>
               /\ y.terminal # "none" => x.terminal # "none" \/ IsProtocolFinished(y)
               /\ IsProtocolFinished(y) =>
                      \/ IsProtocolFinished(x) /\ b \notin {"fin", "finished"}
                      \/ b2 \in {"fin", "finished"}
    PROVE  IInv'
<1>1. /\ pipe' = [pipe EXCEPT ![p] = y] /\ entries' = left /\ task' = t
      /\ UNCHANGED <<ops, lane, laneOpen, abandoned, wire>>
  BY DEF Continue
<1>2. x.writer \in WriterType
  BY PipeOf
<1>3. /\ LaneCalm(x.writer, y.writer) /\ (SleepsWell(y.writer) \/ y.writer = x.writer)
      /\ y.writer.stage = x.writer.stage /\ y.writer.gone = x.writer.gone
  BY <1>2, WriterWoken
<1>4. CloseCalm(x, y)
  BY <1>3 DEF CloseCalm
<1>5. IsProtocolFinished(x) => IsProtocolFinished(y)
  BY DEF IsProtocolFinished
<1> QED BY <1>1, <1>3, <1>4, <1>5, PipeMoves

(* A handler that leaves the Pipe as it is. *)
LEMMA StayKeeps ==
    ASSUME IInv, NEW p \in Pipes, NEW left, NEW t \in EarlyType, Continue(p, pipe[p], left, t),
           received' \in Nat, left \subseteq entries,
           task.stage = "cleanup" => t.stage = "cleanup",
           \A q \in Pipes \ {p} : Doing(task, q) = "none" /\ Doing(t, q) = "none",
           NEW b, b = Doing(task, p), NEW b2, b2 = Doing(t, p), PipeInv(pipe[p], b2),
           b2 \in Resetting => b \in Resetting \/ p \in entries,
           p \in left => \/ b \notin {"fin", "finished"} \/ ~ IsProtocolFinished(pipe[p])
                         \/ b2 \in {"fin", "finished"}
    PROVE  IInv'
<1>1. pipe[p] \in PipeType
  BY PipeOf
<1> QED BY <1>1, HandlerMoves

(* on_data refuses a chunk: the Pipe is failed and the Gateway told. *)
LEMMA RejectKeeps ==
    ASSUME IInv, NEW p \in Pipes, RejectData(p), received' \in Nat,
           \A q \in Pipes \ {p} : Doing(task, q) = "none", task.stage # "cleanup",
           \/ Doing(task, p) = "none" /\ p \in entries
           \/ Doing(task, p) = "push"
    PROVE  IInv'
<1> DEFINE x == pipe[p]
           b == Doing(task, p)
<1>1. x \in PipeType /\ PipeInv(x, b)
  BY PipeOf
<1>2. {"reject", "reset"} \subseteq HandlerStages
  BY DEF HandlerStages
<1>3. CASE x.terminal = "none" /\ Continue(p, BeginFail(x, "session"), entries \ {p}, Handling("reject", p))
  <2> DEFINE y == BeginFail(x, "session")
  <2>1. /\ y \in PipeType /\ y.terminal = "failed" /\ y.ender = "session"
        /\ y.writer = x.writer /\ y.reader = x.reader
        /\ y.remoteFin = x.remoteFin /\ y.localFin = x.localFin /\ SameBuffer(x, y)
    BY <1>1, BeginFailMeans
  <2> HIDE DEF y
  <2>2. x.writer.gone => x.writer.stage = "idle"
    BY <1>1 DEF PipeInv, HalvesInv
  <2>3. PipeInv(y, "reject")
    BY <1>1, <1>3, <2>1, <2>2, FailBegins
  <2>4. "reject" \in Resetting => b \in Resetting \/ p \in entries
    BY DEF Resetting
  <2>5. Continue(p, y, entries \ {p}, Handling("reject", p))
    BY <1>3 DEF y
  <2> QED BY <1>2, <2>1, <2>3, <2>4, <2>5, TaskMeans, HandlerMoves
<1>4. CASE x.terminal # "none" /\ Continue(p, x, entries \ {p}, Handling("reset", p))
  <2>1. PipeInv(x, "reset")
    BY <1>1, SessionMoves
  <2>2. "reset" \in Resetting => b \in Resetting \/ p \in entries
    BY DEF Resetting
  <2> QED BY <1>2, <1>4, <2>1, <2>2, TaskMeans, StayKeeps
<1> QED BY <1>3, <1>4 DEF RejectData

(* A DATA frame arrives. *)
LEMMA OnDataKeeps ==
    ASSUME IInv, NEW p \in Pipes, At("select"), OnData(p), received' \in Nat
    PROVE  IInv'
<1> DEFINE x == pipe[p]
           takes == p \in entries /\ x.terminal = "none"
<1>1. x \in PipeType /\ PipeInv(x, Doing(task, p))
  BY PipeOf
<1>2. task.stage # "cleanup" /\ \A q \in Pipes : Doing(task, q) = "none"
  BY TaskMeans
<1>3. CASE ~ takes /\ Stay(p, Selecting)
  BY <1>1, <1>2, <1>3, SelectMeans, StayKeeps DEF Stay, Resetting
<1>4. CASE takes /\ x.remoteFin /\ RejectData(p)
  BY <1>2, <1>4, RejectKeeps
<1>5. CASE takes /\ ~ x.remoteFin /\ Stay(p, Handling("push", p))
  <2>1. PipeInv(x, "push")
    BY <1>1, <1>2, <1>5, SessionMoves
  <2>2. "push" \in HandlerStages
    BY DEF HandlerStages
  <2> QED BY <1>2, <1>5, <2>1, <2>2, TaskMeans, StayKeeps DEF Stay
<1> QED BY <1>3, <1>4, <1>5 DEF OnData

(* A chunk is pushed. *)
LEMMA ChunkMeans ==
    ASSUME NEW x \in PipeType, NEW r \in ReaderType
    PROVE  LET y == [x EXCEPT !.chunks = @ + 1, !.pushed = @ + ChunkBytes, !.reader = r]
           IN  /\ y \in PipeType /\ y.rxClosed = x.rxClosed /\ y.chunks = x.chunks + 1
               /\ y.current = x.current /\ y.pushed = x.pushed + ChunkBytes /\ y.taken = x.taken
               /\ SameEnd(x, y) /\ y.writer = x.writer /\ y.reader = r
<1>1. x.chunks + 1 \in Nat /\ x.pushed + ChunkBytes \in Nat
  BY ConstantsMean DEF PipeType
<1> QED BY <1>1 DEF PipeType, SameEnd

(* push_data: the chunk is buffered, or refused and the Pipe failed. *)
LEMMA PushDataKeeps ==
    ASSUME IInv, NEW p \in Pipes, PushData(p)
    PROVE  IInv'
<1> DEFINE x == pipe[p]
           y == [x EXCEPT !.chunks = @ + 1, !.pushed = @ + ChunkBytes, !.reader = Wake(@)]
<1>1. x \in PipeType /\ PipeInv(x, Doing(task, p))
  BY PipeOf
<1>2. /\ Doing(task, p) = "push" /\ task.stage # "cleanup"
      /\ \A q \in Pipes \ {p} : Doing(task, q) = "none"
  <2>1. "push" \in HandlerStages
    BY DEF HandlerStages
  <2> QED BY <2>1, TaskMeans DEF PushData
<1>3. received' \in Nat
  BY DEF PushData, IInv, TypeOK
<1>4. CASE RejectData(p)
  BY <1>2, <1>3, <1>4, RejectKeeps
<1>5. CASE ~ x.rxClosed /\ Continue(p, y, entries, Selecting)
  <2>1. /\ y \in PipeType /\ y.rxClosed = x.rxClosed /\ y.chunks = x.chunks + 1
        /\ y.current = x.current /\ y.pushed = x.pushed + ChunkBytes /\ y.taken = x.taken
        /\ SameEnd(x, y) /\ y.writer = x.writer /\ y.reader = Wake(x.reader)
    <3>1. Wake(x.reader) \in ReaderType
      BY <1>1, HalvesTyped, WakeReaderMeans
    <3> QED BY <1>1, <3>1, ChunkMeans
  <2> HIDE DEF y
  <2>2. PipeInv(y, "none")
    BY <1>1, <1>2, <1>5, <2>1, ChunkPushed
  <2>3. /\ y.terminal = x.terminal /\ y.localFin = x.localFin /\ y.remoteFin = x.remoteFin
        /\ IsProtocolFinished(y) <=> IsProtocolFinished(x)
    BY <2>1 DEF SameEnd, IsProtocolFinished
  <2> QED BY <1>2, <1>3, <1>5, <2>1, <2>2, <2>3, SelectMeans, HandlerMoves DEF Resetting
<1>6. RejectData(p) \/ (~ x.rxClosed /\ Continue(p, y, entries, Selecting))
  BY DEF PushData
<1> QED BY <1>4, <1>5, <1>6

(* fail has the lock of the read buffer. *)
LEMMA SessionDiscardsKeeps ==
    ASSUME IInv, NEW p \in Pipes, SessionDiscards(p)
    PROVE  IInv'
<1> DEFINE x == pipe[p]
           b == Doing(task, p)
           y == EndFail(x)
<1>1. x \in PipeType /\ PipeInv(x, b)
  BY PipeOf
<1>2. PICK s \in {"reject", "discard"} : AtPipe(s, p)
  BY DEF SessionDiscards
<1>3. /\ b = s /\ task.stage # "cleanup" /\ \A q \in Pipes \ {p} : Doing(task, q) = "none"
  <2>1. s \in HandlerStages
    BY DEF HandlerStages
  <2> QED BY <1>2, <2>1, TaskMeans
<1>4. PICK t \in {Handling("reset", p), Selecting} :
          /\ Continue(p, y, entries, t)
          /\ t = Handling("reset", p) => b = "reject"
  <2>1. \/ AtPipe("reject", p) /\ Continue(p, y, entries, Handling("reset", p))
        \/ Continue(p, y, entries, Selecting) /\ Selecting # Handling("reset", p)
    BY DEF SessionDiscards, Selecting, Handling
  <2>2. AtPipe("reject", p) => b = "reject"
    <3>1. "reject" \in HandlerStages
      BY DEF HandlerStages
    <3> QED BY <3>1, TaskMeans
  <2> QED BY <2>1, <2>2
<1>5. /\ t \in EarlyType /\ \A q \in Pipes \ {p} : Doing(t, q) = "none"
      /\ Doing(t, p) \in {"reset", "none"} /\ (Doing(t, p) = "reset" => b = "reject")
  <2>1. "reset" \in HandlerStages
    BY DEF HandlerStages
  <2>2. CASE t = Handling("reset", p)
    BY <1>4, <2>1, <2>2, TaskMeans
  <2>3. CASE t = Selecting
    BY <2>3, SelectMeans
  <2> QED BY <2>2, <2>3
<1>6. x.terminal = "failed" /\ x.reader.stage # "check"
  BY <1>1, <1>3 DEF PipeInv, EnderKnown, Fails, SessionDiscards, ReaderLocks
<1>7. /\ y \in PipeType /\ y.chunks = 0 /\ y.current = 0 /\ y.rxClosed
      /\ y.pushed = x.pushed /\ y.taken = x.taken
      /\ y.writer = Wake(x.writer) /\ y.reader = Wake(x.reader) /\ SameEnd(x, y)
  BY <1>1, EndFailMeans
<1> HIDE DEF y
<1>8. PipeInv(y, Doing(t, p))
  BY <1>1, <1>5, <1>6, <1>7, FailEnds
<1>9. /\ y.terminal = x.terminal /\ y.localFin = x.localFin /\ y.remoteFin = x.remoteFin
      /\ IsProtocolFinished(y) <=> IsProtocolFinished(x)
  BY <1>7 DEF SameEnd, IsProtocolFinished
<1>10. Doing(t, p) \in Resetting => b \in Resetting
  BY <1>5 DEF Resetting
<1>11. received' \in Nat /\ b \notin {"fin", "finished"}
  BY <1>3 DEF SessionDiscards, IInv, TypeOK
<1> QED BY <1>3, <1>4, <1>5, <1>7, <1>8, <1>9, <1>10, <1>11, HandlerMoves

(* The session answers refused data with a RESET, or breaks. *)
LEMMA SendResetKeeps ==
    ASSUME IInv, NEW p \in Pipes, SendReset(p)
    PROVE  IInv'
<1>1. /\ Doing(task, p) = "reset" /\ task.stage # "cleanup"
      /\ \A q \in Pipes : Doing(task, q) \in {"none", "reset"}
  <2>1. "reset" \in HandlerStages
    BY DEF HandlerStages
  <2> QED BY <2>1, TaskMeans DEF SendReset
<1>2. CASE Sends(p, "RESET", 0) /\ UNCHANGED <<pipe, lane>>
  <2>1. ~ ClosedOnWire(p)
    BY <1>1 DEF IInv, CloseInv, AfterClose, Settled, Quiet, Resetting, ClosedOnWire
  <2>2. PICK frame : frame = [kind |-> "RESET", n |-> 0]
    OBVIOUS
  <2>3. Settled(p, frame)'
    <3>1. frame.kind = "RESET"
      BY <2>2
    <3> QED BY <3>1 DEF Settled, MayFollow
  <2> QED BY <1>1, <1>2, <2>1, <2>2, <2>3, SendsKeeps DEF SendReset
<1>3. CASE FailLane
  BY <1>1, <1>3, SessionFails DEF SendReset
<1> QED BY <1>2, <1>3 DEF SendReset

(* A FIN frame arrives. *)
LEMMA OnFinKeeps ==
    ASSUME IInv, NEW p \in Pipes, At("select"), OnFin(p), received' \in Nat
    PROVE  IInv'
<1> DEFINE x == pipe[p]
           y == [x EXCEPT !.remoteFin = TRUE, !.reader = Wake(@)]
<1>1. x \in PipeType /\ PipeInv(x, "none") /\ x.reader \in ReaderType
  BY PipeOf, TaskMeans
<1>2. task.stage # "cleanup" /\ \A q \in Pipes : Doing(task, q) = "none"
  BY TaskMeans
<1>3. CASE Stay(p, Selecting)
  BY <1>1, <1>2, <1>3, SelectMeans, StayKeeps DEF Stay, Resetting
<1>4. CASE Continue(p, y, entries, Handling("fin", p))
  <2>1. /\ y \in PipeType /\ SameBuffer(x, y) /\ y.terminal = x.terminal /\ y.ender = x.ender
        /\ y.localFin = x.localFin /\ y.remoteFin /\ y.writer = x.writer /\ y.reader = Wake(x.reader)
    <3>1. Wake(x.reader) \in ReaderType
      BY <1>1, WakeReaderMeans
    <3> QED BY <1>1, <3>1 DEF PipeType, SameBuffer
  <2> HIDE DEF y
  <2>2. PipeInv(y, "fin")
    BY <1>1, <2>1, FinArrives
  <2>3. "fin" \in HandlerStages /\ "fin" \notin Resetting
    BY DEF HandlerStages, Resetting
  <2> QED BY <1>2, <1>4, <2>1, <2>2, <2>3, TaskMeans, HandlerMoves
<1> QED BY <1>3, <1>4 DEF OnFin

(* CloseNormal, whatever the Pipe was. *)
LEMMA CloseNormalAny ==
    ASSUME NEW x \in PipeType, NEW by \in {"local", "remote", "session", "fins"}, NEW b,
           PipeInv(x, b), b # "push"
    PROVE  LET y == CloseNormal(x, by)
           IN  /\ y \in PipeType /\ PipeInv(y, b) /\ y.terminal # "none"
               /\ y.writer \in {x.writer, Wake(x.writer)}
               /\ y.localFin = x.localFin /\ y.remoteFin = x.remoteFin
               /\ y.writer.stage = x.writer.stage
<1>1. CASE x.terminal = "none"
  BY <1>1, CloseNormalMeans, CloseNormalKeeps, HalvesTyped, WakeWriterMeans
<1>2. CASE x.terminal # "none"
  <2>1. CloseNormal(x, by) = x
    BY <1>2 DEF CloseNormal
  <2> QED BY <1>2, <2>1
<1> QED BY <1>1, <1>2

(* remote_fin marks the FIN and closes the Pipe if it is the second. *)
LEMMA RemoteFinKeeps ==
    ASSUME IInv, NEW p \in Pipes, RemoteFin(p)
    PROVE  IInv'
<1> DEFINE x == pipe[p]
           y == IF x.localFin THEN CloseNormal(x, "fins") ELSE x
<1>1. /\ Doing(task, p) = "fin" /\ task.stage # "cleanup"
      /\ \A q \in Pipes \ {p} : Doing(task, q) = "none"
  <2>1. "fin" \in HandlerStages
    BY DEF HandlerStages
  <2> QED BY <2>1, TaskMeans DEF RemoteFin
<1>2. x \in PipeType /\ PipeInv(x, "fin")
  BY <1>1, PipeOf
<1>3. Continue(p, y, entries, Handling("finished", p)) /\ received' \in Nat
  BY DEF RemoteFin, IInv, TypeOK
<1>4. /\ y \in PipeType /\ PipeInv(y, "fin") /\ (x.localFin => y.terminal # "none")
      /\ y.writer \in {x.writer, Wake(x.writer)}
      /\ y.localFin = x.localFin /\ y.remoteFin = x.remoteFin
      /\ ~ x.localFin => y = x
  BY <1>2, CloseNormalAny
<1> HIDE DEF y
<1>5. PipeInv(y, "finished")
  BY <1>4, SessionMoves
<1>6. x.remoteFin
  BY <1>2 DEF PipeInv, FinInv
<1>7. x.terminal # "none" => y.terminal # "none"
  BY <1>4
<1>8. y.terminal # "none" => x.terminal # "none" \/ IsProtocolFinished(y)
  BY <1>4, <1>6 DEF IsProtocolFinished
<1>9. "finished" \in HandlerStages /\ "finished" \notin Resetting
  BY DEF HandlerStages, Resetting
<1> QED BY <1>1, <1>3, <1>4, <1>5, <1>7, <1>8, <1>9, TaskMeans, HandlerMoves

(* The session removes a Pipe that both FINs finished. *)
LEMMA FinishedKeeps ==
    ASSUME IInv, NEW p \in Pipes, FinFinished(p)
    PROVE  IInv'
<1> DEFINE x == pipe[p]
           left == IF IsProtocolFinished(x) THEN entries \ {p} ELSE entries
<1>1. /\ Doing(task, p) = "finished" /\ task.stage # "cleanup"
      /\ \A q \in Pipes \ {p} : Doing(task, q) = "none"
  <2>1. "finished" \in HandlerStages
    BY DEF HandlerStages
  <2> QED BY <2>1, TaskMeans DEF FinFinished
<1>2. x \in PipeType /\ PipeInv(x, "finished")
  BY <1>1, PipeOf
<1>3. PipeInv(x, "none")
  BY <1>2, SessionMoves
<1>4. Continue(p, x, left, Selecting) /\ received' \in Nat
  BY DEF FinFinished, IInv, TypeOK
<1>5. left \subseteq entries /\ (p \in left => ~ IsProtocolFinished(x))
  OBVIOUS
<1> HIDE DEF left
<1> QED BY <1>1, <1>3, <1>4, <1>5, SelectMeans, StayKeeps DEF Resetting

(* A CLOSE frame ends the Pipe and its entry. *)
LEMMA OnCloseKeeps ==
    ASSUME IInv, NEW p \in Pipes, At("select"), OnClose(p), received' \in Nat
    PROVE  IInv'
<1> DEFINE x == pipe[p]
           y == CloseNormal(x, "remote")
<1>1. x \in PipeType /\ PipeInv(x, "none")
  BY PipeOf, TaskMeans
<1>2. task.stage # "cleanup" /\ \A q \in Pipes : Doing(task, q) = "none"
  BY TaskMeans
<1>3. CASE Stay(p, Selecting)
  BY <1>1, <1>2, <1>3, SelectMeans, StayKeeps DEF Stay, Resetting
<1>4. CASE Continue(p, y, entries \ {p}, Selecting)
  <2>1. /\ y \in PipeType /\ PipeInv(y, "none") /\ y.terminal # "none"
        /\ y.writer \in {x.writer, Wake(x.writer)}
        /\ y.localFin = x.localFin /\ y.remoteFin = x.remoteFin
    BY <1>1, CloseNormalAny
  <2> HIDE DEF y
  <2> QED BY <1>2, <1>4, <2>1, SelectMeans, HandlerMoves DEF Resetting
<1> QED BY <1>3, <1>4 DEF OnClose

(* A RESET frame fails the Pipe and removes its entry. *)
LEMMA OnResetKeeps ==
    ASSUME IInv, NEW p \in Pipes, At("select"), OnReset(p), received' \in Nat
    PROVE  IInv'
<1> DEFINE x == pipe[p]
           y == BeginFail(x, "remote")
<1>1. x \in PipeType /\ PipeInv(x, "none")
  BY PipeOf, TaskMeans
<1>2. task.stage # "cleanup" /\ \A q \in Pipes : Doing(task, q) = "none"
  BY TaskMeans
<1>3. CASE Continue(p, x, entries \ {p}, Selecting)
  BY <1>1, <1>2, <1>3, SelectMeans, StayKeeps DEF Resetting
<1>4. CASE x.terminal = "none" /\ Continue(p, y, entries \ {p}, Handling("discard", p))
  <2>1. /\ y \in PipeType /\ y.terminal = "failed" /\ y.ender = "remote"
        /\ y.writer = x.writer /\ y.reader = x.reader
        /\ y.remoteFin = x.remoteFin /\ y.localFin = x.localFin /\ SameBuffer(x, y)
    BY <1>1, BeginFailMeans
  <2> HIDE DEF y
  <2>2. x.writer.gone => x.writer.stage = "idle"
    BY <1>1 DEF PipeInv, HalvesInv
  <2>3. PipeInv(y, "discard")
    BY <1>1, <1>4, <2>1, <2>2, FailBegins
  <2>4. "discard" \in HandlerStages /\ "discard" \notin Resetting
    BY DEF HandlerStages, Resetting
  <2> QED BY <1>2, <1>4, <2>1, <2>3, <2>4, TaskMeans, HandlerMoves
<1> QED BY <1>3, <1>4 DEF OnReset

(* Every frame that arrives, one for a Pipe without an entry included. *)
LEMMA OnInboundKeeps ==
    ASSUME IInv, NEW p \in Pipes, OnInbound(p)
    PROVE  IInv'
<1>1. At("select") /\ received' \in Nat
  BY DEF OnInbound, IInv, TypeOK
<1>2. OnData(p) \/ OnFin(p) \/ OnClose(p) \/ OnReset(p)
  BY DEF OnInbound
<1> QED BY <1>1, <1>2, OnDataKeeps, OnFinKeeps, OnCloseKeeps, OnResetKeeps

(* The end of the session fails a Pipe that is left. *)
LEMMA CleanupPipeKeeps ==
    ASSUME IInv, NEW p \in Pipes, CleanupPipe(p)
    PROVE  IInv'
<1> DEFINE x == pipe[p]
           z == BeginFail(x, "session")
           y == EndFail(z)
<1>1. At("cleanup") /\ received' \in Nat /\ task \in EarlyType
  BY DEF At, CleanupPipe, IInv, TypeOK, TaskType
<1>2. \A q \in Pipes : Doing(task, q) = "none"
  BY <1>1, TaskMeans
<1>3. x \in PipeType /\ PipeInv(x, "none")
  BY <1>2, PipeOf
<1>4. CASE Continue(p, x, entries \ {p}, task)
  BY <1>1, <1>2, <1>3, <1>4, StayKeeps DEF Resetting
<1>5. CASE x.terminal = "none" /\ ~ ReaderLocks(x) /\ Continue(p, y, entries \ {p}, task)
  <2>1. /\ z \in PipeType /\ z.terminal = "failed" /\ z.ender = "session"
        /\ z.writer = x.writer /\ z.reader = x.reader
        /\ z.remoteFin = x.remoteFin /\ z.localFin = x.localFin /\ SameBuffer(x, z)
    BY <1>3, BeginFailMeans
  <2> HIDE DEF z
  <2>2. /\ y \in PipeType /\ y.chunks = 0 /\ y.current = 0 /\ y.rxClosed
        /\ y.pushed = z.pushed /\ y.taken = z.taken
        /\ y.writer = Wake(z.writer) /\ y.reader = Wake(z.reader) /\ SameEnd(z, y)
    BY <2>1, EndFailMeans
  <2> HIDE DEF y
  <2>3. PipeInv(z, "discard")
    <3>1. x.writer.gone => x.writer.stage = "idle"
      BY <1>3 DEF PipeInv, HalvesInv
    <3> QED BY <1>3, <1>5, <2>1, <3>1, FailBegins
  <2>4. PipeInv(y, "none")
    <3>1. z.reader.stage # "check"
      BY <1>5, <2>1 DEF ReaderLocks
    <3> QED BY <2>1, <2>2, <2>3, <3>1, FailEnds
  <2>5. y.localFin = x.localFin /\ y.remoteFin = x.remoteFin
    BY <2>1, <2>2 DEF SameEnd
  <2> QED BY <1>1, <1>2, <1>5, <2>1, <2>2, <2>4, <2>5, HandlerMoves DEF Resetting
<1> QED BY <1>4, <1>5 DEF CleanupPipe

-----------------------------------------------------------------------------
(***************************************************************************)
(* The steps of the reader and the writer.                                 *)
(***************************************************************************)

(* A half of Pipe p moves; the lane and the session are left alone. *)
LEMMA BecomesKeeps ==
    ASSUME IInv, NEW p \in Pipes, NEW x, x = pipe[p], NEW y \in PipeType, Becomes(p, y),
           PipeInv(y, Doing(task, p)), LaneCalm(x.writer, y.writer), CloseCalm(x, y),
           SleepsWell(y.writer) \/ y.writer = x.writer,
           x.writer.stage = "discard" => y.writer.stage = "discard" \/ ~ laneOpen,
           y.localFin = x.localFin, y.remoteFin = x.remoteFin,
           y.terminal # "none" =>
               \/ x.terminal # "none" \/ y.writer.stage = "discard" \/ IsProtocolFinished(y)
    PROVE  IInv'
<1>1. /\ pipe' = [pipe EXCEPT ![p] = y]
      /\ UNCHANGED <<ops, lane, laneOpen, abandoned, entries, task, received, wire>>
  BY DEF Becomes
<1>2. received' \in Nat /\ task' = task
  BY <1>1 DEF IInv, TypeOK
<1>3. IsProtocolFinished(y) <=> IsProtocolFinished(x)
  BY DEF IsProtocolFinished
<1> QED BY <1>1, <1>2, <1>3, PipeMoves

(* The reader moves. *)
LEMMA ReaderBecomes ==
    ASSUME IInv, NEW p \in Pipes, NEW x, x = pipe[p], NEW y \in PipeType, Becomes(p, y),
           PipeInv(y, Doing(task, p)), y.writer = x.writer, SameEnd(x, y)
    PROVE  IInv'
<1>1. LaneCalm(x.writer, y.writer) /\ CloseCalm(x, y)
  BY DEF LaneCalm, CloseCalm, SameEnd
<1>2. y.localFin = x.localFin /\ y.remoteFin = x.remoteFin /\ y.terminal = x.terminal
  BY DEF SameEnd
<1> QED BY <1>1, <1>2, BecomesKeeps

(* The reader takes n bytes of a chunk. *)
LEMMA ReadMeans ==
    ASSUME NEW z \in PipeType, NEW available \in Nat, NEW n \in 1 .. available
    PROVE  LET y == [z EXCEPT !.reader = [@ EXCEPT !.stage = "idle"],
                              !.current = available - n, !.taken = @ + n]
           IN  /\ y \in PipeType /\ y.chunks = z.chunks /\ y.rxClosed = z.rxClosed
               /\ y.pushed = z.pushed /\ y.current = available - n /\ y.taken = z.taken + n
               /\ SameEnd(z, y) /\ y.writer = z.writer
               /\ y.reader.stage = "idle" /\ y.reader.eof = z.reader.eof
               /\ y.reader.gone = z.reader.gone
<1>1. z.reader \in ReaderType /\ z.taken \in Nat
  BY DEF PipeType
<1>2. available - n \in Nat /\ z.taken + n \in Nat
  BY <1>1
<1> DEFINE r == [z.reader EXCEPT !.stage = "idle"]
<1>3. /\ r \in ReaderType /\ r.stage = "idle" /\ r.eof = z.reader.eof
      /\ r.gone = z.reader.gone
  BY <1>1 DEF ReaderType
<1> HIDE DEF r
<1> DEFINE y == [z EXCEPT !.reader = r, !.current = available - n, !.taken = @ + n]
<1>4. /\ y \in PipeType /\ y.chunks = z.chunks /\ y.rxClosed = z.rxClosed
      /\ y.pushed = z.pushed /\ y.current = available - n /\ y.taken = z.taken + n
      /\ SameEnd(z, y) /\ y.writer = z.writer /\ y.reader = r
  BY <1>2, <1>3 DEF PipeType, SameEnd
<1> QED BY <1>3, <1>4 DEF r

(* A new reader changes nothing else. *)
LEMMA SetReaderMeans ==
    ASSUME NEW x \in PipeType, NEW r \in ReaderType
    PROVE  LET y == [x EXCEPT !.reader = r]
           IN  /\ y \in PipeType /\ y.reader = r /\ y.writer = x.writer
               /\ SameBuffer(x, y) /\ SameEnd(x, y)
BY DEF PipeType, SameBuffer, SameEnd

(* A chunk leaves the queue and its bytes become current. *)
LEMMA NextChunkMeans ==
    ASSUME NEW x \in PipeType, x.chunks > 0
    PROVE  LET y == NextChunk(x)
           IN  /\ y \in PipeType /\ y.chunks = x.chunks - 1 /\ y.rxClosed = x.rxClosed
               /\ y.pushed = x.pushed /\ y.taken = x.taken /\ y.current = x.current
               /\ SameEnd(x, y) /\ y.writer = x.writer /\ y.reader = x.reader
<1>1. x.chunks - 1 \in Nat
  BY DEF PipeType
<1> QED BY <1>1 DEF NextChunk, PipeType, SameEnd

(* The reader takes bytes of Pipe p, from z, which is p with its chunk taken. *)
LEMMA ReadsKeeps ==
    ASSUME IInv, NEW p \in Pipes, NEW x, x = pipe[p], NEW z \in PipeType, NEW available \in Nat,
           Reads(p, z, available),
           \/ x.current > 0 /\ available = x.current /\ z.chunks = x.chunks
           \/ /\ x.current = 0 /\ x.chunks > 0 /\ x.reader.eof = "no"
              /\ available = ChunkBytes /\ z.chunks = x.chunks - 1,
           z.taken = x.taken, z.pushed = x.pushed, z.rxClosed = x.rxClosed, SameEnd(x, z),
           z.writer = x.writer, z.reader.eof = x.reader.eof, z.reader.gone = x.reader.gone
    PROVE  IInv'
<1>1. PICK n \in 1 .. available :
          Becomes(p, [z EXCEPT !.reader = [@ EXCEPT !.stage = "idle"],
                               !.current = available - n, !.taken = @ + n])
  BY DEF Reads
<1> DEFINE y == [z EXCEPT !.reader = [@ EXCEPT !.stage = "idle"],
                          !.current = available - n, !.taken = @ + n]
<1>2. /\ y \in PipeType /\ y.chunks = z.chunks /\ y.rxClosed = z.rxClosed
      /\ y.pushed = z.pushed /\ y.current = available - n /\ y.taken = z.taken + n
      /\ SameEnd(z, y) /\ y.writer = z.writer
      /\ y.reader.stage = "idle" /\ y.reader.eof = z.reader.eof /\ y.reader.gone = z.reader.gone
  BY ReadMeans
<1>3. Becomes(p, y)
  BY <1>1
<1> HIDE DEF y
<1>4. SameEnd(x, y) /\ y.writer = x.writer
  BY <1>2 DEF SameEnd
<1>5. x \in PipeType /\ PipeInv(x, Doing(task, p))
  BY PipeOf
<1>6. PipeInv(y, Doing(task, p))
  BY <1>2, <1>4, <1>5, ReadKeeps
<1> QED BY <1>2, <1>3, <1>4, <1>6, ReaderBecomes

(* The reader goes to another stage or reports EOF. *)
LEMMA ReaderGoes ==
    ASSUME IInv, NEW p \in Pipes, NEW x, x = pipe[p], NEW r \in ReaderType,
           Becomes(p, [x EXCEPT !.reader = r]), r.gone = x.reader.gone, ~ x.reader.gone,
           \/ r.stage = "idle" /\ r.eof = x.reader.eof
           \/ /\ r.stage = "check" /\ r.eof = "no"
              /\ x.reader.eof = "no" /\ x.current = 0 /\ x.chunks = 0
           \/ /\ r.stage = "sleep" /\ x.reader.stage = "check"
              /\ x.terminal = "none" /\ ~ x.remoteFin
              /\ r.eof = x.reader.eof /\ r.woken = x.reader.woken
           \/ /\ r.stage = "idle" /\ r.eof = "failed" /\ x.current = 0
           \/ /\ r.stage = "idle" /\ r.eof = "clean"
              /\ x.current = 0 /\ x.chunks = 0 /\ x.terminal # "failed"
              /\ x.terminal # "none" \/ x.remoteFin
    PROVE  IInv'
<1> DEFINE y == [x EXCEPT !.reader = r]
<1>1. x \in PipeType /\ PipeInv(x, Doing(task, p))
  BY PipeOf
<1>2. y \in PipeType /\ y.reader = r /\ y.writer = x.writer /\ SameBuffer(x, y) /\ SameEnd(x, y)
  BY <1>1, SetReaderMeans
<1> HIDE DEF y
<1>3. PipeInv(y, Doing(task, p))
  BY <1>1, <1>2, ReaderMoves
<1> QED BY <1>2, <1>3, ReaderBecomes DEF y

(* poll_read, up to the check of the end. *)
LEMMA PollReadKeeps ==
    ASSUME IInv, NEW p \in Pipes, PollRead(p)
    PROVE  IInv'
<1> DEFINE x == pipe[p]
           polled == [x EXCEPT !.reader = [@ EXCEPT !.woken = FALSE]]
<1>1. x \in PipeType /\ PipeInv(x, Doing(task, p)) /\ x.reader \in ReaderType /\ ~ x.reader.gone
  BY PipeOf DEF PollRead
<1>2. /\ polled \in PipeType /\ polled.writer = x.writer /\ SameBuffer(x, polled)
      /\ SameEnd(x, polled) /\ polled.reader.eof = x.reader.eof /\ polled.reader.gone = x.reader.gone
  <2> DEFINE r == [x.reader EXCEPT !.woken = FALSE]
  <2>1. r \in ReaderType /\ r.eof = x.reader.eof /\ r.gone = x.reader.gone
    BY <1>1 DEF ReaderType
  <2>2. polled = [x EXCEPT !.reader = r]
    OBVIOUS
  <2> HIDE DEF r, polled
  <2> QED BY <1>1, <2>1, <2>2, SetReaderMeans
<1>3. ChunkBytes \in Nat /\ x.current \in Nat
  BY <1>1, ConstantsMean DEF PipeType
<1>4. CASE x.current > 0 /\ Reads(p, polled, x.current)
  <2> HIDE DEF polled
  <2> QED BY <1>2, <1>3, <1>4, ReadsKeeps DEF SameBuffer
<1>5. CASE /\ x.current = 0 /\ x.reader.eof = "no" /\ x.chunks > 0
           /\ Reads(p, NextChunk(polled), ChunkBytes)
  <2> DEFINE z == NextChunk(polled)
  <2> HIDE DEF polled
  <2>1. /\ z \in PipeType /\ z.chunks = x.chunks - 1 /\ z.rxClosed = x.rxClosed
        /\ z.pushed = x.pushed /\ z.taken = x.taken
        /\ SameEnd(x, z) /\ z.writer = x.writer /\ z.reader = polled.reader
    BY <1>2, <1>5, NextChunkMeans DEF SameBuffer, SameEnd
  <2> HIDE DEF z
  <2>2. Reads(p, z, ChunkBytes)
    BY <1>5 DEF z
  <2> QED BY <1>2, <1>3, <1>5, <2>1, <2>2, ReadsKeeps
<1>6. CASE /\ x.current = 0 /\ x.chunks = 0 /\ x.rxClosed
           /\ ReadDone(p, IF x.terminal = "failed" THEN "failed" ELSE "clean")
  <2>1. x.terminal = "failed"
    BY <1>1, <1>6 DEF PipeInv, BufferInv
  <2>2. Becomes(p, [x EXCEPT !.reader = [@ EXCEPT !.stage = "idle", !.eof = "failed"]])
    BY <1>6, <2>1 DEF ReadDone
  <2> DEFINE r == [x.reader EXCEPT !.stage = "idle", !.eof = "failed"]
  <2>8. /\ r \in ReaderType /\ r.gone = x.reader.gone
        /\ r.stage = "idle" /\ r.eof = "failed"
    BY <1>1 DEF ReaderType
  <2>9. Becomes(p, [x EXCEPT !.reader = r])
    BY <2>2
  <2> HIDE DEF r
  <2> QED BY <1>1, <1>6, <2>8, <2>9, ReaderGoes
<1>7. CASE /\ x.current = 0 /\ x.reader.eof = "no" /\ x.chunks = 0
           /\ Becomes(p, [x EXCEPT !.reader = [@ EXCEPT !.stage = "check", !.woken = FALSE]])
  <2> DEFINE r == [x.reader EXCEPT !.stage = "check", !.woken = FALSE]
  <2>8. /\ r \in ReaderType /\ r.gone = x.reader.gone
        /\ r.stage = "check" /\ r.eof = x.reader.eof
    BY <1>1 DEF ReaderType
  <2>9. Becomes(p, [x EXCEPT !.reader = r])
    BY <1>7
  <2> HIDE DEF r
  <2> QED BY <1>1, <1>7, <2>8, <2>9, ReaderGoes
<1> QED BY <1>4, <1>5, <1>6, <1>7 DEF PollRead

(* poll_read: the Pipe has ended, or the reader goes to sleep. *)
LEMMA PollReadEndKeeps ==
    ASSUME IInv, NEW p \in Pipes, PollReadEnd(p)
    PROVE  IInv'
<1> DEFINE x == pipe[p]
<1>1. x \in PipeType /\ PipeInv(x, Doing(task, p)) /\ x.reader \in ReaderType
  BY PipeOf
<1>2. x.reader.stage = "check" /\ x.current = 0 /\ x.reader.eof = "no" /\ ~ x.reader.gone
  BY <1>1 DEF PollReadEnd, PipeInv, EofInv, BufferInv
<1>3. CASE ReadStage(p, "idle")
  <2>1. Becomes(p, [x EXCEPT !.reader = [@ EXCEPT !.stage = "idle"]])
    BY <1>3 DEF ReadStage
  <2> DEFINE r == [x.reader EXCEPT !.stage = "idle"]
  <2>8. /\ r \in ReaderType /\ r.gone = x.reader.gone
        /\ r.stage = "idle" /\ r.eof = x.reader.eof
    BY <1>1 DEF ReaderType
  <2>9. Becomes(p, [x EXCEPT !.reader = r])
    BY <2>1
  <2> HIDE DEF r
  <2> QED BY <1>1, <1>2, <2>8, <2>9, ReaderGoes
<1>4. CASE /\ x.terminal = "closed" \/ (x.terminal = "none" /\ x.remoteFin)
           /\ x.chunks > 0 /\ Reads(p, NextChunk(x), ChunkBytes)
  <2> DEFINE z == NextChunk(x)
  <2>1. /\ z \in PipeType /\ z.chunks = x.chunks - 1 /\ z.rxClosed = x.rxClosed
        /\ z.pushed = x.pushed /\ z.taken = x.taken
        /\ SameEnd(x, z) /\ z.writer = x.writer /\ z.reader = x.reader
    BY <1>1, <1>4, NextChunkMeans
  <2> HIDE DEF z
  <2>2. Reads(p, z, ChunkBytes) /\ ChunkBytes \in Nat
    BY <1>4, ConstantsMean DEF z
  <2> QED BY <1>2, <1>4, <2>1, <2>2, ReadsKeeps
<1>5. CASE /\ x.terminal = "closed" \/ (x.terminal = "none" /\ x.remoteFin)
           /\ ~ (x.chunks > 0) /\ ReadDone(p, "clean")
  <2>1. Becomes(p, [x EXCEPT !.reader = [@ EXCEPT !.stage = "idle", !.eof = "clean"]])
    BY <1>5 DEF ReadDone
  <2>2. x.chunks = 0
    BY <1>1, <1>5 DEF PipeType
  <2> DEFINE r == [x.reader EXCEPT !.stage = "idle", !.eof = "clean"]
  <2>8. /\ r \in ReaderType /\ r.gone = x.reader.gone
        /\ r.stage = "idle" /\ r.eof = "clean"
    BY <1>1 DEF ReaderType
  <2>9. Becomes(p, [x EXCEPT !.reader = r])
    BY <2>1
  <2> HIDE DEF r
  <2> QED BY <1>1, <1>2, <1>5, <2>2, <2>8, <2>9, ReaderGoes
<1>6. CASE x.terminal = "none" /\ ~ x.remoteFin /\ ReadStage(p, "sleep")
  <2>1. Becomes(p, [x EXCEPT !.reader = [@ EXCEPT !.stage = "sleep"]])
    BY <1>6 DEF ReadStage
  <2> DEFINE r == [x.reader EXCEPT !.stage = "sleep"]
  <2>8. /\ r \in ReaderType /\ r.gone = x.reader.gone
        /\ r.stage = "sleep" /\ r.eof = x.reader.eof /\ r.woken = x.reader.woken
    BY <1>1 DEF ReaderType
  <2>9. Becomes(p, [x EXCEPT !.reader = r])
    BY <2>1
  <2> HIDE DEF r
  <2> QED BY <1>1, <1>2, <1>6, <2>8, <2>9, ReaderGoes
<1> QED BY <1>3, <1>4, <1>5, <1>6 DEF PollReadEnd

(* The fields of a writer. *)
LEMMA WriterFields ==
    ASSUME NEW w \in WriterType
    PROVE  /\ w.op \in WriterOperations \union {"none"} /\ w.written \in Nat
           /\ w.waiter \in {"none", "registered", "notified"} /\ w.woken \in BOOLEAN
           /\ w.dirty \in BOOLEAN /\ w.gone \in BOOLEAN
BY DEF WriterType

(* An operation returns. *)
LEMMA IdleMeans ==
    ASSUME NEW w \in WriterType
    PROVE  LET v == Idle(w)
           IN  /\ v \in WriterType /\ v.op = "none" /\ v.stage = "idle" /\ v.woken = FALSE
               /\ v.waiter = w.waiter /\ v.dirty = w.dirty /\ v.flushing = w.flushing
               /\ v.written = w.written /\ v.data = w.data /\ v.confirmed = w.confirmed
               /\ v.gone = w.gone
BY DEF Idle, WriterType

(* An operation returns and gives its waiter back. *)
LEMMA WriteDoneMeans ==
    ASSUME NEW w \in WriterType
    PROVE  LET v == WriteDone(w)
           IN  /\ v \in WriterType /\ v.op = "none" /\ v.stage = "idle" /\ v.woken = FALSE
               /\ v.waiter = "none" /\ v.dirty = w.dirty /\ v.flushing = w.flushing
               /\ v.written = w.written /\ v.data = w.data /\ v.confirmed = w.confirmed
               /\ v.gone = w.gone
<1> DEFINE u == Idle(w)
<1>1. /\ u \in WriterType /\ u.op = "none" /\ u.stage = "idle" /\ u.woken = FALSE
      /\ u.dirty = w.dirty /\ u.flushing = w.flushing
      /\ u.written = w.written /\ u.data = w.data /\ u.confirmed = w.confirmed
      /\ u.gone = w.gone
  BY IdleMeans
<1>2. WriteDone(w) = [u EXCEPT !.waiter = "none"]
  BY DEF WriteDone
<1> HIDE DEF u
<1> QED BY <1>1, <1>2 DEF WriterType

(* A frame is queued: the writer is dirty and an older marker does not cover
   it. *)
LEMMA SentMeans ==
    ASSUME NEW w \in WriterType
    PROVE  LET v == Sent(w)
           IN  /\ v \in WriterType /\ v.op = w.op /\ v.stage = w.stage /\ v.woken = w.woken
               /\ v.waiter = w.waiter /\ v.dirty = TRUE /\ v.flushing = "none"
               /\ v.written = w.written + 1 /\ v.data = w.data /\ v.confirmed = w.confirmed
               /\ v.gone = w.gone
<1>1. w.written + 1 \in Nat
  BY DEF WriterType
<1> QED BY <1>1 DEF Sent, WriterType

(* The writer of Pipe p moves, and leaves its frames where they are. *)
LEMMA WriterGoes ==
    ASSUME IInv, NEW p \in Pipes, NEW x, x = pipe[p], NEW v \in WriterType, WriterBecomes(p, v),
           v.gone = x.writer.gone,
           {x.writer.stage, v.stage} \cap {"discard", "fincheck"} = {},
           (/\ v.stage \in {"reserve", "register", "again", "sleep"}
            /\ ~ v.woken /\ v.op # "flush") => x.terminal = "none" \/ Fails(x, Doing(task, p)),
           v.stage = "again" => v.waiter # "none", v.gone => v.stage = "idle",
           LaneCalm(x.writer, v), SleepsWell(v)
    PROVE  IInv'
<1> DEFINE y == SetWriter(x, v)
<1>1. x \in PipeType /\ PipeInv(x, Doing(task, p))
  BY PipeOf
<1>2. y \in PipeType /\ y.writer = v /\ y.reader = x.reader /\ SameBuffer(x, y) /\ SameEnd(x, y)
  BY <1>1, SetWriterMeans
<1>3. Becomes(p, y)
  BY DEF WriterBecomes
<1> HIDE DEF y
<1>4. PipeInv(y, Doing(task, p))
  BY <1>1, <1>2, WriterMoves
<1>5. CloseCalm(x, y)
  BY <1>2 DEF CloseCalm, SameEnd
<1>6. y.localFin = x.localFin /\ y.remoteFin = x.remoteFin /\ y.terminal = x.terminal
  BY <1>2 DEF SameEnd
<1> QED BY <1>2, <1>3, <1>4, <1>5, <1>6, BecomesKeeps

(* The operation of a writer is over. *)
LEMMA DoneKeeps ==
    ASSUME IInv, NEW p \in Pipes, NEW w \in WriterType, WriterBecomes(p, WriteDone(w)),
           w.gone = pipe[p].writer.gone, LaneCalm(pipe[p].writer, w),
           pipe[p].writer.stage \notin {"discard", "fincheck"}
    PROVE  IInv'
<1> DEFINE v == WriteDone(w)
<1>1. /\ v \in WriterType /\ v.stage = "idle"
      /\ v.dirty = w.dirty /\ v.flushing = w.flushing
      /\ v.written = w.written /\ v.confirmed = w.confirmed /\ v.gone = w.gone
  BY WriteDoneMeans
<1> HIDE DEF v
<1>2. LaneCalm(pipe[p].writer, v) /\ SleepsWell(v)
  BY <1>1 DEF LaneCalm, SleepsWell
<1>3. WriterBecomes(p, v)
  BY DEF v
<1> QED BY <1>1, <1>2, <1>3, WriterGoes

(* The poll goes on to the lane, for an operation that may still send. *)
LEMMA ReserveKeeps ==
    ASSUME IInv, NEW p \in Pipes, NEW w \in WriterType, Reserve(p, w),
           w.gone = pipe[p].writer.gone, ~ w.gone, LaneCalm(pipe[p].writer, w),
           pipe[p].writer.stage \notin {"discard", "fincheck"},
           w.op = "flush" \/ pipe[p].terminal = "none"
    PROVE  IInv'
<1> DEFINE v == [w EXCEPT !.stage = "reserve"]
<1>1. /\ v \in WriterType /\ v.stage = "reserve" /\ v.op = w.op
      /\ v.dirty = w.dirty /\ v.flushing = w.flushing
      /\ v.written = w.written /\ v.confirmed = w.confirmed /\ v.gone = w.gone
  BY DEF WriterType
<1>2. WriterBecomes(p, v)
  BY DEF Reserve
<1> HIDE DEF v
<1>3. LaneCalm(pipe[p].writer, v) /\ SleepsWell(v)
  BY <1>1 DEF LaneCalm, SleepsWell
<1> QED BY <1>1, <1>2, <1>3, WriterGoes

(* The application begins an operation of the WriteHalf. *)
LEMMA StartKeeps ==
    ASSUME IInv, NEW p \in Pipes, NEW op \in WriterOperations, Start(p, op)
    PROVE  IInv'
<1> DEFINE w == pipe[p].writer
           v == [w EXCEPT !.op = op, !.stage = "poll"]
<1>1. w \in WriterType /\ ~ w.gone /\ w.stage = "idle" /\ WriterBecomes(p, v)
  BY PipeOf DEF Start
<1>2. /\ v \in WriterType /\ v.stage = "poll" /\ v.dirty = w.dirty /\ v.flushing = w.flushing
      /\ v.written = w.written /\ v.confirmed = w.confirmed /\ v.gone = w.gone
  BY <1>1 DEF WriterType
<1> HIDE DEF v
<1>3. LaneCalm(w, v) /\ SleepsWell(v)
  BY <1>2 DEF LaneCalm, SleepsWell
<1> QED BY <1>1, <1>2, <1>3, WriterGoes

(* A poll of a flush; w is the writer with its wake taken. *)
LEMMA PollFlushKeeps ==
    ASSUME IInv, NEW p \in Pipes, NEW w \in WriterType, PollFlush(p, w), w.op = "flush",
           w.gone = pipe[p].writer.gone, ~ w.gone, ~ w.woken,
           w.written = pipe[p].writer.written, w.dirty = pipe[p].writer.dirty,
           w.flushing = pipe[p].writer.flushing, w.confirmed = pipe[p].writer.confirmed,
           pipe[p].writer.stage \notin {"discard", "fincheck"}
    PROVE  IInv'
<1>1. LaneCalm(pipe[p].writer, w)
  BY DEF LaneCalm
<1>2. CASE WriterBecomes(p, WriteDone(w))
  BY <1>1, <1>2, DoneKeeps
<1>3. CASE ~ w.dirty /\ WriterBecomes(p, [WriteDone(w) EXCEPT !.confirmed = w.written])
  <2> DEFINE u == WriteDone(w)
             v == [u EXCEPT !.confirmed = w.written]
  <2>1. /\ u \in WriterType /\ u.stage = "idle" /\ u.dirty = w.dirty /\ u.flushing = w.flushing
        /\ u.written = w.written /\ u.gone = w.gone /\ w.written \in Nat
    BY WriteDoneMeans, WriterFields
  <2> HIDE DEF u
  <2>2. /\ v \in WriterType /\ v.stage = "idle" /\ v.dirty = u.dirty /\ v.flushing = u.flushing
        /\ v.written = u.written /\ v.gone = u.gone /\ v.confirmed = w.written
    BY <2>1 DEF WriterType
  <2>3. WriterBecomes(p, v)
    BY <1>3 DEF u
  <2> HIDE DEF v
  <2>4. LaneCalm(pipe[p].writer, v) /\ SleepsWell(v)
    BY <1>3, <2>1, <2>2 DEF LaneCalm, SleepsWell
  <2> QED BY <2>1, <2>2, <2>3, <2>4, WriterGoes
<1>4. CASE Reserve(p, w)
  BY <1>1, <1>4, ReserveKeeps
<1>5. CASE w.flushing = "pending" /\ WriterBecomes(p, [w EXCEPT !.stage = "sleep"])
  <2> DEFINE v == [w EXCEPT !.stage = "sleep"]
  <2>1. /\ v \in WriterType /\ v.stage = "sleep" /\ v.op = w.op /\ v.dirty = w.dirty
        /\ v.flushing = w.flushing /\ v.written = w.written /\ v.confirmed = w.confirmed
        /\ v.gone = w.gone
    BY DEF WriterType
  <2>2. laneOpen
    BY <1>5 DEF IInv, LaneInv, ClosedLane
  <2> HIDE DEF v
  <2>3. LaneCalm(pipe[p].writer, v) /\ SleepsWell(v)
    BY <1>5, <2>1, <2>2 DEF LaneCalm, SleepsWell
  <2>4. WriterBecomes(p, v)
    BY <1>5 DEF v
  <2> QED BY <2>1, <2>3, <2>4, WriterGoes
<1>6. CASE /\ w.flushing = "ok"
           /\ WriterBecomes(p, [Idle(w) EXCEPT !.flushing = "none", !.dirty = FALSE,
                                               !.confirmed = w.written])
  <2> DEFINE u == Idle(w)
             v == [u EXCEPT !.flushing = "none", !.dirty = FALSE, !.confirmed = w.written]
  <2>1. /\ u \in WriterType /\ u.stage = "idle" /\ u.written = w.written /\ u.gone = w.gone
        /\ w.written \in Nat
    BY IdleMeans, WriterFields
  <2> HIDE DEF u
  <2>2. /\ v \in WriterType /\ v.stage = "idle" /\ v.flushing = "none"
        /\ v.written = u.written /\ v.gone = u.gone /\ v.confirmed = w.written
    BY <2>1 DEF WriterType
  <2>3. WriterBecomes(p, v)
    BY <1>6 DEF u
  <2> HIDE DEF v
  <2>4. LaneCalm(pipe[p].writer, v) /\ SleepsWell(v)
    BY <1>6, <2>1, <2>2 DEF LaneCalm, SleepsWell
  <2> QED BY <2>1, <2>2, <2>3, <2>4, WriterGoes
<1>7. CASE w.dirty /\ WriterBecomes(p, [Idle(w) EXCEPT !.flushing = "none"])
  <2> DEFINE u == Idle(w)
             v == [u EXCEPT !.flushing = "none"]
  <2>1. /\ u \in WriterType /\ u.stage = "idle" /\ u.written = w.written /\ u.gone = w.gone
        /\ u.dirty = w.dirty /\ u.confirmed = w.confirmed
    BY IdleMeans
  <2> HIDE DEF u
  <2>2. /\ v \in WriterType /\ v.stage = "idle" /\ v.flushing = "none" /\ v.dirty = u.dirty
        /\ v.written = u.written /\ v.gone = u.gone /\ v.confirmed = u.confirmed
    BY <2>1 DEF WriterType
  <2>3. WriterBecomes(p, v)
    BY <1>7 DEF u
  <2> HIDE DEF v
  <2>4. LaneCalm(pipe[p].writer, v) /\ SleepsWell(v)
    BY <1>7, <2>1, <2>2 DEF LaneCalm, SleepsWell
  <2> QED BY <2>1, <2>2, <2>3, <2>4, WriterGoes
<1> QED BY <1>2, <1>3, <1>4, <1>5, <1>6, <1>7 DEF PollFlush

(* A woken operation is polled again. *)
LEMMA PollKeeps ==
    ASSUME IInv, NEW p \in Pipes, Poll(p)
    PROVE  IInv'
<1> DEFINE x == pipe[p]
           w == [x.writer EXCEPT !.woken = FALSE]
           f == [w EXCEPT !.op = "flush"]
<1>1. x.writer \in WriterType /\ PipeInv(x, Doing(task, p))
  BY PipeOf
<1>2. /\ w \in WriterType /\ w.woken = FALSE /\ w.stage = x.writer.stage /\ w.op = x.writer.op
      /\ w.gone = x.writer.gone /\ w.written = x.writer.written /\ w.dirty = x.writer.dirty
      /\ w.flushing = x.writer.flushing /\ w.confirmed = x.writer.confirmed
  BY <1>1 DEF WriterType
<1>3. /\ \/ w.op = "write" /\ \/ WriteError(x) /\ WriterBecomes(p, WriteDone(w))
                              \/ ~ WriteError(x) /\ Reserve(p, w)
         \/ w.op = "flush" /\ PollFlush(p, w)
         \/ w.op = "shutdown" /\ WriteError(x) /\ PollFlush(p, f)
         \/ w.op = "shutdown" /\ ~ WriteError(x) /\ Reserve(p, w)
         \/ w.op \in {"close", "reset"} /\ \/ x.terminal # "none" /\ WriterBecomes(p, WriteDone(w))
                                           \/ ~ (x.terminal # "none") /\ Reserve(p, w)
      /\ w.stage \in {"poll", "sleep"}
  BY DEF Poll
<1> HIDE DEF w
<1>4. /\ f \in WriterType /\ f.op = "flush" /\ f.woken = w.woken /\ f.stage = w.stage
      /\ f.gone = w.gone /\ f.written = w.written /\ f.dirty = w.dirty
      /\ f.flushing = w.flushing /\ f.confirmed = w.confirmed
  BY <1>2 DEF WriterType, WriterOperations
<1> HIDE DEF f
<1>5. ~ w.gone /\ x.writer.stage \notin {"discard", "fincheck"}
  BY <1>1, <1>2, <1>3 DEF PipeInv, HalvesInv
<1>6. LaneCalm(x.writer, w)
  BY <1>2 DEF LaneCalm
<1>7. CASE WriterBecomes(p, WriteDone(w))
  BY <1>2, <1>5, <1>6, <1>7, DoneKeeps
<1>8. CASE x.terminal = "none" /\ Reserve(p, w)
  BY <1>2, <1>5, <1>6, <1>8, ReserveKeeps
<1>9. CASE w.op = "flush" /\ PollFlush(p, w)
  BY <1>2, <1>5, <1>9, PollFlushKeeps
<1>10. CASE PollFlush(p, f)
  BY <1>2, <1>4, <1>5, <1>10, PollFlushKeeps
<1>11. ~ WriteError(x) => x.terminal = "none"
  BY DEF WriteError
<1> QED BY <1>3, <1>7, <1>8, <1>9, <1>10, <1>11

(* A writer registers for a slot of the full lane. *)
LEMMA RegisterWaiterKeeps ==
    ASSUME IInv, NEW p \in Pipes, RegisterWaiter(p)
    PROVE  IInv'
<1> DEFINE x == pipe[p]
           w == x.writer
           n == IF w.waiter = "none" THEN "registered" ELSE w.waiter
           v == [w EXCEPT !.stage = "again", !.waiter = n]
<1>1. w \in WriterType /\ PipeInv(x, Doing(task, p)) /\ w.stage = "register"
  BY PipeOf DEF RegisterWaiter
<1>2. WriterBecomes(p, v)
  BY DEF RegisterWaiter
<1>3. n \in {"registered", "notified"}
  BY <1>1, WriterFields
<1> HIDE DEF n
<1>4. /\ v \in WriterType /\ v.stage = "again" /\ v.waiter = n /\ v.op = w.op /\ v.woken = w.woken
      /\ v.dirty = w.dirty /\ v.flushing = w.flushing
      /\ v.written = w.written /\ v.confirmed = w.confirmed /\ v.gone = w.gone
  BY <1>1, <1>3 DEF WriterType
<1> HIDE DEF v
<1>5. LaneCalm(w, v) /\ SleepsWell(v)
  BY <1>4 DEF LaneCalm, SleepsWell
<1>6. /\ ~ w.gone
      /\ (~ w.woken /\ w.op # "flush") => x.terminal = "none" \/ Fails(x, Doing(task, p))
  BY <1>1 DEF PipeInv, HalvesInv
<1> QED BY <1>1, <1>2, <1>3, <1>4, <1>5, <1>6, WriterGoes

(* The application drops a pending operation. *)
LEMMA CancelWriteKeeps ==
    ASSUME IInv, NEW p \in Pipes, CancelWrite(p)
    PROVE  IInv'
<1> DEFINE w == pipe[p].writer
           v == Idle(w)
<1>1. w \in WriterType /\ w.stage = "sleep" /\ WriterBecomes(p, v)
  BY PipeOf DEF CancelWrite
<1>2. /\ v \in WriterType /\ v.stage = "idle" /\ v.dirty = w.dirty /\ v.flushing = w.flushing
      /\ v.written = w.written /\ v.confirmed = w.confirmed /\ v.gone = w.gone
  BY <1>1, IdleMeans
<1> HIDE DEF v
<1>3. LaneCalm(w, v) /\ SleepsWell(v)
  BY <1>2 DEF LaneCalm, SleepsWell
<1> QED BY <1>1, <1>2, <1>3, WriterGoes

-----------------------------------------------------------------------------
(***************************************************************************)
(* commit_frame, with the permit held.                                     *)
(***************************************************************************)

(* The writer of Pipe p has a permit. *)
Committing(p) == laneOpen /\ pipe[p].writer.stage \in {"reserve", "again"}

(* A writer that holds a slot is at work and the lane is open. *)
LEMMA CommittingMeans ==
    ASSUME IInv, NEW p \in Pipes, Committing(p)
    PROVE  /\ pipe[p] \in PipeType /\ PipeInv(pipe[p], Doing(task, p))
           /\ pipe[p].writer \in WriterType /\ ~ pipe[p].writer.gone /\ laneOpen
           /\ pipe[p].writer.stage \notin {"discard", "fincheck", "idle"}
           /\ pipe[p].writer.written \in Nat /\ pipe[p].writer.written + 1 \in Nat
<1>1. pipe[p] \in PipeType /\ PipeInv(pipe[p], Doing(task, p)) /\ pipe[p].writer \in WriterType
  BY PipeOf
<1>2. pipe[p].writer.written \in Nat
  BY <1>1, WriterFields
<1> QED BY <1>1, <1>2 DEF Committing, PipeInv, HalvesInv

(* A frame is queued and the operation returns. *)
LEMMA SentDoneMeans ==
    ASSUME NEW w \in WriterType
    PROVE  LET v == WriteDone(Sent(w))
           IN  /\ v \in WriterType /\ v.stage = "idle" /\ v.dirty = TRUE /\ v.flushing = "none"
               /\ v.written = w.written + 1 /\ v.confirmed = w.confirmed /\ v.gone = w.gone
<1> DEFINE s == Sent(w)
<1>1. /\ s \in WriterType /\ s.dirty = TRUE /\ s.flushing = "none"
      /\ s.written = w.written + 1 /\ s.confirmed = w.confirmed /\ s.gone = w.gone
  BY SentMeans
<1> HIDE DEF s
<1>2. /\ WriteDone(s) \in WriterType /\ WriteDone(s).stage = "idle" /\ WriteDone(s).dirty = s.dirty
      /\ WriteDone(s).flushing = s.flushing /\ WriteDone(s).written = s.written
      /\ WriteDone(s).confirmed = s.confirmed /\ WriteDone(s).gone = s.gone
  BY <1>1, WriteDoneMeans
<1> QED BY <1>1, <1>2 DEF s

(* What is queued is an item. *)
LEMMA ItemTyped ==
    ASSUME NEW p \in Pipes, NEW kind \in FrameKinds \union {"FLUSH"}, NEW n \in Nat
    PROVE  Item(kind, p, n) \in ItemType
BY DEF Item, ItemType

(* The closure finds nothing to send; the writer becomes v. *)
LEMMA SkipsWith ==
    ASSUME IInv, NEW p \in Pipes, Committing(p), NEW v \in WriterType,
           SkipFrame(p, SetWriter(pipe[p], v)), LaneCalm(pipe[p].writer, v),
           v.stage \in {"idle", "poll"}, v.gone = pipe[p].writer.gone
    PROVE  IInv'
<1> DEFINE x == pipe[p]
           z == SetWriter(x, v)
<1>1. /\ x \in PipeType /\ PipeInv(x, Doing(task, p)) /\ ~ x.writer.gone
      /\ x.writer.stage \notin {"discard", "fincheck", "idle"}
  BY CommittingMeans
<1>2. z \in PipeType /\ z.writer = v /\ z.reader = x.reader /\ SameBuffer(x, z) /\ SameEnd(x, z)
  BY <1>1, SetWriterMeans
<1>3. SkipFrame(p, z)
  OBVIOUS
<1> HIDE DEF z
<1>4. PipeInv(z, Doing(task, p))
  BY <1>1, <1>2, WriterMoves
<1> QED BY <1>1, <1>2, <1>3, <1>4, SkipKeeps

(* The operation returns and queues nothing, because the Pipe has ended. *)
LEMMA SkipsDone ==
    ASSUME IInv, NEW p \in Pipes, Committing(p),
           SkipFrame(p, SetWriter(pipe[p], WriteDone(pipe[p].writer)))
    PROVE  IInv'
<1> DEFINE w == pipe[p].writer
           v == WriteDone(w)
<1>1. w \in WriterType
  BY CommittingMeans
<1>2. /\ v \in WriterType /\ v.stage = "idle" /\ v.dirty = w.dirty /\ v.flushing = w.flushing
      /\ v.written = w.written /\ v.confirmed = w.confirmed /\ v.gone = w.gone
  BY <1>1, WriteDoneMeans
<1>3. SkipFrame(p, SetWriter(pipe[p], v))
  OBVIOUS
<1> HIDE DEF v
<1>4. LaneCalm(w, v)
  BY <1>2 DEF LaneCalm
<1> QED BY <1>2, <1>3, <1>4, SkipsWith

(* poll_write queues its DATA. *)
LEMMA CommitWriteKeeps ==
    ASSUME IInv, NEW p \in Pipes, Committing(p), CommitWrite(p)
    PROVE  IInv'
<1> DEFINE x == pipe[p]
           w == x.writer
           s == WriteDone(Sent(w))
           v == [s EXCEPT !.data = @ + 1]
           y == SetWriter(x, v)
           n == w.written + 1
<1>1. /\ x \in PipeType /\ PipeInv(x, Doing(task, p)) /\ w \in WriterType /\ ~ w.gone /\ laneOpen
      /\ w.stage \notin {"discard", "fincheck", "idle"} /\ n \in Nat
  BY CommittingMeans
<1>2. CASE SkipFrame(p, SetWriter(x, WriteDone(w)))
  BY <1>2, SkipsDone
<1>3. CASE ~ WriteError(x) /\ SendFrame(p, y, "DATA")
  <2>1. /\ s \in WriterType /\ s.stage = "idle" /\ s.dirty = TRUE /\ s.flushing = "none"
        /\ s.written = n /\ s.confirmed = w.confirmed /\ s.gone = w.gone
    BY <1>1, SentDoneMeans
  <2> HIDE DEF s
  <2>2. /\ v \in WriterType /\ v.stage = "idle" /\ v.dirty = TRUE /\ v.flushing = "none"
        /\ v.written = n /\ v.confirmed = w.confirmed /\ v.gone = w.gone
    BY <2>1 DEF WriterType
  <2> HIDE DEF v
  <2>3. y \in PipeType /\ y.writer = v /\ y.reader = x.reader /\ SameBuffer(x, y) /\ SameEnd(x, y)
    BY <1>1, <2>2, SetWriterMeans
  <2> HIDE DEF y
  <2>4. PipeInv(y, Doing(task, p))
    BY <1>1, <2>2, <2>3, WriterMoves
  <2>5. /\ pipe' = [pipe EXCEPT ![p] = y] /\ lane' = Append(lane, Item("DATA", p, n))
        /\ UNCHANGED <<ops, laneOpen, abandoned, entries, task, received, wire>>
    BY <1>3 DEF SendFrame
  <2>6. Item("DATA", p, n) \in ItemType
    BY <1>1, ItemTyped DEF FrameKinds
  <2>7. x.terminal = "none" /\ CloseCalm(x, y) /\ y.terminal = "none"
        /\ (IsProtocolFinished(y) <=> IsProtocolFinished(x))
    BY <1>3, <2>2, <2>3 DEF WriteError, CloseCalm, SameEnd, IsProtocolFinished
  <2> HIDE DEF n
  <2>8. n = x.writer.written + 1
    BY DEF n
  <2> QED BY <1>1, <2>2, <2>3, <2>4, <2>5, <2>6, <2>7, <2>8, LaneTakes
<1> QED BY <1>2, <1>3 DEF CommitWrite

(* poll_shutdown queues its FIN. *)
LEMMA CommitFinKeeps ==
    ASSUME IInv, NEW p \in Pipes, Committing(p), CommitFin(p)
    PROVE  IInv'
<1> DEFINE x == pipe[p]
           w == x.writer
           n == w.written + 1
<1>1. /\ x \in PipeType /\ PipeInv(x, Doing(task, p)) /\ w \in WriterType /\ ~ w.gone /\ laneOpen
      /\ w.stage \notin {"discard", "fincheck", "idle"} /\ n \in Nat
  BY CommittingMeans
<1>2. CASE SkipFrame(p, SetWriter(x, [w EXCEPT !.waiter = "none", !.op = "flush", !.stage = "poll"]))
  <2> DEFINE v == [w EXCEPT !.waiter = "none", !.op = "flush", !.stage = "poll"]
  <2>1. /\ v \in WriterType /\ v.stage = "poll" /\ v.dirty = w.dirty /\ v.flushing = w.flushing
        /\ v.written = w.written /\ v.confirmed = w.confirmed /\ v.gone = w.gone
    BY <1>1 DEF WriterType, WriterOperations
  <2>2. SkipFrame(p, SetWriter(pipe[p], v))
    BY <1>2
  <2> HIDE DEF v
  <2>3. LaneCalm(w, v)
    BY <2>1 DEF LaneCalm
  <2> QED BY <2>1, <2>2, <2>3, SkipsWith
<1>3. CASE /\ ~ WriteError(x)
           /\ SendFrame(p, SetWriter([x EXCEPT !.localFin = TRUE],
                                     [Sent(w) EXCEPT !.waiter = "none", !.stage = "fincheck"]), "FIN")
  <2> DEFINE s == Sent(w)
             v == [s EXCEPT !.waiter = "none", !.stage = "fincheck"]
             z == [x EXCEPT !.localFin = TRUE]
             y == SetWriter(z, v)
  <2>1. /\ s \in WriterType /\ s.dirty = TRUE /\ s.flushing = "none"
        /\ s.written = n /\ s.confirmed = w.confirmed /\ s.gone = w.gone
    BY <1>1, SentMeans
  <2>2. SendFrame(p, y, "FIN")
    BY <1>3
  <2> HIDE DEF s
  <2>3. /\ v \in WriterType /\ v.stage = "fincheck" /\ v.dirty = TRUE /\ v.flushing = "none"
        /\ v.written = n /\ v.confirmed = w.confirmed /\ v.gone = w.gone
    BY <2>1 DEF WriterType
  <2> HIDE DEF v
  <2>4. /\ z \in PipeType /\ z.localFin /\ z.remoteFin = x.remoteFin /\ z.terminal = x.terminal
        /\ z.ender = x.ender /\ z.reader = x.reader /\ SameBuffer(x, z)
    BY <1>1 DEF PipeType, SameBuffer
  <2> HIDE DEF z
  <2>5. /\ y \in PipeType /\ y.writer = v /\ y.reader = x.reader /\ SameBuffer(x, y)
        /\ y.localFin /\ y.remoteFin = x.remoteFin /\ y.terminal = x.terminal /\ y.ender = x.ender
    BY <2>3, <2>4, SetWriterMeans DEF SameBuffer, SameEnd
  <2> HIDE DEF y
  <2>6. x.terminal = "none" /\ ~ x.localFin
    BY <1>3 DEF WriteError
  <2>7. PipeInv(y, Doing(task, p))
    BY <1>1, <2>3, <2>5, <2>6, FinStarts
  <2>8. /\ pipe' = [pipe EXCEPT ![p] = y] /\ lane' = Append(lane, Item("FIN", p, n))
        /\ UNCHANGED <<ops, laneOpen, abandoned, entries, task, received, wire>>
    BY <2>2 DEF SendFrame
  <2>9. Item("FIN", p, n) \in ItemType
    BY <1>1, ItemTyped DEF FrameKinds
  <2>10. CloseCalm(x, y) /\ (IsProtocolFinished(x) => IsProtocolFinished(y))
    BY <1>1, <2>3, <2>5, <2>6 DEF CloseCalm, IsProtocolFinished
  <2> HIDE DEF n
  <2>11. n = x.writer.written + 1
    BY DEF n
  <2> QED BY <1>1, <2>3, <2>5, <2>6, <2>7, <2>8, <2>9, <2>10, <2>11, LaneTakes
<1> QED BY <1>2, <1>3 DEF CommitFin

(* close() ends the Pipe and queues its CLOSE with one permit. *)
LEMMA CommitCloseKeeps ==
    ASSUME IInv, NEW p \in Pipes, Committing(p), CommitClose(p)
    PROVE  IInv'
<1> DEFINE x == pipe[p]
           w == x.writer
           n == w.written + 1
           z == CloseNormal(x, "local")
           v == WriteDone(Sent(z.writer))
           y == SetWriter(z, v)
<1>1. /\ x \in PipeType /\ PipeInv(x, Doing(task, p)) /\ w \in WriterType /\ ~ w.gone /\ laneOpen
      /\ w.stage \notin {"discard", "fincheck", "idle"} /\ n \in Nat
  BY CommittingMeans
<1>2. CASE SkipFrame(p, SetWriter(x, WriteDone(w)))
  BY <1>2, SkipsDone
<1>3. CASE x.terminal = "none" /\ SendFrame(p, y, "CLOSE")
  <2>1. /\ z \in PipeType /\ z.terminal = "closed" /\ z.writer = Wake(w)
        /\ z.remoteFin = x.remoteFin /\ z.localFin = x.localFin
        /\ PipeInv(z, Doing(task, p))
    BY <1>1, <1>3, CloseNormalMeans, CloseNormalKeeps
  <2> HIDE DEF z
  <2>2. /\ z.writer \in WriterType /\ z.writer.stage = w.stage /\ z.writer.written = w.written
        /\ z.writer.confirmed = w.confirmed /\ z.writer.gone = w.gone
    BY <1>1, <2>1, WakeWriterMeans
  <2>3. /\ v \in WriterType /\ v.stage = "idle" /\ v.dirty = TRUE /\ v.flushing = "none"
        /\ v.written = n /\ v.confirmed = w.confirmed /\ v.gone = w.gone
    BY <2>2, SentDoneMeans
  <2> HIDE DEF v
  <2>4. /\ y \in PipeType /\ y.writer = v /\ y.reader = z.reader /\ SameBuffer(z, y)
        /\ SameEnd(z, y)
    BY <2>1, <2>3, SetWriterMeans
  <2> HIDE DEF y
  <2>5. PipeInv(y, Doing(task, p))
    BY <1>1, <2>1, <2>2, <2>3, <2>4, WriterMoves
  <2>6. /\ pipe' = [pipe EXCEPT ![p] = y] /\ lane' = Append(lane, Item("CLOSE", p, n))
        /\ UNCHANGED <<ops, laneOpen, abandoned, entries, task, received, wire>>
    BY <1>3 DEF SendFrame
  <2>7. Item("CLOSE", p, n) \in ItemType
    BY <1>1, ItemTyped DEF FrameKinds
  <2>8. /\ CloseCalm(x, y) /\ y.terminal # "none"
        /\ IsProtocolFinished(y) <=> IsProtocolFinished(x)
    BY <1>3, <2>1, <2>3, <2>4 DEF CloseCalm, SameEnd, IsProtocolFinished
  <2> HIDE DEF n
  <2>9. n = x.writer.written + 1
    BY DEF n
  <2> QED BY <1>1, <1>3, <2>3, <2>4, <2>5, <2>6, <2>7, <2>8, <2>9, LaneTakes
<1> QED BY <1>2, <1>3 DEF CommitClose

(* reset() fails the Pipe and keeps its permit for the RESET. *)
LEMMA CommitResetKeeps ==
    ASSUME IInv, NEW p \in Pipes, Committing(p), CommitReset(p)
    PROVE  IInv'
<1> DEFINE x == pipe[p]
           w == x.writer
           z == BeginFail(x, "local")
           v == [w EXCEPT !.waiter = "none", !.stage = "discard"]
           y == SetWriter(z, v)
<1>1. /\ x \in PipeType /\ PipeInv(x, Doing(task, p)) /\ w \in WriterType /\ ~ w.gone
      /\ w.stage \notin {"discard", "fincheck", "idle"}
  BY CommittingMeans
<1>2. CASE SkipFrame(p, SetWriter(x, WriteDone(w)))
  BY <1>2, SkipsDone
<1>3. CASE x.terminal = "none" /\ Becomes(p, y)
  <2>1. /\ z \in PipeType /\ z.terminal = "failed" /\ z.ender = "local" /\ z.reader = x.reader
        /\ z.remoteFin = x.remoteFin /\ z.localFin = x.localFin /\ SameBuffer(x, z)
    BY <1>1, BeginFailMeans
  <2> HIDE DEF z
  <2>2. /\ v \in WriterType /\ v.stage = "discard" /\ v.dirty = w.dirty /\ v.flushing = w.flushing
        /\ v.written = w.written /\ v.confirmed = w.confirmed /\ v.gone = w.gone
    BY <1>1 DEF WriterType
  <2> HIDE DEF v
  <2>3. /\ y \in PipeType /\ y.writer = v /\ y.reader = x.reader /\ SameBuffer(x, y)
        /\ y.terminal = "failed" /\ y.ender = "local"
        /\ y.remoteFin = x.remoteFin /\ y.localFin = x.localFin
    BY <2>1, <2>2, SetWriterMeans DEF SameBuffer, SameEnd
  <2> HIDE DEF y
  <2>4. PipeInv(y, Doing(task, p))
    BY <1>1, <1>3, <2>2, <2>3, FailBegins
  <2>5. LaneCalm(w, v) /\ SleepsWell(v) /\ CloseCalm(x, y)
    BY <1>1, <1>3, <2>2, <2>3 DEF LaneCalm, SleepsWell, CloseCalm
  <2> QED BY <1>1, <1>3, <2>2, <2>3, <2>4, <2>5, BecomesKeeps
<1> QED BY <1>2, <1>3 DEF CommitReset

(* poll_flush queues its marker. *)
LEMMA CommitMarkerKeeps ==
    ASSUME IInv, NEW p \in Pipes, Committing(p), CommitMarker(p)
    PROVE  IInv'
<1> DEFINE x == pipe[p]
           w == x.writer
           v == [w EXCEPT !.waiter = "none", !.flushing = "pending", !.stage = "poll"]
           y == SetWriter(x, v)
<1>1. /\ x \in PipeType /\ PipeInv(x, Doing(task, p)) /\ w \in WriterType /\ ~ w.gone /\ laneOpen
      /\ w.stage \notin {"discard", "fincheck", "idle"} /\ w.written \in Nat
  BY CommittingMeans
<1>2. /\ pipe' = [pipe EXCEPT ![p] = y] /\ lane' = Append(lane, Item("FLUSH", p, w.written))
      /\ UNCHANGED <<ops, laneOpen, abandoned, entries, task, received, wire>>
  BY DEF CommitMarker
<1>3. /\ v \in WriterType /\ v.stage = "poll" /\ v.dirty = w.dirty /\ v.flushing = "pending"
      /\ v.written = w.written /\ v.confirmed = w.confirmed /\ v.gone = w.gone
  BY <1>1 DEF WriterType
<1> HIDE DEF v
<1>4. y \in PipeType /\ y.writer = v /\ y.reader = x.reader /\ SameBuffer(x, y) /\ SameEnd(x, y)
  BY <1>1, <1>3, SetWriterMeans
<1> HIDE DEF y
<1>5. PipeInv(y, Doing(task, p))
  BY <1>1, <1>3, <1>4, WriterMoves
<1>6. Item("FLUSH", p, w.written) \in ItemType
  BY <1>1, ItemTyped
<1>7. CloseCalm(x, y) /\ y.terminal = x.terminal /\ (IsProtocolFinished(y) <=> IsProtocolFinished(x))
  BY <1>3, <1>4 DEF CloseCalm, SameEnd, IsProtocolFinished
<1> QED BY <1>1, <1>2, <1>3, <1>4, <1>5, <1>6, <1>7, LaneTakes

(* Every operation that got its slot. *)
LEMMA CommitKeeps ==
    ASSUME IInv, NEW p \in Pipes, Committing(p), Commit(p)
    PROVE  IInv'
BY CommitWriteKeeps, CommitFinKeeps, CommitCloseKeeps, CommitResetKeeps, CommitMarkerKeeps DEF Commit

(* The first attempt to get a slot. *)
LEMMA TryReserveKeeps ==
    ASSUME IInv, NEW p \in Pipes, TryReserve(p)
    PROVE  IInv'
<1> DEFINE x == pipe[p]
           w == x.writer
           v == [w EXCEPT !.stage = "register"]
<1>1. w \in WriterType /\ PipeInv(x, Doing(task, p)) /\ w.stage = "reserve"
  BY PipeOf DEF TryReserve
<1>2. CASE WriterBecomes(p, WriteDone(w))
  <2>1. LaneCalm(w, w)
    BY DEF LaneCalm
  <2> QED BY <1>1, <1>2, <2>1, DoneKeeps
<1>3. CASE laneOpen /\ Commit(p)
  BY <1>1, <1>3, CommitKeeps DEF Committing
<1>4. CASE WriterBecomes(p, v)
  <2>1. /\ v \in WriterType /\ v.stage = "register" /\ v.op = w.op /\ v.woken = w.woken
        /\ v.dirty = w.dirty /\ v.flushing = w.flushing
        /\ v.written = w.written /\ v.confirmed = w.confirmed /\ v.gone = w.gone
    BY <1>1 DEF WriterType
  <2>2. WriterBecomes(p, v)
    BY <1>4
  <2> HIDE DEF v
  <2>3. LaneCalm(w, v) /\ SleepsWell(v)
    BY <2>1 DEF LaneCalm, SleepsWell
  <2>4. /\ ~ w.gone
        /\ (~ w.woken /\ w.op # "flush") => x.terminal = "none" \/ Fails(x, Doing(task, p))
    BY <1>1 DEF PipeInv, HalvesInv
  <2> QED BY <1>1, <2>1, <2>2, <2>3, <2>4, WriterGoes
<1> QED BY <1>2, <1>3, <1>4 DEF TryReserve

(* The second attempt, after the waiter is registered. *)
LEMMA TryReserveAgainKeeps ==
    ASSUME IInv, NEW p \in Pipes, TryReserveAgain(p)
    PROVE  IInv'
<1> DEFINE x == pipe[p]
           w == x.writer
<1>1. w \in WriterType /\ PipeInv(x, Doing(task, p)) /\ w.stage = "again"
  BY PipeOf DEF TryReserveAgain
<1>2. CASE WriterBecomes(p, WriteDone(w))
  <2>1. LaneCalm(w, w)
    BY DEF LaneCalm
  <2> QED BY <1>1, <1>2, <2>1, DoneKeeps
<1>3. CASE laneOpen /\ Commit(p)
  BY <1>1, <1>3, CommitKeeps DEF Committing
<1>4. /\ ~ w.gone /\ w.waiter # "none"
      /\ (~ w.woken /\ w.op # "flush") => x.terminal = "none" \/ Fails(x, Doing(task, p))
  BY <1>1 DEF PipeInv, HalvesInv
<1>5. CASE WriterBecomes(p, [w EXCEPT !.stage = "sleep", !.waiter = "none", !.woken = TRUE])
  <2> DEFINE v == [w EXCEPT !.stage = "sleep", !.waiter = "none", !.woken = TRUE]
  <2>1. /\ v \in WriterType /\ v.stage = "sleep" /\ v.woken = TRUE
        /\ v.dirty = w.dirty /\ v.flushing = w.flushing
        /\ v.written = w.written /\ v.confirmed = w.confirmed /\ v.gone = w.gone
    BY <1>1 DEF WriterType
  <2>2. WriterBecomes(p, v)
    BY <1>5
  <2> HIDE DEF v
  <2>3. LaneCalm(w, v) /\ SleepsWell(v)
    BY <2>1 DEF LaneCalm, SleepsWell
  <2> QED BY <1>1, <1>4, <2>1, <2>2, <2>3, WriterGoes
<1>6. CASE laneOpen /\ Full /\ w.waiter # "notified" /\ WriterBecomes(p, [w EXCEPT !.stage = "sleep"])
  <2> DEFINE v == [w EXCEPT !.stage = "sleep"]
  <2>1. /\ v \in WriterType /\ v.stage = "sleep" /\ v.woken = w.woken /\ v.op = w.op
        /\ v.dirty = w.dirty /\ v.flushing = w.flushing /\ v.waiter = w.waiter
        /\ v.written = w.written /\ v.confirmed = w.confirmed /\ v.gone = w.gone
    BY <1>1 DEF WriterType
  <2>2. WriterBecomes(p, v)
    BY <1>6
  <2> HIDE DEF v
  <2>3. w.waiter = "registered"
    BY <1>1, <1>4, <1>6, WriterFields
  <2>4. LaneCalm(w, v) /\ SleepsWell(v)
    BY <1>6, <2>1, <2>3 DEF LaneCalm, SleepsWell
  <2> QED BY <1>1, <1>4, <2>1, <2>2, <2>4, WriterGoes
<1> QED BY <1>2, <1>3, <1>5, <1>6 DEF TryReserveAgain

(* poll_shutdown closes the Pipe if the peer's FIN came first. *)
LEMMA FinCheckKeeps ==
    ASSUME IInv, NEW p \in Pipes, FinCheck(p)
    PROVE  IInv'
<1> DEFINE x == pipe[p]
           z == IF x.remoteFin THEN CloseNormal(x, "fins") ELSE x
           u == z.writer
           v == [u EXCEPT !.op = "flush", !.stage = "poll"]
           y == SetWriter(z, v)
           b == Doing(task, p)
<1>1. /\ x \in PipeType /\ PipeInv(x, b) /\ x.writer \in WriterType
      /\ x.writer.stage = "fincheck" /\ Becomes(p, y)
  BY PipeOf DEF FinCheck
<1>2. x.localFin /\ ~ x.writer.gone
  BY <1>1 DEF PipeInv, FinInv, HalvesInv
<1>3. b = "push" => ~ x.remoteFin
  BY <1>1 DEF PipeInv, EofInv
<1>4. /\ z \in PipeType /\ PipeInv(z, b) /\ (x.remoteFin => z.terminal # "none")
      /\ u \in {x.writer, Wake(x.writer)} /\ z.localFin = x.localFin /\ z.remoteFin = x.remoteFin
      /\ ~ x.remoteFin => z = x
  BY <1>1, <1>3, CloseNormalAny
<1> HIDE DEF z
<1>5. /\ u \in WriterType /\ LaneCalm(x.writer, u) /\ u.stage = x.writer.stage /\ u.gone = x.writer.gone
  BY <1>1, <1>4, WriterWoken, WakeWriterMeans
<1> HIDE DEF u
<1>6. /\ v \in WriterType /\ v.stage = "poll" /\ v.dirty = u.dirty /\ v.flushing = u.flushing
      /\ v.written = u.written /\ v.confirmed = u.confirmed /\ v.gone = u.gone
  BY <1>5 DEF WriterType, WriterOperations
<1> HIDE DEF v
<1>7. y \in PipeType /\ y.writer = v /\ y.reader = z.reader /\ SameBuffer(z, y) /\ SameEnd(z, y)
  BY <1>4, <1>6, SetWriterMeans
<1> HIDE DEF y
<1>8. z.writer.stage = "fincheck"
  BY <1>1, <1>5 DEF u
<1>9. PipeInv(y, b)
  BY <1>2, <1>4, <1>5, <1>6, <1>7, <1>8, FinChecked
<1>10. LaneCalm(x.writer, v) /\ SleepsWell(v)
  BY <1>5, <1>6 DEF LaneCalm, SleepsWell
<1>11. y.localFin = x.localFin /\ y.remoteFin = x.remoteFin /\ y.terminal = z.terminal
  BY <1>4, <1>7 DEF SameEnd
<1>12. CloseCalm(x, y)
  BY <1>4, <1>5, <1>6, <1>7, <1>11 DEF CloseCalm
<1>13. y.terminal # "none" => x.terminal # "none" \/ IsProtocolFinished(y)
  BY <1>2, <1>4, <1>11 DEF IsProtocolFinished
<1> QED BY <1>1, <1>6, <1>7, <1>9, <1>10, <1>11, <1>12, <1>13, BecomesKeeps

(* reset() has the buffer's lock: it discards and queues its RESET. *)
LEMMA ResetDiscardsKeeps ==
    ASSUME IInv, NEW p \in Pipes, ResetDiscards(p)
    PROVE  IInv'
<1> DEFINE x == pipe[p]
           w == x.writer
           z == EndFail(x)
           n == w.written + 1
           b == Doing(task, p)
<1>1. /\ x \in PipeType /\ PipeInv(x, b) /\ w \in WriterType /\ n \in Nat
      /\ w.stage = "discard" /\ x.reader.stage # "check"
  BY PipeOf, WriterFields DEF ResetDiscards, ReaderLocks
<1>2. x.terminal = "failed"
  BY <1>1 DEF PipeInv, EnderKnown, Fails
<1>3. /\ z \in PipeType /\ z.chunks = 0 /\ z.current = 0 /\ z.rxClosed
      /\ z.pushed = x.pushed /\ z.taken = x.taken
      /\ z.writer = Wake(w) /\ z.reader = Wake(x.reader) /\ SameEnd(x, z)
  BY <1>1, EndFailMeans
<1>4. \/ laneOpen /\ SendFrame(p, SetWriter(z, WriteDone(Sent(z.writer))), "RESET")
      \/ ~ laneOpen /\ Becomes(p, SetWriter(z, WriteDone(z.writer)))
  BY DEF ResetDiscards
<1> HIDE DEF z
<1>5. /\ z.writer \in WriterType /\ z.writer.written = w.written /\ z.writer.dirty = w.dirty
      /\ z.writer.flushing = w.flushing /\ z.writer.confirmed = w.confirmed
      /\ z.writer.gone = w.gone
  BY <1>1, <1>3, WakeWriterMeans
<1>6. ASSUME NEW y \in PipeType, NEW v \in WriterType, y = SetWriter(z, v), v.stage = "idle",
             v.gone = w.gone
      PROVE  /\ y.writer = v /\ PipeInv(y, b) /\ CloseCalm(x, y) /\ y.terminal = "failed"
             /\ y.localFin = x.localFin /\ y.remoteFin = x.remoteFin
             /\ IsProtocolFinished(y) <=> IsProtocolFinished(x)
  <2>1. y.writer = v /\ y.reader = z.reader /\ SameBuffer(z, y) /\ SameEnd(z, y)
    BY <1>3, <1>6, SetWriterMeans
  <2>2. /\ y.chunks = 0 /\ y.current = 0 /\ y.rxClosed
        /\ y.pushed = x.pushed /\ y.taken = x.taken
        /\ y.reader = Wake(x.reader) /\ SameEnd(x, y)
    BY <1>3, <2>1 DEF SameBuffer, SameEnd
  <2>3. PipeInv(y, b)
    BY <1>1, <1>2, <1>6, <2>1, <2>2, FailEnds
  <2> QED BY <1>2, <1>6, <2>1, <2>2, <2>3 DEF CloseCalm, SameEnd, IsProtocolFinished
<1>7. CASE laneOpen /\ SendFrame(p, SetWriter(z, WriteDone(Sent(z.writer))), "RESET")
  <2> DEFINE v == WriteDone(Sent(z.writer))
             y == SetWriter(z, v)
  <2>1. /\ v \in WriterType /\ v.stage = "idle" /\ v.dirty = TRUE /\ v.flushing = "none"
        /\ v.written = n /\ v.confirmed = w.confirmed /\ v.gone = w.gone
    BY <1>5, SentDoneMeans
  <2>2. /\ pipe' = [pipe EXCEPT ![p] = y] /\ lane' = Append(lane, Item("RESET", p, n))
        /\ UNCHANGED <<ops, laneOpen, abandoned, entries, task, received, wire>>
    BY <1>7 DEF SendFrame
  <2> HIDE DEF v
  <2>3. y \in PipeType
    BY <1>3, <2>1, SetWriterMeans
  <2>4. /\ y.writer = v /\ PipeInv(y, b) /\ CloseCalm(x, y) /\ y.terminal = "failed"
        /\ IsProtocolFinished(y) <=> IsProtocolFinished(x)
    BY <1>6, <2>1, <2>3
  <2> HIDE DEF y
  <2>5. Item("RESET", p, n) \in ItemType
    BY <1>1, ItemTyped DEF FrameKinds
  <2>6. n = x.writer.written + 1
    OBVIOUS
  <2> HIDE DEF n
  <2> QED BY <1>1, <1>2, <1>7, <2>1, <2>2, <2>3, <2>4, <2>5, <2>6, LaneTakes
<1>8. CASE ~ laneOpen /\ Becomes(p, SetWriter(z, WriteDone(z.writer)))
  <2> DEFINE v == WriteDone(z.writer)
             y == SetWriter(z, v)
  <2>1. /\ v \in WriterType /\ v.stage = "idle" /\ v.dirty = w.dirty /\ v.flushing = w.flushing
        /\ v.written = w.written /\ v.confirmed = w.confirmed /\ v.gone = w.gone
    BY <1>5, WriteDoneMeans
  <2> HIDE DEF v
  <2>2. y \in PipeType
    BY <1>3, <2>1, SetWriterMeans
  <2>3. /\ y.writer = v /\ PipeInv(y, b) /\ CloseCalm(x, y)
        /\ y.localFin = x.localFin /\ y.remoteFin = x.remoteFin
    BY <1>6, <2>1, <2>2
  <2>4. Becomes(p, y)
    BY <1>8 DEF v
  <2> HIDE DEF y
  <2>5. LaneCalm(w, v) /\ SleepsWell(v)
    BY <2>1 DEF LaneCalm, SleepsWell
  <2> QED BY <1>2, <1>8, <2>1, <2>2, <2>3, <2>4, <2>5, BecomesKeeps
<1> QED BY <1>4, <1>7, <1>8

(* PipeOwner::drop, with the Pipe as z once its half is gone. *)
LEMMA DropOwnerKeeps ==
    ASSUME IInv, NEW p \in Pipes, NEW x, x = pipe[p], NEW z \in PipeType, DropOwner(p, z),
           PipeInv(z, Doing(task, p)), LaneCalm(x.writer, z.writer), SameEnd(x, z),
           SleepsWell(z.writer),
           z.writer.stage = "discard" <=> x.writer.stage = "discard",
           x.writer.gone => z.writer.gone
    PROVE  IInv'
<1> DEFINE abandons == z.reader.gone /\ z.writer.gone /\ z.terminal = "none"
           b == Doing(task, p)
<1>1. /\ pipe' = [pipe EXCEPT ![p] = IF abandons THEN CloseNormal(z, "local") ELSE z]
      /\ abandoned' = IF abandons THEN Append(abandoned, p) ELSE abandoned
      /\ UNCHANGED <<ops, lane, laneOpen, entries, task, received, wire>>
  BY DEF DropOwner
<1>2. received' \in Nat /\ task' = task
  BY <1>1 DEF IInv, TypeOK
<1>3. z.terminal = x.terminal /\ z.localFin = x.localFin /\ z.remoteFin = x.remoteFin
  BY DEF SameEnd
<1>4. z.writer \in WriterType
  BY HalvesTyped
<1>5. CASE ~ abandons
  <2>1. CloseCalm(x, z) /\ (IsProtocolFinished(z) <=> IsProtocolFinished(x))
    BY <1>3 DEF CloseCalm, IsProtocolFinished
  <2>2. pipe' = [pipe EXCEPT ![p] = z] /\ abandoned' = abandoned
    BY <1>1, <1>5
  <2> HIDE DEF abandons
  <2> QED BY <1>1, <1>2, <1>3, <2>1, <2>2, PipeMoves
<1>6. CASE abandons
  <2> DEFINE y == CloseNormal(z, "local")
  <2>1. /\ y \in PipeType /\ y.terminal = "closed" /\ y.writer = Wake(z.writer)
        /\ y.remoteFin = z.remoteFin /\ y.localFin = z.localFin /\ PipeInv(y, b)
    BY <1>6, CloseNormalMeans, CloseNormalKeeps
  <2>2. pipe' = [pipe EXCEPT ![p] = y] /\ abandoned' = Append(abandoned, p)
    BY <1>1, <1>6
  <2> HIDE DEF y
  <2>3. /\ LaneCalm(z.writer, y.writer) /\ y.writer.stage = z.writer.stage
        /\ y.writer.gone = z.writer.gone
        /\ SleepsWell(y.writer) \/ y.writer = z.writer
    BY <1>4, <2>1, WriterWoken
  <2>4. LaneCalm(x.writer, y.writer)
    BY <2>3, LaneCalmTrans
  <2>5. CloseCalm(x, y) /\ (IsProtocolFinished(y) <=> IsProtocolFinished(x))
    BY <1>3, <2>1, <2>3 DEF CloseCalm, IsProtocolFinished
  <2>6. y.writer.gone /\ y.terminal # "none" /\ SleepsWell(y.writer)
    BY <1>6, <2>1, <2>3
  <2>7. x.terminal = "none" /\ y.writer.stage # "discard"
    BY <1>3, <1>6, <2>1, <2>6 DEF PipeInv, HalvesInv
  <2> HIDE DEF abandons
  <2> QED BY <1>1, <1>2, <2>1, <2>2, <2>3, <2>4, <2>5, <2>6, <2>7, PipeMoves
<1> QED BY <1>5, <1>6

(* The ReadHalf is dropped. *)
LEMMA DropReaderKeeps ==
    ASSUME IInv, NEW p \in Pipes, DropReader(p)
    PROVE  IInv'
<1> DEFINE x == pipe[p]
           r == [x.reader EXCEPT !.gone = TRUE, !.stage = "idle", !.woken = FALSE]
           u == [x EXCEPT !.reader = r]
           z == Discard(u)
<1>1. /\ x \in PipeType /\ PipeInv(x, Doing(task, p)) /\ x.reader \in ReaderType
      /\ SleepsWell(x.writer) /\ DropOwner(p, z)
  BY PipeOf DEF DropReader
<1>2. r \in ReaderType /\ r.gone /\ r.stage = "idle" /\ r.eof = x.reader.eof
  BY <1>1 DEF ReaderType
<1> HIDE DEF r
<1>3. u \in PipeType /\ u.reader = r /\ u.writer = x.writer /\ SameBuffer(x, u) /\ SameEnd(x, u)
  BY <1>1, <1>2, SetReaderMeans
<1> HIDE DEF u
<1>4. /\ z \in PipeType /\ z.chunks = 0 /\ z.current = 0 /\ z.rxClosed
      /\ z.pushed = x.pushed /\ z.taken = x.taken
      /\ z.writer = x.writer /\ z.reader = r /\ SameEnd(x, z)
  BY <1>3, DiscardMeans DEF SameBuffer, SameEnd
<1> HIDE DEF z
<1>5. PipeInv(z, Doing(task, p))
  BY <1>1, <1>2, <1>4, ReaderDropped
<1>6. LaneCalm(x.writer, z.writer)
  BY <1>4 DEF LaneCalm
<1> QED BY <1>1, <1>4, <1>5, <1>6, DropOwnerKeeps

(* The WriteHalf is dropped; the last half abandons an open Pipe. *)
LEMMA DropWriterKeeps ==
    ASSUME IInv, NEW p \in Pipes, DropWriter(p)
    PROVE  IInv'
<1> DEFINE x == pipe[p]
           w == x.writer
           u == WriteDone(w)
           v == [u EXCEPT !.gone = TRUE, !.flushing = "none"]
           z == SetWriter(x, v)
<1>1. /\ x \in PipeType /\ PipeInv(x, Doing(task, p)) /\ w \in WriterType
      /\ w.stage \in {"idle", "sleep"} /\ DropOwner(p, z)
  BY PipeOf DEF DropWriter
<1>2. /\ u \in WriterType /\ u.stage = "idle" /\ u.dirty = w.dirty
      /\ u.written = w.written /\ u.confirmed = w.confirmed
  BY <1>1, WriteDoneMeans
<1> HIDE DEF u
<1>3. /\ v \in WriterType /\ v.stage = "idle" /\ v.dirty = w.dirty /\ v.flushing = "none"
      /\ v.written = w.written /\ v.confirmed = w.confirmed /\ v.gone
  BY <1>2 DEF WriterType
<1> HIDE DEF v
<1>4. z \in PipeType /\ z.writer = v /\ z.reader = x.reader /\ SameBuffer(x, z) /\ SameEnd(x, z)
  BY <1>1, <1>3, SetWriterMeans
<1> HIDE DEF z
<1>5. PipeInv(z, Doing(task, p))
  BY <1>1, <1>3, <1>4, WriterMoves
<1>6. LaneCalm(w, v) /\ SleepsWell(v)
  BY <1>3 DEF LaneCalm, SleepsWell
<1> QED BY <1>1, <1>3, <1>4, <1>5, <1>6, DropOwnerKeeps

-----------------------------------------------------------------------------
(***************************************************************************)
(* The theorems.                                                           *)
(***************************************************************************)

(* A new Pipe satisfies its invariant. *)
LEMMA NewPipeMeans ==
    /\ NewPipe \in PipeType /\ PipeInv(NewPipe, "none")
    /\ NewPipe.terminal = "none" /\ ~ IsProtocolFinished(NewPipe)
    /\ NewPipe.writer.stage = "idle" /\ NewPipe.writer.flushing = "none"
    /\ NewPipe.writer.written = 0 /\ NewPipe.writer.confirmed = 0
<1>1. NewWriter \in WriterType /\ NewReader \in ReaderType
  BY DEF NewWriter, NewReader, WriterType, ReaderType
<1>2. /\ NewWriter.stage = "idle" /\ NewWriter.flushing = "none" /\ NewWriter.gone = FALSE
      /\ NewWriter.written = 0 /\ NewWriter.confirmed = 0
      /\ NewReader.stage = "idle" /\ NewReader.eof = "no" /\ NewReader.gone = FALSE
  BY DEF NewWriter, NewReader
<1>3. /\ NewPipe.writer = NewWriter /\ NewPipe.reader = NewReader /\ NewPipe.terminal = "none"
      /\ NewPipe.ender = "none" /\ NewPipe.remoteFin = FALSE /\ NewPipe.localFin = FALSE
      /\ NewPipe.chunks = 0 /\ NewPipe.current = 0 /\ NewPipe.rxClosed = FALSE
      /\ NewPipe.pushed = 0 /\ NewPipe.taken = 0
  BY DEF NewPipe
<1>4. NewPipe \in PipeType
  BY <1>1 DEF NewPipe, PipeType
<1>5. Buffered(NewPipe) = 0
  BY <1>3, ConstantsMean DEF Buffered
<1>6. PipeInv(NewPipe, "none")
  BY <1>2, <1>3, <1>5 DEF PipeInv, EnderKnown, BufferInv, EofInv, FinInv, HalvesInv, Fails
<1> QED BY <1>2, <1>3, <1>4, <1>6 DEF IsProtocolFinished

(* The initial state. *)
LEMMA InitKeeps ==
    ASSUME Init
    PROVE  IInv
<1>1. /\ \A p \in Pipes : pipe[p] = NewPipe
      /\ \A p \in Pipes : wire[p] = <<>>
      /\ lane = <<>> /\ abandoned = <<>> /\ laneOpen = TRUE
      /\ DOMAIN lane = {} /\ DOMAIN abandoned = {}
  BY EmptyMeans DEF Init
<1>2. task.stage = "select" /\ task \in TaskType /\ \A q : Doing(task, q) = "none"
  BY SelectMeans DEF Init
<1>3. TypeOK
  <2>1. ops \in [Pipes -> SUBSET AllOperations]
    BY ConstantsMean DEF Init
  <2>2. pipe \in [Pipes -> PipeType]
    BY NewPipeMeans DEF Init
  <2>3. lane \in Seq(ItemType) /\ abandoned \in Seq(Pipes)
    BY <1>1, EmptyMeans
  <2>4. wire \in [Pipes -> Seq(FrameType)]
    BY EmptyMeans DEF Init
  <2>5. entries \subseteq Pipes /\ received \in Nat /\ laneOpen \in BOOLEAN
    BY DEF Init
  <2> QED BY <1>2, <2>1, <2>2, <2>3, <2>4, <2>5 DEF TypeOK
<1>4. PipesInv
  BY <1>1, <1>2, NewPipeMeans DEF PipesInv
<1>5. LaneInv
  <2>1. \A p \in Pipes : FlushInv(p)
    BY <1>1, NewPipeMeans DEF FlushInv
  <2> QED BY <1>1, <2>1 DEF LaneInv, ClosedLane, Numbered, MarkersBehind
<1>6. CloseInv
  <2>1. \A p \in Pipes : DOMAIN wire[p] = {}
    BY <1>1, EmptyMeans
  <2> QED BY <1>1, <2>1 DEF CloseInv, CloseIsLast, AbandonedInv, NothingAfterClose, AfterClose
<1>7. EntriesInv
  <2>1. \A p \in entries : pipe[p].terminal = "none" /\ ~ IsProtocolFinished(pipe[p])
    BY <1>1, <1>3, NewPipeMeans DEF TypeOK
  <2> QED BY <2>1 DEF EntriesInv, EntryInv
<1>8. SleeperInv
  BY <1>1, NewPipeMeans DEF SleeperInv
<1>9. LateInv
  BY <1>2 DEF LateInv
<1> QED BY <1>3, <1>4, <1>5, <1>6, <1>7, <1>8, <1>9 DEF IInv

(* A step that changes nothing. *)
LEMMA StutterKeeps ==
    ASSUME IInv, UNCHANGED vars
    PROVE  IInv'
<1> USE DEF vars
<1>1. TypeOK' /\ PipesInv' /\ EntriesInv' /\ SleeperInv'
  BY DEF IInv, TypeOK, PipesInv, EntriesInv, EntryInv, InLane, SleeperInv, Full, Holders
<1>2. LaneInv'
  BY DEF IInv, LaneInv, ClosedLane, Numbered, MarkersBehind, FlushInv, OnWire, Queued
<1>3. CloseInv'
  <2>1. CloseIsLast' /\ AbandonedInv' /\ NothingAfterClose'
    BY DEF IInv, CloseInv, CloseIsLast, AbandonedInv, Dropped, InLane, NothingAfterClose, MayFollow
  <2>2. \A p \in Pipes : AfterClose(p)'
    BY DEF IInv, CloseInv, AfterClose, Settled, Quiet, MayFollow
  <2> QED BY <2>1, <2>2 DEF CloseInv
<1>4. LateInv'
  BY DEF IInv, LateInv
<1> QED BY <1>1, <1>2, <1>3, <1>4 DEF IInv

(* Every step keeps the invariant. *)
LEMMA NextKeeps ==
    ASSUME IInv, [Next]_vars
    PROVE  IInv'
<1>1. ASSUME NEW p \in Pipes, Reader(p) \/ Writer(p)
      PROVE  IInv'
  BY <1>1, PollReadKeeps, PollReadEndKeeps, PollKeeps, TryReserveKeeps, RegisterWaiterKeeps,
     TryReserveAgainKeeps, FinCheckKeeps, ResetDiscardsKeeps DEF Reader, Writer
<1>2. ASSUME NEW p \in Pipes, Application(p)
      PROVE  IInv'
  BY <1>2, StartKeeps, CancelWriteKeeps, DropReaderKeeps, DropWriterKeeps DEF Application
<1>3. ASSUME NEW p \in Pipes, Session(p)
      PROVE  IInv'
  BY <1>3, PushDataKeeps, SessionDiscardsKeeps, SendResetKeeps, RemoteFinKeeps, FinishedKeeps,
     OnInboundKeeps, CleanupPipeKeeps DEF Session
<1>4. ASSUME OnFrame \/ OnFlush \/ FindsLaneEmpty \/ FindsNothing \/ OnAbandoned \/ SessionBreaks
      PROVE  IInv'
  BY <1>4, OnFrameKeeps, OnFlushKeeps, FindsLaneEmptyKeeps, FindsNothingKeeps, OnAbandonedKeeps,
     SessionBreaksKeeps
<1>5. CASE UNCHANGED vars
  BY <1>5, StutterKeeps
<1>6. CASE Next
  BY <1>1, <1>2, <1>3, <1>4, <1>6 DEF Next
<1> QED BY <1>5, <1>6

(***************************************************************************)
(* The inductive invariant of the Pipes of a session and their lane.       *)
(***************************************************************************)
THEOREM InvariantHolds == Spec => []IInv
<1>1. Init => IInv
  BY InitKeeps
<1>2. IInv /\ [Next]_vars => IInv'
  BY NextKeeps
<1> QED BY <1>1, <1>2, PTL DEF Spec

(* Every variable keeps its type (pair_inner, SessionOutbound). *)
THEOREM TypeCorrect == Spec => []TypeOK
<1>1. IInv => TypeOK
  BY DEF IInv
<1> QED BY <1>1, InvariantHolds, PTL

(***************************************************************************)
(* on_outbound and on_abandoned: no frame of a Pipe follows its writer's   *)
(* CLOSE onto the wire, and the CLOSE of a dropped Pipe overtakes only     *)
(* what was queued after that poll of the select found the lane empty.     *)
(***************************************************************************)
THEOREM CloseIsOrdered == Spec => []NothingAfterClose
<1>1. IInv => NothingAfterClose
  BY DEF IInv, CloseInv
<1> QED BY <1>1, InvariantHolds, PTL

(***************************************************************************)
(* poll_flush: when a flush reports success, every frame its writer queued *)
(* before has been handed to the transport.                                *)
(***************************************************************************)
THEOREM FlushIsHonest == Spec => []FlushMeansSent
<1>1. IInv => FlushMeansSent
  BY DEF IInv, LaneInv, FlushInv, FlushMeansSent
<1> QED BY <1>1, InvariantHolds, PTL

(* A half that fails its Pipe, as the properties and as the invariant say it. *)
LEMMA FailingMeans ==
    ASSUME IInv, NEW p \in Pipes
    PROVE  /\ Failing(p) <=> Fails(pipe[p], Doing(task, p))
           /\ \A s \in HandlerStages : AtPipe(s, p) <=> Doing(task, p) = s
BY DEF Failing, Fails, AtPipe, Doing, HandlerStages

(***************************************************************************)
(* poll_shutdown and remote_fin: once both FINs are known, the Pipe is     *)
(* closed, although each side looks for the other's FIN only once.         *)
(***************************************************************************)
THEOREM BothFinsAreSeen == Spec => []BothFinsClose
<1>1. ASSUME IInv
      PROVE  BothFinsClose
  <2> SUFFICES ASSUME NEW p \in Pipes, IsProtocolFinished(pipe[p]),
                      pipe[p].writer.stage # "fincheck", ~ AtPipe("fin", p)
               PROVE  pipe[p].terminal # "none"
    BY DEF BothFinsClose
  <2>1. Doing(task, p) # "fin"
    <3>1. "fin" \in HandlerStages
      BY DEF HandlerStages
    <3> QED BY <1>1, <3>1, FailingMeans
  <2> QED BY <1>1, <2>1, PipeOf DEF PipeInv, FinInv, IsProtocolFinished
<1> QED BY <1>1, InvariantHolds, PTL

(***************************************************************************)
(* poll_read: a reader that is told of the end has taken every byte the    *)
(* session buffered for it, unless this side closed the Pipe.              *)
(***************************************************************************)
THEOREM EofIsTheEnd == Spec => []EofMeansAll
<1>1. ASSUME IInv
      PROVE  EofMeansAll
  BY <1>1, PipeOf DEF EofMeansAll, PipeInv, EofInv
<1> QED BY <1>1, InvariantHolds, PTL

(***************************************************************************)
(* PipeReadBuffer::discard and the session's map: an ended Pipe gives back *)
(* its bytes of the Relay's budget, and its entry is gone or on its way.   *)
(***************************************************************************)
THEOREM EndsAreReleased == Spec => []EndedPipesRelease
<1>1. ASSUME IInv
      PROVE  FailedHoldsNothing
  <2> SUFFICES ASSUME NEW p \in Pipes,
                      \/ pipe[p].reader.gone
                      \/ pipe[p].terminal = "failed" /\ ~ Failing(p)
               PROVE  Reserved(pipe[p]) = 0
    BY DEF FailedHoldsNothing
  <2>1. pipe[p].rxClosed
    BY <1>1, PipeOf, FailingMeans DEF PipeInv, BufferInv
  <2>2. pipe[p].chunks = 0 /\ pipe[p].current = 0
    BY <1>1, <2>1, PipeOf DEF PipeInv, BufferInv
  <2> QED BY <2>2, ConstantsMean DEF Reserved, Held
<1>2. ASSUME IInv
      PROVE  EndedPipesLeave
  <2> SUFFICES ASSUME NEW p \in entries, pipe[p].terminal # "none"
               PROVE  \/ InLane(p, {"CLOSE", "RESET", "FIN"})
                      \/ \E i \in DOMAIN abandoned : abandoned[i] = p
                      \/ pipe[p].writer.stage = "discard"
                      \/ AtPipe("fin", p) \/ AtPipe("finished", p)
                      \/ At("cleanup")
    BY DEF EndedPipesLeave
  <2>1. EntryInv(p) /\ p \in Pipes
    BY <1>2 DEF IInv, EntriesInv, TypeOK
  <2>2. Doing(task, p) \in {"fin", "finished"} => AtPipe("fin", p) \/ AtPipe("finished", p)
    <3>1. {"fin", "finished"} \subseteq HandlerStages
      BY DEF HandlerStages
    <3> QED BY <1>2, <2>1, <3>1, FailingMeans
  <2>3. /\ InLane(p, {"FIN"}) => InLane(p, {"CLOSE", "RESET", "FIN"})
        /\ InLane(p, {"CLOSE", "RESET"}) => InLane(p, {"CLOSE", "RESET", "FIN"})
    BY DEF InLane
  <2> QED BY <2>1, <2>2, <2>3 DEF EntryInv, At
<1> QED BY <1>1, <1>2, InvariantHolds, PTL DEF EndedPipesRelease

(***************************************************************************)
(* The wakers of poll_read, poll_flush and poll_enqueue: a half that       *)
(* sleeps has nothing to do, or a wake is on its way to it.                *)
(***************************************************************************)
THEOREM EveryWakeArrives == Spec => []NoWakeIsLost
<1>1. ASSUME IInv
      PROVE  NoWakeIsLost
  <2> SUFFICES ASSUME NEW p \in Pipes
               PROVE  LET x == pipe[p]
                          w == x.writer
                          open == x.terminal = "none" \/ Failing(p)
                      IN  /\ (x.reader.stage = "sleep" /\ ~ x.reader.woken) =>
                                 open /\ x.chunks = 0 /\ ~ x.remoteFin
                          /\ (w.stage = "sleep" /\ ~ w.woken) =>
                                 /\ laneOpen
                                 /\ \/ w.flushing = "pending" /\ InLane(p, {"FLUSH"})
                                    \/ w.waiter = "registered" /\ Full /\ (w.op = "flush" \/ open)
    BY DEF NoWakeIsLost
  <2>1. /\ PipeInv(pipe[p], Doing(task, p)) /\ SleepsWell(pipe[p].writer)
        /\ Failing(p) <=> Fails(pipe[p], Doing(task, p))
    BY <1>1, PipeOf, FailingMeans
  <2>2. pipe[p].writer.flushing = "pending" => InLane(p, {"FLUSH"})
    <3> SUFFICES ASSUME pipe[p].writer.flushing = "pending"
                 PROVE  InLane(p, {"FLUSH"})
      OBVIOUS
    <3>1. PICK i \in DOMAIN lane : lane[i] = Item("FLUSH", p, pipe[p].writer.written)
      BY <1>1 DEF IInv, LaneInv, FlushInv
    <3>2. lane[i].pipe = p /\ lane[i].kind = "FLUSH"
      BY <3>1 DEF Item
    <3> QED BY <3>2 DEF InLane
  <2>3. HalvesInv(pipe[p], Doing(task, p))
    BY <2>1 DEF PipeInv
  <2> QED BY <2>1, <2>2, <2>3 DEF HalvesInv, SleepsWell
<1> QED BY <1>1, InvariantHolds, PTL

=============================================================================
