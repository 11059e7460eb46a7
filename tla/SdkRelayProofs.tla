--------------------------- MODULE SdkRelayProofs ---------------------------
(***************************************************************************)
(* Theorems about SdkRelay, for any Listeners, dials, Destinations,        *)
(* capacities and bounds: what the application is told is what the session *)
(* and the Gateway have, however close, replacement, deadlines and the     *)
(* loss of the session interleave.                                         *)
(***************************************************************************)
EXTENDS SdkRelay, FiniteSetTheorems, SequenceTheorems, TLAPS

(* A Listener's lifecycle and its status agree. *)
StateOK(r) ==
    /\ r.life = "Terminal" <=> r.status \in {"Blocked", "Closed"}
    /\ r.status = "Suspended" => r.life = "Returned"

(* How far the call or handle has come, and what its Listener has seen. *)
CallOK(l) ==
    LET r == state[l] IN
    /\ calls[l] \in {"new", "waiting"} => r.life # "Returned"
    /\ calls[l] = "new" => ~ IsCurrentDesired(l) /\ sent[l] # "sent"
    /\ calls[l] = "waiting" /\ r.life = "Pending" => IsCurrentDesired(l)
    /\ calls[l] = "terminating" => r.life = "Terminal"
    /\ calls[l] \in {"held", "closing", "dropping"} =>
          r.life # "Pending" /\ (Cancelled \/ IsCurrentDesired(l))
    /\ calls[l] \in {"closing", "dropping"} => Closed(l)

(* The maps of the registry and of the session, destination by destination. *)
BooksOK ==
    \A d \in Destinations :
        /\ desired[d] # NoListener => DestinationOf[desired[d]] = d
        /\ pend[d] # NoListener => DestinationOf[pend[d]] = d /\ regs[d] = NoListener
        /\ regs[d] # NoListener =>
              /\ DestinationOf[regs[d]] = d /\ regs[d] \in held
              /\ state[regs[d]].status \in {"Active", "Closed"}
        /\ d \in committed /\ loop # "cleanup" => pend[d] \in held
        /\ loop \in {"drain", "connect", "closed"} =>
              pend[d] = NoListener /\ regs[d] = NoListener

(* What the Gateway may hold of a Listener the session knows. *)
HeldOK(l) ==
    LET d == DestinationOf[l] IN
    l \in held => regs[d] = l \/ (d \in committed /\ pend[d] = l)

ActiveOK(l) ==
    state[l].status = "Active" => IsCurrentDesired(l) /\ regs[DestinationOf[l]] = l

(* What a listen() that still waits, or has answered, says of its PUBLISH. *)
TruthOK(l) ==
    LET r == state[l]
        d == DestinationOf[l]
    IN
    /\ answer[l] = "NotObserved" => r.life = "Terminal" /\ sent[l] # "sent"
    /\ calls[l] = "waiting" /\ sent[l] = "sent" =>
          /\ r.life = "Pending" =>
                \/ r.status = "Active"
                \/ r.progress = "Committed" /\ d \in committed /\ pend[d] = l
          /\ r.life = "Terminal" => r.error # "NotObserved"

(* Pipes wait only for a Listener that is registered, or that was closed, *)
(* or whose queue the ended session still has to drain.                   *)
QueueOK(l) ==
    ~ Closed(l) =>
        /\ queue[l].pipes # << >> =>
              \/ regs[DestinationOf[l]] = l
              \/ loop = "drain" /\ \E b \in BOOLEAN : <<l, b>> \in drains
        /\ loop # "drain" => \A i \in DOMAIN queue[l].pipes : queue[l].pipes[i] # "old"

(* What a reconcile would do that this pass has not in hand. *)
WorkBeyond(hand) ==
    \/ AbandonedCommit
    \/ StaleDestinations # {}
    \/ \E l \in Wanted \ hand : NeedsRegistration(l)

Notifying == \E l \in Listeners : calls[l] \in {"terminating", "closing", "dropping"}

RetryOK == (~ RetryIsReady => epoch \in timers) /\ \A e \in timers : e % 2 = 1

DueOK ==
    /\ RetryOK
    /\ loop \in {"register", "settle", "select"} /\ ~ Cancelled =>
          (WorkBeyond(IF loop = "register" THEN todo ELSE {}) => permit \/ Notifying)

ListenerInv ==
    /\ TypeOK
    /\ \A l \in Listeners :
          /\ StateOK(state[l]) /\ CallOK(l) /\ HeldOK(l) /\ ActiveOK(l) /\ TruthOK(l)
          /\ QueueOK(l)
    /\ BooksOK
    /\ DueOK

-----------------------------------------------------------------------------
(***************************************************************************)
(* The dials.                                                              *)
(***************************************************************************)
Responses == {"none", "pipe", "refused", "NotObserved", "MaybeObserved"}

DialStates ==
    [stage : Stages, session : Nat, id : Nat, token : BOOLEAN,
     response : Responses, outcome : Responses \union {"dropped"}, crossed : BOOLEAN]

RelayStates ==
    [serial : Nat \ {0}, next : Nat, commands : Seq(Dials),
     cancellations : SUBSET Dials, abandoned : SUBSET Dials,
     pending : SUBSET Dials, pipes : SUBSET Dials, cancel : BOOLEAN,
     poll : {"commands", "cancellations", "abandoned"}]

Frames == [kind : {"OPENED", "DIAL_FAILED", "RESET"}, dial : Dials]

DialTypes ==
    /\ dials \in [Dials -> DialStates]
    /\ relay \in RelayStates
    /\ gateway \in [Dials -> {"none", "dialling", "open", "gone"}]
    /\ inbox \in Seq(Frames)
    /\ wire \in Seq([dial : Dials, session : Nat, id : Nat])

Wired(d) == \E i \in DOMAIN wire : wire[i].dial = d

Queued(d) == \E i \in DOMAIN relay.commands : relay.commands[i] = d

(* What the session has of a dial says how far its call is, and has an     *)
(* owner or a note that takes it back, unless the DIAL was queued in the   *)
(* middle of a poll, as every DIAL is that is queued while a poll goes on. *)
KnownOK(d) ==
    /\ Queued(d) \/ d \in relay.pending \union relay.pipes =>
          /\ dials[d].session = relay.serial /\ loop \notin {"drain", "connect", "closed"}
          /\ dials[d].stage \in {"waiting", "done"}
          /\ Owned(d) \/ Noted(d) \/ (d \notin relay.pipes /\ dials[d].crossed)
    /\ Queued(d) => gateway[d] = "none" /\ ~ Wired(d) /\ d \notin relay.pending
    /\ Queued(d) /\ relay.poll # "commands" => dials[d].crossed
    /\ Queued(d) \/ d \in relay.pending => dials[d].response = "none"
    /\ d \in relay.pipes \union relay.abandoned => dials[d].response = "pipe"

(* A call that has not queued its DIAL is known to nobody. *)
CallerOK(d) ==
    /\ dials[d].session <= relay.serial
    /\ dials[d].stage \notin {"waiting", "done"} =>
          /\ ~ Wired(d) /\ gateway[d] = "none"
          /\ dials[d].response = "none" /\ dials[d].outcome = "none"
    /\ dials[d].outcome = "pipe" => dials[d].response = "pipe"
    /\ "NotObserved" \in {dials[d].outcome, dials[d].response} => ~ Wired(d) /\ ~ Queued(d)

(* The Gateway holds what the session knows, and its frames say so. *)
GatewayOK ==
    /\ loop # "cleanup" => \A d \in Dials :
          gateway[d] \in {"dialling", "open"} => d \in relay.pending \union relay.pipes
    /\ \A i \in DOMAIN inbox :
          gateway[inbox[i].dial] \in
             IF inbox[i].kind = "OPENED" THEN {"open", "gone"} ELSE {"gone"}

(* A call that holds the session's lock with an id of its own. *)
Sends(d) == dials[d].stage \in {"send", "push"} /\ dials[d].session = relay.serial

(* Ids are used in the order in which they are allocated: those on the     *)
(* wire, those queued, the one that is being queued, the next one.         *)
WireOK ==
    \A i \in DOMAIN wire :
        /\ wire[i].session = dials[wire[i].dial].session
        /\ \A j \in DOMAIN wire :
              i < j => /\ wire[i].dial # wire[j].dial
                       /\ wire[i].session = wire[j].session => wire[i].id < wire[j].id
        /\ wire[i].session = relay.serial =>
              /\ wire[i].id < relay.next
              /\ \A d \in Dials : Queued(d) \/ Sends(d) => wire[i].id < dials[d].id

CommandsOK ==
    \A i \in DOMAIN relay.commands :
        LET d == relay.commands[i] IN
        /\ dials[d].id < relay.next
        /\ \A j \in DOMAIN relay.commands :
              i < j => /\ d # relay.commands[j]
                       /\ dials[d].id < dials[relay.commands[j]].id
        /\ \A e \in Dials : Sends(e) => dials[d].id < dials[e].id

LockOK ==
    \A d \in Dials : Sends(d) =>
        dials[d].id < relay.next /\ \A e \in Dials : Sends(e) => e = d

DialInv ==
    /\ DialTypes
    /\ \A d \in Dials : KnownOK(d) /\ CallerOK(d)
    /\ GatewayOK /\ WireOK /\ CommandsOK /\ LockOK

-----------------------------------------------------------------------------
(***************************************************************************)
(* What the critical sections of a Listener's lock do to its state.        *)
(***************************************************************************)
LEMMA PublishMeans ==
    ASSUME NEW r \in ListenerStates, NEW status \in Statuses,
           NEW error \in Observations \union {"none"}
    PROVE  LET q == Publish(r, status, error) IN
           /\ q \in ListenerStates
           /\ q.life = r.life /\ q.progress = r.progress /\ q.late = r.late
           /\ r.status = "Closed" => q = r
           /\ r.status # "Closed" => q.status = status /\ q.error = error
BY DEF Publish, ListenerStates

(* An ended Listener is Terminal; the error of one that was closed stays. *)
LEMMA EndMeans ==
    ASSUME NEW r \in ListenerStates, NEW status \in {"Blocked", "Closed"},
           NEW error \in Observations \union {"none"}
    PROVE  LET q == End(r, status, error) IN
           /\ q \in ListenerStates /\ StateOK(q)
           /\ q.life = "Terminal" /\ q.status \in {status, "Closed"}
           /\ r.status = "Closed" => q.status = "Closed" /\ q.error = r.error
           /\ r.status # "Closed" => q.status = status /\ q.error = error
<1> DEFINE w == [r EXCEPT !.life = "Terminal", !.progress = "Waiting", !.late = FALSE]
           q == Publish(w, status, error)
<1>1. /\ w \in ListenerStates /\ w.life = "Terminal" /\ w.status = r.status
      /\ w.error = r.error
  BY DEF ListenerStates, Lifecycles, Progress
<1>2. End(r, status, error) = q
  BY DEF End
<1>3. status \in Statuses
  BY DEF Statuses
<1> HIDE DEF w
<1>4. /\ q \in ListenerStates /\ q.life = "Terminal"
      /\ r.status = "Closed" => q = w
      /\ r.status # "Closed" => q.status = status /\ q.error = error
  BY <1>1, <1>3, PublishMeans
<1> HIDE DEF q
<1> QED BY <1>1, <1>2, <1>4 DEF StateOK

(* A Listener that has not ended is neither Blocked nor Closed. *)
LEMMA OpenMeans ==
    ASSUME NEW r \in ListenerStates, StateOK(r), r.life # "Terminal"
    PROVE  r.status \in {"Registering", "Active", "Suspended"}
BY DEF StateOK, ListenerStates, Statuses

(* An operation on an open Listener that publishes another status. *)
LEMMA WaitAndPublish ==
    ASSUME NEW r \in ListenerStates, StateOK(r), r.life # "Terminal",
           NEW progress \in Progress,
           NEW status \in {"Registering", "Active", "Suspended"},
           NEW error \in Observations \union {"none"},
           status = "Suspended" => r.life = "Returned"
    PROVE  LET q == Publish([r EXCEPT !.progress = progress], status, error) IN
           /\ q \in ListenerStates /\ StateOK(q)
           /\ q.life = r.life /\ q.progress = progress /\ q.late = r.late
           /\ q.status = status /\ q.error = error
<1> DEFINE w == [r EXCEPT !.progress = progress]
           q == Publish(w, status, error)
<1>1. /\ w \in ListenerStates /\ w.life = r.life /\ w.status = r.status
      /\ w.progress = progress /\ w.late = r.late
  BY DEF ListenerStates
<1>2. status \in Statuses /\ w.status # "Closed"
  BY <1>1, OpenMeans DEF Statuses
<1> HIDE DEF w
<1>3. /\ q \in ListenerStates /\ q.life = r.life /\ q.progress = progress
      /\ q.late = r.late /\ q.status = status /\ q.error = error
  BY <1>1, <1>2, PublishMeans
<1> HIDE DEF q
<1>4. StateOK(q)
  BY <1>3 DEF StateOK
<1> QED BY <1>3, <1>4 DEF w, q

-----------------------------------------------------------------------------
(***************************************************************************)
(* The queues of offered Pipes.                                            *)
(***************************************************************************)
Marks == {"live", "ended", "old"}

(* BoundedSeq is what its name says. *)
LEMMA BoundedSeqMeans ==
    ASSUME NEW S, NEW n \in Nat, NEW s
    PROVE  s \in BoundedSeq(S, n) <=> s \in Seq(S) /\ Len(s) <= n
<1>1. s \in BoundedSeq(S, n) <=> \E m \in 0 .. n : s \in [1 .. m -> S]
  BY DEF BoundedSeq, SeqOf
<1>2. ASSUME NEW m \in 0 .. n, s \in [1 .. m -> S]
      PROVE  s \in Seq(S) /\ Len(s) <= n
  <2>1. m \in Nat
    OBVIOUS
  <2>2. s \in Seq(S)
    BY <1>2, <2>1
  <2>3. Len(s) = m
    BY <1>2, <2>1, <2>2, LenProperties
  <2> QED BY <2>2, <2>3
<1>3. ASSUME s \in Seq(S), Len(s) <= n
      PROVE  \E m \in 0 .. n : s \in [1 .. m -> S]
  <2>1. Len(s) \in 0 .. n /\ s \in [1 .. Len(s) -> S]
    BY <1>3, LenProperties
  <2> QED BY <2>1
<1> QED BY <1>1, <1>2, <1>3

(* The fields of a queue, and how to build one. *)
LEMMA QueueMeans ==
    ASSUME NEW q
    PROVE  /\ q \in Queues =>
                 /\ q = [pipes |-> q.pipes, open |-> q.open]
                 /\ q.pipes \in Seq(Marks) /\ Len(q.pipes) <= QueueCapacity
                 /\ q.open \in BOOLEAN
           /\ \A pipes \in Seq(Marks), open \in BOOLEAN :
                 Len(pipes) <= QueueCapacity =>
                     [pipes |-> pipes, open |-> open] \in Queues
<1>1. QueueCapacity \in Nat
  BY ListenerAssumption
<1>2. \A s : s \in BoundedSeq(Marks, QueueCapacity) <=>
                s \in Seq(Marks) /\ Len(s) <= QueueCapacity
  BY <1>1, BoundedSeqMeans
<1>3. Queues = [pipes : BoundedSeq(Marks, QueueCapacity), open : BOOLEAN]
  BY DEF Queues, Marks
<1> QED BY <1>2, <1>3

(* A drained queue. *)
LEMMA EmptiedMeans ==
    ASSUME NEW q \in Queues, NEW close \in BOOLEAN
    PROVE  Emptied(q, close) \in Queues /\ Emptied(q, close).pipes = << >>
<1>1. << >> \in Seq(Marks) /\ Len(<< >>) <= QueueCapacity
  BY ListenerAssumption
<1>2. (q.open /\ ~ close) \in BOOLEAN
  OBVIOUS
<1> QED BY <1>1, <1>2, QueueMeans DEF Emptied

(***************************************************************************)
(* A step that touches nothing but the accept() calls, the queues, and     *)
(* what is left to drain.                                                  *)
(***************************************************************************)
Quiet ==
    /\ UNCHANGED <<state, answer, sent, registry, retry, closer, loop, todo, pend,
                   committed, regs, held>>
    /\ calls' \in [Listeners -> Calls]
    /\ \A l \in Listeners :
          calls'[l] # calls[l] => calls[l] = "draining" /\ calls'[l] = "gone"
    /\ accepts' \in [Listeners -> {"idle", "looking", "locking", "holding"}]
    /\ lane' \in [Listeners -> {"free", "accept"}]
    /\ queue' \in [Listeners -> Queues]
    /\ drains' \subseteq Listeners \X BOOLEAN

(* A step that is quiet in this sense only has to keep the queues right. *)
LEMMA QuietStep ==
    ASSUME ListenerInv, Quiet, \A l \in Listeners : QueueOK(l)'
    PROVE  ListenerInv'
<1>0. UNCHANGED <<desired, permit, epoch, timers, loop, todo, pend, committed, regs,
                  held, state, answer, sent, closer>>
  BY DEF Quiet, registry, retry
<1>1. TypeOK'
  BY <1>0 DEF ListenerInv, TypeOK, Quiet
<1>2. ASSUME NEW l \in Listeners
      PROVE  (StateOK(state[l]) /\ CallOK(l) /\ HeldOK(l) /\ ActiveOK(l) /\ TruthOK(l))'
  <2>1. StateOK(state[l])' /\ HeldOK(l)' /\ ActiveOK(l)'
    BY <1>0 DEF ListenerInv, HeldOK, ActiveOK, IsCurrentDesired
  <2>2. CallOK(l)'
    BY <1>0 DEF ListenerInv, CallOK, Quiet, IsCurrentDesired, Closed, Cancelled
  <2>3. TruthOK(l)'
    BY <1>0 DEF ListenerInv, TruthOK, Quiet
  <2> QED BY <2>1, <2>2, <2>3
<1>3. BooksOK'
  BY <1>0 DEF ListenerInv, BooksOK
<1>4. Notifying' <=> Notifying
  BY DEF Notifying, Quiet
<1>5. WorkBeyond(IF loop = "register" THEN todo ELSE {})'
      <=> WorkBeyond(IF loop = "register" THEN todo ELSE {})
  BY <1>0 DEF WorkBeyond, AbandonedCommit, StaleDestinations, Wanted, NeedsRegistration,
     Withdrawn, IsCurrentDesired, Closed, RetryIsReady
<1>6. DueOK'
  BY <1>0, <1>4, <1>5 DEF ListenerInv, DueOK, RetryOK, RetryIsReady, Cancelled
<1> QED BY <1>1, <1>2, <1>3, <1>6 DEF ListenerInv

(* A queue with other Pipes. *)
LEMMA OtherPipes ==
    ASSUME NEW q \in Queues, NEW pipes
    PROVE  [q EXCEPT !.pipes = pipes] = [pipes |-> pipes, open |-> q.open]
BY DEF Queues

(* Another content for one queue: in order, and what a Listener may have. *)
LEMMA QueueStep ==
    ASSUME ListenerInv, NEW l \in Listeners, NEW q \in Queues,
           ~ Closed(l) =>
              /\ q.pipes # << >> =>
                    \/ queue[l].pipes # << >>
                    \/ regs[DestinationOf[l]] = l
              /\ loop # "drain" => \A i \in DOMAIN q.pipes : q.pipes[i] # "old",
           queue' = [queue EXCEPT ![l] = q],
           UNCHANGED <<state, regs, loop, drains>>
    PROVE  queue' \in [Listeners -> Queues] /\ \A k \in Listeners : QueueOK(k)'
<1>1. queue \in [Listeners -> Queues]
  BY DEF ListenerInv, TypeOK
<1>2. queue' \in [Listeners -> Queues] /\ queue'[l] = q
      /\ \A k \in Listeners \ {l} : queue'[k] = queue[k]
  BY <1>1
<1>3. ASSUME NEW k \in Listeners PROVE QueueOK(k)'
  <2>1. QueueOK(k)
    BY DEF ListenerInv
  <2>2. CASE k # l
    BY <2>1, <2>2, <1>2 DEF QueueOK, Closed
  <2>3. CASE k = l
    <3>1. queue'[k] = q
      BY <2>3, <1>2
    <3> QED BY <2>1, <2>3, <3>1 DEF QueueOK, Closed
  <2> QED BY <2>2, <2>3
<1> QED BY <1>2, <1>3

(* A queue is emptied, and perhaps closed. *)
LEMMA EmptyStep ==
    ASSUME ListenerInv, NEW l \in Listeners, NEW close \in BOOLEAN,
           queue' = [queue EXCEPT ![l] = Emptied(@, close)],
           UNCHANGED <<state, regs, loop, drains>>
    PROVE  queue' \in [Listeners -> Queues] /\ \A k \in Listeners : QueueOK(k)'
<1>1. queue[l] \in Queues
  BY DEF ListenerInv, TypeOK
<1> DEFINE q == Emptied(queue[l], close)
<1>2. q \in Queues /\ q.pipes = << >>
  BY <1>1, EmptiedMeans
<1>3. queue' = [queue EXCEPT ![l] = q]
  BY DEF ListenerInv, TypeOK
<1> HIDE DEF q
<1>4. DOMAIN q.pipes = {}
  BY <1>2
<1> QED BY <1>2, <1>3, <1>4, QueueStep

(* The queues stay right while nothing they depend on changes. *)
LEMMA UntouchedQueues ==
    ASSUME ListenerInv, UNCHANGED <<queue, state, regs, loop, drains>>
    PROVE  queue' \in [Listeners -> Queues] /\ \A k \in Listeners : QueueOK(k)'
BY DEF ListenerInv, TypeOK, QueueOK, Closed

(***************************************************************************)
(* accept() and the queues: the steps that leave the books alone.          *)
(***************************************************************************)
LEMMA TakeMeans ==
    ASSUME ListenerInv, NEW l \in Listeners, Take(l), AcceptUnchanged
    PROVE  ListenerInv'
<1> DEFINE q == [pipes |-> Tail(queue[l].pipes), open |-> queue[l].open]
<1>1. queue[l] \in Queues /\ queue[l].pipes # << >> /\ QueueOK(l)
  BY DEF ListenerInv, TypeOK, Take
<1>2. /\ queue[l] = [pipes |-> queue[l].pipes, open |-> queue[l].open]
      /\ queue[l].pipes \in Seq(Marks) /\ Len(queue[l].pipes) <= QueueCapacity
      /\ queue[l].open \in BOOLEAN
  BY <1>1, QueueMeans
<1>3. /\ Tail(queue[l].pipes) \in Seq(Marks)
      /\ Len(Tail(queue[l].pipes)) = Len(queue[l].pipes) - 1
      /\ Len(queue[l].pipes) \in Nat /\ QueueCapacity \in Nat
  BY <1>1, <1>2, HeadTailProperties, ListenerAssumption
<1>4. q \in Queues
  <2>1. Len(Tail(queue[l].pipes)) <= QueueCapacity
    BY <1>2, <1>3
  <2> QED BY <2>1, <1>2, <1>3, QueueMeans
<1>5. \A i \in DOMAIN Tail(queue[l].pipes) :
          i + 1 \in DOMAIN queue[l].pipes
          /\ Tail(queue[l].pipes)[i] = queue[l].pipes[i + 1]
  BY <1>1, <1>2, HeadTailProperties
<1>6. queue' = [queue EXCEPT ![l] = q]
  <2>1. queue' = [queue EXCEPT ![l].pipes = Tail(queue[l].pipes)]
        /\ queue \in [Listeners -> Queues]
    BY DEF Take, ListenerInv, TypeOK
  <2>2. [queue[l] EXCEPT !.pipes = Tail(queue[l].pipes)] = q
    BY <1>1, OtherPipes
  <2> QED BY <2>1, <2>2
<1>7. UNCHANGED <<state, regs, loop, drains>>
  BY DEF AcceptUnchanged, session
<1>8. q.pipes = Tail(queue[l].pipes)
  OBVIOUS
<1> HIDE DEF q
<1>9. ~ Closed(l) /\ loop # "drain" => \A i \in DOMAIN q.pipes : q.pipes[i] # "old"
  BY <1>1, <1>5, <1>8 DEF QueueOK
<1>10. queue' \in [Listeners -> Queues] /\ \A k \in Listeners : QueueOK(k)'
  BY <1>1, <1>4, <1>6, <1>7, <1>9, QueueStep
<1>11. Quiet
  BY <1>10 DEF Quiet, Take, AcceptUnchanged, session, ListenerInv, TypeOK
<1> QED BY <1>10, <1>11, QuietStep

(* The steps of accept(), its cancellation included. *)
LEMMA AcceptKeeps ==
    ASSUME ListenerInv, NEW l \in Listeners,
           \/ Accept(l) \/ AcceptSteps(l) \/ AcceptDropped(l)
    PROVE  ListenerInv'
<1>0. /\ accepts \in [Listeners -> {"idle", "looking", "locking", "holding"}]
      /\ lane \in [Listeners -> {"free", "accept"}]
      /\ calls \in [Listeners -> Calls] /\ drains \subseteq Listeners \X BOOLEAN
  BY DEF ListenerInv, TypeOK
<1>1. ASSUME AcceptUnchanged, UNCHANGED queue,
             NEW a \in {"idle", "looking", "locking", "holding"},
             NEW b \in {"free", "accept"},
             accepts' = [accepts EXCEPT ![l] = a],
             lane' \in {lane, [lane EXCEPT ![l] = b]}
      PROVE  ListenerInv'
  <2>1. UNCHANGED <<state, regs, loop, drains>>
    BY <1>1 DEF AcceptUnchanged, session
  <2>2. queue' \in [Listeners -> Queues] /\ \A k \in Listeners : QueueOK(k)'
    BY <1>1, <2>1, UntouchedQueues
  <2>3. Quiet
    BY <1>0, <1>1, <2>1, <2>2 DEF Quiet, AcceptUnchanged, session
  <2> QED BY <2>2, <2>3, QuietStep
<1>2. CASE Accept(l)
  BY <1>1, <1>2 DEF Accept
<1>3. CASE AcceptEnds(l)
  <2>1. UNCHANGED <<state, regs, loop, drains>>
    BY <1>3 DEF AcceptEnds, AcceptUnchanged, session
  <2>2. queue' \in [Listeners -> Queues] /\ \A k \in Listeners : QueueOK(k)'
    BY <1>3, <2>1, EmptyStep DEF AcceptEnds
  <2>3. Quiet
    BY <1>0, <1>3, <2>1, <2>2 DEF Quiet, AcceptEnds, AcceptUnchanged, session
  <2> QED BY <2>2, <2>3, QuietStep
<1>4. CASE AcceptLooks(l)
  BY <1>1, <1>4 DEF AcceptLooks
<1>5. CASE AcceptLocks(l)
  BY <1>1, <1>5, TakeMeans DEF AcceptLocks
<1>6. CASE AcceptHolds(l)
  BY <1>1, <1>6, TakeMeans DEF AcceptHolds
<1>7. CASE AcceptDropped(l)
  BY <1>1, <1>7 DEF AcceptDropped
<1> QED BY <1>2, <1>3, <1>4, <1>5, <1>6, <1>7 DEF AcceptSteps

(* A handle that was closed drains its queue. *)
LEMMA DrainOwnKeeps ==
    ASSUME ListenerInv, NEW l \in Listeners, DrainOwn(l)
    PROVE  ListenerInv'
<1>1. UNCHANGED <<state, regs, loop, drains>>
  BY DEF DrainOwn, session
<1>2. queue' \in [Listeners -> Queues] /\ \A k \in Listeners : QueueOK(k)'
  <2>1. CASE queue' = queue
    BY <1>1, <2>1, UntouchedQueues
  <2>2. CASE queue' = [queue EXCEPT ![l] = Emptied(@, TRUE)]
    BY <1>1, <2>2, EmptyStep
  <2> QED BY <2>1, <2>2 DEF DrainOwn
<1>3. Quiet
  BY <1>1, <1>2 DEF Quiet, DrainOwn, session, ListenerInv, TypeOK, Calls
<1> QED BY <1>2, <1>3, QuietStep

(* The cleanup of an ended session drains a queue. *)
LEMMA DrainKeeps ==
    ASSUME ListenerInv, Drain
    PROVE  ListenerInv'
<1>0. drains \subseteq Listeners \X BOOLEAN /\ queue \in [Listeners -> Queues]
  BY DEF ListenerInv, TypeOK
<1>1. PICK l \in Listeners, close \in BOOLEAN :
          /\ queue' = [queue EXCEPT ![l] = Emptied(@, close)]
          /\ drains' = drains \ {<<l, close>>}
  <2>1. PICK p \in drains :
            /\ queue' = [queue EXCEPT ![p[1]] = Emptied(@, p[2])]
            /\ drains' = drains \ {p}
    BY DEF Drain
  <2>2. p[1] \in Listeners /\ p[2] \in BOOLEAN /\ p = <<p[1], p[2]>>
    BY <1>0
  <2> QED BY <2>1, <2>2
<1>2. UNCHANGED <<state, regs, loop>>
  BY DEF Drain
<1>3. Emptied(queue[l], close) \in Queues /\ Emptied(queue[l], close).pipes = << >>
  BY <1>0, EmptiedMeans
<1>4. queue' \in [Listeners -> Queues]
  BY <1>0, <1>1, <1>3
<1>5. ASSUME NEW k \in Listeners PROVE QueueOK(k)'
  <2>1. QueueOK(k)
    BY DEF ListenerInv
  <2>2. CASE k = l
    <3>1. queue'[k].pipes = << >> /\ DOMAIN queue'[k].pipes = {}
      BY <2>2, <1>0, <1>1, <1>3
    <3> QED BY <3>1 DEF QueueOK
  <2>3. CASE k # l
    <3>1. queue'[k] = queue[k] /\ \A b \in BOOLEAN : <<k, b>> \in drains => <<k, b>> \in drains'
      BY <2>3, <1>0, <1>1
    <3> QED BY <2>1, <3>1, <1>2 DEF QueueOK, Closed
  <2> QED BY <2>2, <2>3
<1>6. Quiet
  BY <1>0, <1>1, <1>4 DEF Quiet, Drain, ListenerInv, TypeOK
<1> QED BY <1>5, <1>6, QuietStep

(* The Pipes that make room keep the queue what it is. *)
LEMMA LivePipesMeans ==
    ASSUME NEW pipes \in Seq(Marks)
    PROVE  /\ LivePipes(pipes) \in Seq(Marks)
           /\ \A i \in DOMAIN LivePipes(pipes) : LivePipes(pipes)[i] = "live"
<1> DEFINE live == {j \in DOMAIN pipes : pipes[j] = "live"}
           n == Cardinality(live)
<1>1. Len(pipes) \in Nat /\ DOMAIN pipes = 1 .. Len(pipes)
  BY LenProperties
<1>2. IsFiniteSet(1 .. Len(pipes))
  BY <1>1, FS_Interval
<1>3. IsFiniteSet(live)
  BY <1>1, <1>2, FS_Subset
<1>4. n \in Nat
  BY <1>3, FS_CardinalityType
<1>5. LivePipes(pipes) = [i \in 1 .. n |-> "live"]
  BY DEF LivePipes
<1> HIDE DEF n
<1>6. [i \in 1 .. n |-> "live"] \in Seq(Marks)
  BY <1>4 DEF Marks
<1> QED BY <1>5, <1>6

(* on_offer: a Pipe is queued for a registered Listener only. *)
LEMMA OnOfferKeeps ==
    ASSUME ListenerInv, NEW d \in Destinations, OnOffer(d)
    PROVE  ListenerInv'
<1> DEFINE l == regs[d]
           pipes == queue[l].pipes
           kept == IF lane[l] = "free" THEN LivePipes(pipes) ELSE pipes
           q == [pipes |-> Append(kept, "live"), open |-> queue[l].open]
<1>1. l \in Listeners /\ DestinationOf[l] = d
  BY DEF ListenerInv, TypeOK, OnOffer, BooksOK
<1>2. queue[l] \in Queues /\ QueueOK(l) /\ loop = "select"
      /\ Len(kept) < QueueCapacity /\ ~ Closed(l)
  BY <1>1 DEF ListenerInv, TypeOK, OnOffer, Closed
<1>3. pipes \in Seq(Marks) /\ queue[l].open \in BOOLEAN
  BY <1>2, QueueMeans
<1>4. \A i \in DOMAIN pipes : pipes[i] # "old"
  BY <1>2 DEF QueueOK
<1>5. kept \in Seq(Marks) /\ \A i \in DOMAIN kept : kept[i] # "old"
  <2>1. CASE lane[l] = "free"
    <3>1. kept = LivePipes(pipes)
      BY <2>1
    <3> HIDE DEF kept
    <3> QED BY <3>1, <1>3, LivePipesMeans
  <2>2. CASE lane[l] # "free"
    BY <2>2, <1>3, <1>4
  <2> QED BY <2>1, <2>2
<1>6. queue' = [queue EXCEPT ![l].pipes = Append(kept, "live")]
  BY DEF OnOffer
<1> HIDE DEF kept
<1>7. /\ Append(kept, "live") \in Seq(Marks)
      /\ Len(Append(kept, "live")) = Len(kept) + 1
      /\ \A i \in DOMAIN Append(kept, "live") : Append(kept, "live")[i] # "old"
  <2>1. "live" \in Marks
    BY DEF Marks
  <2> QED BY <2>1, <1>5, AppendProperties, LenProperties
<1>8. q \in Queues
  <2>1. Len(Append(kept, "live")) <= QueueCapacity
    BY <1>2, <1>5, <1>7, LenProperties, ListenerAssumption
  <2> QED BY <2>1, <1>3, <1>7, QueueMeans
<1>9. queue' = [queue EXCEPT ![l] = q]
  <2>1. [queue[l] EXCEPT !.pipes = Append(kept, "live")] = q
    BY <1>2, OtherPipes
  <2>2. queue \in [Listeners -> Queues]
    BY DEF ListenerInv, TypeOK
  <2> QED BY <1>1, <1>6, <2>1, <2>2
<1>10. q.pipes = Append(kept, "live") /\ UNCHANGED <<state, regs, loop, drains>>
  BY DEF OnOffer, session
<1>11. regs[DestinationOf[l]] = l
  BY <1>1
<1> HIDE DEF q, l
<1>12. queue' \in [Listeners -> Queues] /\ \A k \in Listeners : QueueOK(k)'
  BY <1>1, <1>7, <1>8, <1>9, <1>10, <1>11, QueueStep
<1>13. Quiet
  BY <1>12 DEF Quiet, OnOffer, session, ListenerInv, TypeOK
<1> QED BY <1>12, <1>13, QuietStep

(* A Pipe that nobody accepted yet ends in its queue. *)
LEMMA QueuedPipeEndsKeeps ==
    ASSUME ListenerInv, NEW l \in Listeners, QueuedPipeEnds(l)
    PROVE  ListenerInv'
<1> DEFINE pipes == queue[l].pipes
<1>1. queue[l] \in Queues /\ QueueOK(l)
  BY DEF ListenerInv, TypeOK
<1>2. PICK i \in DOMAIN pipes : queue' = [queue EXCEPT ![l].pipes[i] = "ended"]
  BY DEF QueuedPipeEnds
<1> DEFINE after == [pipes EXCEPT ![i] = "ended"]
           q == [pipes |-> after, open |-> queue[l].open]
<1>3. pipes \in Seq(Marks) /\ Len(pipes) <= QueueCapacity /\ queue[l].open \in BOOLEAN
  BY <1>1, QueueMeans
<1>4. /\ after \in Seq(Marks) /\ Len(after) = Len(pipes)
      /\ \A j \in DOMAIN after : j \in DOMAIN pipes /\ after[j] \in {pipes[j], "ended"}
  <2>1. "ended" \in Marks
    BY DEF Marks
  <2> QED BY <2>1, <1>2, <1>3, ExceptSeq, LenProperties
<1>5. q \in Queues
  BY <1>3, <1>4, QueueMeans
<1>6. queue' = [queue EXCEPT ![l] = q]
  <2>1. queue' = [queue EXCEPT ![l].pipes = after] /\ queue \in [Listeners -> Queues]
    BY <1>2 DEF ListenerInv, TypeOK
  <2>2. [queue[l] EXCEPT !.pipes = after] = q
    BY <1>1, OtherPipes
  <2> QED BY <2>1, <2>2
<1>7. q.pipes = after /\ UNCHANGED <<state, regs, loop, drains>> /\ pipes # << >>
  BY <1>2 DEF QueuedPipeEnds, session
<1>8. ~ Closed(l) /\ loop # "drain" => \A j \in DOMAIN q.pipes : q.pipes[j] # "old"
  BY <1>1, <1>4, <1>7 DEF QueueOK
<1> HIDE DEF q, after
<1>9. queue' \in [Listeners -> Queues] /\ \A k \in Listeners : QueueOK(k)'
  BY <1>5, <1>6, <1>7, <1>8, QueueStep
<1>10. Quiet
  BY <1>9 DEF Quiet, QueuedPipeEnds, session, ListenerInv, TypeOK
<1> QED BY <1>9, <1>10, QuietStep

-----------------------------------------------------------------------------
(***************************************************************************)
(* listen() and the handle: one Listener's state and its call change.      *)
(***************************************************************************)
Answers0 == Observations \union {"none", "ok", "closed", "dropped"}

(* The application takes one step of a call or handle of its own: its      *)
(* Listener stays as it is or is closed, and then a notification is to     *)
(* come.                                                                   *)
LEMMA OneListener ==
    ASSUME ListenerInv, NEW l \in Listeners,
           NEW r \in ListenerStates, StateOK(r), NEW c \in Calls, NEW a \in Answers0,
           state' = [state EXCEPT ![l] = r],
           calls' = [calls EXCEPT ![l] = c],
           answer' = [answer EXCEPT ![l] = a],
           UNCHANGED <<accepts, lane, queue, sent, registry, retry, closer, session>>,
           calls[l] \in {"waiting", "held"},
           r.status \in {state[l].status, "Closed"},
           r.status # state[l].status => c \in {"terminating", "closing", "dropping"},
           CallOK(l)', TruthOK(l)'
    PROVE  ListenerInv'
<1>0. /\ UNCHANGED <<accepts, lane, queue, sent, desired, permit, epoch, timers, closer,
                     loop, todo, pend, committed, regs, held, drains>>
      /\ state \in [Listeners -> ListenerStates] /\ calls \in [Listeners -> Calls]
      /\ answer \in [Listeners -> Answers0]
  BY DEF registry, retry, session, ListenerInv, TypeOK, Answers0
<1>1. /\ state' \in [Listeners -> ListenerStates] /\ state'[l] = r
      /\ calls' \in [Listeners -> Calls] /\ calls'[l] = c
      /\ answer' \in [Listeners -> Answers0]
      /\ \A k \in Listeners \ {l} :
            state'[k] = state[k] /\ calls'[k] = calls[k] /\ answer'[k] = answer[k]
  BY <1>0
<1>2. TypeOK'
  BY <1>0, <1>1 DEF ListenerInv, TypeOK, Answers0
<1>3. \A k \in Listeners : state'[k].status \in {state[k].status, "Closed"}
  BY <1>1
<1>4. ASSUME NEW k \in Listeners
      PROVE  (/\ StateOK(state[k]) /\ CallOK(k) /\ HeldOK(k) /\ ActiveOK(k) /\ TruthOK(k)
              /\ QueueOK(k))'
  <2>1. /\ StateOK(state[k]) /\ CallOK(k) /\ HeldOK(k) /\ ActiveOK(k) /\ TruthOK(k)
        /\ QueueOK(k)
    BY DEF ListenerInv
  <2>2. HeldOK(k)'
    BY <2>1, <1>0 DEF HeldOK
  <2>3. ActiveOK(k)'
    BY <2>1, <1>0, <1>3 DEF ActiveOK, IsCurrentDesired
  <2>4. QueueOK(k)'
    BY <2>1, <1>0, <1>3 DEF QueueOK, Closed
  <2>5. CASE k = l
    BY <2>2, <2>3, <2>4, <2>5, <1>1
  <2>6. CASE k # l
    <3>1. StateOK(state[k])' /\ TruthOK(k)'
      BY <2>1, <2>6, <1>0, <1>1 DEF TruthOK
    <3>2. CallOK(k)'
      BY <2>1, <2>6, <1>0, <1>1 DEF CallOK, Closed, Cancelled, IsCurrentDesired
    <3> QED BY <2>2, <2>3, <2>4, <3>1, <3>2
  <2> QED BY <2>5, <2>6
<1>5. BooksOK'
  <2>1. \A d \in Destinations : regs[d] # NoListener => regs[d] \in Listeners
    BY DEF ListenerInv, TypeOK
  <2> QED BY <2>1, <1>0, <1>3 DEF ListenerInv, BooksOK
<1>6. DueOK'
  <2>1. RetryOK' /\ (Cancelled' <=> Cancelled)
    BY <1>0 DEF ListenerInv, DueOK, RetryOK, RetryIsReady, Cancelled
  <2>2. CASE r.status # state[l].status
    <3>1. Notifying'
      BY <2>2, <1>1 DEF Notifying
    <3> QED BY <2>1, <3>1 DEF DueOK
  <2>3. CASE r.status = state[l].status
    <3>1. \A k \in Listeners : state'[k].status = state[k].status
      BY <2>3, <1>1
    <3>2. \A d \in Destinations : /\ desired[d] # NoListener => desired[d] \in Listeners
                                  /\ regs[d] # NoListener => regs[d] \in Listeners
                                  /\ d \in committed => pend[d] \in Listeners
      BY DEF ListenerInv, TypeOK
    <3>3. committed \subseteq Destinations
      BY DEF ListenerInv, TypeOK
    <3>4. AbandonedCommit' => AbandonedCommit
      BY <3>1, <3>2, <3>3, <1>0 DEF AbandonedCommit, Withdrawn, IsCurrentDesired, Closed
    <3>5. StaleDestinations' # {} => StaleDestinations # {}
      BY <3>1, <3>2, <1>0 DEF StaleDestinations, Withdrawn, IsCurrentDesired, Closed
    <3>6. ASSUME NEW k \in Wanted'
          PROVE  k \in Wanted /\ (NeedsRegistration(k)' => NeedsRegistration(k))
      BY <3>1, <3>2, <1>0 DEF Wanted, NeedsRegistration, IsCurrentDesired, RetryIsReady
    <3>7. WorkBeyond(IF loop = "register" THEN todo ELSE {})'
          => WorkBeyond(IF loop = "register" THEN todo ELSE {})
      BY <3>4, <3>5, <3>6, <1>0 DEF WorkBeyond
    <3>8. Notifying => Notifying'
      BY <1>1 DEF Notifying
    <3> QED BY <2>1, <3>7, <3>8, <1>0 DEF ListenerInv, DueOK
  <2> QED BY <2>2, <2>3
<1> QED BY <1>2, <1>4, <1>5, <1>6 DEF ListenerInv

(* listen() returns a handle. *)
LEMMA ListenReturnsKeeps ==
    ASSUME ListenerInv, NEW l \in Listeners, ListenReturns(l)
    PROVE  ListenerInv'
<1> DEFINE r == [state[l] EXCEPT !.life = "Returned", !.late = FALSE]
<1>0. /\ state[l] \in ListenerStates /\ StateOK(state[l]) /\ CallOK(l) /\ TruthOK(l)
      /\ ActiveOK(l) /\ state \in [Listeners -> ListenerStates]
      /\ calls \in [Listeners -> Calls] /\ answer \in [Listeners -> Answers0]
  BY DEF ListenerInv, TypeOK, Answers0
<1>1. /\ r \in ListenerStates /\ r.status = "Active" /\ r.life = "Returned"
      /\ r.progress = state[l].progress
  BY <1>0 DEF ListenReturns, ListenerStates, Lifecycles
<1>2. /\ state' = [state EXCEPT ![l] = r]
      /\ calls' = [calls EXCEPT ![l] = "held"]
      /\ answer' = [answer EXCEPT ![l] = "ok"]
      /\ UNCHANGED <<accepts, lane, queue, sent, registry, retry, closer, session>>
      /\ calls[l] = "waiting" /\ state[l].status = "Active"
  BY DEF ListenReturns
<1>3. state'[l] = r /\ calls'[l] = "held" /\ answer'[l] = "ok"
  BY <1>0, <1>2
<1> HIDE DEF r
<1>4. CallOK(l)'
  <2>1. IsCurrentDesired(l)'
    BY <1>0, <1>2 DEF ActiveOK, IsCurrentDesired, registry
  <2> QED BY <2>1, <1>1, <1>3 DEF CallOK
<1>5. TruthOK(l)'
  BY <1>3 DEF TruthOK
<1>6. StateOK(r) /\ "held" \in Calls /\ "ok" \in Answers0
  BY <1>1 DEF StateOK, Calls, Answers0
<1> QED BY <1>1, <1>2, <1>4, <1>5, <1>6, OneListener

(* The deadline of a listen() passes. *)
LEMMA DeadlinePassesKeeps ==
    ASSUME ListenerInv, NEW l \in Listeners, DeadlinePasses(l)
    PROVE  ListenerInv'
<1> DEFINE r == [state[l] EXCEPT !.late = TRUE]
<1>0. /\ state[l] \in ListenerStates /\ StateOK(state[l]) /\ CallOK(l) /\ TruthOK(l)
      /\ state \in [Listeners -> ListenerStates]
      /\ calls \in [Listeners -> Calls] /\ answer \in [Listeners -> Answers0]
  BY DEF ListenerInv, TypeOK, Answers0
<1>1. /\ r \in ListenerStates /\ r.status = state[l].status /\ r.life = state[l].life
      /\ r.progress = state[l].progress /\ r.error = state[l].error
  BY <1>0 DEF ListenerStates
<1>2. /\ state' = [state EXCEPT ![l] = r]
      /\ calls' = calls /\ answer' = answer
      /\ UNCHANGED <<accepts, lane, queue, sent, registry, retry, closer, session>>
      /\ calls[l] = "waiting"
  BY DEF DeadlinePasses
<1>3. /\ state'[l] = r
      /\ calls' = [calls EXCEPT ![l] = calls[l]]
      /\ answer' = [answer EXCEPT ![l] = answer[l]]
  BY <1>0, <1>2
<1> HIDE DEF r
<1>4. CallOK(l)'
  BY <1>0, <1>1, <1>2, <1>3 DEF CallOK, IsCurrentDesired, registry
<1>5. TruthOK(l)'
  BY <1>0, <1>1, <1>2, <1>3 DEF TruthOK, session
<1>6. StateOK(r) /\ calls[l] \in Calls /\ answer[l] \in Answers0
  BY <1>0, <1>1 DEF StateOK
<1> QED BY <1>1, <1>2, <1>3, <1>4, <1>5, <1>6, OneListener

(* terminate_initial_operation leaves a Terminal Listener. *)
LEMMA TerminateMeans ==
    ASSUME NEW r \in ListenerStates, StateOK(r), r.life # "Returned"
    PROVE  LET q == TerminateInitial(r) IN
           /\ q \in ListenerStates /\ StateOK(q) /\ q.life = "Terminal"
           /\ q.status \in {r.status, "Closed"}
<1> DEFINE e == InitialObservation(r)
<1>1. e \in Observations \union {"none"}
  BY DEF InitialObservation, Observations
<1>2. CASE r.life = "Pending"
  <2>1. TerminateInitial(r) = End(r, "Closed", e)
    BY <1>2 DEF TerminateInitial
  <2> HIDE DEF e
  <2> QED BY <2>1, <1>1, EndMeans
<1>3. CASE r.life = "Terminal"
  BY <1>3 DEF TerminateInitial
<1> QED BY <1>2, <1>3 DEF ListenerStates, Lifecycles

(* listen() gives up, with an answer that is true. *)
LEMMA LeaveListenKeeps ==
    ASSUME ListenerInv, NEW l \in Listeners, NEW result \in Answers0,
           LeaveListen(l, result), result = "NotObserved" => sent[l] # "sent"
    PROVE  ListenerInv'
<1> DEFINE r == TerminateInitial(state[l])
<1>0. /\ state[l] \in ListenerStates /\ StateOK(state[l]) /\ CallOK(l)
      /\ state \in [Listeners -> ListenerStates]
      /\ calls \in [Listeners -> Calls] /\ answer \in [Listeners -> Answers0]
  BY DEF ListenerInv, TypeOK, Answers0
<1>1. /\ state' = [state EXCEPT ![l] = r]
      /\ calls' = [calls EXCEPT ![l] = "terminating"]
      /\ answer' = [answer EXCEPT ![l] = result]
      /\ UNCHANGED <<accepts, lane, queue, sent, registry, retry, closer, session>>
      /\ calls[l] = "waiting"
  BY DEF LeaveListen
<1>2. /\ r \in ListenerStates /\ StateOK(r) /\ r.life = "Terminal"
      /\ r.status \in {state[l].status, "Closed"}
  BY <1>0, <1>1, TerminateMeans DEF CallOK
<1>3. state'[l] = r /\ calls'[l] = "terminating" /\ answer'[l] = result
  BY <1>0, <1>1
<1> HIDE DEF r
<1>4. CallOK(l)' /\ TruthOK(l)'
  BY <1>1, <1>2, <1>3 DEF CallOK, TruthOK
<1>5. "terminating" \in Calls
  BY DEF Calls
<1> QED BY <1>1, <1>2, <1>4, <1>5, OneListener

(* Every way out of listen() but the first. *)
LEMMA ListenLeavesKeeps ==
    ASSUME ListenerInv, NEW l \in Listeners,
           \/ ListenFails(l) \/ ListenClosed(l) \/ ListenDeadline(l) \/ ListenCancelled(l)
    PROVE  ListenerInv'
<1>0. state[l] \in ListenerStates /\ StateOK(state[l]) /\ TruthOK(l)
  BY DEF ListenerInv, TypeOK
<1>1. CASE ListenFails(l)
  <2> DEFINE e == IF state[l].error = "none" THEN "closed" ELSE state[l].error
  <2>1. LeaveListen(l, e) /\ state[l].status \in {"Blocked", "Closed"} /\ calls[l] = "waiting"
    BY <1>1 DEF ListenFails, LeaveListen
  <2>2. e \in Answers0
    BY <1>0 DEF ListenerStates, Answers0
  <2>3. e = "NotObserved" => sent[l] # "sent"
    BY <1>0, <2>1 DEF StateOK, TruthOK
  <2> QED BY <2>1, <2>2, <2>3, LeaveListenKeeps
<1>2. CASE ListenClosed(l)
  BY <1>2, LeaveListenKeeps DEF ListenClosed, Answers0
<1>3. CASE ListenDeadline(l)
  <2> DEFINE e == InitialObservation(state[l])
  <2>1. LeaveListen(l, e) /\ state[l].life = "Pending" /\ state[l].status # "Active"
        /\ calls[l] = "waiting"
    BY <1>3 DEF ListenDeadline, LeaveListen
  <2>2. e \in Answers0
    BY DEF InitialObservation, Answers0, Observations
  <2>3. e = "NotObserved" => sent[l] # "sent"
    BY <1>0, <2>1 DEF TruthOK, InitialObservation
  <2> HIDE DEF e
  <2> QED BY <2>1, <2>2, <2>3, LeaveListenKeeps
<1>4. CASE ListenCancelled(l)
  BY <1>4, LeaveListenKeeps DEF ListenCancelled, Answers0
<1> QED BY <1>1, <1>2, <1>3, <1>4

(* close() and the drop of the handle. *)
LEMMA EndHandleKeeps ==
    ASSUME ListenerInv, NEW l \in Listeners, CloseListener(l) \/ DropListener(l)
    PROVE  ListenerInv'
<1> DEFINE r == Close(state[l])
<1>0. /\ state[l] \in ListenerStates /\ StateOK(state[l]) /\ CallOK(l) /\ TruthOK(l)
      /\ state \in [Listeners -> ListenerStates]
      /\ calls \in [Listeners -> Calls] /\ answer \in [Listeners -> Answers0]
  BY DEF ListenerInv, TypeOK, Answers0
<1>1. PICK how \in {"closing", "dropping"} : EndHandle(l, how)
  BY DEF CloseListener, DropListener
<1>2. /\ state' = [state EXCEPT ![l] = r]
      /\ calls' = [calls EXCEPT ![l] = how]
      /\ answer' = answer
      /\ UNCHANGED <<accepts, lane, queue, sent, registry, retry, closer, session>>
      /\ calls[l] = "held"
  BY <1>1 DEF EndHandle
<1>3. /\ r \in ListenerStates /\ StateOK(r) /\ r.life = "Terminal" /\ r.status = "Closed"
  BY <1>0, EndMeans DEF Close
<1>4. /\ state'[l] = r /\ calls'[l] = how /\ answer'[l] = answer[l]
      /\ answer' = [answer EXCEPT ![l] = answer[l]]
  BY <1>0, <1>2
<1> HIDE DEF r
<1>5. CallOK(l)'
  BY <1>0, <1>2, <1>3, <1>4 DEF CallOK, IsCurrentDesired, Cancelled, Closed, registry
<1>6. TruthOK(l)'
  BY <1>0, <1>2, <1>3, <1>4 DEF TruthOK
<1>7. how \in Calls /\ answer[l] \in Answers0
  BY <1>0 DEF Calls
<1> QED BY <1>2, <1>3, <1>4, <1>5, <1>6, <1>7, OneListener

(***************************************************************************)
(* The registry's steps: one Listener enters it or leaves it.              *)
(***************************************************************************)
LEMMA RegistryStep ==
    ASSUME ListenerInv, NEW l \in Listeners, NEW c \in Calls,
           calls' = [calls EXCEPT ![l] = c],
           desired' \in [Destinations -> Listeners \union {NoListener}],
           \A d \in Destinations :
              desired'[d] # desired[d] =>
                 d = DestinationOf[l] /\ {desired[d], desired'[d]} = {l, NoListener},
           permit' = TRUE \/ (permit' \in BOOLEAN /\ Cancelled),
           UNCHANGED <<state, answer, accepts, lane, queue, sent, retry, closer, session>>,
           CallOK(l)', ActiveOK(l)', TruthOK(l)'
    PROVE  ListenerInv'
<1>0. /\ UNCHANGED <<state, answer, accepts, lane, queue, sent, epoch, timers, closer,
                     loop, todo, pend, committed, regs, held, drains>>
      /\ calls \in [Listeners -> Calls]
      /\ desired \in [Destinations -> Listeners \union {NoListener}]
  BY DEF retry, session, ListenerInv, TypeOK
<1>1. /\ calls' \in [Listeners -> Calls]
      /\ \A k \in Listeners \ {l} : calls'[k] = calls[k]
  BY <1>0
<1>2. TypeOK'
  BY <1>0, <1>1 DEF ListenerInv, TypeOK
<1>3. \A k \in Listeners \ {l} : IsCurrentDesired(k)' <=> IsCurrentDesired(k)
  BY <1>0, ListenerAssumption DEF IsCurrentDesired
<1>4. ASSUME NEW k \in Listeners
      PROVE  (/\ StateOK(state[k]) /\ CallOK(k) /\ HeldOK(k) /\ ActiveOK(k) /\ TruthOK(k)
              /\ QueueOK(k))'
  <2>1. /\ StateOK(state[k]) /\ CallOK(k) /\ HeldOK(k) /\ ActiveOK(k) /\ TruthOK(k)
        /\ QueueOK(k)
    BY DEF ListenerInv
  <2>2. StateOK(state[k])' /\ HeldOK(k)'
    BY <2>1, <1>0 DEF HeldOK
  <2>3. QueueOK(k)'
    BY <2>1, <1>0 DEF QueueOK, Closed
  <2>4. CASE k # l
    <3>1. ActiveOK(k)'
      BY <2>1, <2>4, <1>0, <1>3 DEF ActiveOK
    <3>2. TruthOK(k)'
      BY <2>1, <2>4, <1>0, <1>1 DEF TruthOK
    <3>3. CallOK(k)'
      BY <2>1, <2>4, <1>0, <1>1, <1>3 DEF CallOK, Closed, Cancelled
    <3> QED BY <2>2, <2>3, <3>1, <3>2, <3>3
  <2> QED BY <2>2, <2>3, <2>4
<1>5. BooksOK'
  <2>1. \A d \in Destinations : desired'[d] # NoListener => DestinationOf[desired'[d]] = d
    BY DEF ListenerInv, BooksOK
  <2> QED BY <2>1, <1>0 DEF ListenerInv, BooksOK
<1>6. DueOK'
  BY <1>0 DEF ListenerInv, DueOK, RetryOK, RetryIsReady, Cancelled
<1> QED BY <1>2, <1>4, <1>5, <1>6 DEF ListenerInv

(* listen() enters an empty place of the registry. *)
LEMMA ListenKeeps ==
    ASSUME ListenerInv, NEW l \in Listeners, Listen(l)
    PROVE  ListenerInv'
<1>0. /\ CallOK(l) /\ TruthOK(l) /\ ActiveOK(l) /\ DestinationOf[l] \in Destinations
      /\ calls \in [Listeners -> Calls]
      /\ desired \in [Destinations -> Listeners \union {NoListener}]
  BY ListenerAssumption DEF ListenerInv, TypeOK
<1>1. /\ calls[l] = "new" /\ calls'[l] = "waiting"
      /\ calls' = [calls EXCEPT ![l] = "waiting"]
      /\ desired' \in [Destinations -> Listeners \union {NoListener}]
      /\ desired'[DestinationOf[l]] = l
      /\ desired[DestinationOf[l]] = NoListener
      /\ \A d \in Destinations \ {DestinationOf[l]} : desired'[d] = desired[d]
      /\ permit' = TRUE
      /\ UNCHANGED <<state, answer, accepts, lane, queue, sent, retry, closer, session>>
  BY <1>0 DEF Listen
<1>2. CallOK(l)'
  BY <1>0, <1>1 DEF CallOK, IsCurrentDesired
<1>3. ActiveOK(l)' /\ TruthOK(l)'
  BY <1>0, <1>1 DEF ActiveOK, TruthOK, CallOK, IsCurrentDesired, session
<1>4. "waiting" \in Calls
  BY DEF Calls
<1>5. \A d \in Destinations :
          desired'[d] # desired[d] =>
              d = DestinationOf[l] /\ {desired[d], desired'[d]} = {l, NoListener}
  BY <1>1
<1> QED BY <1>1, <1>2, <1>3, <1>4, <1>5, RegistryStep

(* A Listener is taken out of a map, and nobody else is. *)
LEMMA WithoutMeans ==
    ASSUME NEW map \in [Destinations -> Listeners \union {NoListener}],
           NEW l \in Listeners
    PROVE  /\ Without(map, l) \in [Destinations -> Listeners \union {NoListener}]
           /\ \A d \in Destinations :
                 Without(map, l)[d] # map[d] =>
                     /\ d = DestinationOf[l] /\ map[d] = l
                     /\ Without(map, l)[d] = NoListener
           /\ Without(map, l)[DestinationOf[l]] # l
<1>1. DestinationOf[l] \in Destinations /\ NoListener # l
  BY ListenerAssumption
<1> QED BY <1>1 DEF Without

(* remove_terminal_listener after a listen() that failed. *)
LEMMA RemoveListenKeeps ==
    ASSUME ListenerInv, NEW l \in Listeners, RemoveListen(l)
    PROVE  ListenerInv'
<1>0. /\ CallOK(l) /\ TruthOK(l) /\ StateOK(state[l])
      /\ calls \in [Listeners -> Calls]
      /\ desired \in [Destinations -> Listeners \union {NoListener}]
  BY DEF ListenerInv, TypeOK
<1>1. /\ calls[l] = "terminating" /\ calls'[l] = "gone"
      /\ calls' = [calls EXCEPT ![l] = "gone"]
      /\ desired' = Without(desired, l) /\ permit' = TRUE
      /\ UNCHANGED <<state, answer, accepts, lane, queue, sent, retry, closer, session>>
  BY <1>0 DEF RemoveListen, RemoveTerminalListener
<1>2. CallOK(l)' /\ TruthOK(l)'
  BY <1>0, <1>1 DEF CallOK, TruthOK
<1>3. ActiveOK(l)'
  BY <1>0, <1>1 DEF ActiveOK, CallOK, StateOK
<1>4. "gone" \in Calls
  BY DEF Calls
<1>5. /\ desired' \in [Destinations -> Listeners \union {NoListener}]
      /\ \A d \in Destinations :
            desired'[d] # desired[d] =>
                d = DestinationOf[l] /\ {desired[d], desired'[d]} = {l, NoListener}
  BY <1>0, <1>1, WithoutMeans
<1> QED BY <1>1, <1>2, <1>3, <1>4, <1>5, RegistryStep

(* detach_listener of a handle that is closed or dropped. *)
LEMMA DetachKeeps ==
    ASSUME ListenerInv, NEW l \in Listeners, Detach(l)
    PROVE  ListenerInv'
<1>0. /\ CallOK(l) /\ TruthOK(l) /\ StateOK(state[l])
      /\ calls \in [Listeners -> Calls] /\ permit \in BOOLEAN
      /\ desired \in [Destinations -> Listeners \union {NoListener}]
  BY DEF ListenerInv, TypeOK
<1>1. PICK c \in {"draining", "gone"} : calls' = [calls EXCEPT ![l] = c]
  BY DEF Detach
<1>2. /\ calls[l] \in {"closing", "dropping"} /\ calls'[l] = c
      /\ desired' = Without(desired, l) /\ permit' = (permit \/ IsCurrentDesired(l))
      /\ UNCHANGED <<state, answer, accepts, lane, queue, sent, retry, closer, session>>
  BY <1>0, <1>1 DEF Detach, DetachListener
<1>3. CallOK(l)' /\ TruthOK(l)'
  BY <1>0, <1>2 DEF CallOK, TruthOK
<1>4. ActiveOK(l)'
  BY <1>0, <1>2 DEF ActiveOK, CallOK, Closed
<1>5. c \in Calls
  BY DEF Calls
<1>6. permit' = TRUE \/ (permit' \in BOOLEAN /\ Cancelled)
  <2>1. Cancelled \/ IsCurrentDesired(l)
    BY <1>0, <1>2 DEF CallOK
  <2>2. permit' \in BOOLEAN
    BY <1>0, <1>2 DEF IsCurrentDesired
  <2> QED BY <1>2, <2>1, <2>2
<1>7. /\ desired' \in [Destinations -> Listeners \union {NoListener}]
      /\ \A d \in Destinations :
            desired'[d] # desired[d] =>
                d = DestinationOf[l] /\ {desired[d], desired'[d]} = {l, NoListener}
  BY <1>0, <1>2, WithoutMeans
<1> QED BY <1>1, <1>2, <1>3, <1>4, <1>5, <1>6, <1>7, RegistryStep

-----------------------------------------------------------------------------
(***************************************************************************)
(* The retry epoch, and the end of the Relay.                              *)
(***************************************************************************)
LEMMA RetryTimerKeeps ==
    ASSUME ListenerInv, NEW e \in timers, RetryTimer(e)
    PROVE  ListenerInv'
<1>0. /\ UNCHANGED <<state, calls, answer, accepts, lane, queue, sent, desired, closer,
                     loop, todo, pend, committed, regs, held, drains>>
      /\ epoch \in Nat /\ timers \subseteq 1 .. epoch /\ permit \in BOOLEAN
      /\ RetryOK
  BY DEF RetryTimer, application, session, ListenerInv, TypeOK, DueOK
<1>1. /\ timers' = timers \ {e} /\ epoch' = IF epoch = e THEN epoch + 1 ELSE epoch
      /\ permit' = (permit \/ (epoch = e /\ ~ Cancelled))
  BY DEF RetryTimer
<1>2. epoch' \in Nat /\ timers' \subseteq 1 .. epoch' /\ permit' \in BOOLEAN
  BY <1>0, <1>1
<1>3. TypeOK'
  BY <1>0, <1>2 DEF ListenerInv, TypeOK
<1>4. ASSUME NEW k \in Listeners
      PROVE  (/\ StateOK(state[k]) /\ CallOK(k) /\ HeldOK(k) /\ ActiveOK(k) /\ TruthOK(k)
              /\ QueueOK(k))'
  BY <1>0 DEF ListenerInv, CallOK, HeldOK, ActiveOK, TruthOK, QueueOK, IsCurrentDesired,
     Closed, Cancelled
<1>5. BooksOK'
  BY <1>0 DEF ListenerInv, BooksOK
<1>6. RetryOK'
  BY <1>0, <1>1 DEF RetryOK, RetryIsReady
<1>7. DueOK'
  <2>1. (Cancelled' <=> Cancelled) /\ (Notifying' <=> Notifying)
    BY <1>0 DEF Cancelled, Notifying
  <2>2. CASE epoch = e /\ ~ Cancelled
    BY <2>1, <2>2, <1>1, <1>6 DEF DueOK
  <2>3. CASE Cancelled
    BY <2>1, <2>3, <1>6 DEF DueOK
  <2>4. CASE epoch # e
    <3>1. epoch' = epoch /\ permit' = permit
      BY <2>4, <1>0, <1>1
    <3>2. WorkBeyond(IF loop = "register" THEN todo ELSE {})'
          <=> WorkBeyond(IF loop = "register" THEN todo ELSE {})
      BY <1>0, <3>1 DEF WorkBeyond, AbandonedCommit, StaleDestinations, Wanted,
         NeedsRegistration, Withdrawn, IsCurrentDesired, Closed, RetryIsReady
    <3> QED BY <2>1, <3>1, <3>2, <1>0, <1>6 DEF ListenerInv, DueOK
  <2> QED BY <2>2, <2>3, <2>4
<1> QED BY <1>3, <1>4, <1>5, <1>7 DEF ListenerInv

(* Relay::close cancels the session. *)
LEMMA RelayCloseKeeps ==
    ASSUME ListenerInv, RelayClose
    PROVE  ListenerInv'
<1>0. /\ UNCHANGED <<state, calls, answer, accepts, lane, queue, sent, desired, permit,
                     epoch, timers, loop, todo, pend, committed, regs, held, drains>>
      /\ closer' = "cancelled"
  BY DEF RelayClose, application, session, registry, retry
<1>1. TypeOK'
  BY <1>0 DEF ListenerInv, TypeOK
<1>2. ASSUME NEW k \in Listeners
      PROVE  (/\ StateOK(state[k]) /\ CallOK(k) /\ HeldOK(k) /\ ActiveOK(k) /\ TruthOK(k)
              /\ QueueOK(k))'
  BY <1>0 DEF ListenerInv, CallOK, HeldOK, ActiveOK, TruthOK, QueueOK, IsCurrentDesired,
     Closed, Cancelled
<1>3. BooksOK'
  BY <1>0 DEF ListenerInv, BooksOK
<1>4. DueOK'
  BY <1>0 DEF ListenerInv, DueOK, RetryOK, RetryIsReady, Cancelled
<1> QED BY <1>1, <1>2, <1>3, <1>4 DEF ListenerInv

(* close_all drains the registry, after the cancellation. *)
LEMMA CloseAllKeeps ==
    ASSUME ListenerInv, CloseAll, Cancelled, closer' \in {"cancelled", "closed"},
           loop' = loop \/ (loop = "connect" /\ loop' = "closed"),
           UNCHANGED <<calls, answer, accepts, lane, queue, sent, retry, todo, pend,
                       committed, regs, held, drains>>
    PROVE  ListenerInv'
<1>0. /\ state \in [Listeners -> ListenerStates]
      /\ UNCHANGED <<epoch, timers>>
  BY DEF ListenerInv, TypeOK, retry
<1>1. ASSUME NEW k \in Listeners
      PROVE  /\ state'[k] \in ListenerStates /\ StateOK(state'[k])
             /\ IsCurrentDesired(k) =>
                   /\ state'[k].life = "Terminal" /\ state'[k].status = "Closed"
                   /\ state[k].status = "Closed" => state'[k].error = state[k].error
                   /\ state[k].status # "Closed" => state'[k].error = "none"
             /\ ~ IsCurrentDesired(k) => state'[k] = state[k]
  <2>1. state'[k] = IF IsCurrentDesired(k) THEN End(state[k], "Closed", "none") ELSE state[k]
    BY DEF CloseAll, Close
  <2>2. state[k] \in ListenerStates /\ StateOK(state[k])
    BY DEF ListenerInv, TypeOK
  <2>3. CASE IsCurrentDesired(k)
    BY <2>1, <2>2, <2>3, EndMeans
  <2>4. CASE ~ IsCurrentDesired(k)
    BY <2>1, <2>2, <2>4
  <2> QED BY <2>3, <2>4
<1>2. state' \in [Listeners -> ListenerStates]
  <2>1. state' = [k \in Listeners |-> state'[k]]
    BY DEF CloseAll
  <2> QED BY <1>1, <2>1
<1>3. /\ desired' \in [Destinations -> Listeners \union {NoListener}]
      /\ \A d \in Destinations : desired'[d] = NoListener
      /\ permit' = TRUE
  BY DEF CloseAll
<1>4. TypeOK'
  BY <1>0, <1>2, <1>3 DEF ListenerInv, TypeOK, Loops
<1>5. ASSUME NEW k \in Listeners
      PROVE  (/\ StateOK(state[k]) /\ CallOK(k) /\ HeldOK(k) /\ ActiveOK(k) /\ TruthOK(k)
              /\ QueueOK(k))'
  <2>1. /\ StateOK(state[k]) /\ CallOK(k) /\ HeldOK(k) /\ ActiveOK(k) /\ TruthOK(k)
        /\ QueueOK(k) /\ state[k] \in ListenerStates
    BY DEF ListenerInv, TypeOK
  <2>2. StateOK(state[k])' /\ HeldOK(k)' /\ ActiveOK(k)'
    BY <2>1, <1>1 DEF HeldOK, ActiveOK
  <2>3. CallOK(k)'
    <3>1. ~ IsCurrentDesired(k)'
      BY <1>3, ListenerAssumption DEF IsCurrentDesired
    <3> QED BY <2>1, <3>1, <1>1 DEF CallOK, Closed, Cancelled
  <2>4. TruthOK(k)'
    BY <2>1, <1>1 DEF TruthOK, StateOK
  <2>5. QueueOK(k)'
    BY <2>1, <1>1 DEF QueueOK, Closed
  <2> QED BY <2>2, <2>3, <2>4, <2>5
<1>6. BooksOK'
  <2>1. \A d \in Destinations : regs[d] # NoListener => regs[d] \in Listeners
    BY DEF ListenerInv, TypeOK
  <2>2. \A d \in Destinations : regs[d] # NoListener =>
            state'[regs[d]].status \in {"Active", "Closed"}
    BY <2>1, <1>1 DEF ListenerInv, BooksOK
  <2> QED BY <2>2, <1>3 DEF ListenerInv, BooksOK
<1>7. DueOK'
  BY <1>0 DEF ListenerInv, DueOK, RetryOK, RetryIsReady, Cancelled
<1> QED BY <1>4, <1>5, <1>6, <1>7 DEF ListenerInv

-----------------------------------------------------------------------------
(***************************************************************************)
(* The session task.  First the steps that only move its loop.             *)
(***************************************************************************)
LEMMA LoopStep ==
    ASSUME ListenerInv,
           UNCHANGED <<application, sent, desired, retry, closer, todo, pend, committed,
                       regs, held, drains>>,
           permit' \in BOOLEAN,
           \/ loop' = "cleanup" /\ loop \in {"reconcile", "register", "select"}
           \/ loop' = "reconcile" /\ loop \in {"connect", "select"}
           \/ loop' = "connect" /\ loop = "drain" /\ drains = {}
    PROVE  ListenerInv'
<1>0. /\ UNCHANGED <<state, calls, answer, accepts, lane, queue, sent, desired, epoch,
                     timers, closer, todo, pend, committed, regs, held, drains>>
      /\ loop' \in Loops
  BY DEF application, retry, Loops
<1>1. TypeOK'
  BY <1>0 DEF ListenerInv, TypeOK
<1>2. BooksOK'
  BY <1>0 DEF ListenerInv, BooksOK, TypeOK
<1>3. ASSUME NEW k \in Listeners
      PROVE  (/\ StateOK(state[k]) /\ CallOK(k) /\ HeldOK(k) /\ ActiveOK(k) /\ TruthOK(k)
              /\ QueueOK(k))'
  <2>1. /\ StateOK(state[k]) /\ CallOK(k) /\ HeldOK(k) /\ ActiveOK(k) /\ TruthOK(k)
        /\ QueueOK(k)
    BY DEF ListenerInv
  <2>2. (StateOK(state[k]) /\ CallOK(k) /\ HeldOK(k) /\ ActiveOK(k) /\ TruthOK(k))'
    BY <2>1, <1>0 DEF CallOK, HeldOK, ActiveOK, TruthOK, IsCurrentDesired, Closed, Cancelled
  <2>3. QueueOK(k)'
    <3>1. CASE loop = "drain"
      <4>1. regs[DestinationOf[k]] # k /\ drains = {}
        BY <3>1, ListenerAssumption DEF ListenerInv, BooksOK
      <4>2. ~ Closed(k) => queue[k].pipes = << >>
        BY <4>1, <2>1 DEF QueueOK
      <4>3. ~ Closed(k) => DOMAIN queue[k].pipes = {}
        BY <4>2
      <4> QED BY <4>2, <4>3, <1>0 DEF QueueOK, Closed
    <3>2. CASE loop # "drain"
      BY <3>2, <2>1, <1>0 DEF QueueOK, Closed
    <3> QED BY <3>1, <3>2
  <2> QED BY <2>2, <2>3
<1>4. DueOK'
  BY <1>0 DEF ListenerInv, DueOK, RetryOK, RetryIsReady
<1> QED BY <1>1, <1>2, <1>3, <1>4 DEF ListenerInv

(* The steps of the loop that change only where it is. *)
LEMMA LoopStepsKeep ==
    ASSUME ListenerInv,
           \/ SessionBreaks \/ (\E d \in Destinations : RegistrationDeadline(d))
           \/ SessionCancelled \/ SessionEnded \/ Connect \/ Notified
    PROVE  ListenerInv'
<1>0. permit \in BOOLEAN
  BY DEF ListenerInv, TypeOK
<1>1. CASE SessionBreaks
  BY <1>0, <1>1, LoopStep DEF SessionBreaks, registry
<1>2. CASE \E d \in Destinations : RegistrationDeadline(d)
  BY <1>0, <1>2, LoopStep DEF RegistrationDeadline, registry
<1>3. CASE SessionCancelled
  BY <1>0, <1>3, LoopStep DEF SessionCancelled, registry
<1>4. CASE SessionEnded
  BY <1>0, <1>4, LoopStep DEF SessionEnded, registry
<1>5. CASE Connect
  BY <1>0, <1>5, LoopStep DEF Connect, registry
<1>6. CASE Notified
  BY <1>0, <1>6, LoopStep DEF Notified
<1> QED BY <1>1, <1>2, <1>3, <1>4, <1>5, <1>6

(* settle_reconnect resets the backoff, or not. *)
LEMMA SettleKeeps ==
    ASSUME ListenerInv, Settle
    PROVE  ListenerInv'
<1>0. /\ UNCHANGED <<state, calls, answer, accepts, lane, queue, sent, desired, permit,
                     timers, closer, todo, pend, committed, regs, held, drains>>
      /\ loop = "settle" /\ loop' = "select"
      /\ epoch' = IF DesiredIsSettled /\ ~ RetryIsReady THEN epoch + 1 ELSE epoch
      /\ epoch \in Nat /\ timers \subseteq 1 .. epoch /\ RetryOK
  BY DEF Settle, ResetRepublishBackoff, application, registry, retry, ListenerInv, TypeOK,
     DueOK
<1>1. epoch' \in Nat /\ timers' \subseteq 1 .. epoch' /\ RetryOK'
      /\ (RetryIsReady' => RetryIsReady \/ DesiredIsSettled)
  BY <1>0 DEF RetryOK, RetryIsReady
<1>2. TypeOK'
  BY <1>0, <1>1 DEF ListenerInv, TypeOK, Loops
<1>3. BooksOK'
  BY <1>0 DEF ListenerInv, BooksOK
<1>4. ASSUME NEW k \in Listeners
      PROVE  (/\ StateOK(state[k]) /\ CallOK(k) /\ HeldOK(k) /\ ActiveOK(k) /\ TruthOK(k)
              /\ QueueOK(k))'
  BY <1>0 DEF ListenerInv, CallOK, HeldOK, ActiveOK, TruthOK, QueueOK, IsCurrentDesired,
     Closed, Cancelled
<1>5. ASSUME NEW k \in Wanted PROVE NeedsRegistration(k)' => NeedsRegistration(k)
  <2>1. k \in Listeners /\ StateOK(state[k])
    BY DEF Wanted, ListenerInv, TypeOK
  <2>2. state[k].status = "Suspended" => ~ DesiredIsSettled
    BY <2>1 DEF StateOK, DesiredIsSettled
  <2> QED BY <2>2, <1>0, <1>1 DEF NeedsRegistration, IsCurrentDesired
<1>6. WorkBeyond({})' => WorkBeyond({})
  <2>1. Wanted' = Wanted /\ StaleDestinations' = StaleDestinations
        /\ (AbandonedCommit' <=> AbandonedCommit)
    BY <1>0 DEF Wanted, StaleDestinations, AbandonedCommit, Withdrawn, IsCurrentDesired, Closed
  <2> QED BY <2>1, <1>5 DEF WorkBeyond
<1>7. DueOK'
  BY <1>0, <1>1, <1>6 DEF ListenerInv, DueOK, Notifying, Cancelled
<1> QED BY <1>2, <1>3, <1>4, <1>7 DEF ListenerInv

(* The reconcile takes its snapshot and withdraws what is stale; what is   *)
(* left to do is in the snapshot.                                          *)
LEMMA ReconcileSnapshotKeeps ==
    ASSUME ListenerInv, ReconcileSnapshot
    PROVE  ListenerInv'
<1>0. /\ UNCHANGED <<state, calls, answer, accepts, lane, queue, sent, desired, permit,
                     epoch, timers, closer, pend, committed, drains>>
      /\ loop = "reconcile" /\ permit \in BOOLEAN
  BY DEF ReconcileSnapshot, application, registry, retry, ListenerInv, TypeOK
<1>1. CASE AbandonedCommit
  BY <1>0, <1>1, LoopStep DEF ReconcileSnapshot, application, retry
<1>2. CASE ~ AbandonedCommit
  <2>1. /\ regs' = [d \in Destinations |->
                       IF d \in StaleDestinations THEN NoListener ELSE regs[d]]
        /\ held' = held \ {regs[d] : d \in StaleDestinations}
        /\ todo' = Wanted /\ loop' = "register"
    BY <1>2 DEF ReconcileSnapshot
  <2>2. /\ regs \in [Destinations -> Listeners \union {NoListener}]
        /\ desired \in [Destinations -> Listeners \union {NoListener}]
        /\ pend \in [Destinations -> Listeners \union {NoListener}]
        /\ committed \subseteq {d \in Destinations : pend[d] # NoListener}
        /\ held \subseteq Listeners
    BY DEF ListenerInv, TypeOK
  <2>3. TypeOK'
    <3>1. /\ regs' \in [Destinations -> Listeners \union {NoListener}]
          /\ held' \subseteq Listeners /\ todo' \subseteq Listeners /\ loop' \in Loops
      BY <2>1, <2>2 DEF Wanted, Loops
    <3> QED BY <3>1, <1>0 DEF ListenerInv, TypeOK
  <2>4. \A d, e \in Destinations :
           regs[d] # NoListener /\ regs[d] = regs[e] => d = e
    BY DEF ListenerInv, BooksOK
  <2>5. \A d, e \in Destinations :
           regs[d] # NoListener => regs[d] # pend[e]
    BY DEF ListenerInv, BooksOK
  <2>6. BooksOK'
    <3>1. \A d \in Destinations : regs'[d] # NoListener =>
             regs'[d] = regs[d] /\ d \notin StaleDestinations
      BY <2>1
    <3>2. \A d \in Destinations : regs'[d] # NoListener => regs'[d] \in held'
      BY <3>1, <2>1, <2>4 DEF ListenerInv, BooksOK, StaleDestinations
    <3>3. \A d \in committed : pend[d] \in held'
      BY <1>0, <2>1, <2>2, <2>5 DEF ListenerInv, BooksOK, StaleDestinations
    <3> QED BY <1>0, <2>1, <2>2, <3>1, <3>2, <3>3 DEF ListenerInv, BooksOK
  <2>7. ASSUME NEW k \in Listeners
        PROVE  (/\ StateOK(state[k]) /\ CallOK(k) /\ HeldOK(k) /\ ActiveOK(k) /\ TruthOK(k)
                /\ QueueOK(k))'
    <3> DEFINE d == DestinationOf[k]
    <3>1. /\ StateOK(state[k]) /\ CallOK(k) /\ HeldOK(k) /\ ActiveOK(k) /\ TruthOK(k)
          /\ QueueOK(k) /\ d \in Destinations /\ k # NoListener
      BY ListenerAssumption DEF ListenerInv
    <3>2. (StateOK(state[k]) /\ CallOK(k) /\ TruthOK(k))'
      BY <3>1, <1>0 DEF CallOK, TruthOK, IsCurrentDesired, Closed, Cancelled
    <3>3. regs[d] = k /\ ~ Closed(k) => regs'[d] = k
      <4>1. regs[d] = k /\ ~ Closed(k) => state[k].status = "Active"
        BY <3>1 DEF ListenerInv, BooksOK, Closed
      <4> QED BY <4>1, <3>1, <2>1 DEF ActiveOK, StaleDestinations, Withdrawn
    <3>4. ActiveOK(k)'
      BY <3>1, <3>3, <1>0 DEF ActiveOK, IsCurrentDesired, Closed
    <3>5. QueueOK(k)'
      BY <3>1, <3>3, <1>0, <2>1 DEF QueueOK, Closed
    <3>6. HeldOK(k)'
      BY <3>1, <1>0, <2>1 DEF HeldOK
    <3> QED BY <3>2, <3>4, <3>5, <3>6
  <2>8. DueOK'
    <3>1. ~ WorkBeyond(todo)'
      <4>1. ~ AbandonedCommit'
        BY <1>0, <1>2 DEF AbandonedCommit, Withdrawn, IsCurrentDesired, Closed
      <4>2. StaleDestinations' = {}
        BY <1>0, <2>1 DEF StaleDestinations, Withdrawn, IsCurrentDesired, Closed
      <4>3. Wanted' = todo'
        BY <1>0, <2>1 DEF Wanted
      <4> QED BY <4>1, <4>2, <4>3 DEF WorkBeyond
    <3>2. WorkBeyond(IF loop = "register" THEN todo ELSE {})' <=> WorkBeyond(todo)'
      BY <2>1
    <3> QED BY <3>1, <3>2, <1>0 DEF ListenerInv, DueOK, RetryOK, RetryIsReady
  <2> QED BY <2>3, <2>6, <2>7, <2>8 DEF ListenerInv
<1> QED BY <1>1, <1>2

(* The registrations of a snapshot are begun. *)
LEMMA RegisterKeeps ==
    ASSUME ListenerInv, Register
    PROVE  ListenerInv'
<1> DEFINE start  == {l \in todo : NeedsRegistration(l)}
           failed == {l \in start : TooLate(l)}
           begun  == {l \in start \ failed : state[l].life # "Terminal"}
<1>0. /\ UNCHANGED <<calls, answer, accepts, lane, queue, sent, epoch, timers, closer,
                     committed, regs, held, drains>>
      /\ loop = "register" /\ todo' = {}
      /\ loop' = IF Cancelled THEN "cleanup" ELSE "settle"
      /\ permit' = (permit \/ failed # {})
      /\ desired' = [d \in Destinations |->
                        IF desired[d] \in failed THEN NoListener ELSE desired[d]]
      /\ pend' = [d \in Destinations |->
                        IF \E l \in begun : DestinationOf[l] = d THEN desired[d] ELSE pend[d]]
      /\ state' = [l \in Listeners |->
              CASE l \in failed -> FailInitial(state[l], "NotObserved")
                [] l \in begun  -> [state[l] EXCEPT !.progress = "TokenSource"]
                [] OTHER        -> state[l]]
  BY DEF Register, retry
<1>1. /\ todo \subseteq Listeners /\ start \subseteq Listeners
      /\ state \in [Listeners -> ListenerStates]
      /\ desired \in [Destinations -> Listeners \union {NoListener}]
      /\ pend \in [Destinations -> Listeners \union {NoListener}]
      /\ regs \in [Destinations -> Listeners \union {NoListener}]
      /\ committed \subseteq {d \in Destinations : pend[d] # NoListener}
      /\ permit \in BOOLEAN
  BY DEF ListenerInv, TypeOK
<1>2. ASSUME NEW l \in start
      PROVE  /\ IsCurrentDesired(l) /\ state[l].life # "Terminal"
             /\ state[l].status \notin {"Blocked", "Closed", "Active"}
             /\ regs[DestinationOf[l]] = NoListener /\ pend[DestinationOf[l]] = NoListener
             /\ DestinationOf[l] \in Destinations /\ l # NoListener
             /\ l \in failed => state[l].life = "Pending"
             /\ l \in begun <=> l \notin failed
  <2>1. l \in Listeners /\ StateOK(state[l]) /\ ActiveOK(l) /\ state[l] \in ListenerStates
    BY <1>1 DEF ListenerInv
  <2>2. l # NoListener /\ DestinationOf[l] \in Destinations
    BY <2>1, ListenerAssumption
  <2> QED BY <2>1, <2>2 DEF NeedsRegistration, TooLate, StateOK, ActiveOK, ListenerStates,
             Lifecycles
<1>3. ASSUME NEW l \in Listeners
      PROVE  /\ state'[l] \in ListenerStates /\ StateOK(state'[l])
             /\ l \in failed => state'[l].life = "Terminal" /\ state'[l].status = "Closed"
             /\ l \notin failed =>
                   /\ state'[l].life = state[l].life /\ state'[l].status = state[l].status
                   /\ state'[l].error = state[l].error
             /\ l \notin start => state'[l] = state[l]
  <2>1. state[l] \in ListenerStates /\ StateOK(state[l])
    BY <1>1 DEF ListenerInv
  <2>2. CASE l \in failed
    <3>1. l \in start
      BY <2>2
    <3>2. state[l].life = "Pending" /\ state[l].status # "Closed"
      BY <1>2, <2>2, <3>1
    <3>3. state'[l] = End(state[l], "Closed", "NotObserved")
      BY <2>2, <3>2, <1>0 DEF FailInitial
    <3> HIDE DEF failed
    <3>4. /\ state'[l] \in ListenerStates /\ StateOK(state'[l])
          /\ state'[l].life = "Terminal" /\ state'[l].status = "Closed"
      BY <2>1, <3>3, EndMeans DEF Observations
    <3> QED BY <2>2, <3>1, <3>4
  <2>3. CASE l \in begun
    <3>1. l \in start /\ l \notin failed
      BY <2>3
    <3>2. state'[l] = [state[l] EXCEPT !.progress = "TokenSource"]
      BY <2>3, <3>1, <1>0
    <3> HIDE DEF failed, start, begun
    <3>3. /\ state'[l] \in ListenerStates /\ state'[l].life = state[l].life
          /\ state'[l].status = state[l].status /\ state'[l].error = state[l].error
      BY <3>2, <2>1 DEF ListenerStates, Progress
    <3> QED BY <2>1, <3>1, <3>3 DEF StateOK
  <2>4. CASE l \notin failed /\ l \notin begun
    <3>1. state'[l] = state[l] /\ l \notin failed
      BY <2>4, <1>0
    <3> QED BY <3>1, <2>1
  <2> QED BY <2>2, <2>3, <2>4
<1>4. failed \subseteq start /\ begun \subseteq start
  OBVIOUS
<1> HIDE DEF failed, begun, start
<1>5. state' \in [Listeners -> ListenerStates]
  <2>1. state' = [l \in Listeners |-> state'[l]]
    BY <1>0
  <2> QED BY <2>1, <1>3
<1>6. ASSUME NEW d \in Destinations
      PROVE  /\ desired'[d] \in {desired[d], NoListener}
             /\ desired'[d] # desired[d] => desired[d] \in failed
             /\ desired[d] \in failed => desired'[d] = NoListener
             /\ pend'[d] # pend[d] =>
                   /\ desired[d] \in begun /\ pend'[d] = desired[d]
                   /\ pend[d] = NoListener /\ regs[d] = NoListener
             /\ desired[d] \in begun => pend'[d] = desired[d]
  <2>1. ASSUME NEW l \in begun, DestinationOf[l] = d
        PROVE  desired[d] = l /\ pend[d] = NoListener /\ regs[d] = NoListener
    BY <2>1, <1>2, <1>4 DEF IsCurrentDesired
  <2>2. desired[d] \in begun => DestinationOf[desired[d]] = d /\ desired[d] # NoListener
    BY <1>2, <1>4 DEF ListenerInv, BooksOK
  <2> QED BY <2>1, <2>2, <1>0
<1>7. TypeOK'
  <2>1. desired' \in [Destinations -> Listeners \union {NoListener}]
    BY <1>0, <1>1
  <2>2. pend' \in [Destinations -> Listeners \union {NoListener}]
    BY <1>0, <1>1
  <2>3. committed \subseteq {d \in Destinations : pend'[d] # NoListener}
    BY <1>1, <1>6
  <2>4. loop' \in Loops /\ todo' \subseteq Listeners /\ permit' \in BOOLEAN
    BY <1>0, <1>1 DEF Loops
  <2> QED BY <1>0, <1>5, <2>1, <2>2, <2>3, <2>4 DEF ListenerInv, TypeOK
<1>8. BooksOK'
  <2>1. \A d \in Destinations : regs[d] # NoListener =>
           state'[regs[d]].status \in {"Active", "Closed"}
    BY <1>1, <1>3 DEF ListenerInv, BooksOK
  <2>2. \A d \in committed : pend'[d] = pend[d]
    BY <1>1, <1>6
  <2>3. loop' \in {"cleanup", "settle"}
    BY <1>0
  <2>4. \A d \in Destinations :
            /\ desired'[d] # NoListener => DestinationOf[desired'[d]] = d
            /\ pend'[d] # NoListener => DestinationOf[pend'[d]] = d /\ regs[d] = NoListener
    BY <1>6 DEF ListenerInv, BooksOK
  <2> QED BY <1>0, <2>1, <2>2, <2>3, <2>4 DEF ListenerInv, BooksOK
<1>9. ASSUME NEW k \in Listeners
      PROVE  (/\ StateOK(state[k]) /\ CallOK(k) /\ HeldOK(k) /\ ActiveOK(k) /\ TruthOK(k)
              /\ QueueOK(k))'
  <2> DEFINE d == DestinationOf[k]
  <2>1. /\ StateOK(state[k]) /\ CallOK(k) /\ HeldOK(k) /\ ActiveOK(k) /\ TruthOK(k)
        /\ QueueOK(k) /\ d \in Destinations /\ k # NoListener
    BY ListenerAssumption DEF ListenerInv
  <2>2. /\ IsCurrentDesired(k)' => IsCurrentDesired(k)
        /\ k \notin failed /\ IsCurrentDesired(k) => IsCurrentDesired(k)'
    BY <2>1, <1>6 DEF IsCurrentDesired
  <2>3. CallOK(k)'
    <3>1. CASE k \in failed
      BY <3>1, <2>1, <2>2, <1>0, <1>2, <1>3, <1>4 DEF CallOK
    <3>2. CASE k \notin failed
      BY <3>2, <2>1, <2>2, <1>0, <1>3 DEF CallOK, Closed, Cancelled
    <3> QED BY <3>1, <3>2
  <2>4. ActiveOK(k)'
    BY <2>1, <2>2, <1>0, <1>3 DEF ActiveOK
  <2>5. HeldOK(k)'
    BY <2>1, <1>0, <1>1, <1>6 DEF HeldOK
  <2>6. TruthOK(k)'
    <3>1. CASE k \in start
      <4>1. state[k].life # "Terminal" /\ state[k].status # "Active" /\ pend[d] # k
        BY <3>1, <2>1, <1>2
      <4>2. calls[k] = "waiting" /\ sent[k] = "sent" => state[k].life = "Returned"
        BY <4>1, <2>1, <1>1 DEF TruthOK, ListenerStates, Lifecycles
      <4>3. calls[k] = "waiting" => sent[k] # "sent"
        BY <4>2, <2>1 DEF CallOK
      <4> QED BY <4>1, <4>3, <2>1, <1>0 DEF TruthOK
    <3>2. CASE k \notin start
      <4>1. state'[k] = state[k]
        BY <3>2, <1>3
      <4>2. d \in committed => pend'[d] = pend[d]
        BY <1>1, <1>6
      <4> QED BY <4>1, <4>2, <2>1, <1>0 DEF TruthOK
    <3> QED BY <3>1, <3>2
  <2>7. QueueOK(k)'
    BY <2>1, <1>0, <1>3 DEF QueueOK, Closed
  <2> QED BY <2>3, <2>4, <2>5, <2>6, <2>7, <1>3
<1>10. DueOK'
  <2>1. RetryOK' /\ (Cancelled' <=> Cancelled) /\ (Notifying' <=> Notifying)
    BY <1>0 DEF ListenerInv, DueOK, RetryOK, RetryIsReady, Cancelled, Notifying
  <2>2. CASE Cancelled
    BY <2>1, <2>2, <1>0 DEF DueOK
  <2>3. CASE ~ Cancelled /\ failed # {}
    BY <2>1, <2>3, <1>0 DEF DueOK
  <2>4. CASE ~ Cancelled /\ failed = {}
    <3>1. \A l \in Listeners : state'[l].status = state[l].status
      BY <2>4, <1>3
    <3>2. desired' = desired
      BY <2>4, <1>0, <1>1
    <3>3. AbandonedCommit' => AbandonedCommit
      <4>1. \A d \in committed : pend'[d] = pend[d] /\ pend[d] \in Listeners
        BY <1>1, <1>6
      <4>2. ASSUME NEW d \in committed, Withdrawn(pend[d])' PROVE Withdrawn(pend[d])
        BY <4>1, <4>2, <3>1, <3>2 DEF Withdrawn, IsCurrentDesired, Closed
      <4> QED BY <4>2, <1>0 DEF AbandonedCommit
    <3>4. StaleDestinations' # {} => StaleDestinations # {}
      BY <3>1, <3>2, <1>0, <1>1 DEF StaleDestinations, Withdrawn, IsCurrentDesired, Closed
    <3>5. ASSUME NEW k \in Wanted', NeedsRegistration(k)'
          PROVE  k \in Wanted \ todo /\ NeedsRegistration(k)
      <4>1. k \in Wanted /\ k \in Listeners /\ DestinationOf[k] \in Destinations
            /\ k # NoListener
        BY <3>2, <1>1, ListenerAssumption DEF Wanted
      <4>2. IsCurrentDesired(k) /\ pend'[DestinationOf[k]] = NoListener
        BY <3>5, <3>2 DEF NeedsRegistration, IsCurrentDesired
      <4>3. pend[DestinationOf[k]] = NoListener /\ k \notin begun
        BY <4>1, <4>2, <1>6 DEF IsCurrentDesired
      <4>4. NeedsRegistration(k)
        BY <3>5, <4>1, <4>2, <4>3, <3>1, <1>0 DEF NeedsRegistration, RetryIsReady
      <4>5. k \notin todo
        BY <4>3, <4>4, <1>2, <2>4 DEF start
      <4> QED BY <4>1, <4>4, <4>5
    <3>6. WorkBeyond({})' => WorkBeyond(todo)
      BY <3>3, <3>4, <3>5 DEF WorkBeyond
    <3>7. loop' = "settle" /\ permit' = permit
      BY <2>4, <1>0, <1>1
    <3> QED BY <2>1, <2>4, <3>6, <3>7, <1>0 DEF ListenerInv, DueOK
  <2> QED BY <2>2, <2>3, <2>4
<1> QED BY <1>7, <1>8, <1>9, <1>10 DEF ListenerInv

(***************************************************************************)
(* A registration under way ends without one: its destination is free      *)
(* again and the Listener has the state r.                                 *)
(***************************************************************************)
LEMMA GiveUpStep ==
    ASSUME ListenerInv, NEW d \in Destinations, NEW l \in Listeners, pend[d] = l,
           NEW r \in ListenerStates, StateOK(r), r.status # "Active",
           loop = "select", loop' \in {"settle", "reconcile", "cleanup"},
           state[l].status = "Closed" => r.status = "Closed",
           state' = [state EXCEPT ![l] = r],
           pend' = [pend EXCEPT ![d] = NoListener],
           committed' = committed \ {d},
           held' = held \ {l},
           sent' \in [Listeners -> {"no", "sent", "refused"}],
           \A k \in Listeners \ {l} : sent'[k] = sent[k],
           queue' = queue \/ \E close \in BOOLEAN :
                                queue' = [queue EXCEPT ![l] = Emptied(@, close)],
           desired' = desired \/ (desired' = Without(desired, l) /\ permit' = TRUE),
           permit' \in {permit, TRUE},
           epoch' \in Nat, timers' \subseteq 1 .. epoch', RetryOK',
           RetryIsReady' => RetryIsReady,
           CallOK(l)', TruthOK(l)',
           loop' = "settle" =>
              \/ permit' = TRUE
              \/ IsCurrentDesired(l) /\ desired' = desired /\ ~ NeedsRegistration(l)',
           UNCHANGED <<calls, answer, accepts, lane, closer, todo, regs, drains>>
    PROVE  ListenerInv'
<1>1. /\ state \in [Listeners -> ListenerStates]
      /\ desired \in [Destinations -> Listeners \union {NoListener}]
      /\ pend \in [Destinations -> Listeners \union {NoListener}]
      /\ regs \in [Destinations -> Listeners \union {NoListener}]
      /\ committed \subseteq {e \in Destinations : pend[e] # NoListener}
      /\ permit \in BOOLEAN /\ held \subseteq Listeners
  BY DEF ListenerInv, TypeOK
<1>2. DestinationOf[l] = d /\ regs[d] = NoListener /\ l # NoListener
  BY ListenerAssumption DEF ListenerInv, BooksOK
<1>3. /\ state' \in [Listeners -> ListenerStates] /\ state'[l] = r
      /\ \A k \in Listeners \ {l} : state'[k] = state[k]
      /\ pend' \in [Destinations -> Listeners \union {NoListener}]
      /\ pend'[d] = NoListener
      /\ \A e \in Destinations \ {d} : pend'[e] = pend[e]
  BY <1>1
<1>4. \A k \in Listeners \ {l} : IsCurrentDesired(k)' <=> IsCurrentDesired(k)
  BY <1>1, WithoutMeans, ListenerAssumption DEF IsCurrentDesired
<1>5. /\ desired' \in [Destinations -> Listeners \union {NoListener}]
      /\ \A e \in Destinations : desired'[e] \in {desired[e], NoListener}
  BY <1>1, WithoutMeans
<1>6. /\ queue' \in [Listeners -> Queues]
      /\ \A k \in Listeners :
            \/ queue'[k] = queue[k]
            \/ queue'[k].pipes = << >> /\ DOMAIN queue'[k].pipes = {}
  <2>0. queue \in [Listeners -> Queues]
    BY DEF ListenerInv, TypeOK
  <2>1. CASE queue' = queue
    BY <2>0, <2>1
  <2>2. ASSUME NEW close \in BOOLEAN, queue' = [queue EXCEPT ![l] = Emptied(@, close)]
        PROVE  /\ queue' \in [Listeners -> Queues]
               /\ \A k \in Listeners :
                     \/ queue'[k] = queue[k]
                     \/ queue'[k].pipes = << >> /\ DOMAIN queue'[k].pipes = {}
    <3>1. Emptied(queue[l], close) \in Queues /\ Emptied(queue[l], close).pipes = << >>
      BY <2>0, EmptiedMeans
    <3>2. queue' \in [Listeners -> Queues] /\ queue'[l].pipes = << >>
          /\ \A k \in Listeners \ {l} : queue'[k] = queue[k]
      BY <2>0, <2>2, <3>1
    <3>3. DOMAIN << >> = {}
      OBVIOUS
    <3> QED BY <3>2, <3>3
  <2> QED BY <2>1, <2>2
<1>7. TypeOK'
  <2>1. committed' \subseteq {e \in Destinations : pend'[e] # NoListener}
    BY <1>1, <1>3
  <2>2. permit' \in BOOLEAN /\ loop' \in Loops /\ held' \subseteq Listeners
    BY <1>1 DEF Loops
  <2> QED BY <1>3, <1>5, <1>6, <2>1, <2>2 DEF ListenerInv, TypeOK
<1>8. BooksOK'
  <2>1. \A e \in Destinations : regs[e] # NoListener =>
            /\ regs[e] # l /\ regs[e] \in Listeners
            /\ regs[e] \in held' /\ state'[regs[e]].status \in {"Active", "Closed"}
    BY <1>1, <1>2, <1>3 DEF ListenerInv, BooksOK
  <2>2. \A e \in committed' : e # d /\ pend'[e] = pend[e] /\ pend[e] # l /\ pend[e] \in held
    BY <1>1, <1>2, <1>3 DEF ListenerInv, BooksOK
  <2>3. \A e \in Destinations :
            /\ desired'[e] # NoListener => DestinationOf[desired'[e]] = e
            /\ pend'[e] # NoListener => DestinationOf[pend'[e]] = e /\ regs[e] = NoListener
    BY <1>3, <1>5 DEF ListenerInv, BooksOK
  <2> QED BY <2>1, <2>2, <2>3 DEF ListenerInv, BooksOK
<1>9. ASSUME NEW k \in Listeners
      PROVE  (/\ StateOK(state[k]) /\ CallOK(k) /\ HeldOK(k) /\ ActiveOK(k) /\ TruthOK(k)
              /\ QueueOK(k))'
  <2>1. /\ StateOK(state[k]) /\ CallOK(k) /\ HeldOK(k) /\ ActiveOK(k) /\ TruthOK(k)
        /\ QueueOK(k) /\ DestinationOf[k] \in Destinations
    BY ListenerAssumption DEF ListenerInv
  <2>2. QueueOK(k)'
    <3>1. ~ Closed(k)' => ~ Closed(k)
      BY <1>3 DEF Closed
    <3>2. CASE queue'[k] = queue[k]
      BY <3>1, <3>2, <2>1 DEF QueueOK
    <3>3. CASE queue'[k].pipes = << >> /\ DOMAIN queue'[k].pipes = {}
      BY <3>3 DEF QueueOK
    <3> QED BY <3>2, <3>3, <1>6
  <2>3. HeldOK(k)'
    <3>1. k \in held' => k # l /\ k \in held
      OBVIOUS
    <3>2. pend[DestinationOf[k]] = k /\ k # l => DestinationOf[k] # d
      OBVIOUS
    <3> QED BY <3>1, <3>2, <2>1, <1>3 DEF HeldOK
  <2>4. CASE k = l
    BY <2>2, <2>3, <2>4, <1>3 DEF ActiveOK
  <2>5. CASE k # l
    <3>1. StateOK(state[k])' /\ ActiveOK(k)'
      BY <2>1, <2>5, <1>3, <1>4 DEF ActiveOK
    <3>2. CallOK(k)'
      BY <2>1, <2>5, <1>3, <1>4 DEF CallOK, Closed, Cancelled
    <3>3. TruthOK(k)'
      <4>1. pend[DestinationOf[k]] = k => DestinationOf[k] # d
        BY <2>5
      <4> QED BY <4>1, <2>1, <2>5, <1>3 DEF TruthOK
    <3> QED BY <2>2, <2>3, <3>1, <3>2, <3>3
  <2> QED BY <2>4, <2>5
<1>10. DueOK'
  <2>1. (Cancelled' <=> Cancelled) /\ (Notifying' <=> Notifying)
    BY DEF Cancelled, Notifying
  <2>2. CASE loop' # "settle" \/ permit' = TRUE
    BY <2>2 DEF DueOK
  <2>3. CASE loop' = "settle" /\ permit' # TRUE
    <3>1. /\ IsCurrentDesired(l) /\ desired' = desired /\ ~ NeedsRegistration(l)'
          /\ permit' = permit
      BY <2>3
    <3>2. AbandonedCommit' => AbandonedCommit
      <4>1. \A e \in committed' :
               /\ e # d /\ e \in Destinations
               /\ pend'[e] = pend[e] /\ pend[e] # l /\ pend[e] \in Listeners
        BY <1>1, <1>2, <1>3 DEF ListenerInv, BooksOK
      <4>2. ASSUME NEW e \in committed', Withdrawn(pend[e])' PROVE Withdrawn(pend[e])
        BY <4>1, <4>2, <3>1, <1>3 DEF Withdrawn, IsCurrentDesired, Closed
      <4> QED BY <4>2 DEF AbandonedCommit
    <3>3. StaleDestinations' # {} => StaleDestinations # {}
      <4>1. \A e \in Destinations : regs[e] # NoListener => regs[e] # l /\ regs[e] \in Listeners
        BY <1>1, <1>2 DEF ListenerInv, BooksOK
      <4> QED BY <4>1, <3>1, <1>3 DEF StaleDestinations, Withdrawn, IsCurrentDesired, Closed
    <3>4. ASSUME NEW k \in Wanted', NeedsRegistration(k)'
          PROVE  k \in Wanted /\ NeedsRegistration(k)
      <4>1. k \in Wanted /\ k \in Listeners /\ DestinationOf[k] \in Destinations /\ k # l
        BY <3>1, <3>4, <1>1, ListenerAssumption DEF Wanted
      <4>2. DestinationOf[k] # d
        BY <4>1, <3>1, <3>4, <1>2 DEF NeedsRegistration, IsCurrentDesired
      <4> QED BY <3>1, <3>4, <4>1, <4>2, <1>3 DEF NeedsRegistration, IsCurrentDesired
    <3>5. WorkBeyond({})' => WorkBeyond({})
      BY <3>2, <3>3, <3>4 DEF WorkBeyond
    <3> QED BY <2>1, <2>3, <3>1, <3>5 DEF ListenerInv, DueOK
  <2> QED BY <2>2, <2>3
<1> QED BY <1>7, <1>8, <1>9, <1>10 DEF ListenerInv

(* fail_initial closes a pending Listener. *)
LEMMA FailInitialMeans ==
    ASSUME NEW r \in ListenerStates, StateOK(r), r.life = "Pending"
    PROVE  LET q == FailInitial(r, "NotObserved") IN
           /\ q \in ListenerStates /\ StateOK(q)
           /\ q.life = "Terminal" /\ q.status = "Closed"
<1>1. FailInitial(r, "NotObserved") = End(r, "Closed", "NotObserved")
  BY DEF FailInitial
<1> QED BY <1>1, EndMeans DEF Observations

(* block ends a returned Listener for good. *)
LEMMA BlockMeans ==
    ASSUME NEW r \in ListenerStates, StateOK(r), r.life = "Returned"
    PROVE  LET q == Block(r, "NotObserved") IN
           /\ q \in ListenerStates /\ StateOK(q)
           /\ q.life = "Terminal" /\ q.status = "Blocked"
<1>1. Block(r, "NotObserved") = End(r, "Blocked", "NotObserved")
  BY DEF Block
<1>2. r.status # "Closed"
  BY OpenMeans
<1> QED BY <1>1, <1>2, EndMeans DEF Observations

(* A returned Listener is suspended. *)
LEMMA SuspendMeans ==
    ASSUME NEW r \in ListenerStates, StateOK(r), r.life = "Returned"
    PROVE  LET q == Publish([r EXCEPT !.progress = "Waiting"], "Suspended", "NotObserved") IN
           /\ q \in ListenerStates /\ StateOK(q)
           /\ q.life = "Returned" /\ q.status = "Suspended"
<1> DEFINE q == Publish([r EXCEPT !.progress = "Waiting"], "Suspended", "NotObserved")
<1>1. "Waiting" \in Progress /\ "NotObserved" \in Observations \union {"none"}
  BY DEF Observations, Progress
<1>2. q \in ListenerStates /\ StateOK(q) /\ q.life = "Returned" /\ q.status = "Suspended"
  BY <1>1, WaitAndPublish
<1> QED BY <1>2

(* A scheduled retry has its timer. *)
LEMMA ScheduleMeans ==
    ASSUME ListenerInv, ScheduleReconcile
    PROVE  epoch' \in Nat /\ timers' \subseteq 1 .. epoch' /\ RetryOK' /\ ~ RetryIsReady'
<1>1. epoch \in Nat /\ timers \subseteq 1 .. epoch /\ RetryOK
  BY DEF ListenerInv, TypeOK, DueOK
<1>2. CASE RetryIsReady
  <2>1. epoch' = epoch + 1 /\ timers' = timers \union {epoch + 1} /\ epoch % 2 = 0
    BY <1>2 DEF ScheduleReconcile, RetryIsReady
  <2>2. epoch' \in Nat /\ timers' \subseteq 1 .. epoch' /\ epoch' % 2 = 1
    BY <1>1, <2>1
  <2> QED BY <1>1, <2>1, <2>2 DEF RetryOK, RetryIsReady
<1>3. CASE ~ RetryIsReady
  <2>1. UNCHANGED <<epoch, timers>>
    BY <1>3 DEF ScheduleReconcile, retry
  <2> QED BY <1>1, <1>3, <2>1 DEF RetryOK, RetryIsReady
<1> QED BY <1>2, <1>3

(* The retry is left alone. *)
LEMMA SteadyRetry ==
    ASSUME ListenerInv, UNCHANGED retry
    PROVE  /\ epoch' \in Nat /\ timers' \subseteq 1 .. epoch' /\ RetryOK'
           /\ RetryIsReady' => RetryIsReady
BY DEF ListenerInv, TypeOK, DueOK, RetryOK, RetryIsReady, retry

(* What the session and the Gateway know of a registration under way. *)
LEMMA PendedMeans ==
    ASSUME ListenerInv, NEW d \in Destinations, NEW l \in Listeners, pend[d] = l
    PROVE  /\ l # NoListener /\ DestinationOf[l] = d
           /\ regs[d] = NoListener
           /\ state[l] \in ListenerStates /\ StateOK(state[l]) /\ state[l].status # "Active"
           /\ CallOK(l) /\ TruthOK(l)
           /\ d \notin committed => l \notin held
           /\ d \in committed /\ loop # "cleanup" => l \in held
<1>1. l # NoListener
  BY ListenerAssumption
<1>2. DestinationOf[l] = d /\ regs[d] = NoListener
  BY <1>1 DEF ListenerInv, BooksOK
<1>3. /\ StateOK(state[l]) /\ ActiveOK(l) /\ CallOK(l) /\ TruthOK(l)
      /\ HeldOK(l) /\ state[l] \in ListenerStates
  BY <1>1 DEF ListenerInv, TypeOK
<1>4. state[l].status # "Active"
  BY <1>1, <1>2, <1>3 DEF ActiveOK
<1>5. d \notin committed => l \notin held
  BY <1>1, <1>2, <1>3 DEF HeldOK
<1>6. d \in committed /\ loop # "cleanup" => l \in held
  BY DEF ListenerInv, BooksOK
<1> QED BY <1>1, <1>2, <1>3, <1>4, <1>5, <1>6

(* A token that comes too late, or none at all. *)
LEMMA TokenLostKeeps ==
    ASSUME ListenerInv, NEW d \in Destinations, NEW l \in Listeners,
           pend[d] = l, d \notin committed, loop = "select", loop' = "settle",
           Unpend(d), UNCHANGED <<committed, held, sent>>,
           UNCHANGED <<calls, answer, accepts, lane, closer, todo, regs, drains>>,
           \/ /\ Withdrawn(l) /\ permit' = TRUE
              /\ UNCHANGED <<state, queue, desired, retry>>
           \/ /\ ~ Withdrawn(l) /\ state[l].life = "Terminal"
              /\ UNCHANGED <<state, queue, registry, retry>>
           \/ /\ ~ Withdrawn(l)
              /\ \E outcome \in {"unavailable", "denied"} :
                    HandleTokenSourceError(l, d, outcome)
    PROVE  ListenerInv'
<1>1. /\ l # NoListener /\ DestinationOf[l] = d /\ regs[d] = NoListener
      /\ state[l] \in ListenerStates /\ StateOK(state[l]) /\ state[l].status # "Active"
      /\ CallOK(l) /\ TruthOK(l) /\ l \notin held
  BY PendedMeans
<1>2. /\ committed' = committed \ {d} /\ held' = held \ {l}
      /\ pend' = [pend EXCEPT ![d] = NoListener]
      /\ sent' \in [Listeners -> {"no", "sent", "refused"}]
      /\ state \in [Listeners -> ListenerStates] /\ sent' = sent
      /\ desired \in [Destinations -> Listeners \union {NoListener}]
      /\ permit \in BOOLEAN
  BY <1>1 DEF Unpend, ListenerInv, TypeOK
<1>3. calls[l] = "waiting" /\ state[l].life = "Pending" => sent[l] # "sent"
  BY <1>1 DEF TruthOK
<1>4. CASE UNCHANGED <<state, queue, desired, retry>>
  <2>1. state' = [state EXCEPT ![l] = state[l]]
    BY <1>1, <1>2, <1>4
  <2>2. CallOK(l)'
    BY <1>1, <1>2, <1>4 DEF CallOK, IsCurrentDesired, Closed, Cancelled
  <2>3. TruthOK(l)'
    BY <1>1, <1>2, <1>3, <1>4 DEF TruthOK
  <2>4. /\ permit' \in {permit, TRUE}
        /\ \/ permit' = TRUE
           \/ IsCurrentDesired(l) /\ desired' = desired /\ ~ NeedsRegistration(l)'
    <3>1. CASE permit' = TRUE
      BY <3>1
    <3>2. CASE ~ Withdrawn(l) /\ state[l].life = "Terminal" /\ UNCHANGED registry
      BY <3>2, <1>1, <1>4 DEF Withdrawn, NeedsRegistration, StateOK, registry
    <3>3. CASE ~ Withdrawn(l) /\ \E outcome \in {"unavailable", "denied"} :
                                    HandleTokenSourceError(l, d, outcome)
      <4>1. state[l].status # "Closed" /\ IsCurrentDesired(l)
        BY <3>3 DEF Withdrawn, Closed
      <4>2. PICK outcome \in {"unavailable", "denied"} : HandleTokenSourceError(l, d, outcome)
        BY <3>3
      <4>3. CASE state[l].life = "Terminal"
        BY <4>1, <4>2, <4>3, <1>1, <1>4 DEF HandleTokenSourceError, FailInitialListener,
           NeedsRegistration, StateOK, registry
      <4>4. CASE state[l].life = "Pending"
        BY <4>2, <4>4 DEF HandleTokenSourceError, FailInitialListener, RemoveTerminalListener
      <4>5. CASE state[l].life = "Returned" /\ outcome = "unavailable"
        <5>1. ScheduleReconcile /\ UNCHANGED registry
          BY <4>2, <4>5 DEF HandleTokenSourceError
        <5>2. ~ RetryIsReady' /\ ~ RetryIsReady
          BY <5>1, <1>4, ScheduleMeans DEF RetryIsReady, retry
        <5>3. state'[l] = Publish([state[l] EXCEPT !.progress = "Waiting"], "Suspended",
                                  "NotObserved")
          BY <4>2, <4>5, <1>1, <1>2 DEF HandleTokenSourceError
        <5>4. state'[l].status = "Suspended"
          BY <5>3, <4>5, <1>1, SuspendMeans
        <5> QED BY <5>1, <5>2, <5>4, <4>1 DEF NeedsRegistration, registry
      <4>6. CASE state[l].life = "Returned" /\ outcome = "denied"
        <5>1. state'[l] = Block(state[l], "NotObserved") /\ UNCHANGED registry
          BY <4>2, <4>6, <1>1, <1>2 DEF HandleTokenSourceError
        <5>2. state'[l].status = "Blocked"
          BY <5>1, <4>6, <1>1, BlockMeans
        <5> QED BY <5>1, <5>2, <4>1 DEF NeedsRegistration, registry
      <4> QED BY <1>1, <4>3, <4>4, <4>5, <4>6 DEF ListenerStates, Lifecycles
    <3> QED BY <3>1, <3>2, <3>3
  <2>5. /\ epoch' \in Nat /\ timers' \subseteq 1 .. epoch' /\ RetryOK'
        /\ RetryIsReady' => RetryIsReady
    BY <1>4, SteadyRetry
  <2> QED BY <1>1, <1>2, <1>4, <2>1, <2>2, <2>3, <2>4, <2>5, GiveUpStep
<1>5. CASE ~ UNCHANGED <<state, queue, desired, retry>>
  <2>1. ~ Withdrawn(l)
    BY <1>5 DEF registry
  <2>2. PICK outcome \in {"unavailable", "denied"} : HandleTokenSourceError(l, d, outcome)
    BY <1>5 DEF registry
  <2>3. IsCurrentDesired(l) /\ state[l].status # "Closed"
    BY <2>1 DEF Withdrawn, Closed
  <2>4. CASE state[l].life = "Pending"
    <3> DEFINE r == FailInitial(state[l], "NotObserved")
    <3>1. /\ state' = [state EXCEPT ![l] = r]
          /\ desired' = Without(desired, l) /\ permit' = TRUE
          /\ UNCHANGED <<queue, retry>>
      BY <2>2, <2>4 DEF HandleTokenSourceError, FailInitialListener, RemoveTerminalListener
    <3>2. r \in ListenerStates /\ StateOK(r) /\ r.life = "Terminal" /\ r.status = "Closed"
      BY <1>1, <2>4, FailInitialMeans
    <3>3. state'[l] = r
      BY <3>1, <1>1, <1>2
    <3> HIDE DEF r
    <3>4. CallOK(l)'
      <4>1. calls[l] \notin {"new", "held", "closing", "dropping"}
        BY <1>1, <2>3, <2>4 DEF CallOK
      <4> QED BY <4>1, <3>2, <3>3 DEF CallOK
    <3>5. TruthOK(l)'
      <4>1. calls[l] = "waiting" => sent[l] # "sent"
        BY <1>3, <2>4
      <4> QED BY <4>1, <1>1, <1>2, <2>4, <3>2, <3>3 DEF TruthOK
    <3>6. /\ epoch' \in Nat /\ timers' \subseteq 1 .. epoch' /\ RetryOK'
          /\ RetryIsReady' => RetryIsReady
      BY <3>1, SteadyRetry
    <3> QED BY <1>1, <1>2, <2>1, <3>1, <3>2, <3>4, <3>5, <3>6, GiveUpStep
  <2>5. CASE state[l].life = "Returned" /\ outcome = "unavailable"
    <3> DEFINE r == Publish([state[l] EXCEPT !.progress = "Waiting"], "Suspended",
                            "NotObserved")
    <3>1. /\ state' = [state EXCEPT ![l] = r] /\ ScheduleReconcile
          /\ UNCHANGED <<queue, desired, permit>>
      BY <2>2, <2>5 DEF HandleTokenSourceError, registry
    <3>2. r \in ListenerStates /\ StateOK(r) /\ r.life = "Returned" /\ r.status = "Suspended"
      BY <1>1, <2>5, SuspendMeans
    <3>3. state'[l] = r
      BY <3>1, <1>1, <1>2
    <3> HIDE DEF r
    <3>4. CallOK(l)'
      BY <1>1, <1>2, <2>3, <2>5, <3>1, <3>2, <3>3 DEF CallOK, IsCurrentDesired, Closed
    <3>5. TruthOK(l)'
      BY <1>1, <1>2, <2>5, <3>2, <3>3 DEF TruthOK, CallOK
    <3>6. epoch' \in Nat /\ timers' \subseteq 1 .. epoch' /\ RetryOK' /\ ~ RetryIsReady'
      BY <3>1, ScheduleMeans
    <3>7. ~ NeedsRegistration(l)'
      BY <3>2, <3>3, <3>6 DEF NeedsRegistration
    <3> QED BY <1>1, <1>2, <2>1, <2>3, <3>1, <3>2, <3>4, <3>5, <3>6, <3>7, GiveUpStep
  <2>6. CASE state[l].life = "Returned" /\ outcome = "denied"
    <3> DEFINE r == Block(state[l], "NotObserved")
    <3>1. /\ state' = [state EXCEPT ![l] = r]
          /\ queue' = [queue EXCEPT ![l] = Emptied(@, TRUE)]
          /\ UNCHANGED <<desired, permit, retry>>
      BY <2>2, <2>6 DEF HandleTokenSourceError, registry
    <3>2. r \in ListenerStates /\ StateOK(r) /\ r.life = "Terminal" /\ r.status = "Blocked"
      BY <1>1, <2>6, BlockMeans
    <3>3. state'[l] = r
      BY <3>1, <1>1, <1>2
    <3> HIDE DEF r
    <3>4. CallOK(l)'
      <4>1. IsCurrentDesired(l)' /\ calls[l] \notin {"new", "closing", "dropping"}
        BY <1>1, <2>3, <3>1 DEF CallOK, IsCurrentDesired, Closed
      <4> QED BY <4>1, <3>2, <3>3 DEF CallOK
    <3>5. TruthOK(l)'
      BY <1>1, <1>2, <2>6, <3>2, <3>3 DEF TruthOK, CallOK
    <3>6. /\ epoch' \in Nat /\ timers' \subseteq 1 .. epoch' /\ RetryOK'
          /\ RetryIsReady' => RetryIsReady
      BY <3>1, SteadyRetry
    <3>7. ~ NeedsRegistration(l)'
      BY <3>2, <3>3 DEF NeedsRegistration
    <3>8. queue' = queue \/ \E close \in BOOLEAN :
                               queue' = [queue EXCEPT ![l] = Emptied(@, close)]
      BY <3>1
    <3> QED BY <1>1, <1>2, <2>1, <2>3, <3>1, <3>2, <3>4, <3>5, <3>6, <3>7, <3>8, GiveUpStep
  <2>7. CASE state[l].life = "Terminal"
    BY <1>5, <2>2, <2>7, <1>1, <1>2 DEF HandleTokenSourceError, FailInitialListener,
       FailInitial, registry
  <2> QED BY <1>1, <2>4, <2>5, <2>6, <2>7 DEF ListenerStates, Lifecycles
<1> QED BY <1>4, <1>5

(* The PUBLISH goes out, or the session ends before it does. *)
LEMMA CommitKeeps ==
    ASSUME ListenerInv, NEW d \in Destinations, NEW l \in Listeners, pend[d] = l,
           d \notin committed, ~ Withdrawn(l), state[l].life # "Terminal",
           loop = "select", loop' = (IF Cancelled THEN "cleanup" ELSE "settle"),
           CommitToken(l, d),
           UNCHANGED <<calls, answer, accepts, lane, closer, todo, regs, drains>>
    PROVE  ListenerInv'
<1> DEFINE r == BeginRegistrationCommit(state[l])
<1>1. /\ l # NoListener /\ DestinationOf[l] = d /\ regs[d] = NoListener
      /\ state[l] \in ListenerStates /\ StateOK(state[l])
      /\ CallOK(l) /\ TruthOK(l) /\ IsCurrentDesired(l)
  BY PendedMeans DEF Withdrawn
<1>2. /\ state' = [state EXCEPT ![l] = r] /\ committed' = committed \union {d}
      /\ IF Cancelled THEN held' = held /\ sent' = sent
         ELSE held' = held \union {l} /\ sent' = [sent EXCEPT ![l] = "sent"]
      /\ pend' = pend /\ UNCHANGED <<queue, desired, permit, epoch, timers>>
  BY DEF CommitToken, registry, retry
<1>3. /\ r \in ListenerStates /\ StateOK(r) /\ r.life = state[l].life
      /\ r.progress = "Committed" /\ r.status = "Registering"
  <2> DEFINE q == Publish([state[l] EXCEPT !.progress = "Committed"], "Registering", "none")
  <2>1. r = q /\ "Committed" \in Progress /\ "none" \in Observations \union {"none"}
    BY DEF BeginRegistrationCommit, Progress
  <2>2. /\ q \in ListenerStates /\ StateOK(q) /\ q.life = state[l].life
        /\ q.progress = "Committed" /\ q.status = "Registering"
    BY <1>1, <2>1, WaitAndPublish
  <2> HIDE DEF q, r
  <2> QED BY <2>1, <2>2
<1> HIDE DEF r
<1>4. /\ state \in [Listeners -> ListenerStates]
      /\ sent \in [Listeners -> {"no", "sent", "refused"}]
      /\ regs \in [Destinations -> Listeners \union {NoListener}]
      /\ desired \in [Destinations -> Listeners \union {NoListener}]
      /\ committed \subseteq {e \in Destinations : pend[e] # NoListener}
      /\ held \subseteq Listeners /\ permit \in BOOLEAN
  BY DEF ListenerInv, TypeOK
<1>5. /\ state' \in [Listeners -> ListenerStates] /\ state'[l] = r
      /\ sent' \in [Listeners -> {"no", "sent", "refused"}]
      /\ \A k \in Listeners \ {l} : state'[k] = state[k] /\ sent'[k] = sent[k]
  BY <1>2, <1>3, <1>4
<1>6. TypeOK'
  <2>1. /\ committed' \subseteq {e \in Destinations : pend'[e] # NoListener}
        /\ held' \subseteq Listeners /\ loop' \in Loops
    BY <1>1, <1>2, <1>4 DEF Loops
  <2> QED BY <1>2, <1>5, <2>1 DEF ListenerInv, TypeOK
<1>7. BooksOK'
  <2>1. \A e \in Destinations : regs[e] # NoListener =>
            /\ regs[e] # l /\ regs[e] \in Listeners /\ regs[e] \in held'
            /\ state'[regs[e]].status \in {"Active", "Closed"}
    BY <1>1, <1>2, <1>4, <1>5 DEF ListenerInv, BooksOK
  <2>2. loop' # "cleanup" => \A e \in committed' : pend'[e] \in held'
    BY <1>2, <1>4 DEF ListenerInv, BooksOK
  <2>3. loop' \in {"cleanup", "settle"}
    OBVIOUS
  <2> QED BY <1>2, <2>1, <2>2, <2>3 DEF ListenerInv, BooksOK
<1>8. ASSUME NEW k \in Listeners
      PROVE  (/\ StateOK(state[k]) /\ CallOK(k) /\ HeldOK(k) /\ ActiveOK(k) /\ TruthOK(k)
              /\ QueueOK(k))'
  <2>1. /\ StateOK(state[k]) /\ CallOK(k) /\ HeldOK(k) /\ ActiveOK(k) /\ TruthOK(k)
        /\ QueueOK(k)
    BY DEF ListenerInv
  <2>2. HeldOK(k)'
    BY <2>1, <1>1, <1>2 DEF HeldOK
  <2>3. CASE k = l
    <3>1. state[l].status # "Closed"
      BY DEF Withdrawn, Closed
    <3>2. CallOK(l)'
      BY <3>1, <1>1, <1>2, <1>3, <1>5 DEF CallOK, IsCurrentDesired, Closed, Cancelled
    <3>3. TruthOK(l)'
      BY <1>1, <1>2, <1>3, <1>5 DEF TruthOK
    <3>4. ActiveOK(l)' /\ StateOK(state'[l])
      BY <1>3, <1>5 DEF ActiveOK
    <3>5. QueueOK(l)'
      BY <2>1, <2>3, <3>1, <1>2 DEF QueueOK, Closed
    <3> QED BY <2>2, <2>3, <3>2, <3>3, <3>4, <3>5
  <2>4. CASE k # l
    <3>1. StateOK(state[k])' /\ ActiveOK(k)'
      BY <2>1, <2>4, <1>2, <1>5 DEF ActiveOK, IsCurrentDesired
    <3>2. CallOK(k)'
      BY <2>1, <2>4, <1>2, <1>5 DEF CallOK, Closed, Cancelled, IsCurrentDesired
    <3>3. TruthOK(k)'
      BY <2>1, <2>4, <1>2, <1>5 DEF TruthOK
    <3>4. QueueOK(k)'
      BY <2>1, <2>4, <1>2, <1>5 DEF QueueOK, Closed
    <3> QED BY <2>2, <3>1, <3>2, <3>3, <3>4
  <2> QED BY <2>3, <2>4
<1>9. DueOK'
  <2>1. RetryOK' /\ (Cancelled' <=> Cancelled) /\ (Notifying' <=> Notifying)
    BY <1>2 DEF ListenerInv, DueOK, RetryOK, RetryIsReady, Cancelled, Notifying
  <2>2. ASSUME NEW k \in Listeners, Withdrawn(k)' PROVE Withdrawn(k)
    <3>1. k # l
      BY <2>2, <1>1, <1>2, <1>3, <1>5 DEF Withdrawn, IsCurrentDesired, Closed
    <3> QED BY <2>2, <3>1, <1>2, <1>5 DEF Withdrawn, IsCurrentDesired, Closed
  <2>3. AbandonedCommit' => AbandonedCommit
    <3>1. ASSUME NEW e \in committed', Withdrawn(pend[e])'
          PROVE  e \in committed /\ Withdrawn(pend[e])
      <4>1. pend'[e] = pend[e] /\ pend[e] \in Listeners
        BY <1>2, <1>4 DEF ListenerInv, TypeOK
      <4>2. Withdrawn(pend[e])
        BY <3>1, <4>1, <2>2, <1>2, <1>5 DEF Withdrawn, IsCurrentDesired, Closed
      <4>3. e # d
        BY <4>2
      <4> QED BY <4>2, <4>3, <1>2
    <3> QED BY <3>1 DEF AbandonedCommit
  <2>4. StaleDestinations' # {} => StaleDestinations # {}
    <3>1. \A e \in Destinations : regs[e] # NoListener => regs[e] # l /\ regs[e] \in Listeners
      BY <1>1, <1>4 DEF ListenerInv, BooksOK
    <3> QED BY <3>1, <1>2, <1>5 DEF StaleDestinations, Withdrawn, IsCurrentDesired, Closed
  <2>5. ASSUME NEW k \in Wanted', NeedsRegistration(k)'
        PROVE  k \in Wanted /\ NeedsRegistration(k)
    <3>1. k \in Wanted /\ k \in Listeners
      BY <1>2, <1>4 DEF Wanted
    <3>2. k # l
      BY <2>5, <1>1, <1>2 DEF NeedsRegistration
    <3> QED BY <2>5, <3>1, <3>2, <1>2, <1>5 DEF NeedsRegistration, IsCurrentDesired, RetryIsReady
  <2>6. WorkBeyond({})' => WorkBeyond({})
    BY <2>3, <2>4, <2>5 DEF WorkBeyond
  <2> QED BY <2>1, <2>6, <1>2 DEF ListenerInv, DueOK
<1> QED BY <1>6, <1>7, <1>8, <1>9 DEF ListenerInv

(* on_token, in time or too late, with a token or an error. *)
LEMMA OnTokenKeeps ==
    ASSUME ListenerInv, NEW d \in Destinations, OnToken(d)
    PROVE  ListenerInv'
<1>1. PICK l \in Listeners : pend[d] = l
  BY DEF OnToken, ListenerInv, TypeOK
<1>2. /\ loop = "select" /\ d \notin committed
      /\ loop' = IF Cancelled /\ d \in committed' THEN "cleanup" ELSE "settle"
      /\ UNCHANGED <<calls, answer, accepts, lane, closer, todo, regs, drains>>
  BY DEF OnToken
<1>3. CASE Withdrawn(l)
  <2>1. /\ Unpend(d) /\ permit' = TRUE
        /\ UNCHANGED <<state, queue, sent, desired, retry, committed, held>>
    BY <1>1, <1>3 DEF OnToken
  <2> QED BY <1>1, <1>2, <1>3, <2>1, TokenLostKeeps
<1>4. CASE ~ Withdrawn(l)
  <2>1. PICK outcome \in TokenOutcomes(l) :
            IF outcome = "token" THEN CommitToken(l, d)
            ELSE HandleTokenSourceError(l, d, outcome)
    BY <1>1, <1>4 DEF OnToken
  <2>2. outcome \in {"token", "unavailable", "denied"}
    BY <1>4 DEF TokenOutcomes, Withdrawn, Closed
  <2>3. CASE outcome = "token" /\ state[l].life = "Terminal"
    <3>1. UNCHANGED <<state, committed, held, sent, queue, registry, retry>> /\ Unpend(d)
      BY <2>1, <2>3 DEF CommitToken
    <3> QED BY <1>1, <1>2, <1>4, <2>3, <3>1, TokenLostKeeps
  <2>4. CASE outcome = "token" /\ state[l].life # "Terminal"
    <3>1. CommitToken(l, d) /\ committed' = committed \union {d}
      BY <2>1, <2>4 DEF CommitToken
    <3>2. loop' = IF Cancelled THEN "cleanup" ELSE "settle"
      BY <1>2, <3>1
    <3> QED BY <1>1, <1>2, <1>4, <2>4, <3>1, <3>2, CommitKeeps
  <2>5. CASE outcome \in {"unavailable", "denied"}
    <3>1. HandleTokenSourceError(l, d, outcome)
      BY <2>1, <2>5
    <3>2. UNCHANGED <<committed, held, sent>> /\ Unpend(d)
      BY <3>1 DEF HandleTokenSourceError
    <3> QED BY <1>1, <1>2, <1>4, <2>5, <3>1, <3>2, TokenLostKeeps
  <2> QED BY <2>2, <2>3, <2>4, <2>5
<1> QED BY <1>3, <1>4

(* PUBLISHED. *)
LEMMA OnPublishedKeeps ==
    ASSUME ListenerInv, NEW d \in Destinations, OnPublished(d)
    PROVE  ListenerInv'
<1>1. PICK l \in Listeners : pend[d] = l
  BY DEF OnPublished, ListenerInv, TypeOK
<1>2. /\ loop = "select" /\ d \in committed
      /\ pend' = [pend EXCEPT ![d] = NoListener] /\ committed' = committed \ {d}
      /\ UNCHANGED <<calls, answer, accepts, lane, queue, sent, desired, permit, epoch,
                     timers, closer, todo, drains>>
  BY DEF OnPublished, Unpend, registry, retry
<1>3. /\ l # NoListener /\ DestinationOf[l] = d /\ regs[d] = NoListener
      /\ state[l] \in ListenerStates /\ StateOK(state[l]) /\ state[l].status # "Active"
      /\ CallOK(l) /\ TruthOK(l) /\ l \in held
  BY <1>1, <1>2, PendedMeans
<1>4. /\ state \in [Listeners -> ListenerStates]
      /\ sent \in [Listeners -> {"no", "sent", "refused"}]
      /\ regs \in [Destinations -> Listeners \union {NoListener}]
      /\ desired \in [Destinations -> Listeners \union {NoListener}]
      /\ pend \in [Destinations -> Listeners \union {NoListener}]
      /\ committed \subseteq {e \in Destinations : pend[e] # NoListener}
      /\ held \subseteq Listeners /\ permit \in BOOLEAN
  BY DEF ListenerInv, TypeOK
<1>5. CASE ~ (IsCurrentDesired(l) /\ state[l].life # "Terminal")
  <2>1. /\ held' = held \ {l} /\ state' = state /\ regs' = regs
        /\ loop' \in {"cleanup", "reconcile"}
    BY <1>1, <1>5 DEF OnPublished
  <2>2. state' = [state EXCEPT ![l] = state[l]]
    BY <2>1, <1>4
  <2>3. CallOK(l)'
    BY <1>2, <1>3, <2>1 DEF CallOK, IsCurrentDesired, Closed, Cancelled
  <2>4. TruthOK(l)'
    BY <1>2, <1>3, <1>5, <2>1 DEF TruthOK, CallOK, IsCurrentDesired
  <2>5. /\ epoch' \in Nat /\ timers' \subseteq 1 .. epoch' /\ RetryOK'
        /\ RetryIsReady' => RetryIsReady
    BY <1>2, SteadyRetry DEF retry
  <2> QED BY <1>1, <1>2, <1>3, <1>4, <2>1, <2>2, <2>3, <2>4, <2>5, GiveUpStep
<1>6. CASE IsCurrentDesired(l) /\ state[l].life # "Terminal"
  <2> DEFINE r == Activate(state[l])
  <2>1. /\ state' = [state EXCEPT ![l] = r] /\ regs' = [regs EXCEPT ![d] = l]
        /\ loop' = "settle" /\ held' = held
    BY <1>1, <1>6 DEF OnPublished
  <2>2. r \in ListenerStates /\ StateOK(r) /\ r.life = state[l].life /\ r.status = "Active"
    <3> DEFINE q == Publish([state[l] EXCEPT !.progress = "Waiting"], "Active", "none")
    <3>1. r = q /\ "Waiting" \in Progress /\ "none" \in Observations \union {"none"}
      BY DEF Activate, Progress
    <3>2. q \in ListenerStates /\ StateOK(q) /\ q.life = state[l].life /\ q.status = "Active"
      BY <1>3, <1>6, <3>1, WaitAndPublish
    <3> HIDE DEF q, r
    <3> QED BY <3>1, <3>2
  <2> HIDE DEF r
  <2>3. /\ state' \in [Listeners -> ListenerStates] /\ state'[l] = r
        /\ \A k \in Listeners \ {l} : state'[k] = state[k]
        /\ pend' \in [Destinations -> Listeners \union {NoListener}]
        /\ regs' \in [Destinations -> Listeners \union {NoListener}]
        /\ pend'[d] = NoListener /\ regs'[d] = l
        /\ \A e \in Destinations \ {d} : pend'[e] = pend[e] /\ regs'[e] = regs[e]
    BY <1>2, <1>4, <2>1, <2>2
  <2>4. TypeOK'
    <3>1. committed' \subseteq {e \in Destinations : pend'[e] # NoListener} /\ loop' \in Loops
      BY <1>2, <1>4, <2>1, <2>3 DEF Loops
    <3> QED BY <1>2, <2>1, <2>3, <3>1 DEF ListenerInv, TypeOK
  <2>5. BooksOK'
    <3>1. \A e \in Destinations : regs'[e] # NoListener =>
              /\ DestinationOf[regs'[e]] = e /\ regs'[e] \in held'
              /\ state'[regs'[e]].status \in {"Active", "Closed"}
      <4>1. ASSUME NEW e \in Destinations \ {d}, regs[e] # NoListener
            PROVE  /\ DestinationOf[regs[e]] = e /\ regs[e] \in held /\ regs[e] # l
                   /\ regs[e] \in Listeners /\ state[regs[e]].status \in {"Active", "Closed"}
        BY <4>1, <1>3, <1>4 DEF ListenerInv, BooksOK
      <4> QED BY <4>1, <1>3, <2>1, <2>2, <2>3
    <3>2. \A e \in committed' : pend'[e] \in held'
      BY <1>2, <1>4, <2>1, <2>3 DEF ListenerInv, BooksOK
    <3>3. \A e \in Destinations :
             pend'[e] # NoListener => DestinationOf[pend'[e]] = e /\ regs'[e] = NoListener
      BY <2>3 DEF ListenerInv, BooksOK
    <3> QED BY <1>2, <2>1, <3>1, <3>2, <3>3 DEF ListenerInv, BooksOK
  <2>6. ASSUME NEW k \in Listeners
        PROVE  (/\ StateOK(state[k]) /\ CallOK(k) /\ HeldOK(k) /\ ActiveOK(k) /\ TruthOK(k)
                /\ QueueOK(k))'
    <3>1. /\ StateOK(state[k]) /\ CallOK(k) /\ HeldOK(k) /\ ActiveOK(k) /\ TruthOK(k)
          /\ QueueOK(k) /\ DestinationOf[k] \in Destinations /\ k # NoListener
      BY ListenerAssumption DEF ListenerInv
    <3>2. CASE k = l
      <4>0. state[l].status # "Closed" /\ IsCurrentDesired(l)
        BY <1>3, <1>6 DEF StateOK
      <4>1. CallOK(l)'
        BY <4>0, <1>2, <1>3, <2>2, <2>3 DEF CallOK, IsCurrentDesired, Closed, Cancelled
      <4>2. StateOK(state[l])' /\ HeldOK(l)' /\ ActiveOK(l)'
        BY <4>0, <1>2, <1>3, <2>2, <2>3 DEF HeldOK, ActiveOK, IsCurrentDesired
      <4>3. TruthOK(l)'
        BY <1>2, <1>3, <1>6, <2>2, <2>3 DEF TruthOK
      <4>4. QueueOK(l)'
        BY <3>1, <3>2, <4>0, <1>2, <1>3, <2>1, <2>3 DEF QueueOK, Closed
      <4> QED BY <3>2, <4>1, <4>2, <4>3, <4>4
    <3>3. CASE k # l
      <4>1. StateOK(state[k])' /\ state'[k] = state[k]
        BY <3>1, <3>3, <2>3
      <4>2. CallOK(k)'
        BY <3>1, <4>1, <1>2 DEF CallOK, IsCurrentDesired, Closed, Cancelled
      <4>3. regs[DestinationOf[k]] = k => DestinationOf[k] # d /\ regs'[DestinationOf[k]] = k
        BY <3>1, <1>3, <2>3
      <4>4. pend[DestinationOf[k]] = k =>
               /\ DestinationOf[k] # d /\ pend'[DestinationOf[k]] = k
        BY <3>1, <3>3, <1>1, <2>3
      <4>5. ActiveOK(k)' /\ QueueOK(k)'
        BY <3>1, <4>1, <4>3, <1>2, <2>1 DEF ActiveOK, QueueOK, IsCurrentDesired, Closed
      <4>6. HeldOK(k)' /\ TruthOK(k)'
        BY <3>1, <4>1, <4>3, <4>4, <1>2, <2>1 DEF HeldOK, TruthOK
      <4> QED BY <4>1, <4>2, <4>5, <4>6
    <3> QED BY <3>2, <3>3
  <2>7. DueOK'
    <3>1. RetryOK' /\ (Cancelled' <=> Cancelled) /\ (Notifying' <=> Notifying)
      BY <1>2 DEF ListenerInv, DueOK, RetryOK, RetryIsReady, Cancelled, Notifying
    <3>2. ASSUME NEW k \in Listeners, Withdrawn(k)' PROVE Withdrawn(k) /\ k # l
      BY <3>2, <1>2, <1>6, <2>2, <2>3 DEF Withdrawn, IsCurrentDesired, Closed
    <3>3. AbandonedCommit' => AbandonedCommit
      <4>1. ASSUME NEW e \in committed', Withdrawn(pend[e])'
            PROVE  e \in committed /\ Withdrawn(pend[e])
        <5>1. e \in committed /\ pend'[e] = pend[e] /\ pend[e] \in Listeners
          BY <1>2, <1>4, <2>3
        <5>2. Withdrawn(pend[e])
          BY <4>1, <5>1, <3>2 DEF Withdrawn, IsCurrentDesired, Closed
        <5> QED BY <5>1, <5>2
      <4> QED BY <4>1 DEF AbandonedCommit
    <3>4. StaleDestinations' # {} => StaleDestinations # {}
      <4>1. ASSUME NEW e \in StaleDestinations' PROVE e \in StaleDestinations
        <5>1. e \in Destinations /\ regs'[e] \in Listeners /\ Withdrawn(regs[e])'
          BY <2>3 DEF StaleDestinations
        <5>2. Withdrawn(regs'[e]) /\ regs'[e] # l
          BY <5>1, <3>2 DEF Withdrawn, IsCurrentDesired, Closed
        <5>3. regs'[e] = regs[e] /\ regs[e] # NoListener
          BY <5>1, <5>2, <2>3, ListenerAssumption
        <5> QED BY <5>1, <5>2, <5>3 DEF StaleDestinations
      <4> QED BY <4>1
    <3>5. ASSUME NEW k \in Wanted', NeedsRegistration(k)'
          PROVE  k \in Wanted /\ NeedsRegistration(k)
      <4>1. k \in Wanted /\ k \in Listeners /\ DestinationOf[k] \in Destinations
        BY <1>2, <1>4, ListenerAssumption DEF Wanted
      <4>2. DestinationOf[k] # d /\ k # l
        BY <3>5, <1>3, <2>3 DEF NeedsRegistration
      <4> QED BY <3>5, <4>1, <4>2, <1>2, <2>3 DEF NeedsRegistration, IsCurrentDesired,
                 RetryIsReady
    <3>6. WorkBeyond({})' => WorkBeyond({})
      BY <3>3, <3>4, <3>5 DEF WorkBeyond
    <3> QED BY <3>1, <3>6, <1>2, <2>1 DEF ListenerInv, DueOK
  <2> QED BY <2>4, <2>5, <2>6, <2>7 DEF ListenerInv
<1> QED BY <1>5, <1>6

(* PUBLISH_FAILED. *)
LEMMA OnPublishFailedKeeps ==
    ASSUME ListenerInv, NEW d \in Destinations, NEW permanent \in BOOLEAN,
           OnPublishFailed(d, permanent)
    PROVE  ListenerInv'
<1>1. PICK l \in Listeners : pend[d] = l
  BY DEF OnPublishFailed, ListenerInv, TypeOK
<1> DEFINE r == [state[l] EXCEPT !.progress = "Waiting"]
<1>2. /\ loop = "select" /\ d \in committed
      /\ pend' = [pend EXCEPT ![d] = NoListener] /\ committed' = committed \ {d}
      /\ held' = held \ {l} /\ sent' = [sent EXCEPT ![l] = "refused"]
      /\ UNCHANGED <<calls, answer, accepts, lane, closer, todo, regs, drains>>
  BY <1>1 DEF OnPublishFailed, Unpend
<1>3. /\ l # NoListener /\ DestinationOf[l] = d
      /\ state[l] \in ListenerStates /\ StateOK(state[l]) /\ state[l].status # "Active"
      /\ CallOK(l) /\ TruthOK(l)
  BY <1>1, <1>2, PendedMeans
<1>4. /\ state \in [Listeners -> ListenerStates]
      /\ sent \in [Listeners -> {"no", "sent", "refused"}]
      /\ permit \in BOOLEAN
  BY DEF ListenerInv, TypeOK
<1>5. /\ sent' \in [Listeners -> {"no", "sent", "refused"}] /\ sent'[l] = "refused"
      /\ \A k \in Listeners \ {l} : sent'[k] = sent[k]
  BY <1>2, <1>4
<1>6. /\ r \in ListenerStates /\ StateOK(r) /\ r.life = state[l].life
      /\ r.status = state[l].status
  BY <1>3 DEF ListenerStates, StateOK, Progress
<1>7. \/ /\ Withdrawn(l) /\ state' = [state EXCEPT ![l] = r] /\ loop' = "reconcile"
         /\ UNCHANGED <<queue, registry, retry>>
      \/ /\ ~ Withdrawn(l) /\ r.life # "Returned" /\ FailInitialListener(l, "NotObserved")
         /\ loop' = "reconcile" /\ UNCHANGED <<queue, retry>>
      \/ /\ ~ Withdrawn(l) /\ r.life = "Returned"
         /\ state' = [state EXCEPT ![l] =
                         IF permanent THEN Block(r, "NotObserved")
                         ELSE Publish(r, "Suspended", "NotObserved")]
         /\ queue' = [queue EXCEPT ![l] = Emptied(@, permanent)]
         /\ IF permanent THEN UNCHANGED retry ELSE ScheduleReconcile
         /\ loop' = IF Cancelled THEN "cleanup" ELSE "settle"
         /\ UNCHANGED registry
  BY <1>1 DEF OnPublishFailed
<1> HIDE DEF r
<1>8. CASE \/ Withdrawn(l) /\ state' = [state EXCEPT ![l] = r]
           \/ ~ Withdrawn(l) /\ r.life = "Terminal" /\ state' = [state EXCEPT ![l] = state[l]]
  <2>1. PICK q \in {r, state[l]} : state' = [state EXCEPT ![l] = q]
    BY <1>8
  <2>2. /\ q \in ListenerStates /\ StateOK(q) /\ q.life = state[l].life
        /\ q.status = state[l].status /\ state'[l] = q
    BY <1>3, <1>4, <1>6, <2>1
  <2>3. loop' = "reconcile" /\ UNCHANGED <<queue, desired, permit, retry>>
    BY <1>6, <1>7, <1>8 DEF registry, FailInitialListener
  <2>4. CallOK(l)'
    BY <1>2, <1>3, <1>5, <2>2, <2>3 DEF CallOK, IsCurrentDesired, Closed, Cancelled
  <2>5. TruthOK(l)'
    BY <1>2, <1>3, <1>5, <2>2 DEF TruthOK
  <2>6. /\ epoch' \in Nat /\ timers' \subseteq 1 .. epoch' /\ RetryOK'
        /\ RetryIsReady' => RetryIsReady
    BY <2>3, SteadyRetry
  <2>7. state[l].status = "Closed" => q.status = "Closed"
    BY <2>2
  <2> QED BY <1>1, <1>2, <1>3, <1>4, <1>5, <2>1, <2>2, <2>3, <2>4, <2>5, <2>6, <2>7,
             GiveUpStep
<1>9. CASE ~ Withdrawn(l) /\ state[l].life = "Pending"
  <2> DEFINE q == FailInitial(state[l], "NotObserved")
  <2>1. /\ state' = [state EXCEPT ![l] = q] /\ loop' = "reconcile"
        /\ desired' = Without(desired, l) /\ permit' = TRUE /\ UNCHANGED <<queue, retry>>
    BY <1>6, <1>7, <1>9 DEF FailInitialListener, RemoveTerminalListener
  <2>2. q \in ListenerStates /\ StateOK(q) /\ q.life = "Terminal" /\ q.status = "Closed"
    BY <1>3, <1>9, FailInitialMeans
  <2> HIDE DEF q
  <2>3. state'[l] = q
    BY <1>4, <2>1
  <2>4. CallOK(l)'
    <3>1. calls[l] \notin {"new", "held", "closing", "dropping"}
      BY <1>3, <1>9 DEF CallOK, Withdrawn
    <3> QED BY <3>1, <1>2, <2>2, <2>3 DEF CallOK
  <2>5. TruthOK(l)'
    BY <1>2, <1>3, <1>5, <2>2, <2>3 DEF TruthOK
  <2>6. /\ epoch' \in Nat /\ timers' \subseteq 1 .. epoch' /\ RetryOK'
        /\ RetryIsReady' => RetryIsReady
    BY <2>1, SteadyRetry
  <2> QED BY <1>1, <1>2, <1>4, <1>5, <2>1, <2>2, <2>4, <2>5, <2>6, GiveUpStep
<1>10. CASE ~ Withdrawn(l) /\ state[l].life = "Returned"
  <2> DEFINE q == IF permanent THEN Block(r, "NotObserved")
                  ELSE Publish(r, "Suspended", "NotObserved")
  <2>1. /\ state' = [state EXCEPT ![l] = q]
        /\ queue' = [queue EXCEPT ![l] = Emptied(@, permanent)]
        /\ IF permanent THEN UNCHANGED retry ELSE ScheduleReconcile
        /\ loop' \in {"cleanup", "settle"}
        /\ desired' = desired /\ permit' = permit
    BY <1>6, <1>7, <1>10 DEF registry
  <2>2. /\ q \in ListenerStates /\ StateOK(q) /\ q.life # "Pending"
        /\ q.status = IF permanent THEN "Blocked" ELSE "Suspended"
    <3>1. CASE permanent
      BY <3>1, <1>6, <1>10, BlockMeans
    <3>2. CASE ~ permanent
      <4>1. q = Publish(r, "Suspended", "NotObserved")
        BY <3>2
      <4>2. r.status # "Closed" /\ "NotObserved" \in Observations \union {"none"}
            /\ "Suspended" \in Statuses
        BY <1>6, <1>10, OpenMeans DEF Observations, Statuses
      <4> HIDE DEF q
      <4>3. q \in ListenerStates /\ q.life = "Returned" /\ q.status = "Suspended"
        BY <4>1, <4>2, <1>6, <1>10, PublishMeans
      <4> QED BY <4>3, <3>2 DEF StateOK
    <3> QED BY <3>1, <3>2
  <2> HIDE DEF q
  <2>3. state'[l] = q
    BY <1>4, <2>1
  <2>4. CallOK(l)'
    <3>1. /\ IsCurrentDesired(l)'
          /\ calls[l] \notin {"new", "waiting", "terminating", "closing", "dropping"}
      BY <1>3, <1>10, <2>1 DEF CallOK, IsCurrentDesired, Withdrawn, Closed
    <3> QED BY <3>1, <1>2, <2>2, <2>3 DEF CallOK
  <2>5. TruthOK(l)'
    BY <1>2, <1>3, <1>5, <1>10, <2>2, <2>3 DEF TruthOK
  <2>6. /\ epoch' \in Nat /\ timers' \subseteq 1 .. epoch' /\ RetryOK'
        /\ RetryIsReady' => RetryIsReady
        /\ ~ permanent => ~ RetryIsReady'
    BY <2>1, SteadyRetry, ScheduleMeans
  <2>7. ~ NeedsRegistration(l)' /\ IsCurrentDesired(l)
    BY <1>10, <2>2, <2>3, <2>6 DEF NeedsRegistration, Withdrawn
  <2>8. state[l].status = "Closed" => q.status = "Closed"
    BY <1>10 DEF Withdrawn, Closed
  <2>9. queue' = queue \/ \E close \in BOOLEAN :
                             queue' = [queue EXCEPT ![l] = Emptied(@, close)]
    BY <2>1
  <2>10. q.status # "Active"
    BY <2>2
  <2> QED BY <1>1, <1>2, <1>4, <1>5, <2>1, <2>2, <2>4, <2>5, <2>6, <2>7, <2>8, <2>9, <2>10,
             GiveUpStep
<1>11. CASE ~ Withdrawn(l) /\ state[l].life = "Terminal"
  BY <1>6, <1>7, <1>8, <1>11 DEF FailInitialListener, FailInitial
<1> QED BY <1>3, <1>6, <1>7, <1>8, <1>9, <1>10, <1>11 DEF ListenerStates, Lifecycles

(***************************************************************************)
(* The end of a session.                                                   *)
(***************************************************************************)
LEMMA EndOpen ==
    ASSUME NEW r \in ListenerStates, r.status # "Closed",
           NEW error \in Observations \union {"none"}
    PROVE  LET q == End(r, "Closed", error) IN
           /\ q \in ListenerStates /\ StateOK(q)
           /\ q.life = "Terminal" /\ q.status = "Closed" /\ q.error = error
BY EndMeans

(* suspend_or_fail_initial: the Gateway may have seen the PUBLISH of an    *)
(* initial Listener, so its error does not deny it.                        *)
LEMMA SuspendOrFailMeans ==
    ASSUME NEW r \in ListenerStates, StateOK(r), r.life # "Terminal",
           NEW recovery \in Observations, NEW initial \in Observations \ {"NotObserved"}
    PROVE  LET q == SuspendOrFailInitial(r, recovery, initial) IN
           /\ q \in ListenerStates /\ StateOK(q)
           /\ r.life = "Pending" =>
                 q.life = "Terminal" /\ q.status = "Closed" /\ q.error # "NotObserved"
           /\ r.life = "Returned" => q.life = "Returned" /\ q.status = "Suspended"
<1> DEFINE q == SuspendOrFailInitial(r, recovery, initial)
<1>0. r.status # "Closed"
  BY OpenMeans
<1>1. CASE r.life = "Pending"
  <2>1. q = End(r, "Closed", initial)
    BY <1>1 DEF SuspendOrFailInitial
  <2>2. initial \in Observations \union {"none"}
    OBVIOUS
  <2> HIDE DEF q
  <2>3. /\ q \in ListenerStates /\ StateOK(q) /\ q.life = "Terminal" /\ q.status = "Closed"
        /\ q.error = initial
    BY <1>0, <2>1, <2>2, EndOpen
  <2> QED BY <1>1, <2>3 DEF q
<1>2. CASE r.life = "Returned"
  <2>1. q = Publish([r EXCEPT !.progress = "Waiting"], "Suspended", recovery)
    BY <1>2 DEF SuspendOrFailInitial
  <2>2. "Waiting" \in Progress
    BY DEF Progress
  <2> HIDE DEF q
  <2>3. q \in ListenerStates /\ StateOK(q) /\ q.life = "Returned" /\ q.status = "Suspended"
    BY <1>2, <2>1, <2>2, WaitAndPublish
  <2> QED BY <1>2, <2>3 DEF q
<1> QED BY <1>1, <1>2 DEF ListenerStates, Lifecycles

(* A Listener without a committed PUBLISH waits for the next session. *)
LEMMA PrecommitMeans ==
    ASSUME NEW r \in ListenerStates, StateOK(r)
    PROVE  LET q == HandlePrecommitSessionEnd(r) IN
           /\ q \in ListenerStates /\ StateOK(q) /\ q.life = r.life
           /\ r.life = "Pending" => q.status = "Registering"
           /\ r.life = "Returned" => q.status = "Suspended"
           /\ r.life = "Terminal" => q.status = r.status /\ q.error = r.error
<1> DEFINE q == HandlePrecommitSessionEnd(r)
<1>0. /\ "Waiting" \in Progress /\ "none" \in Observations \union {"none"}
      /\ "NotObserved" \in Observations \union {"none"}
  BY DEF Progress, Observations
<1>1. CASE r.life = "Pending"
  <2>1. q = Publish([r EXCEPT !.progress = "Waiting"], "Registering", "none")
    BY <1>1 DEF HandlePrecommitSessionEnd
  <2> HIDE DEF q
  <2>2. q \in ListenerStates /\ StateOK(q) /\ q.life = r.life /\ q.status = "Registering"
    BY <1>0, <1>1, <2>1, WaitAndPublish
  <2> QED BY <1>1, <2>2 DEF q
<1>2. CASE r.life = "Returned"
  <2>1. q = Publish([r EXCEPT !.progress = "Waiting"], "Suspended", "NotObserved")
    BY <1>2 DEF HandlePrecommitSessionEnd
  <2> HIDE DEF q
  <2>2. q \in ListenerStates /\ StateOK(q) /\ q.life = r.life /\ q.status = "Suspended"
    BY <1>0, <1>2, <2>1, WaitAndPublish
  <2> QED BY <1>2, <2>2 DEF q
<1>3. CASE r.life = "Terminal"
  <2>1. q = [r EXCEPT !.progress = "Waiting"]
    BY <1>3 DEF HandlePrecommitSessionEnd
  <2> HIDE DEF q
  <2>2. /\ q \in ListenerStates /\ q.life = r.life /\ q.status = r.status
        /\ q.error = r.error
    BY <1>0, <2>1 DEF ListenerStates
  <2>3. StateOK(q)
    BY <2>2 DEF StateOK
  <2> QED BY <1>3, <2>2, <2>3 DEF q
<1> QED BY <1>1, <1>2, <1>3 DEF ListenerStates, Lifecycles

(* What the end of the session makes of a Listener. *)
LEMMA AfterCleanupMeans ==
    ASSUME ListenerInv, NEW l \in Listeners
    PROVE  LET r == state[l]
               q == AfterCleanup(l)
           IN  /\ q \in ListenerStates /\ StateOK(q) /\ q.status # "Active"
               /\ q.life = r.life \/ (r.life = "Pending" /\ q.life = "Terminal")
               /\ r.status = "Closed" => q.status = "Closed"
               /\ q.status = "Closed" /\ r.status # "Closed" =>
                     r.life = "Pending" /\ l \in Registered \union Pended
               /\ r.life = "Terminal" => q.error = r.error
               /\ r.life = "Pending" /\ q.life = "Terminal" =>
                     q.error # "NotObserved" /\ r.status # "Closed" /\ q.status = "Closed"
               /\ r.life = "Pending" =>
                     (l \in Registered \/ (DestinationOf[l] \in committed /\ l \in Pended)
                        => q.life = "Terminal")
<1> DEFINE r == state[l]
           q == AfterCleanup(l)
<1>0. r \in ListenerStates /\ StateOK(r) /\ ActiveOK(l) /\ l # NoListener
      /\ DestinationOf[l] \in Destinations
  BY ListenerAssumption DEF ListenerInv, TypeOK
<1>1. r.status = "Active" => l \in Registered /\ r.life # "Terminal"
  BY <1>0 DEF ActiveOK, Registered, StateOK
<1>2. CASE Closed(l)
  <2>1. q = r /\ r.status = "Closed" /\ r.life = "Terminal"
    BY <1>0, <1>2 DEF AfterCleanup, Closed, StateOK
  <2> QED BY <2>1, <1>0
<1>3. CASE ~ Closed(l) /\ l \in Registered
  <2>1. q = SuspendOrFailInitial(r, "NotObserved", "Observed") /\ r.status # "Closed"
    BY <1>3 DEF AfterCleanup, Closed
  <2>2. r.life # "Terminal"
    <3>1. PICK d \in Destinations : regs[d] = l
      BY <1>3 DEF Registered
    <3>2. r.status \in {"Active", "Closed"}
      BY <3>1, <1>0 DEF ListenerInv, BooksOK
    <3> QED BY <3>2, <2>1, <1>0 DEF StateOK
  <2>3. "NotObserved" \in Observations /\ "Observed" \in Observations \ {"NotObserved"}
    BY DEF Observations
  <2> HIDE DEF q
  <2>4. /\ q \in ListenerStates /\ StateOK(q)
        /\ r.life = "Pending" =>
              q.life = "Terminal" /\ q.status = "Closed" /\ q.error # "NotObserved"
        /\ r.life = "Returned" => q.life = "Returned" /\ q.status = "Suspended"
    BY <1>0, <2>1, <2>2, <2>3, SuspendOrFailMeans
  <2>5. r.life \in {"Pending", "Returned"}
    BY <1>0, <2>2 DEF ListenerStates, Lifecycles
  <2> HIDE DEF r
  <2>6. /\ q \in ListenerStates /\ StateOK(q) /\ q.status # "Active"
        /\ q.life = r.life \/ (r.life = "Pending" /\ q.life = "Terminal")
        /\ r.status # "Closed" /\ l \in Registered \union Pended /\ r.life # "Terminal"
        /\ q.status = "Closed" => r.life = "Pending"
        /\ r.life = "Pending" /\ q.life = "Terminal" =>
              q.error # "NotObserved" /\ q.status = "Closed"
        /\ r.life = "Pending" => q.life = "Terminal"
    BY <1>3, <2>1, <2>2, <2>4, <2>5
  <2> QED BY <2>6 DEF q, r
<1>4. CASE ~ Closed(l) /\ l \notin Registered /\ l \in Pended /\ DestinationOf[l] \in committed
  <2>1. q = SuspendOrFailInitial(r, "MaybeObserved", "MaybeObserved") /\ r.status # "Closed"
        /\ r.status # "Active"
    BY <1>1, <1>4 DEF AfterCleanup, Closed
  <2>2. "MaybeObserved" \in Observations /\ "MaybeObserved" \in Observations \ {"NotObserved"}
    BY DEF Observations
  <2>3. CASE r.life = "Terminal"
    <3>1. q = r
      BY <2>1, <2>3 DEF SuspendOrFailInitial
    <3> QED BY <3>1, <2>1, <2>3, <1>0
  <2>4. CASE r.life # "Terminal"
    <3> HIDE DEF q
    <3>1. /\ q \in ListenerStates /\ StateOK(q)
          /\ r.life = "Pending" =>
                q.life = "Terminal" /\ q.status = "Closed" /\ q.error # "NotObserved"
          /\ r.life = "Returned" => q.life = "Returned" /\ q.status = "Suspended"
      BY <1>0, <2>1, <2>2, <2>4, SuspendOrFailMeans
    <3>2. r.life \in {"Pending", "Returned"}
      BY <1>0, <2>4 DEF ListenerStates, Lifecycles
    <3> HIDE DEF r
    <3>3. /\ q \in ListenerStates /\ StateOK(q) /\ q.status # "Active"
          /\ q.life = r.life \/ (r.life = "Pending" /\ q.life = "Terminal")
          /\ r.status # "Closed" /\ l \in Registered \union Pended /\ r.life # "Terminal"
          /\ q.status = "Closed" => r.life = "Pending"
          /\ r.life = "Pending" /\ q.life = "Terminal" =>
                q.error # "NotObserved" /\ q.status = "Closed"
          /\ r.life = "Pending" => q.life = "Terminal"
      BY <1>4, <2>1, <2>4, <3>1, <3>2
    <3> QED BY <3>3 DEF q, r
  <2> QED BY <2>3, <2>4
<1>5. CASE /\ ~ Closed(l) /\ l \notin Registered /\ DestinationOf[l] \notin committed
           /\ l \in Pended /\ IsCurrentDesired(l)
  <2>1. q = HandlePrecommitSessionEnd(r) /\ r.status \notin {"Closed", "Active"}
    BY <1>1, <1>5 DEF AfterCleanup, Closed
  <2> HIDE DEF q
  <2>2. /\ q \in ListenerStates /\ StateOK(q) /\ q.life = r.life
        /\ r.life = "Pending" => q.status = "Registering"
        /\ r.life = "Returned" => q.status = "Suspended"
        /\ r.life = "Terminal" => q.status = r.status /\ q.error = r.error
    BY <1>0, <2>1, PrecommitMeans
  <2>3. r.life \in {"Pending", "Returned", "Terminal"}
    BY <1>0 DEF ListenerStates, Lifecycles
  <2> HIDE DEF r
  <2>4. /\ q \in ListenerStates /\ StateOK(q) /\ q.status \notin {"Active", "Closed"}
        /\ q.life = r.life /\ r.status # "Closed"
        /\ r.life = "Terminal" => q.error = r.error
    BY <2>1, <2>2, <2>3
  <2> QED BY <2>4, <1>5 DEF q, r
<1>6. CASE /\ ~ Closed(l) /\ l \notin Registered
           /\ ~ (l \in Pended /\ DestinationOf[l] \in committed)
           /\ ~ (DestinationOf[l] \notin committed /\ l \in Pended /\ IsCurrentDesired(l))
  <2>1. q = r
    BY <1>6 DEF AfterCleanup
  <2> QED BY <2>1, <1>0, <1>1, <1>6
<1> QED BY <1>2, <1>3, <1>4, <1>5, <1>6

(* cleanup_relay_session empties the session's books, leaves nobody ACTIVE *)
(* and notes the queues to drain.                                          *)
LEMMA CleanupKeeps ==
    ASSUME ListenerInv, Cleanup
    PROVE  ListenerInv'
<1> DEFINE touched == Registered \union Pended
           failed  == {l \in touched : ~ Closed(l) /\ AfterCleanup(l).status = "Closed"}
<1>0. /\ UNCHANGED <<calls, answer, accepts, lane, sent, epoch, timers, closer>>
      /\ loop = "cleanup" /\ loop' = "drain"
      /\ state' = [l \in Listeners |-> AfterCleanup(l)]
      /\ queue' = [l \in Listeners |-> [queue[l] EXCEPT
                      !.pipes = [i \in DOMAIN queue[l].pipes |-> "old"]]]
      /\ desired' = [d \in Destinations |->
                        IF desired[d] \in failed THEN NoListener ELSE desired[d]]
      /\ permit' = (permit \/ failed # {})
      /\ drains' = {<<l, AfterCleanup(l).status \in {"Blocked", "Closed"}>> : l \in touched}
      /\ pend' = [d \in Destinations |-> NoListener]
      /\ regs' = [d \in Destinations |-> NoListener]
      /\ committed' = {} /\ held' = {} /\ todo' = {}
  BY DEF Cleanup, retry
<1>1. /\ state \in [Listeners -> ListenerStates]
      /\ desired \in [Destinations -> Listeners \union {NoListener}]
      /\ pend \in [Destinations -> Listeners \union {NoListener}]
      /\ regs \in [Destinations -> Listeners \union {NoListener}]
      /\ queue \in [Listeners -> Queues] /\ permit \in BOOLEAN
  BY DEF ListenerInv, TypeOK
<1>2. touched \subseteq Listeners
  BY <1>1 DEF Registered, Pended
<1>3. ASSUME NEW l \in Listeners
      PROVE  /\ state'[l] \in ListenerStates /\ StateOK(state'[l])
             /\ state'[l].status # "Active"
             /\ \/ state'[l].life = state[l].life
                \/ state[l].life = "Pending" /\ state'[l].life = "Terminal"
             /\ state[l].status = "Closed" => state'[l].status = "Closed"
             /\ state'[l].status = "Closed" /\ state[l].status # "Closed" =>
                   state[l].life = "Pending" /\ l \in failed
             /\ l \in failed => state[l].life = "Pending" /\ state'[l].status = "Closed"
             /\ state[l].life = "Terminal" => state'[l].error = state[l].error
             /\ state[l].life = "Pending" /\ state'[l].life = "Terminal" =>
                   state'[l].error # "NotObserved"
             /\ /\ state[l].life = "Pending"
                /\ l \in Registered \/ (DestinationOf[l] \in committed /\ l \in Pended)
                => state'[l].life = "Terminal"
  <2>1. state'[l] = AfterCleanup(l)
    BY <1>0
  <2>2. l \in failed <=> /\ l \in touched /\ state[l].status # "Closed"
                         /\ AfterCleanup(l).status = "Closed"
    BY DEF Closed
  <2> HIDE DEF failed
  <2> QED BY <2>1, <2>2, AfterCleanupMeans
<1>4. ASSUME NEW l \in Listeners
      PROVE  /\ queue'[l] \in Queues
             /\ queue[l].pipes = << >> => queue'[l].pipes = << >>
  <2> DEFINE pipes == [i \in DOMAIN queue[l].pipes |-> "old"]
  <2>1. queue[l] \in Queues
    BY <1>1
  <2>2. queue[l].pipes \in Seq(Marks) /\ Len(queue[l].pipes) <= QueueCapacity
        /\ queue[l].open \in BOOLEAN
    BY <2>1, QueueMeans
  <2>3. pipes \in Seq(Marks) /\ Len(pipes) = Len(queue[l].pipes)
    <3>1. "old" \in Marks
      BY DEF Marks
    <3>2. Len(queue[l].pipes) \in Nat /\ DOMAIN queue[l].pipes = 1 .. Len(queue[l].pipes)
      BY <2>2, LenProperties
    <3>3. pipes \in [1 .. Len(queue[l].pipes) -> Marks]
      BY <3>1, <3>2
    <3> QED BY <3>2, <3>3
  <2>4. queue'[l] = [pipes |-> pipes, open |-> queue[l].open]
    <3>1. queue'[l] = [queue[l] EXCEPT !.pipes = pipes]
      BY <1>0
    <3> QED BY <3>1, <2>1, OtherPipes
  <2>5. queue[l].pipes = << >> => pipes = << >>
    <3>1. queue[l].pipes = << >> => Len(pipes) = 0
      BY <2>3
    <3> QED BY <2>3, <3>1, EmptySeq
  <2> HIDE DEF pipes
  <2>6. Len(pipes) <= QueueCapacity
    BY <2>2, <2>3
  <2> QED BY <2>2, <2>3, <2>4, <2>5, <2>6, QueueMeans
<1>5. ASSUME NEW l \in touched PROVE \E b \in BOOLEAN : <<l, b>> \in drains'
  <2>1. (AfterCleanup(l).status \in {"Blocked", "Closed"}) \in BOOLEAN
    OBVIOUS
  <2> QED BY <2>1, <1>0
<1>6. TypeOK'
  <2>1. state' \in [Listeners -> ListenerStates]
    <3>1. state' = [l \in Listeners |-> state'[l]]
      BY <1>0
    <3> QED BY <3>1, <1>3
  <2>2. queue' \in [Listeners -> Queues]
    <3>1. queue' = [l \in Listeners |-> queue'[l]]
      BY <1>0
    <3> QED BY <3>1, <1>4
  <2>3. drains' \subseteq Listeners \X BOOLEAN
    <3>1. ASSUME NEW l \in touched
          PROVE  <<l, AfterCleanup(l).status \in {"Blocked", "Closed"}>> \in Listeners \X BOOLEAN
      <4>1. (AfterCleanup(l).status \in {"Blocked", "Closed"}) \in BOOLEAN /\ l \in Listeners
        BY <1>2
      <4> QED BY <4>1
    <3> HIDE DEF touched
    <3> QED BY <1>0, <3>1
  <2>4. /\ desired' \in [Destinations -> Listeners \union {NoListener}]
        /\ pend' \in [Destinations -> Listeners \union {NoListener}]
        /\ regs' \in [Destinations -> Listeners \union {NoListener}]
        /\ permit' \in BOOLEAN /\ loop' \in Loops
        /\ committed' \subseteq {d \in Destinations : pend'[d] # NoListener}
        /\ held' \subseteq Listeners /\ todo' \subseteq Listeners
    BY <1>0, <1>1 DEF Loops
  <2> QED BY <1>0, <2>1, <2>2, <2>3, <2>4 DEF ListenerInv, TypeOK
<1> HIDE DEF failed
<1>7. BooksOK'
  <2>1. \A d \in Destinations :
            /\ desired'[d] # NoListener => desired'[d] = desired[d]
            /\ pend'[d] = NoListener /\ regs'[d] = NoListener
    BY <1>0
  <2> QED BY <1>0, <2>1 DEF ListenerInv, BooksOK
<1>8. ASSUME NEW k \in Listeners
      PROVE  (/\ StateOK(state[k]) /\ CallOK(k) /\ HeldOK(k) /\ ActiveOK(k) /\ TruthOK(k)
              /\ QueueOK(k))'
  <2> DEFINE d == DestinationOf[k]
  <2>1. /\ StateOK(state[k]) /\ CallOK(k) /\ HeldOK(k) /\ ActiveOK(k) /\ TruthOK(k)
        /\ QueueOK(k) /\ d \in Destinations /\ k # NoListener
    BY ListenerAssumption DEF ListenerInv
  <2>2. /\ IsCurrentDesired(k)' => IsCurrentDesired(k)
        /\ IsCurrentDesired(k) /\ k \notin failed => IsCurrentDesired(k)'
    BY <2>1, <1>0 DEF IsCurrentDesired
  <2>3. StateOK(state[k])' /\ ActiveOK(k)' /\ HeldOK(k)'
    BY <1>0, <1>3 DEF ActiveOK, HeldOK
  <2>4. CallOK(k)'
    <3>1. k \in failed => state[k].life = "Pending" /\ state'[k].life = "Terminal"
      BY <1>3 DEF StateOK
    <3> QED BY <2>1, <2>2, <3>1, <1>0, <1>3 DEF CallOK, Closed, Cancelled
  <2>5. TruthOK(k)'
    <3>1. ASSUME calls[k] = "waiting", sent[k] = "sent", state'[k].life = "Pending"
          PROVE  FALSE
      <4>1. state[k].life = "Pending"
        BY <3>1, <1>3
      <4>2. k \in Registered \/ (d \in committed /\ k \in Pended)
        BY <3>1, <4>1, <2>1 DEF TruthOK, ActiveOK, Registered, Pended
      <4> QED BY <3>1, <4>1, <4>2, <1>3
    <3>2. ASSUME calls[k] = "waiting", sent[k] = "sent", state'[k].life = "Terminal"
          PROVE  state'[k].error # "NotObserved"
      <4>1. CASE state[k].life = "Terminal"
        BY <3>2, <4>1, <2>1, <1>3 DEF TruthOK
      <4>2. CASE state[k].life # "Terminal"
        BY <3>2, <4>2, <1>3
      <4> QED BY <4>1, <4>2
    <3>3. answer[k] = "NotObserved" => state'[k].life = "Terminal" /\ sent[k] # "sent"
      BY <2>1, <1>3 DEF TruthOK
    <3> QED BY <3>1, <3>2, <3>3, <1>0 DEF TruthOK
  <2>6. QueueOK(k)'
    <3>1. ~ Closed(k)' => ~ Closed(k)
      BY <1>3 DEF Closed
    <3>2. queue'[k].pipes # << >> /\ ~ Closed(k) => k \in touched
      BY <2>1, <1>0, <1>4 DEF QueueOK, Registered
    <3> QED BY <3>1, <3>2, <1>0, <1>5 DEF QueueOK
  <2> QED BY <2>3, <2>4, <2>5, <2>6
<1>9. DueOK'
  BY <1>0 DEF ListenerInv, DueOK, RetryOK, RetryIsReady
<1> QED BY <1>6, <1>7, <1>8, <1>9 DEF ListenerInv

-----------------------------------------------------------------------------
(***************************************************************************)
(* Every step of the Listeners and of their session keeps the invariant.   *)
(***************************************************************************)
LEMMA ListenerNextKeeps ==
    ASSUME ListenerInv, Next
    PROVE  ListenerInv'
<1>1. ASSUME NEW l \in Listeners,
             \/ ListenSteps(l) \/ HandleSteps(l) \/ AcceptSteps(l) \/ Application(l)
             \/ DeadlinePasses(l)
      PROVE  ListenerInv'
  BY <1>1, ListenReturnsKeeps, ListenLeavesKeeps, RemoveListenKeeps, DetachKeeps,
     DrainOwnKeeps, AcceptKeeps, ListenKeeps, EndHandleKeeps, DeadlinePassesKeeps
     DEF ListenSteps, HandleSteps, Application
<1>2. CASE RelayCloseAll \/ Shutdown
  <2>1. Cancelled /\ closer' \in {"cancelled", "closed"}
    BY <1>2 DEF RelayCloseAll, Shutdown, Cancelled
  <2>2. /\ CloseAll /\ (loop' = loop \/ (loop = "connect" /\ loop' = "closed"))
        /\ UNCHANGED <<calls, answer, accepts, lane, queue, sent, retry, todo, pend,
                       committed, regs, held, drains>>
    BY <1>2 DEF RelayCloseAll, Shutdown, session
  <2> QED BY <2>1, <2>2, CloseAllKeeps
<1>3. CASE Gateway
  BY <1>3, OnPublishedKeeps, OnPublishFailedKeeps DEF Gateway
<1>4. CASE SessionTask
  BY <1>2, <1>4, ReconcileSnapshotKeeps, RegisterKeeps, SettleKeeps, LoopStepsKeep,
     OnTokenKeeps, CleanupKeeps, DrainKeeps DEF SessionTask
<1>5. CASE Faults
  BY <1>5, LoopStepsKeep, OnOfferKeeps, QueuedPipeEndsKeeps DEF Faults
<1> QED BY <1>1, <1>2, <1>3, <1>4, <1>5, RetryTimerKeeps, RelayCloseKeeps
       DEF Next, OutsideNext, SessionNext

(* The invariant is about the Listeners' variables only. *)
LEMMA ListenerStuttering ==
    ASSUME ListenerInv, UNCHANGED vars
    PROVE  ListenerInv'
<1>1. UNCHANGED <<state, regs, loop, drains, queue>>
  BY DEF vars, application, session
<1>2. \A l \in Listeners : QueueOK(l)'
  BY <1>1, UntouchedQueues
<1>3. Quiet
  BY DEF Quiet, vars, application, session, ListenerInv, TypeOK
<1> QED BY <1>2, <1>3, QuietStep

-----------------------------------------------------------------------------
(***************************************************************************)
(* The dial() calls.  A call that has not queued its DIAL is unknown to    *)
(* the session and to the Gateway.                                         *)
(***************************************************************************)
(* What is known of a call that has not queued its DIAL. *)
LEMMA EarlyMeans ==
    ASSUME DialInv, NEW d \in Dials, dials[d].stage \notin {"waiting", "done"}
    PROVE  /\ ~ Queued(d) /\ ~ Wired(d) /\ gateway[d] = "none"
           /\ d \notin relay.pending \union relay.pipes
           /\ dials[d].response = "none" /\ dials[d].outcome = "none"
           /\ d \notin relay.abandoned
<1>1. KnownOK(d) /\ CallerOK(d)
  BY DEF DialInv
<1>2. ~ Wired(d) /\ gateway[d] = "none" /\ dials[d].response = "none"
      /\ dials[d].outcome = "none"
  BY <1>1 DEF CallerOK
<1>3. ~ Queued(d) /\ d \notin relay.pending \union relay.pipes
  BY <1>1 DEF KnownOK
<1>4. d \notin relay.abandoned
  BY <1>1, <1>2 DEF KnownOK
<1> QED BY <1>2, <1>3, <1>4

(* The sequences, element by element. *)
LEMMA SequencesMean ==
    ASSUME DialTypes
    PROVE  /\ \A i \in DOMAIN wire : wire[i] \in [dial : Dials, session : Nat, id : Nat]
           /\ \A i \in DOMAIN inbox : inbox[i] \in Frames
           /\ relay.commands \in Seq(Dials)
           /\ \A i \in DOMAIN relay.commands : relay.commands[i] \in Dials
<1>1. /\ wire \in Seq([dial : Dials, session : Nat, id : Nat]) /\ inbox \in Seq(Frames)
      /\ relay.commands \in Seq(Dials)
  BY DEF DialTypes, RelayStates
<1>2. ASSUME NEW S, NEW s \in Seq(S) PROVE \A i \in DOMAIN s : s[i] \in S
  BY ElementOfSeq, LenProperties
<1>3. \A i \in DOMAIN wire : wire[i] \in [dial : Dials, session : Nat, id : Nat]
  BY <1>1, <1>2
<1>4. \A i \in DOMAIN inbox : inbox[i] \in Frames
  BY <1>1, <1>2
<1>5. \A i \in DOMAIN relay.commands : relay.commands[i] \in Dials
  BY <1>1, <1>2
<1> QED BY <1>1, <1>3, <1>4, <1>5

(* Such a call moves on, and does not start to queue its DIAL. *)
LEMMA EarlyStep ==
    ASSUME DialInv, NEW d \in Dials, NEW r \in DialStates,
           dials[d].stage \notin {"waiting", "done"},
           dials' = [dials EXCEPT ![d] = r],
           UNCHANGED <<relay, gateway, inbox, wire, loop>>,
           r.response = "none", r.session <= relay.serial,
           r.outcome \in {"none", "NotObserved", "dropped"},
           r.stage \notin {"waiting", "done"} => r.outcome = "none",
           r.stage \in {"send", "push"} /\ r.session = relay.serial =>
              Sends(d) /\ r.id = dials[d].id
    PROVE  DialInv'
<1>1. /\ ~ Queued(d) /\ ~ Wired(d) /\ gateway[d] = "none"
      /\ d \notin relay.pending \union relay.pipes /\ d \notin relay.abandoned
  BY EarlyMeans
<1>2. /\ dials \in [Dials -> DialStates] /\ relay \in RelayStates
  BY DEF DialInv, DialTypes
<1>3. /\ dials' \in [Dials -> DialStates] /\ dials'[d] = r
      /\ \A e \in Dials \ {d} : dials'[e] = dials[e]
  BY <1>2
<1>4. DialTypes'
  BY <1>3 DEF DialInv, DialTypes
<1>5. \A e \in Dials : (Queued(e)' <=> Queued(e)) /\ (Wired(e)' <=> Wired(e))
  BY DEF Queued, Wired
<1>6. ASSUME NEW e \in Dials PROVE KnownOK(e)' /\ CallerOK(e)'
  <2>1. KnownOK(e) /\ CallerOK(e)
    BY DEF DialInv
  <2>2. CASE e = d
    <3>1. KnownOK(d)'
      BY <1>1, <1>5 DEF KnownOK
    <3>2. CallerOK(d)'
      BY <1>1, <1>3, <1>5 DEF CallerOK
    <3> QED BY <2>2, <3>1, <3>2
  <2>3. CASE e # d
    BY <2>1, <2>3, <1>3, <1>5 DEF KnownOK, CallerOK, Owned, Noted
  <2> QED BY <2>2, <2>3
<1>7. GatewayOK'
  BY DEF DialInv, GatewayOK
<1>8. \A e \in Dials : Sends(e)' => Sends(e) /\ dials'[e].id = dials[e].id
  BY <1>3 DEF Sends
<1>9. \A e \in Dials : Queued(e) => e # d /\ dials'[e] = dials[e]
  BY <1>1, <1>3
<1>10. WireOK'
  <2>1. \A i \in DOMAIN wire :
           wire[i].dial \in Dials /\ dials'[wire[i].dial] = dials[wire[i].dial]
    <3>1. \A i \in DOMAIN wire : wire[i] \in [dial : Dials, session : Nat, id : Nat]
      BY SequencesMean DEF DialInv
    <3>2. \A i \in DOMAIN wire : wire[i].dial # d
      BY <1>1 DEF Wired
    <3> QED BY <3>1, <3>2, <1>3
  <2> QED BY <2>1, <1>5, <1>8, <1>9 DEF DialInv, WireOK
<1>11. CommandsOK'
  <2>1. \A i \in DOMAIN relay.commands :
           relay.commands[i] \in Dials /\ dials'[relay.commands[i]] = dials[relay.commands[i]]
    <3>1. \A i \in DOMAIN relay.commands : relay.commands[i] \in Dials
      BY SequencesMean DEF DialInv
    <3>2. \A i \in DOMAIN relay.commands : relay.commands[i] \in Dials /\ relay.commands[i] # d
      BY <3>1, <1>1 DEF Queued
    <3> QED BY <3>2, <1>3
  <2> QED BY <2>1, <1>8 DEF DialInv, CommandsOK
<1>12. LockOK'
  BY <1>8 DEF DialInv, LockOK
<1> QED BY <1>4, <1>6, <1>7, <1>10, <1>11, <1>12 DEF DialInv

(* Such a call goes to another stage. *)
LEMMA MoveStep ==
    ASSUME DialInv, NEW d \in Dials, NEW stage \in Stages \ {"done"},
           dials[d].stage \notin {"waiting", "done"}, Moves(d, stage),
           stage \in {"send", "push"} => dials[d].stage \in {"send", "push"},
           UNCHANGED <<relay, gateway, inbox, wire, loop>>
    PROVE  DialInv'
<1> DEFINE r == [dials[d] EXCEPT !.stage = stage]
<1>1. dials \in [Dials -> DialStates] /\ CallerOK(d)
  BY DEF DialInv, DialTypes
<1>2. dials[d].response = "none" /\ dials[d].outcome = "none"
  BY EarlyMeans
<1>3. /\ r \in DialStates /\ r.stage = stage /\ r.session = dials[d].session
      /\ r.id = dials[d].id /\ r.response = dials[d].response /\ r.outcome = dials[d].outcome
  BY <1>1 DEF DialStates
<1>4. dials' = [dials EXCEPT ![d] = r]
  BY DEF Moves
<1>5. dials[d].session <= relay.serial
  BY <1>1 DEF CallerOK
<1> HIDE DEF r
<1>6. r.stage \in {"send", "push"} /\ r.session = relay.serial => Sends(d)
  BY <1>3 DEF Sends
<1> QED BY <1>2, <1>3, <1>4, <1>5, <1>6, EarlyStep

(* Such a call returns, without having been observed. *)
LEMMA AnswerStep ==
    ASSUME DialInv, NEW d \in Dials, NEW outcome \in {"NotObserved", "dropped"},
           dials[d].stage \notin {"waiting", "done"}, Answers(d, outcome),
           UNCHANGED <<relay, gateway, inbox, wire, loop>>
    PROVE  DialInv'
<1> DEFINE r == [dials[d] EXCEPT !.stage = "done", !.outcome = outcome]
<1>1. dials \in [Dials -> DialStates] /\ CallerOK(d)
  BY DEF DialInv, DialTypes
<1>2. dials[d].response = "none"
  BY EarlyMeans
<1>3. /\ r \in DialStates /\ r.stage = "done" /\ r.session = dials[d].session
      /\ r.response = dials[d].response /\ r.outcome = outcome
  BY <1>1 DEF DialStates, Stages, Responses
<1>4. dials' = [dials EXCEPT ![d] = r]
  BY DEF Answers
<1>5. dials[d].session <= relay.serial
  BY <1>1 DEF CallerOK
<1> HIDE DEF r
<1> QED BY <1>2, <1>3, <1>4, <1>5, EarlyStep

(* try_reserve_outgoing succeeds or fails. *)
LEMMA ReserveStep ==
    ASSUME DialInv, NEW d \in Dials, NEW serial \in Nat, serial <= relay.serial,
           dials[d].stage \notin {"waiting", "done"}, ReserveOutgoing(d, serial),
           UNCHANGED <<relay, gateway, inbox, wire, loop>>
    PROVE  DialInv'
<1> DEFINE r == [dials[d] EXCEPT !.stage = "lock", !.session = serial, !.token = TRUE]
<1>1. dials \in [Dials -> DialStates]
  BY DEF DialInv, DialTypes
<1>2. dials[d].response = "none" /\ dials[d].outcome = "none"
  BY EarlyMeans
<1>3. /\ r \in DialStates /\ r.stage = "lock" /\ r.session = serial
      /\ r.response = dials[d].response /\ r.outcome = dials[d].outcome
  BY <1>1 DEF DialStates, Stages
<1>4. CASE Answers(d, "NotObserved")
  BY <1>4, AnswerStep
<1>5. CASE dials' = [dials EXCEPT ![d] = r]
  <2> HIDE DEF r
  <2>1. dials' = [dials EXCEPT ![d] = r]
    BY <1>5
  <2>2. r.session <= relay.serial
    BY <1>3
  <2>3. /\ r.response = "none" /\ r.outcome = "none"
        /\ r.stage \notin {"waiting", "done", "send", "push"}
    BY <1>2, <1>3
  <2> QED BY <1>3, <2>1, <2>2, <2>3, EarlyStep
<1> QED BY <1>4, <1>5 DEF ReserveOutgoing

(* A call takes the session from the watch. *)
LEMMA DialLooksKeeps ==
    ASSUME DialInv, NEW d \in Dials, DialLooks(d), UNCHANGED loop
    PROVE  DialInv'
<1>1. dials \in [Dials -> DialStates] /\ relay \in RelayStates
  BY DEF DialInv, DialTypes
<1>2. /\ CurrentSession = relay.serial /\ relay.serial \in Nat
      /\ dials[d].stage = "looking" /\ UNCHANGED <<relay, gateway, inbox, wire, loop>>
  BY <1>1 DEF DialLooks, CurrentSession, At, OnlyDial, RelayStates
<1>3. CASE dials[d].token
  <2>1. ReserveOutgoing(d, relay.serial)
    BY <1>2, <1>3 DEF DialLooks
  <2> QED BY <1>2, <2>1, ReserveStep
<1>4. CASE ~ dials[d].token
  <2> DEFINE r == [dials[d] EXCEPT !.stage = "token", !.session = relay.serial]
  <2>1. dials' = [dials EXCEPT ![d] = r]
    BY <1>2, <1>4 DEF DialLooks
  <2>2. dials[d].response = "none" /\ dials[d].outcome = "none"
    BY <1>2, EarlyMeans
  <2>3. /\ r \in DialStates /\ r.stage = "token" /\ r.session = relay.serial
        /\ r.response = dials[d].response /\ r.outcome = dials[d].outcome
    BY <1>1, <1>2 DEF DialStates, Stages
  <2> HIDE DEF r
  <2>4. r.session <= relay.serial
    BY <1>2, <2>3
  <2>5. dials[d].stage \notin {"waiting", "done"}
    BY <1>2
  <2>6. UNCHANGED <<relay, gateway, inbox, wire, loop>>
    BY <1>2
  <2>7. /\ r.response = "none" /\ r.outcome = "none"
        /\ r.stage \notin {"waiting", "done", "send", "push"}
    BY <2>2, <2>3
  <2> QED BY <2>1, <2>3, <2>4, <2>5, <2>6, <2>7, EarlyStep
<1> QED BY <1>3, <1>4

(* The other actions of a call before its DIAL is queued. *)
LEMMA EarlyActionsKeep ==
    ASSUME DialInv, NEW d \in Dials, UNCHANGED loop,
           \/ Dial(d) \/ DialToken(d) \/ DialSends(d) \/ DialRetries(d) \/ DialClosed(d)
    PROVE  DialInv'
<1>0. /\ OnlyDial => UNCHANGED <<gateway, inbox, wire>>
      /\ dials \in [Dials -> DialStates] /\ CallerOK(d)
  BY DEF OnlyDial, DialInv, DialTypes
<1>1. CASE Dial(d)
  BY <1>0, <1>1, MoveStep DEF Dial, At, Stages
<1>2. CASE DialToken(d)
  <2>1. dials[d].session \in Nat /\ dials[d].session <= relay.serial
    BY <1>0 DEF DialStates, CallerOK
  <2> QED BY <1>0, <1>2, <2>1, ReserveStep DEF DialToken, At
<1>3. CASE DialSends(d)
  BY <1>0, <1>3, MoveStep DEF DialSends, At, Stages
<1>4. CASE DialRetries(d)
  BY <1>0, <1>4, MoveStep DEF DialRetries, At, Stages
<1>5. CASE DialClosed(d)
  BY <1>0, <1>5, AnswerStep DEF DialClosed
<1> QED BY <1>1, <1>2, <1>3, <1>4, <1>5

(* One more id is given to the call that takes the session's free lock. *)
LEMMA DialLocksKeeps ==
    ASSUME DialInv, NEW d \in Dials, DialLocks(d), UNCHANGED loop
    PROVE  DialInv'
<1> DEFINE r == [dials[d] EXCEPT !.stage = "send", !.id = relay.next]
           s == [relay EXCEPT !.next = @ + 1]
<1>1. /\ dials \in [Dials -> DialStates] /\ relay \in RelayStates /\ CallerOK(d)
      /\ relay.next \in Nat
  BY DEF DialInv, DialTypes, RelayStates
<1>2. /\ dials[d].stage = "lock" /\ LockIsFree(d) /\ dials' = [dials EXCEPT ![d] = r]
      /\ relay' = IF dials[d].session = relay.serial THEN s ELSE relay
      /\ UNCHANGED <<gateway, inbox, wire>>
  BY DEF DialLocks, At, OnlyDial
<1>3. /\ ~ Queued(d) /\ ~ Wired(d) /\ gateway[d] = "none"
      /\ d \notin relay.pending \union relay.pipes /\ d \notin relay.abandoned
      /\ dials[d].response = "none" /\ dials[d].outcome = "none"
  BY <1>2, EarlyMeans
<1>4. /\ r \in DialStates /\ r.stage = "send" /\ r.session = dials[d].session
      /\ r.id = relay.next
      /\ r.response = dials[d].response /\ r.outcome = dials[d].outcome
  BY <1>1 DEF DialStates, Stages
<1>5. /\ s \in RelayStates /\ s.next = relay.next + 1 /\ s.serial = relay.serial
      /\ s.commands = relay.commands /\ s.cancellations = relay.cancellations
      /\ s.abandoned = relay.abandoned /\ s.pending = relay.pending
      /\ s.pipes = relay.pipes /\ s.poll = relay.poll
  BY <1>1 DEF RelayStates
<1>6. dials[d].session <= relay.serial
  BY <1>1 DEF CallerOK
<1> HIDE DEF r, s
<1>7. CASE dials[d].session # relay.serial
  <2>1. relay' = relay
    BY <1>2, <1>7
  <2>2. /\ r.session <= relay.serial /\ r.response = "none" /\ r.outcome = "none"
        /\ r.session # relay.serial /\ r.stage \notin {"waiting", "done"}
    BY <1>3, <1>4, <1>6, <1>7
  <2>3. dials[d].stage \notin {"waiting", "done"}
    BY <1>2
  <2> QED BY <1>2, <1>4, <2>1, <2>2, <2>3, EarlyStep
<1>8. CASE dials[d].session = relay.serial
  <2>1. /\ relay' = s /\ dials' \in [Dials -> DialStates] /\ dials'[d] = r
        /\ \A e \in Dials \ {d} : dials'[e] = dials[e]
    BY <1>1, <1>2, <1>4, <1>8
  <2>2. DialTypes'
    BY <1>2, <1>5, <2>1 DEF DialInv, DialTypes
  <2>3. \A e \in Dials : (Queued(e)' <=> Queued(e)) /\ (Wired(e)' <=> Wired(e))
    BY <1>2, <1>5, <2>1 DEF Queued, Wired
  <2>4. ASSUME NEW e \in Dials PROVE KnownOK(e)' /\ CallerOK(e)'
    <3>1. KnownOK(e) /\ CallerOK(e)
      BY DEF DialInv
    <3>2. CASE e = d
      <4>1. KnownOK(d)'
        BY <1>3, <1>5, <2>1, <2>3 DEF KnownOK
      <4>2. CallerOK(d)'
        BY <1>2, <1>3, <1>4, <1>5, <1>6, <2>1, <2>3 DEF CallerOK
      <4> QED BY <3>2, <4>1, <4>2
    <3>3. CASE e # d
      BY <3>1, <3>3, <1>2, <1>5, <2>1, <2>3 DEF KnownOK, CallerOK, Owned, Noted
    <3> QED BY <3>2, <3>3
  <2>5. GatewayOK'
    BY <1>2, <1>5, <2>1 DEF DialInv, GatewayOK
  <2>6. \A e \in Dials : Sends(e)' => e = d
    BY <1>2, <1>5, <1>8, <2>1 DEF Sends, LockIsFree
  <2>7. \A e \in Dials : Queued(e) => e # d /\ dials'[e] = dials[e]
    BY <1>3, <2>1
  <2>8. WireOK'
    <3>1. \A i \in DOMAIN wire : wire[i] \in [dial : Dials, session : Nat, id : Nat]
      BY SequencesMean DEF DialInv
    <3>2. \A i \in DOMAIN wire : wire[i].dial # d
      BY <1>3 DEF Wired
    <3>3. \A i \in DOMAIN wire :
             /\ wire[i].dial \in Dials /\ dials'[wire[i].dial] = dials[wire[i].dial]
             /\ wire[i].id \in Nat
      BY <3>1, <3>2, <2>1
    <3>4. ASSUME NEW i \in DOMAIN wire, wire[i].session = relay.serial
          PROVE  /\ wire[i].id < relay.next + 1
                 /\ \A e \in Dials : (Queued(e) \/ Sends(e))' => wire[i].id < dials'[e].id
      <4>1. wire[i].id < relay.next /\ \A e \in Dials : Queued(e) => wire[i].id < dials[e].id
        BY <3>4 DEF DialInv, WireOK
      <4>2. wire[i].id < dials'[d].id
        BY <4>1, <2>1, <1>4
      <4>3. wire[i].id < relay.next + 1
        BY <4>1, <3>3, <1>1
      <4> QED BY <4>1, <4>2, <4>3, <2>3, <2>6, <2>7
    <3> QED BY <3>3, <3>4, <1>2, <1>5, <2>1 DEF DialInv, WireOK
  <2>9. CommandsOK'
    <3>1. \A i \in DOMAIN relay.commands : relay.commands[i] \in Dials
      BY SequencesMean DEF DialInv
    <3>2. \A i \in DOMAIN relay.commands :
             /\ relay.commands[i] \in Dials
             /\ dials'[relay.commands[i]] = dials[relay.commands[i]]
             /\ dials[relay.commands[i]].id \in Nat
      BY <3>1, <2>7, <1>1 DEF Queued, DialStates
    <3>3. \A i \in DOMAIN relay.commands :
             /\ dials[relay.commands[i]].id < relay.next
             /\ dials[relay.commands[i]].id < relay.next + 1
      BY <3>2, <1>1 DEF DialInv, CommandsOK
    <3> QED BY <3>2, <3>3, <1>4, <1>5, <2>1, <2>6 DEF DialInv, CommandsOK
  <2>10. LockOK'
    BY <2>6, <1>1, <1>4, <1>5, <2>1 DEF LockOK
  <2> QED BY <2>2, <2>4, <2>5, <2>8, <2>9, <2>10 DEF DialInv
<1> QED BY <1>7, <1>8

(* What Append does, element by element. *)
LEMMA AppendMeans ==
    ASSUME NEW S, NEW q \in Seq(S), NEW x \in S
    PROVE  /\ Append(q, x) \in Seq(S) /\ Append(q, x)[Len(q) + 1] = x
           /\ DOMAIN Append(q, x) = DOMAIN q \union {Len(q) + 1}
           /\ \A i \in DOMAIN q :
                 i \in Nat /\ i < Len(q) + 1 /\ Append(q, x)[i] = q[i]
<1>1. /\ Append(q, x) \in Seq(S) /\ Len(Append(q, x)) = Len(q) + 1
      /\ Append(q, x)[Len(q) + 1] = x
      /\ \A i \in 1 .. Len(q) : Append(q, x)[i] = q[i]
  BY AppendProperties
<1>2. /\ Len(q) \in Nat /\ DOMAIN q = 1 .. Len(q)
      /\ DOMAIN Append(q, x) = 1 .. Len(Append(q, x))
  BY <1>1, LenProperties
<1> QED BY <1>1, <1>2

(* The call that has a permit queues its DIAL behind the others. *)
LEMMA DialPushesKeeps ==
    ASSUME DialInv, NEW d \in Dials, DialPushes(d), UNCHANGED loop
    PROVE  DialInv'
<1> DEFINE r == [dials[d] EXCEPT !.stage = "waiting",
                                !.crossed = (relay.poll # "commands")]
           q == relay.commands
           s == [relay EXCEPT !.commands = Append(@, d)]
<1>1. /\ dials \in [Dials -> DialStates] /\ relay \in RelayStates /\ CallerOK(d)
      /\ q \in Seq(Dials)
  BY DEF DialInv, DialTypes, RelayStates
<1>2. /\ dials[d].stage = "push" /\ dials' = [dials EXCEPT ![d] = r]
      /\ relay' = IF TakesCommands(d) THEN s ELSE relay
      /\ UNCHANGED <<gateway, inbox, wire>>
  BY DEF DialPushes, At, OnlyDial
<1>3. /\ ~ Queued(d) /\ ~ Wired(d) /\ gateway[d] = "none"
      /\ d \notin relay.pending \union relay.pipes /\ d \notin relay.abandoned
      /\ dials[d].response = "none" /\ dials[d].outcome = "none"
  BY <1>2, EarlyMeans
<1>4. /\ r \in DialStates /\ r.stage = "waiting" /\ r.session = dials[d].session
      /\ r.id = dials[d].id /\ (relay.poll # "commands" => r.crossed)
      /\ r.response = dials[d].response /\ r.outcome = dials[d].outcome
  BY <1>1 DEF DialStates, Stages
<1>5. /\ s \in RelayStates /\ s.next = relay.next /\ s.serial = relay.serial
      /\ s.commands = Append(q, d) /\ s.cancellations = relay.cancellations
      /\ s.abandoned = relay.abandoned /\ s.pending = relay.pending
      /\ s.pipes = relay.pipes /\ s.poll = relay.poll
  BY <1>1, AppendMeans DEF RelayStates
<1>6. dials[d].session <= relay.serial
  BY <1>1 DEF CallerOK
<1>7. /\ Append(q, d)[Len(q) + 1] = d
      /\ DOMAIN Append(q, d) = DOMAIN q \union {Len(q) + 1}
      /\ \A i \in DOMAIN q : i \in Nat /\ i < Len(q) + 1 /\ Append(q, d)[i] = q[i]
      /\ Len(q) \in Nat
  BY <1>1, AppendMeans, LenProperties
<1> HIDE DEF r, s
<1>8. CASE ~ TakesCommands(d)
  <2>1. relay' = relay /\ dials[d].stage \notin {"waiting", "done"}
    BY <1>2, <1>8
  <2>2. /\ r.response = "none" /\ r.outcome = "none" /\ r.session <= relay.serial
        /\ r.stage = "waiting"
    BY <1>3, <1>4, <1>6
  <2> QED BY <1>2, <1>4, <2>1, <2>2, EarlyStep
<1>9. CASE TakesCommands(d)
  <2>1. /\ relay' = s /\ dials' \in [Dials -> DialStates] /\ dials'[d] = r
        /\ \A e \in Dials \ {d} : dials'[e] = dials[e]
    BY <1>1, <1>2, <1>4, <1>9
  <2>2. DialTypes'
    BY <1>2, <1>5, <2>1 DEF DialInv, DialTypes
  <2>3. /\ \A e \in Dials : Wired(e)' <=> Wired(e)
        /\ \A e \in Dials \ {d} : Queued(e)' <=> Queued(e)
    BY <1>2, <1>5, <1>7, <2>1 DEF Queued, Wired
  <2>4. /\ dials[d].session = relay.serial /\ Sends(d)
        /\ loop \notin {"drain", "connect", "closed"}
    BY <1>2, <1>9 DEF TakesCommands, Sends
  <2>5. ASSUME NEW e \in Dials PROVE KnownOK(e)' /\ CallerOK(e)'
    <3>1. KnownOK(e) /\ CallerOK(e)
      BY DEF DialInv
    <3>2. CASE e = d
      <4>1. KnownOK(d)'
        BY <1>2, <1>3, <1>4, <1>5, <2>1, <2>3, <2>4 DEF KnownOK, Owned, Noted
      <4>2. CallerOK(d)'
        BY <1>2, <1>3, <1>4, <1>5, <1>6, <2>1, <2>3 DEF CallerOK
      <4> QED BY <3>2, <4>1, <4>2
    <3>3. CASE e # d
      BY <3>1, <3>3, <1>2, <1>5, <2>1, <2>3 DEF KnownOK, CallerOK, Owned, Noted
    <3> QED BY <3>2, <3>3
  <2>6. GatewayOK'
    BY <1>2, <1>5, <2>1 DEF DialInv, GatewayOK
  <2>7. \A e \in Dials : ~ Sends(e)'
    BY <1>4, <1>5, <2>1, <2>4 DEF Sends, DialInv, LockOK
  <2>8. \A e \in Dials : dials'[e].id = dials[e].id /\ dials'[e].session = dials[e].session
    BY <1>4, <2>1
  <2>9. WireOK'
    <3>1. \A i \in DOMAIN wire : wire[i].dial \in Dials
      BY SequencesMean DEF DialInv
    <3>2. ASSUME NEW i \in DOMAIN wire, wire[i].session = relay.serial
          PROVE  \A e \in Dials : Queued(e)' => wire[i].id < dials'[e].id
      BY <3>2, <2>3, <2>4, <2>8 DEF DialInv, WireOK
    <3> QED BY <3>1, <3>2, <1>2, <1>5, <2>1, <2>7, <2>8 DEF DialInv, WireOK
  <2>10. CommandsOK'
    <3>1. \A i \in DOMAIN q : q[i] \in Dials /\ q[i] # d
      BY <1>3, SequencesMean DEF DialInv, Queued
    <3>2. \A i \in DOMAIN q : dials[q[i]].id < relay.next /\ dials[q[i]].id < dials[d].id
      BY <2>4 DEF DialInv, CommandsOK
    <3>3. dials[d].id < relay.next
      BY <2>4 DEF DialInv, LockOK
    <3>4. \A i, j \in DOMAIN q : i < j => q[i] # q[j] /\ dials[q[i]].id < dials[q[j]].id
      BY DEF DialInv, CommandsOK
    <3>5. relay'.commands = Append(q, d) /\ relay'.next = relay.next
      BY <1>5, <2>1
    <3>6. \A i \in DOMAIN Append(q, d) :
             /\ Append(q, d)[i] \in Dials
             /\ dials[Append(q, d)[i]].id < relay.next
      BY <1>7, <3>1, <3>2, <3>3
    <3>7. ASSUME NEW i \in DOMAIN Append(q, d), NEW j \in DOMAIN Append(q, d), i < j
          PROVE  /\ Append(q, d)[i] # Append(q, d)[j]
                 /\ dials[Append(q, d)[i]].id < dials[Append(q, d)[j]].id
      <4>1. i \in DOMAIN q
        BY <1>7, <3>7
      <4>2. CASE j \in DOMAIN q
        BY <4>1, <4>2, <3>7, <3>4, <1>7
      <4>3. CASE j = Len(q) + 1
        BY <4>1, <4>3, <3>1, <3>2, <1>7
      <4> QED BY <1>7, <4>2, <4>3
    <3> HIDE DEF q
    <3> QED BY <3>5, <3>6, <3>7, <2>7, <2>8 DEF CommandsOK
  <2>11. LockOK'
    BY <2>7 DEF LockOK
  <2> QED BY <2>2, <2>5, <2>6, <2>9, <2>10, <2>11 DEF DialInv
<1> QED BY <1>8, <1>9

-----------------------------------------------------------------------------
(***************************************************************************)
(* The steps of the session that are about one dial.  Its order among the  *)
(* others stays, so what is left to see is that the dial itself is right.  *)
(***************************************************************************)
LEMMA OneDialStep ==
    ASSUME DialInv, NEW d \in Dials, NEW r \in DialStates, NEW s \in RelayStates,
           NEW g \in {"none", "dialling", "open", "gone"},
           dials' = [dials EXCEPT ![d] = r], relay' = s,
           gateway' = [gateway EXCEPT ![d] = g], UNCHANGED wire,
           loop' = loop \/ (loop = "select" /\ loop' = "cleanup"),
           r.session = dials[d].session, r.id = dials[d].id,
           r.stage \in {"send", "push"} => r.stage = dials[d].stage,
           s.serial = relay.serial, s.next = relay.next, s.commands = relay.commands,
           s.poll \in {relay.poll, "commands"},
           \A e \in Dials \ {d} :
              /\ e \in s.pending <=> e \in relay.pending
              /\ e \in s.pipes <=> e \in relay.pipes
              /\ e \in s.cancellations <=> e \in relay.cancellations
              /\ e \in s.abandoned <=> e \in relay.abandoned,
           KnownOK(d)', CallerOK(d)',
           loop' # "cleanup" /\ g \in {"dialling", "open"} =>
              d \in s.pending \union s.pipes,
           inbox' \in Seq(Frames),
           \A i \in DOMAIN inbox' :
              gateway'[inbox'[i].dial] \in
                 IF inbox'[i].kind = "OPENED" THEN {"open", "gone"} ELSE {"gone"}
    PROVE  DialInv'
<1>1. /\ dials \in [Dials -> DialStates]
      /\ gateway \in [Dials -> {"none", "dialling", "open", "gone"}]
      /\ wire \in Seq([dial : Dials, session : Nat, id : Nat])
  BY DEF DialInv, DialTypes
<1>2. /\ dials' \in [Dials -> DialStates] /\ dials'[d] = r
      /\ \A e \in Dials \ {d} : dials'[e] = dials[e]
  BY <1>1
<1>3. /\ gateway' \in [Dials -> {"none", "dialling", "open", "gone"}] /\ gateway'[d] = g
      /\ \A e \in Dials \ {d} : gateway'[e] = gateway[e]
  BY <1>1
<1>4. DialTypes'
  BY <1>1, <1>2, <1>3 DEF DialTypes
<1>5. \A e \in Dials : (Queued(e)' <=> Queued(e)) /\ (Wired(e)' <=> Wired(e))
  BY DEF Queued, Wired
<1>6. ASSUME NEW e \in Dials PROVE KnownOK(e)' /\ CallerOK(e)'
  <2>1. KnownOK(e) /\ CallerOK(e)
    BY DEF DialInv
  <2>2. CASE e # d
    <3>1. /\ dials'[e] = dials[e] /\ gateway'[e] = gateway[e]
          /\ e \in relay'.pending <=> e \in relay.pending
          /\ e \in relay'.pipes <=> e \in relay.pipes
          /\ e \in relay'.cancellations <=> e \in relay.cancellations
          /\ e \in relay'.abandoned <=> e \in relay.abandoned
      BY <1>2, <1>3, <2>2
    <3>2. KnownOK(e)'
      BY <2>1, <3>1, <1>5 DEF KnownOK, Owned, Noted
    <3>3. CallerOK(e)'
      BY <2>1, <3>1, <1>5 DEF CallerOK
    <3> QED BY <3>2, <3>3
  <2> QED BY <2>2
<1>7. GatewayOK'
  <2>1. ASSUME NEW e \in Dials, gateway'[e] \in {"dialling", "open"}, loop' # "cleanup"
        PROVE  e \in relay'.pending \union relay'.pipes
    BY <2>1, <1>3 DEF DialInv, GatewayOK
  <2> QED BY <2>1 DEF GatewayOK
<1>8. \A e \in Dials :
         /\ Sends(e)' => Sends(e)
         /\ dials'[e].id = dials[e].id /\ dials'[e].session = dials[e].session
  BY <1>2 DEF Sends
<1>9. WireOK'
  <2>1. \A i \in DOMAIN wire : wire[i].dial \in Dials
    BY SequencesMean DEF DialInv
  <2> QED BY <2>1, <1>5, <1>8 DEF DialInv, WireOK
<1>10. CommandsOK'
  <2>1. \A i \in DOMAIN relay.commands : relay.commands[i] \in Dials
    BY SequencesMean DEF DialInv
  <2> QED BY <2>1, <1>8 DEF DialInv, CommandsOK
<1>11. LockOK'
  BY <1>8 DEF DialInv, LockOK
<1> QED BY <1>4, <1>6, <1>7, <1>9, <1>10, <1>11 DEF DialInv

(* A waiting call ends.  What the session still knows of it was given to   *)
(* the application, or is noted for the session to take back.              *)
LEMMA LeaveStep ==
    ASSUME DialInv, NEW d \in Dials, dials[d].stage = "waiting",
           NEW outcome \in Responses \union {"dropped"}, Answers(d, outcome),
           NEW s \in RelayStates, relay' = s, UNCHANGED <<gateway, inbox, wire, loop>>,
           s.serial = relay.serial, s.next = relay.next, s.commands = relay.commands,
           s.pending = relay.pending, s.pipes = relay.pipes, s.poll = relay.poll,
           \A e \in Dials \ {d} :
              /\ e \in s.cancellations <=> e \in relay.cancellations
              /\ e \in s.abandoned <=> e \in relay.abandoned,
           d \in s.abandoned => d \in relay.abandoned \/ dials[d].response = "pipe",
           outcome \in {"pipe", "NotObserved"} => dials[d].response = outcome,
           Queued(d) \/ d \in relay.pending \union relay.pipes =>
              outcome = "pipe" \/ d \in s.cancellations
    PROVE  DialInv'
<1> DEFINE r == [dials[d] EXCEPT !.stage = "done", !.outcome = outcome]
<1>1. /\ dials \in [Dials -> DialStates] /\ KnownOK(d) /\ CallerOK(d)
      /\ gateway \in [Dials -> {"none", "dialling", "open", "gone"}]
      /\ inbox \in Seq(Frames)
  BY DEF DialInv, DialTypes
<1>2. /\ r \in DialStates /\ r.stage = "done" /\ r.session = dials[d].session
      /\ r.id = dials[d].id /\ r.response = dials[d].response /\ r.outcome = outcome
      /\ r.crossed = dials[d].crossed
  BY <1>1 DEF DialStates, Stages, Responses
<1>3. dials' = [dials EXCEPT ![d] = r] /\ dials'[d] = r
  BY <1>1, <1>2 DEF Answers
<1> HIDE DEF r
<1>4. (Queued(d)' <=> Queued(d)) /\ (Wired(d)' <=> Wired(d))
  BY DEF Queued, Wired
<1>5. KnownOK(d)'
  BY <1>1, <1>2, <1>3, <1>4 DEF KnownOK, Owned, Noted
<1>6. CallerOK(d)'
  BY <1>1, <1>2, <1>3, <1>4 DEF CallerOK
<1>7. /\ gateway' = [gateway EXCEPT ![d] = gateway[d]]
      /\ gateway[d] \in {"none", "dialling", "open", "gone"}
  BY <1>1
<1>8. loop' # "cleanup" /\ gateway[d] \in {"dialling", "open"} =>
         d \in s.pending \union s.pipes
  BY DEF DialInv, GatewayOK
<1>9. \A i \in DOMAIN inbox' :
         gateway'[inbox'[i].dial] \in
            IF inbox'[i].kind = "OPENED" THEN {"open", "gone"} ELSE {"gone"}
  BY DEF DialInv, GatewayOK
<1>10. r.stage \in {"send", "push"} => r.stage = dials[d].stage
  BY <1>2
<1>11. /\ inbox' \in Seq(Frames) /\ UNCHANGED <<wire, loop>>
       /\ \A e \in Dials \ {d} :
              /\ e \in s.pending <=> e \in relay.pending
              /\ e \in s.pipes <=> e \in relay.pipes
              /\ e \in s.cancellations <=> e \in relay.cancellations
              /\ e \in s.abandoned <=> e \in relay.abandoned
  BY <1>1
<1> QED BY <1>2, <1>3, <1>5, <1>6, <1>7, <1>8, <1>9, <1>10, <1>11, OneDialStep

(* What the guard of a call that leaves tells the session. *)
LEMMA LeavesMeans ==
    ASSUME DialInv, NEW d \in Dials
    PROVE  /\ Leaves(d) \in RelayStates
           /\ Leaves(d).serial = relay.serial /\ Leaves(d).next = relay.next
           /\ Leaves(d).commands = relay.commands /\ Leaves(d).pending = relay.pending
           /\ Leaves(d).pipes = relay.pipes /\ Leaves(d).cancel = relay.cancel
           /\ Leaves(d).poll = relay.poll
           /\ \A e \in Dials \ {d} :
                 /\ e \in Leaves(d).cancellations <=> e \in relay.cancellations
                 /\ e \in Leaves(d).abandoned <=> e \in relay.abandoned
           /\ d \in Leaves(d).abandoned =>
                 d \in relay.abandoned \/ dials[d].response = "pipe"
           /\ TakesCommands(d) => d \in Leaves(d).cancellations
<1>1. relay \in RelayStates
  BY DEF DialInv, DialTypes
<1>2. CASE ~ TakesCommands(d)
  BY <1>1, <1>2 DEF Leaves
<1>3. CASE TakesCommands(d)
  <2> DEFINE A == IF dials[d].response = "pipe" /\ d \in relay.pipes
                  THEN relay.abandoned \union {d} ELSE relay.abandoned
             s == [relay EXCEPT !.cancellations = @ \union {d}, !.abandoned = A]
  <2>1. Leaves(d) = s
    BY <1>3 DEF Leaves
  <2>2. /\ A \in SUBSET Dials /\ \A e \in Dials \ {d} : e \in A <=> e \in relay.abandoned
        /\ d \in A => d \in relay.abandoned \/ dials[d].response = "pipe"
    BY <1>1 DEF RelayStates
  <2> HIDE DEF A
  <2>3. /\ s \in RelayStates
        /\ s.serial = relay.serial /\ s.next = relay.next
        /\ s.commands = relay.commands /\ s.pending = relay.pending
        /\ s.pipes = relay.pipes /\ s.cancel = relay.cancel /\ s.poll = relay.poll
        /\ s.cancellations = relay.cancellations \union {d} /\ s.abandoned = A
    BY <1>1, <2>2 DEF RelayStates
  <2> HIDE DEF s
  <2> QED BY <2>1, <2>2, <2>3
<1> QED BY <1>2, <1>3

(* The session of a dial that it knows is there to be told. *)
LEMMA KnownTakesCommands ==
    ASSUME DialInv, NEW d \in Dials, Queued(d) \/ d \in relay.pending \union relay.pipes
    PROVE  TakesCommands(d) /\ dials[d].session = relay.serial
BY DEF DialInv, KnownOK, TakesCommands

(* A call returns the session's response. *)
LEMMA DialReturnsKeeps ==
    ASSUME DialInv, NEW d \in Dials, DialReturns(d), UNCHANGED loop
    PROVE  DialInv'
<1> DEFINE o == dials[d].response
<1>1. /\ dials \in [Dials -> DialStates] /\ relay \in RelayStates /\ KnownOK(d)
  BY DEF DialInv, DialTypes
<1>2. /\ dials[d].stage = "waiting" /\ o # "none" /\ Answers(d, o)
      /\ UNCHANGED <<relay, gateway, inbox, wire, loop>>
  BY DEF DialReturns, At, OnlyDial
<1>3. o \in Responses
  BY <1>1 DEF DialStates
<1>4. Queued(d) \/ d \in relay.pending \union relay.pipes => o = "pipe"
  BY <1>1, <1>2 DEF KnownOK
<1>5. PICK p \in Responses : p = o
  BY <1>3
<1>6. Answers(d, p)
  BY <1>2, <1>5
<1> QED BY <1>1, <1>2, <1>4, <1>5, <1>6, LeaveStep

(* A deadline passes before or after the DIAL was queued. *)
LEMMA DialDeadlineKeeps ==
    ASSUME DialInv, NEW d \in Dials, DialDeadline(d), UNCHANGED loop
    PROVE  DialInv'
<1>1. relay \in RelayStates
  BY DEF DialInv, DialTypes
<1>2. CASE /\ dials[d].stage \in {"looking", "token", "lock", "send", "stale"}
           /\ Answers(d, "NotObserved")
           /\ UNCHANGED relay /\ OnlyDial
  BY <1>2, AnswerStep DEF OnlyDial
<1>3. CASE /\ At(d, "waiting") /\ dials[d].response = "none"
           /\ Answers(d, "MaybeObserved")
           /\ relay' = IF dials[d].session = relay.serial
                       THEN [Leaves(d) EXCEPT !.cancel = TRUE] ELSE relay
           /\ OnlyDial
  <2> DEFINE s == [Leaves(d) EXCEPT !.cancel = TRUE]
  <2>1. /\ dials[d].stage = "waiting" /\ UNCHANGED <<gateway, inbox, wire, loop>>
        /\ "MaybeObserved" \in Responses /\ Answers(d, "MaybeObserved")
    BY <1>3 DEF At, OnlyDial, Responses
  <2>2. CASE dials[d].session # relay.serial
    <3>1. ~ (Queued(d) \/ d \in relay.pending \union relay.pipes)
      BY <2>2, KnownTakesCommands
    <3>2. relay' = relay
      BY <1>3, <2>2
    <3> QED BY <1>1, <2>1, <3>1, <3>2, LeaveStep
  <2>3. CASE dials[d].session = relay.serial
    <3>1. relay' = s
      BY <1>3, <2>3
    <3>2. /\ s \in RelayStates
          /\ s.serial = Leaves(d).serial /\ s.next = Leaves(d).next
          /\ s.commands = Leaves(d).commands /\ s.pending = Leaves(d).pending
          /\ s.pipes = Leaves(d).pipes /\ s.cancellations = Leaves(d).cancellations
          /\ s.abandoned = Leaves(d).abandoned /\ s.poll = Leaves(d).poll
      BY LeavesMeans DEF RelayStates
    <3> HIDE DEF s
    <3>3. /\ s.serial = relay.serial /\ s.next = relay.next
          /\ s.commands = relay.commands /\ s.pending = relay.pending
          /\ s.pipes = relay.pipes /\ s.poll = relay.poll
          /\ \A e \in Dials \ {d} :
                 /\ e \in s.cancellations <=> e \in relay.cancellations
                 /\ e \in s.abandoned <=> e \in relay.abandoned
          /\ d \in s.abandoned => d \in relay.abandoned \/ dials[d].response = "pipe"
          /\ TakesCommands(d) => d \in s.cancellations
      BY <3>2, LeavesMeans
    <3>4. Queued(d) \/ d \in relay.pending \union relay.pipes => d \in s.cancellations
      BY <3>3, KnownTakesCommands
    <3> QED BY <2>1, <3>1, <3>2, <3>3, <3>4, LeaveStep
  <2> QED BY <2>2, <2>3
<1> QED BY <1>2, <1>3 DEF DialDeadline

(* The application drops the call. *)
LEMMA DialDroppedKeeps ==
    ASSUME DialInv, NEW d \in Dials, DialDropped(d), UNCHANGED loop
    PROVE  DialInv'
<1>1. /\ Answers(d, "dropped") /\ UNCHANGED <<gateway, inbox, wire, loop>>
      /\ dials[d].stage \notin {"done"}
      /\ relay' = IF dials[d].stage = "waiting" THEN Leaves(d) ELSE relay
  BY DEF DialDropped, OnlyDial, At
<1>2. CASE dials[d].stage # "waiting"
  BY <1>1, <1>2, AnswerStep
<1>3. CASE dials[d].stage = "waiting"
  <2>1. Queued(d) \/ d \in relay.pending \union relay.pipes => d \in Leaves(d).cancellations
    BY LeavesMeans, KnownTakesCommands
  <2>2. relay' = Leaves(d) /\ "dropped" \in Responses \union {"dropped"}
    BY <1>1, <1>3
  <2> QED BY <1>1, <1>3, <2>1, <2>2, LeavesMeans, LeaveStep
<1> QED BY <1>2, <1>3

(* The application drops the Pipe it was given. *)
LEMMA DropPipeKeeps ==
    ASSUME DialInv, NEW d \in Dials, DropPipe(d), UNCHANGED loop
    PROVE  DialInv'
<1> DEFINE s == [relay EXCEPT !.abandoned = @ \union {d}]
<1>1. /\ dials \in [Dials -> DialStates] /\ relay \in RelayStates /\ KnownOK(d) /\ CallerOK(d)
      /\ gateway \in [Dials -> {"none", "dialling", "open", "gone"}]
      /\ inbox \in Seq(Frames)
  BY DEF DialInv, DialTypes
<1>2. /\ dials[d].outcome = "pipe" /\ relay' = s
      /\ UNCHANGED <<dials, gateway, inbox, wire, loop>>
  BY DEF DropPipe, OnlyDial
<1>3. /\ s \in RelayStates /\ s.serial = relay.serial /\ s.next = relay.next
      /\ s.commands = relay.commands /\ s.pending = relay.pending /\ s.pipes = relay.pipes
      /\ s.cancellations = relay.cancellations /\ s.abandoned = relay.abandoned \union {d}
      /\ s.poll = relay.poll
  <2>1. relay.abandoned \union {d} \in SUBSET Dials
    BY <1>1 DEF RelayStates
  <2> QED BY <1>1, <2>1 DEF RelayStates
<1> HIDE DEF s
<1>4. (Queued(d)' <=> Queued(d)) /\ (Wired(d)' <=> Wired(d))
  BY <1>2, <1>3 DEF Queued, Wired
<1>5. KnownOK(d)' /\ CallerOK(d)'
  BY <1>1, <1>2, <1>3, <1>4 DEF KnownOK, CallerOK, Owned, Noted
<1>6. /\ gateway' = [gateway EXCEPT ![d] = gateway[d]]
      /\ dials' = [dials EXCEPT ![d] = dials[d]] /\ dials[d] \in DialStates
      /\ gateway[d] \in {"none", "dialling", "open", "gone"} /\ inbox' \in Seq(Frames)
  BY <1>1, <1>2
<1>7. loop' # "cleanup" /\ gateway[d] \in {"dialling", "open"} =>
         d \in s.pending \union s.pipes
  BY <1>2, <1>3 DEF DialInv, GatewayOK
<1>8. \A i \in DOMAIN inbox' :
         gateway'[inbox'[i].dial] \in
            IF inbox'[i].kind = "OPENED" THEN {"open", "gone"} ELSE {"gone"}
  BY <1>2 DEF DialInv, GatewayOK
<1> QED BY <1>2, <1>3, <1>5, <1>6, <1>7, <1>8, OneDialStep

(* The session forgets a dial, and the Gateway drops what it held of it. *)
LEMMA ForgetStep ==
    ASSUME DialInv, NEW d \in Dials, NEW s \in RelayStates, relay' = s,
           UNCHANGED <<dials, wire>>, inbox' = inbox,
           loop' = loop \/ (loop = "select" /\ loop' = "cleanup"),
           Queued(d) => dials[d].crossed, d \notin s.pending \union s.pipes,
           s.serial = relay.serial, s.next = relay.next, s.commands = relay.commands,
           s.poll = "commands",
           s.abandoned \subseteq relay.abandoned,
           \A e \in Dials \ {d} :
              /\ e \in s.pending <=> e \in relay.pending
              /\ e \in s.pipes <=> e \in relay.pipes
              /\ e \in s.cancellations <=> e \in relay.cancellations
              /\ e \in s.abandoned <=> e \in relay.abandoned,
           NEW g \in {gateway[d], "gone"}, gateway' = [gateway EXCEPT ![d] = g],
           g # gateway[d] => d \in relay.pending \union relay.pipes,
           loop' # "cleanup" => g \notin {"dialling", "open"}
    PROVE  DialInv'
<1>1. /\ dials \in [Dials -> DialStates] /\ relay \in RelayStates /\ KnownOK(d) /\ CallerOK(d)
      /\ gateway \in [Dials -> {"none", "dialling", "open", "gone"}]
      /\ inbox \in Seq(Frames) /\ GatewayOK
  BY DEF DialInv, DialTypes
<1>3. /\ g \in {"none", "dialling", "open", "gone"}
      /\ Queued(d) => g = gateway[d]
  BY <1>1 DEF KnownOK
<1>4. (Queued(d)' <=> Queued(d)) /\ (Wired(d)' <=> Wired(d)) /\ gateway'[d] = g
  BY <1>1 DEF Queued, Wired
<1>5. KnownOK(d)'
  BY <1>1, <1>3, <1>4 DEF KnownOK, Owned, Noted
<1>6. CallerOK(d)'
  BY <1>1, <1>3, <1>4 DEF CallerOK, KnownOK
<1>7. /\ dials' = [dials EXCEPT ![d] = dials[d]] /\ dials[d] \in DialStates
      /\ inbox' \in Seq(Frames)
  BY <1>1
<1>8. ASSUME NEW i \in DOMAIN inbox
      PROVE  gateway'[inbox[i].dial] \in
                IF inbox[i].kind = "OPENED" THEN {"open", "gone"} ELSE {"gone"}
  <2>1. inbox[i].dial \in Dials
    BY SequencesMean DEF DialInv, Frames
  <2>2. gateway[inbox[i].dial] \in
           IF inbox[i].kind = "OPENED" THEN {"open", "gone"} ELSE {"gone"}
    BY <1>1 DEF GatewayOK
  <2>3. CASE inbox[i].dial = d
    BY <2>2, <2>3, <1>3, <1>4
  <2>4. CASE inbox[i].dial # d
    BY <2>1, <2>2, <2>4, <1>1
  <2> QED BY <2>3, <2>4
<1>9. \A i \in DOMAIN inbox' :
         gateway'[inbox'[i].dial] \in
            IF inbox'[i].kind = "OPENED" THEN {"open", "gone"} ELSE {"gone"}
  BY <1>8
<1> QED BY <1>3, <1>5, <1>6, <1>7, <1>9, OneDialStep

(* A dial that was removed is cancelled or closed, unless the write fails. *)
LEMMA TakesBackMeans ==
    ASSUME DialInv, NEW d \in Dials, NEW removed, TakesBack(d, removed), loop = "select",
           d \in removed <=> d \in relay.pending \union relay.pipes
    PROVE  /\ loop' = loop \/ loop' = "cleanup"
           /\ \E g \in {gateway[d], "gone"} :
                 /\ gateway' = [gateway EXCEPT ![d] = g]
                 /\ g # gateway[d] => d \in relay.pending \union relay.pipes
                 /\ loop' # "cleanup" => g \notin {"dialling", "open"}
<1>1. gateway = [gateway EXCEPT ![d] = gateway[d]] /\ GatewayOK
  BY DEF DialInv, DialTypes
<1>2. CASE d \notin removed /\ UNCHANGED <<vars, gateway>>
  <2>1. loop' = loop /\ gateway' = gateway
    BY <1>2 DEF vars, session
  <2>2. gateway[d] \notin {"dialling", "open"}
    BY <1>1, <1>2 DEF GatewayOK
  <2> QED BY <1>1, <2>1, <2>2
<1>3. CASE d \in removed /\ Selects /\ GatewayDrops(d) /\ UNCHANGED vars
  <2>1. loop' = loop /\ gateway' = [gateway EXCEPT ![d] = "gone"]
    BY <1>3 DEF vars, session, GatewayDrops
  <2> QED BY <1>3, <2>1
<1>4. CASE d \in removed /\ WriteFails
  <2>1. loop' = "cleanup" /\ gateway' = gateway
    BY <1>4 DEF WriteFails
  <2> QED BY <1>1, <2>1
<1> QED BY <1>2, <1>3, <1>4 DEF TakesBack

(* on_cancelled: a DIAL that is still queued was queued in the middle of   *)
(* the poll.                                                               *)
LEMMA OnCancelledKeeps ==
    ASSUME DialInv, NEW d \in Dials, OnCancelled(d)
    PROVE  DialInv'
<1> DEFINE s == [relay EXCEPT !.cancellations = @ \ {d}, !.pending = @ \ {d},
                              !.pipes = @ \ {d}, !.poll = "commands"]
<1>1. relay \in RelayStates /\ KnownOK(d)
  BY DEF DialInv, DialTypes
<1>2. /\ relay' = s /\ UNCHANGED <<dials, inbox, wire>>
      /\ loop = "select" /\ relay.poll = "cancellations"
      /\ TakesBack(d, relay.pending \union relay.pipes)
  BY DEF OnCancelled, Polls
<1>3. /\ s \in RelayStates /\ s.serial = relay.serial /\ s.next = relay.next
      /\ s.commands = relay.commands /\ s.pending = relay.pending \ {d}
      /\ s.pipes = relay.pipes \ {d} /\ s.poll = "commands"
      /\ s.cancellations = relay.cancellations \ {d} /\ s.abandoned = relay.abandoned
  BY <1>1 DEF RelayStates
<1>4. Queued(d) => dials[d].crossed
  BY <1>1, <1>2 DEF KnownOK
<1> HIDE DEF s
<1>5. /\ d \notin s.pending \union s.pipes /\ s.abandoned \subseteq relay.abandoned
      /\ \A e \in Dials \ {d} :
              /\ e \in s.pending <=> e \in relay.pending
              /\ e \in s.pipes <=> e \in relay.pipes
              /\ e \in s.cancellations <=> e \in relay.cancellations
              /\ e \in s.abandoned <=> e \in relay.abandoned
  BY <1>3
<1>6. /\ loop' = loop \/ loop' = "cleanup"
      /\ \E g \in {gateway[d], "gone"} :
            /\ gateway' = [gateway EXCEPT ![d] = g]
            /\ g # gateway[d] => d \in relay.pending \union relay.pipes
            /\ loop' # "cleanup" => g \notin {"dialling", "open"}
  BY <1>2, TakesBackMeans
<1>7. PICK g \in {gateway[d], "gone"} :
            /\ gateway' = [gateway EXCEPT ![d] = g]
            /\ g # gateway[d] => d \in relay.pending \union relay.pipes
            /\ loop' # "cleanup" => g \notin {"dialling", "open"}
  BY <1>6
<1> QED BY <1>2, <1>3, <1>4, <1>5, <1>6, <1>7, ForgetStep

(* on_abandoned: an abandoned Pipe is neither queued nor pending any more. *)
LEMMA OnAbandonedKeeps ==
    ASSUME DialInv, NEW d \in Dials, OnAbandoned(d)
    PROVE  DialInv'
<1> DEFINE s == [relay EXCEPT !.abandoned = @ \ {d}, !.pipes = @ \ {d},
                              !.poll = "commands"]
<1>1. relay \in RelayStates /\ KnownOK(d)
  BY DEF DialInv, DialTypes
<1>2. /\ relay' = s /\ UNCHANGED <<dials, inbox, wire>> /\ loop = "select"
      /\ TakesBack(d, relay.pipes) /\ d \in relay.abandoned
  BY DEF OnAbandoned, Polls
<1>3. /\ s \in RelayStates /\ s.serial = relay.serial /\ s.next = relay.next
      /\ s.commands = relay.commands /\ s.pending = relay.pending
      /\ s.pipes = relay.pipes \ {d} /\ s.poll = "commands"
      /\ s.cancellations = relay.cancellations /\ s.abandoned = relay.abandoned \ {d}
  BY <1>1 DEF RelayStates
<1>4. ~ Queued(d) /\ d \notin relay.pending
  BY <1>1, <1>2 DEF KnownOK
<1> HIDE DEF s
<1>5. /\ d \notin s.pending \union s.pipes /\ s.abandoned \subseteq relay.abandoned
      /\ \A e \in Dials \ {d} :
              /\ e \in s.pending <=> e \in relay.pending
              /\ e \in s.pipes <=> e \in relay.pipes
              /\ e \in s.cancellations <=> e \in relay.cancellations
              /\ e \in s.abandoned <=> e \in relay.abandoned
  BY <1>3, <1>4
<1>6. d \in relay.pipes <=> d \in relay.pending \union relay.pipes
  BY <1>4
<1>7. /\ loop' = loop \/ loop' = "cleanup"
      /\ \E g \in {gateway[d], "gone"} :
            /\ gateway' = [gateway EXCEPT ![d] = g]
            /\ g # gateway[d] => d \in relay.pending \union relay.pipes
            /\ loop' # "cleanup" => g \notin {"dialling", "open"}
  BY <1>2, <1>6, TakesBackMeans
<1>8. PICK g \in {gateway[d], "gone"} :
            /\ gateway' = [gateway EXCEPT ![d] = g]
            /\ g # gateway[d] => d \in relay.pending \union relay.pipes
            /\ loop' # "cleanup" => g \notin {"dialling", "open"}
  BY <1>7
<1> QED BY <1>2, <1>3, <1>4, <1>5, <1>7, <1>8, ForgetStep

(* The select goes on to the next queue, or returns to the first one. *)
LEMMA PollKeeps ==
    ASSUME DialInv, FindsNoCommand \/ FindsNoCancellation \/ FindsNothing
    PROVE  DialInv'
<1>1. /\ dials \in [Dials -> DialStates] /\ relay \in RelayStates
      /\ \A e \in Dials : KnownOK(e) /\ CallerOK(e)
  BY DEF DialInv, DialTypes
<1>2. /\ UNCHANGED <<dials, gateway, inbox, wire, loop>>
      /\ \E poll \in {"commands", "cancellations", "abandoned"} :
            /\ relay' = [relay EXCEPT !.poll = poll]
            /\ poll # "commands" => relay.commands = << >> \/ relay.poll # "commands"
  BY DEF FindsNoCommand, FindsNoCancellation, FindsNothing, Polls, vars, session
<1>3. PICK poll \in {"commands", "cancellations", "abandoned"} :
            /\ relay' = [relay EXCEPT !.poll = poll]
            /\ poll # "commands" => relay.commands = << >> \/ relay.poll # "commands"
  BY <1>2
<1>4. /\ relay' \in RelayStates /\ relay'.poll = poll /\ relay'.serial = relay.serial
      /\ relay'.next = relay.next /\ relay'.commands = relay.commands
      /\ relay'.pending = relay.pending /\ relay'.pipes = relay.pipes
      /\ relay'.cancellations = relay.cancellations /\ relay'.abandoned = relay.abandoned
  BY <1>1, <1>3 DEF RelayStates
<1>5. \A e \in Dials : (Queued(e)' <=> Queued(e)) /\ (Wired(e)' <=> Wired(e))
                       /\ (Sends(e)' <=> Sends(e))
  BY <1>2, <1>4 DEF Queued, Wired, Sends
<1>6. ASSUME NEW e \in Dials PROVE KnownOK(e)' /\ CallerOK(e)'
  <2>1. Queued(e) /\ poll # "commands" => dials[e].crossed
    BY <1>1, <1>3 DEF KnownOK, Queued
  <2>2. KnownOK(e)'
    BY <2>1, <1>1, <1>2, <1>4, <1>5 DEF KnownOK, Owned, Noted
  <2>3. CallerOK(e)'
    BY <1>1, <1>2, <1>4, <1>5 DEF CallerOK
  <2> QED BY <2>2, <2>3
<1>7. DialTypes'
  BY <1>2, <1>4 DEF DialInv, DialTypes
<1>8. GatewayOK'
  BY <1>2, <1>4 DEF DialInv, GatewayOK
<1>9. WireOK'
  BY <1>2, <1>4, <1>5 DEF DialInv, WireOK
<1>10. CommandsOK'
  BY <1>2, <1>4, <1>5 DEF DialInv, CommandsOK
<1>11. LockOK'
  BY <1>2, <1>4, <1>5 DEF DialInv, LockOK
<1> QED BY <1>6, <1>7, <1>8, <1>9, <1>10, <1>11 DEF DialInv

(* The Gateway answers a dial that the session knows. *)
LEMMA GatewayAnswersKeeps ==
    ASSUME DialInv, NEW d \in Dials, GatewayAnswers(d), UNCHANGED loop
    PROVE  DialInv'
<1>1. /\ dials \in [Dials -> DialStates] /\ relay \in RelayStates /\ KnownOK(d) /\ CallerOK(d)
      /\ gateway \in [Dials -> {"none", "dialling", "open", "gone"}]
      /\ inbox \in Seq(Frames) /\ GatewayOK
  BY DEF DialInv, DialTypes
<1>2. PICK kind \in {"OPENED", "DIAL_FAILED", "RESET"} :
         /\ gateway[d] = "dialling" \/ (gateway[d] = "open" /\ kind = "RESET")
         /\ gateway' = [gateway EXCEPT ![d] = IF kind = "OPENED" THEN "open" ELSE "gone"]
         /\ inbox' = Append(inbox, [kind |-> kind, dial |-> d])
  BY DEF GatewayAnswers
<1>3. UNCHANGED <<dials, relay, wire, loop>>
  BY DEF GatewayAnswers
<1> DEFINE g == IF kind = "OPENED" THEN "open" ELSE "gone"
           f == [kind |-> kind, dial |-> d]
<1>4. /\ g \in {"none", "dialling", "open", "gone"} /\ g \in {"open", "gone"}
      /\ kind # "OPENED" => g = "gone"
      /\ f \in Frames /\ f.kind = kind /\ f.dial = d
      /\ gateway' = [gateway EXCEPT ![d] = g] /\ gateway'[d] = g
      /\ inbox' = Append(inbox, f)
  BY <1>1, <1>2 DEF Frames
<1> HIDE DEF f, g
<1>5. /\ gateway[d] \in {"dialling", "open"}
      /\ loop # "cleanup" => d \in relay.pending \union relay.pipes
  BY <1>1, <1>2 DEF GatewayOK
<1>6. (Queued(d)' <=> Queued(d)) /\ (Wired(d)' <=> Wired(d))
  BY <1>3 DEF Queued, Wired
<1>7. ~ Queued(d) /\ dials[d].stage \in {"waiting", "done"}
  BY <1>1, <1>5 DEF KnownOK, CallerOK
<1>8. KnownOK(d)'
  BY <1>1, <1>3, <1>6, <1>7 DEF KnownOK, Owned, Noted
<1>9. CallerOK(d)'
  BY <1>1, <1>3, <1>6, <1>7 DEF CallerOK
<1>10. /\ inbox' \in Seq(Frames) /\ inbox'[Len(inbox) + 1] = f
       /\ DOMAIN inbox' = DOMAIN inbox \union {Len(inbox) + 1}
       /\ \A i \in DOMAIN inbox : inbox'[i] = inbox[i]
  BY <1>1, <1>4, AppendMeans
<1>11. ASSUME NEW i \in DOMAIN inbox
       PROVE  gateway'[inbox[i].dial] \in
                 IF inbox[i].kind = "OPENED" THEN {"open", "gone"} ELSE {"gone"}
  <2>1. inbox[i].dial \in Dials
    BY SequencesMean DEF DialInv, Frames
  <2>2. gateway[inbox[i].dial] \in
           IF inbox[i].kind = "OPENED" THEN {"open", "gone"} ELSE {"gone"}
    BY <1>1 DEF GatewayOK
  <2>3. CASE inbox[i].dial = d
    BY <2>2, <2>3, <1>4, <1>5
  <2>4. CASE inbox[i].dial # d
    BY <2>1, <2>2, <2>4, <1>1, <1>4
  <2> QED BY <2>3, <2>4
<1>12. \A i \in DOMAIN inbox' :
         gateway'[inbox'[i].dial] \in
            IF inbox'[i].kind = "OPENED" THEN {"open", "gone"} ELSE {"gone"}
  BY <1>4, <1>10, <1>11
<1>13. dials' = [dials EXCEPT ![d] = dials[d]] /\ dials[d] \in DialStates
  BY <1>1, <1>3
<1>14. /\ loop' # "cleanup" /\ g \in {"dialling", "open"} =>
              d \in relay.pending \union relay.pipes
       /\ relay' = relay /\ loop' = loop /\ wire' = wire
       /\ relay.poll \in {relay.poll, "commands"}
  BY <1>3, <1>5
<1> QED BY <1>1, <1>4, <1>14, <1>8, <1>9, <1>10, <1>12, <1>13, OneDialStep

(* What Head and Tail are, element by element. *)
LEMMA TailMeans ==
    ASSUME NEW S, NEW q \in Seq(S), q # << >>
    PROVE  /\ 1 \in DOMAIN q /\ Head(q) = q[1] /\ Head(q) \in S /\ Tail(q) \in Seq(S)
           /\ \A i \in DOMAIN Tail(q) :
                 i \in Nat /\ 1 < i + 1 /\ i + 1 \in DOMAIN q /\ Tail(q)[i] = q[i + 1]
           /\ \A i \in DOMAIN q :
                 i # 1 => i - 1 \in DOMAIN Tail(q) /\ Tail(q)[i - 1] = q[i]
<1>1. /\ Len(q) \in Nat /\ DOMAIN q = 1 .. Len(q) /\ Len(q) # 0
  BY LenProperties, EmptySeq
<1>2. /\ Tail(q) \in Seq(S) /\ Len(Tail(q)) = Len(q) - 1 /\ Head(q) = q[1] /\ Head(q) \in S
      /\ \A i \in 1 .. Len(q) - 1 : Tail(q)[i] = q[i + 1]
  BY <1>1, HeadTailProperties
<1>3. DOMAIN Tail(q) = 1 .. Len(q) - 1
  BY <1>2, LenProperties
<1>4. \A i \in DOMAIN Tail(q) :
         i \in Nat /\ 1 < i + 1 /\ i + 1 \in DOMAIN q /\ Tail(q)[i] = q[i + 1]
  BY <1>1, <1>2, <1>3
<1>5. ASSUME NEW i \in DOMAIN q, i # 1
      PROVE  i - 1 \in DOMAIN Tail(q) /\ Tail(q)[i - 1] = q[i]
  <2>1. i - 1 \in 1 .. Len(q) - 1 /\ (i - 1) + 1 = i
    BY <1>1, <1>5
  <2> QED BY <2>1, <1>2, <1>3
<1> QED BY <1>1, <1>2, <1>4, <1>5

(* The session applies the oldest frame, to the dial it is about. *)
LEMMA FrameStep ==
    ASSUME DialInv, inbox # << >>, inbox' = Tail(inbox),
           NEW d \in Dials, d = Head(inbox).dial, NEW r \in DialStates, NEW s \in RelayStates,
           NEW g \in {gateway[d], "gone"},
           dials' = [dials EXCEPT ![d] = r], relay' = s,
           gateway' = [gateway EXCEPT ![d] = g], UNCHANGED <<wire, loop>>,
           r.session = dials[d].session, r.id = dials[d].id,
           r.stage = dials[d].stage, r.outcome = dials[d].outcome, r.crossed = dials[d].crossed,
           r.response # dials[d].response =>
              dials[d].response = "none" /\ r.response \in {"pipe", "refused"},
           s.serial = relay.serial, s.next = relay.next, s.commands = relay.commands,
           s.cancellations = relay.cancellations, s.abandoned = relay.abandoned,
           s.poll = relay.poll,
           \A e \in Dials \ {d} :
              /\ e \in s.pending <=> e \in relay.pending
              /\ e \in s.pipes <=> e \in relay.pipes,
           d \in s.pending => d \in relay.pending /\ r.response = dials[d].response,
           d \in s.pipes \ relay.pipes =>
              d \in relay.pending /\ r.response = "pipe" /\ dials[d].stage = "waiting",
           g \in {"dialling", "open"} => d \in s.pending \union s.pipes
    PROVE  DialInv'
<1>1. /\ dials \in [Dials -> DialStates] /\ relay \in RelayStates /\ KnownOK(d) /\ CallerOK(d)
      /\ gateway \in [Dials -> {"none", "dialling", "open", "gone"}]
      /\ inbox \in Seq(Frames) /\ GatewayOK
  BY DEF DialInv, DialTypes
<1>2. /\ 1 \in DOMAIN inbox /\ Head(inbox) = inbox[1] /\ inbox' \in Seq(Frames)
      /\ \A i \in DOMAIN inbox' : i + 1 \in DOMAIN inbox /\ inbox'[i] = inbox[i + 1]
  BY <1>1, TailMeans
<1>3. gateway[d] \in {"open", "gone"}
  BY <1>1, <1>2 DEF GatewayOK
<1>4. g \in {"open", "gone"} /\ dials'[d] = r /\ gateway'[d] = g
  BY <1>1, <1>3
<1>5. (Queued(d)' <=> Queued(d)) /\ (Wired(d)' <=> Wired(d))
  BY DEF Queued, Wired
<1>6. ~ Queued(d) /\ dials[d].stage \in {"waiting", "done"}
  BY <1>1, <1>3 DEF KnownOK, CallerOK
<1>7. KnownOK(d)'
  <2>1. d \in s.pending \union s.pipes => d \in relay.pending \union relay.pipes
    OBVIOUS
  <2>2. d \in s.pending \union s.pipes =>
           /\ dials[d].session = relay.serial
           /\ loop \notin {"drain", "connect", "closed"}
           /\ Owned(d) \/ Noted(d) \/ (d \notin s.pipes /\ dials[d].crossed)
    BY <2>1, <1>1 DEF KnownOK, Owned
  <2>3. d \in s.pending => r.response = "none"
    BY <1>1 DEF KnownOK
  <2>4. d \in s.pipes \union s.abandoned => r.response = "pipe"
    BY <1>1 DEF KnownOK
  <2>5. Owned(d) => Owned(d)'
    BY <1>4 DEF Owned
  <2>6. Noted(d) => Noted(d)'
    BY DEF Noted
  <2> QED BY <1>4, <1>5, <1>6, <2>2, <2>3, <2>4, <2>5, <2>6 DEF KnownOK
<1>8. CallerOK(d)'
  BY <1>1, <1>4, <1>5, <1>6 DEF CallerOK
<1>9. ASSUME NEW i \in DOMAIN inbox'
      PROVE  gateway'[inbox'[i].dial] \in
                IF inbox'[i].kind = "OPENED" THEN {"open", "gone"} ELSE {"gone"}
  <2>1. PICK j \in DOMAIN inbox : inbox'[i] = inbox[j]
    BY <1>2
  <2>2. inbox[j].dial \in Dials
    BY SequencesMean DEF DialInv, Frames
  <2>3. gateway[inbox[j].dial] \in
           IF inbox[j].kind = "OPENED" THEN {"open", "gone"} ELSE {"gone"}
    BY <1>1 DEF GatewayOK
  <2>4. CASE inbox[j].dial = d
    BY <2>1, <2>3, <2>4, <1>4
  <2>5. CASE inbox[j].dial # d
    BY <2>1, <2>2, <2>3, <2>5, <1>1
  <2> QED BY <2>4, <2>5
<1>10. /\ g \in {"none", "dialling", "open", "gone"}
       /\ r.stage \in {"send", "push"} => r.stage = dials[d].stage
       /\ \A e \in Dials \ {d} :
              /\ e \in s.cancellations <=> e \in relay.cancellations
              /\ e \in s.abandoned <=> e \in relay.abandoned
  BY <1>4
<1> QED BY <1>2, <1>7, <1>8, <1>9, <1>10, OneDialStep

(* Only a call that still waits hears the response. *)
LEMMA RespondMeans ==
    ASSUME DialInv, NEW d \in Dials, NEW response \in {"pipe", "refused"}
    PROVE  \E r \in DialStates :
              /\ Respond(d, response) = [dials EXCEPT ![d] = r]
              /\ r.session = dials[d].session /\ r.id = dials[d].id
              /\ r.stage = dials[d].stage /\ r.outcome = dials[d].outcome
              /\ r.crossed = dials[d].crossed
              /\ r.response = IF dials[d].stage = "waiting" THEN response
                                                            ELSE dials[d].response
<1>1. dials \in [Dials -> DialStates]
  BY DEF DialInv, DialTypes
<1>2. CASE dials[d].stage = "waiting"
  <2> DEFINE r == [dials[d] EXCEPT !.response = response]
  <2>1. /\ r \in DialStates /\ r.session = dials[d].session /\ r.id = dials[d].id
        /\ r.stage = dials[d].stage /\ r.outcome = dials[d].outcome
        /\ r.crossed = dials[d].crossed
        /\ r.response = response
    BY <1>1 DEF DialStates, Responses
  <2>2. Respond(d, response) = [dials EXCEPT ![d] = r]
    BY <1>2 DEF Respond, At
  <2> HIDE DEF r
  <2> QED BY <1>2, <2>1, <2>2
<1>3. CASE dials[d].stage # "waiting"
  <2>1. Respond(d, response) = [dials EXCEPT ![d] = dials[d]] /\ dials[d] \in DialStates
    BY <1>1, <1>3 DEF Respond, At
  <2> QED BY <1>3, <2>1
<1> QED BY <1>2, <1>3

(* on_opened, on_dial_failed and on_reset; other frames are ignored. *)
LEMMA OnDialFrameKeeps ==
    ASSUME DialInv, OnDialFrame, UNCHANGED loop
    PROVE  DialInv'
<1>1. /\ dials \in [Dials -> DialStates] /\ relay \in RelayStates /\ GatewayOK
      /\ gateway \in [Dials -> {"none", "dialling", "open", "gone"}]
      /\ inbox \in Seq(Frames) /\ \A d \in Dials : KnownOK(d)
  BY DEF DialInv, DialTypes
<1>2. /\ inbox # << >> /\ inbox' = Tail(inbox) /\ UNCHANGED <<wire, loop>>
      /\ loop = "select"
  BY DEF OnDialFrame, Polls
<1>3. /\ 1 \in DOMAIN inbox /\ Head(inbox) = inbox[1] /\ Head(inbox) \in Frames
  BY <1>1, <1>2, TailMeans
<1>4. PICK d \in Dials, kind \in {"OPENED", "DIAL_FAILED", "RESET"} :
         d = Head(inbox).dial /\ kind = Head(inbox).kind
  BY <1>3 DEF Frames
<1>5. /\ kind # "OPENED" => gateway[d] = "gone"
      /\ gateway[d] \in {"none", "dialling", "open", "gone"}
      /\ gateway = [gateway EXCEPT ![d] = gateway[d]]
      /\ dials = [dials EXCEPT ![d] = dials[d]] /\ dials[d] \in DialStates
      /\ KnownOK(d)
      /\ gateway[d] \in {"dialling", "open"} => d \in relay.pending \union relay.pipes
  BY <1>1, <1>2, <1>3, <1>4 DEF GatewayOK
<1>6. \/ kind = "OPENED" /\ OnOpened(d)
      \/ kind = "DIAL_FAILED" /\ OnDialFailed(d)
      \/ kind = "RESET" /\ OnReset(d)
      \/ UNCHANGED <<dials, relay, gateway>>
  BY <1>4 DEF OnDialFrame
<1>7. CASE kind = "OPENED" /\ OnOpened(d)
  <2> DEFINE P == IF At(d, "waiting") THEN relay.pipes \union {d} ELSE relay.pipes
             s == [relay EXCEPT !.pending = @ \ {d}, !.pipes = P]
             g == IF At(d, "waiting") THEN gateway[d] ELSE "gone"
  <2>1. /\ dials' = Respond(d, "pipe") /\ relay' = s /\ d \in relay.pending
        /\ gateway' = [gateway EXCEPT ![d] = g] /\ g \in {gateway[d], "gone"}
        /\ g # "gone" => dials[d].stage = "waiting"
    BY <1>5, <1>7 DEF OnOpened, GatewayDrops, At
  <2>2. /\ dials[d].stage = "waiting" => P = relay.pipes \union {d}
        /\ dials[d].stage # "waiting" => P = relay.pipes
        /\ P \in SUBSET Dials
    BY <1>1 DEF RelayStates, At
  <2> HIDE DEF P, g
  <2>3. /\ s \in RelayStates /\ s.serial = relay.serial /\ s.next = relay.next
        /\ s.commands = relay.commands /\ s.pending = relay.pending \ {d} /\ s.pipes = P
        /\ s.cancellations = relay.cancellations /\ s.abandoned = relay.abandoned
        /\ s.poll = relay.poll
    BY <1>1, <2>2 DEF RelayStates
  <2> HIDE DEF s
  <2>4. PICK r \in DialStates :
              /\ Respond(d, "pipe") = [dials EXCEPT ![d] = r]
              /\ r.session = dials[d].session /\ r.id = dials[d].id
              /\ r.stage = dials[d].stage /\ r.outcome = dials[d].outcome
              /\ r.crossed = dials[d].crossed
              /\ r.response = IF dials[d].stage = "waiting" THEN "pipe"
                                                            ELSE dials[d].response
    BY RespondMeans
  <2>5. dials[d].response = "none"
    BY <1>5, <2>1 DEF KnownOK
  <2>6. /\ r.response # dials[d].response =>
              dials[d].response = "none" /\ r.response \in {"pipe", "refused"}
        /\ \A e \in Dials \ {d} :
              /\ e \in s.pending <=> e \in relay.pending
              /\ e \in s.pipes <=> e \in relay.pipes
        /\ d \notin s.pending
        /\ d \in s.pipes \ relay.pipes =>
              d \in relay.pending /\ r.response = "pipe" /\ dials[d].stage = "waiting"
        /\ g \in {"dialling", "open"} => d \in s.pending \union s.pipes
    BY <2>1, <2>2, <2>3, <2>4, <2>5
  <2>7. /\ dials' = [dials EXCEPT ![d] = r] /\ relay' = s
        /\ gateway' = [gateway EXCEPT ![d] = g] /\ g \in {gateway[d], "gone"}
        /\ d \in s.pending => d \in relay.pending /\ r.response = dials[d].response
    BY <2>1, <2>4, <2>6
  <2>8. /\ r.session = dials[d].session /\ r.id = dials[d].id
        /\ r.stage = dials[d].stage /\ r.outcome = dials[d].outcome
        /\ r.crossed = dials[d].crossed
    BY <2>4
  <2> QED BY <1>2, <1>4, <2>3, <2>6, <2>7, <2>8, FrameStep
<1>8. CASE kind = "DIAL_FAILED" /\ OnDialFailed(d)
  <2> DEFINE s == [relay EXCEPT !.pending = @ \ {d}]
  <2>1. /\ dials' = Respond(d, "refused") /\ relay' = s /\ d \in relay.pending
        /\ gateway' = [gateway EXCEPT ![d] = "gone"]
    BY <1>5, <1>8 DEF OnDialFailed
  <2>2. /\ s \in RelayStates /\ s.serial = relay.serial /\ s.next = relay.next
        /\ s.commands = relay.commands /\ s.pending = relay.pending \ {d}
        /\ s.pipes = relay.pipes
        /\ s.cancellations = relay.cancellations /\ s.abandoned = relay.abandoned
        /\ s.poll = relay.poll
    BY <1>1 DEF RelayStates
  <2> HIDE DEF s
  <2>3. PICK r \in DialStates :
              /\ Respond(d, "refused") = [dials EXCEPT ![d] = r]
              /\ r.session = dials[d].session /\ r.id = dials[d].id
              /\ r.stage = dials[d].stage /\ r.outcome = dials[d].outcome
              /\ r.crossed = dials[d].crossed
              /\ r.response = IF dials[d].stage = "waiting" THEN "refused"
                                                            ELSE dials[d].response
    BY RespondMeans
  <2>4. dials[d].response = "none"
    BY <1>5, <2>1 DEF KnownOK
  <2>5. /\ r.response # dials[d].response =>
              dials[d].response = "none" /\ r.response \in {"pipe", "refused"}
        /\ \A e \in Dials \ {d} :
              /\ e \in s.pending <=> e \in relay.pending
              /\ e \in s.pipes <=> e \in relay.pipes
        /\ d \notin s.pending /\ d \notin s.pipes \ relay.pipes
    BY <2>2, <2>3, <2>4
  <2>6. dials' = [dials EXCEPT ![d] = r] /\ "gone" \in {gateway[d], "gone"}
    BY <2>1, <2>3
  <2> QED BY <1>2, <1>4, <2>1, <2>2, <2>3, <2>5, <2>6, FrameStep
<1>9. CASE kind = "RESET" /\ OnReset(d)
  <2> DEFINE s == [relay EXCEPT !.pipes = @ \ {d}, !.pending = @ \ {d}]
  <2>1. /\ dials' = IF d \in relay.pipes THEN dials ELSE Respond(d, "refused")
        /\ relay' = s /\ d \in relay.pending \union relay.pipes
        /\ gateway' = [gateway EXCEPT ![d] = "gone"]
    BY <1>5, <1>9 DEF OnReset
  <2>2. /\ s \in RelayStates /\ s.serial = relay.serial /\ s.next = relay.next
        /\ s.commands = relay.commands /\ s.pending = relay.pending \ {d}
        /\ s.pipes = relay.pipes \ {d}
        /\ s.cancellations = relay.cancellations /\ s.abandoned = relay.abandoned
        /\ s.poll = relay.poll
    BY <1>1 DEF RelayStates
  <2> HIDE DEF s
  <2>3. PICK r \in DialStates :
              /\ dials' = [dials EXCEPT ![d] = r]
              /\ r.session = dials[d].session /\ r.id = dials[d].id
              /\ r.stage = dials[d].stage /\ r.outcome = dials[d].outcome
              /\ r.crossed = dials[d].crossed
              /\ r.response # dials[d].response =>
                    d \in relay.pending /\ r.response = "refused"
    <3>1. CASE d \in relay.pipes
      BY <1>5, <2>1, <3>1
    <3>2. CASE d \notin relay.pipes
      BY <2>1, <3>2, RespondMeans
    <3> QED BY <3>1, <3>2
  <2>4. /\ r.response # dials[d].response =>
              dials[d].response = "none" /\ r.response \in {"pipe", "refused"}
        /\ \A e \in Dials \ {d} :
              /\ e \in s.pending <=> e \in relay.pending
              /\ e \in s.pipes <=> e \in relay.pipes
        /\ d \notin s.pending /\ d \notin s.pipes \ relay.pipes
    BY <1>5, <2>2, <2>3 DEF KnownOK
  <2>5. "gone" \in {gateway[d], "gone"}
    OBVIOUS
  <2> QED BY <1>2, <1>4, <2>1, <2>2, <2>3, <2>4, <2>5, FrameStep
<1>10. CASE UNCHANGED <<dials, relay, gateway>>
  <2>1. /\ dials' = [dials EXCEPT ![d] = dials[d]]
        /\ gateway' = [gateway EXCEPT ![d] = gateway[d]]
        /\ relay' = relay /\ gateway[d] \in {gateway[d], "gone"}
    BY <1>5, <1>10
  <2> QED BY <1>1, <1>2, <1>4, <1>5, <2>1, FrameStep
<1> QED BY <1>6, <1>7, <1>8, <1>9, <1>10

-----------------------------------------------------------------------------
(***************************************************************************)
(* The session task takes the oldest command.  Whether or not its DIAL is  *)
(* written, the dial is pending.                                           *)
(***************************************************************************)
LEMMA OnCommandKeeps ==
    ASSUME DialInv, OnCommand
    PROVE  DialInv'
<1> DEFINE q == relay.commands
           d == Head(q)
           s == [relay EXCEPT !.commands = Tail(@), !.pending = @ \union {d}]
           w == [dial |-> d, session |-> relay.serial, id |-> dials[d].id]
<1>1. /\ dials \in [Dials -> DialStates] /\ relay \in RelayStates
      /\ gateway \in [Dials -> {"none", "dialling", "open", "gone"}]
      /\ inbox \in Seq(Frames) /\ q \in Seq(Dials)
      /\ wire \in Seq([dial : Dials, session : Nat, id : Nat])
      /\ \A e \in Dials : KnownOK(e) /\ CallerOK(e)
      /\ GatewayOK /\ WireOK /\ CommandsOK /\ LockOK
  BY DEF DialInv, DialTypes, RelayStates
<1>2. /\ q # << >> /\ relay' = s /\ UNCHANGED <<dials, inbox>> /\ loop = "select"
      /\ relay.poll = "commands"
  BY DEF OnCommand, Polls
<1>3. \/ /\ wire' = Append(wire, w) /\ gateway' = [gateway EXCEPT ![d] = "dialling"]
         /\ loop' = loop
      \/ UNCHANGED <<wire, gateway>> /\ loop' = "cleanup"
  BY DEF OnCommand, WriteFails, vars, session
<1>4. /\ 1 \in DOMAIN q /\ d = q[1] /\ d \in Dials /\ Tail(q) \in Seq(Dials)
      /\ \A i \in DOMAIN Tail(q) :
            i \in Nat /\ 1 < i + 1 /\ i + 1 \in DOMAIN q /\ Tail(q)[i] = q[i + 1]
      /\ \A i \in DOMAIN q : i # 1 => i - 1 \in DOMAIN Tail(q) /\ Tail(q)[i - 1] = q[i]
  BY <1>1, <1>2, TailMeans
<1>5. /\ s \in RelayStates /\ s.serial = relay.serial /\ s.next = relay.next
      /\ s.commands = Tail(q) /\ s.pending = relay.pending \union {d}
      /\ s.pipes = relay.pipes /\ s.poll = relay.poll
      /\ s.cancellations = relay.cancellations /\ s.abandoned = relay.abandoned
  BY <1>1, <1>4 DEF RelayStates
<1> HIDE DEF s
<1>6. Queued(d)
  BY <1>4 DEF Queued
<1>7. /\ gateway[d] = "none" /\ ~ Wired(d) /\ dials[d].response = "none"
      /\ dials[d].session = relay.serial /\ dials[d].stage \in {"waiting", "done"}
      /\ Owned(d) \/ Noted(d) \/ dials[d].crossed
      /\ d \notin relay.pipes \union relay.abandoned
      /\ dials[d].outcome # "NotObserved"
  BY <1>1, <1>4, <1>6 DEF KnownOK, CallerOK
<1>9. /\ \A e \in Dials : Queued(e)' => Queued(e) /\ e # d /\ dials[d].id < dials[e].id
      /\ \A e \in Dials \ {d} : Queued(e) => Queued(e)'
  <2>1. ASSUME NEW e \in Dials, Queued(e)'
        PROVE  Queued(e) /\ e # d /\ dials[d].id < dials[e].id
    <3>1. PICK i \in DOMAIN Tail(q) : Tail(q)[i] = e
      BY <2>1, <1>2, <1>5 DEF Queued
    <3>2. /\ 1 < i + 1 /\ i + 1 \in DOMAIN q /\ q[i + 1] = e
      BY <3>1, <1>4
    <3>3. q[1] # q[i + 1] /\ dials[q[1]].id < dials[q[i + 1]].id
      BY <3>2, <1>1, <1>4 DEF CommandsOK
    <3> QED BY <3>2, <3>3, <1>4 DEF Queued
  <2>2. ASSUME NEW e \in Dials \ {d}, Queued(e) PROVE Queued(e)'
    <3>1. PICK i \in DOMAIN q : q[i] = e
      BY <2>2 DEF Queued
    <3>2. i # 1
      BY <3>1, <2>2, <1>4
    <3>3. i - 1 \in DOMAIN Tail(q) /\ Tail(q)[i - 1] = e
      BY <3>1, <3>2, <1>4
    <3> QED BY <3>3, <1>2, <1>5 DEF Queued
  <2> QED BY <2>1, <2>2
<1>10. /\ DOMAIN wire \subseteq DOMAIN wire'
       /\ wire' \in Seq([dial : Dials, session : Nat, id : Nat])
       /\ \A i \in DOMAIN wire : wire'[i] = wire[i]
       /\ \A i \in DOMAIN wire' \ DOMAIN wire :
             /\ i = Len(wire) + 1 /\ wire'[i] = w
             /\ wire'[i].dial = d /\ wire'[i].session = relay.serial
             /\ wire'[i].id = dials[d].id
       /\ DOMAIN wire' \subseteq DOMAIN wire \union {Len(wire) + 1}
       /\ \A i \in DOMAIN wire : i \in Nat /\ i < Len(wire) + 1
       /\ Len(wire) \in Nat
  <2>1. w \in [dial : Dials, session : Nat, id : Nat]
    BY <1>1, <1>4 DEF RelayStates, DialStates
  <2>2. Len(wire) \in Nat /\ DOMAIN wire = 1 .. Len(wire)
    BY <1>1, LenProperties
  <2>3. CASE wire' = Append(wire, w)
    <3>1. /\ wire' \in Seq([dial : Dials, session : Nat, id : Nat])
          /\ wire'[Len(wire) + 1] = w
          /\ DOMAIN wire' = DOMAIN wire \union {Len(wire) + 1}
          /\ \A i \in DOMAIN wire : i \in Nat /\ i < Len(wire) + 1 /\ wire'[i] = wire[i]
      BY <1>1, <2>1, <2>3, AppendMeans
    <3> QED BY <3>1, <2>2
  <2>4. CASE wire' = wire
    BY <1>1, <2>2, <2>4
  <2> QED BY <1>3, <2>3, <2>4
<1> HIDE DEF d, w
<1>11. \A e \in Dials \ {d} : (Wired(e)' <=> Wired(e)) /\ gateway'[e] = gateway[e]
  <2>1. \A e \in Dials \ {d} : gateway'[e] = gateway[e]
    BY <1>1, <1>3
  <2>2. \A e \in Dials \ {d} : Wired(e)' <=> Wired(e)
    BY <1>10 DEF Wired
  <2> QED BY <2>1, <2>2
<1>12. /\ gateway' \in [Dials -> {"none", "dialling", "open", "gone"}]
       /\ loop' \notin {"drain", "connect", "closed"}
  BY <1>1, <1>2, <1>3
<1>13. DialTypes'
  BY <1>1, <1>2, <1>5, <1>10, <1>12 DEF DialTypes
<1>14. ASSUME NEW e \in Dials PROVE KnownOK(e)' /\ CallerOK(e)'
  <2>1. KnownOK(e) /\ CallerOK(e)
    BY <1>1
  <2>2. CASE e = d
    <3>1. ~ Queued(e)'
      BY <2>2, <1>9
    <3>2. KnownOK(e)'
      BY <2>2, <3>1, <1>2, <1>5, <1>7, <1>12 DEF KnownOK, Owned, Noted
    <3>3. CallerOK(e)'
      BY <2>1, <2>2, <1>2, <1>5, <1>7 DEF CallerOK
    <3> QED BY <3>2, <3>3
  <2>3. CASE e # d
    <3>1. (Queued(e)' <=> Queued(e)) /\ (Wired(e)' <=> Wired(e)) /\ gateway'[e] = gateway[e]
      BY <2>3, <1>9, <1>11
    <3>2. e \in relay'.pending <=> e \in relay.pending
      BY <2>3, <1>2, <1>5
    <3>3. KnownOK(e)'
      BY <2>1, <3>1, <3>2, <1>2, <1>5, <1>12 DEF KnownOK, Owned, Noted
    <3>4. CallerOK(e)'
      BY <2>1, <3>1, <1>2, <1>5 DEF CallerOK
    <3> QED BY <3>3, <3>4
  <2> QED BY <2>2, <2>3
<1>15. GatewayOK'
  <2>1. ASSUME NEW e \in Dials, gateway'[e] \in {"dialling", "open"}
        PROVE  e \in relay'.pending \union relay'.pipes
    BY <2>1, <1>1, <1>2, <1>5, <1>11 DEF GatewayOK
  <2>2. ASSUME NEW i \in DOMAIN inbox
        PROVE  gateway'[inbox[i].dial] \in
                  IF inbox[i].kind = "OPENED" THEN {"open", "gone"} ELSE {"gone"}
    <3>1. inbox[i].dial \in Dials
      BY SequencesMean DEF DialInv, Frames
    <3>2. gateway[inbox[i].dial] \in
             IF inbox[i].kind = "OPENED" THEN {"open", "gone"} ELSE {"gone"}
      BY <1>1 DEF GatewayOK
    <3>3. inbox[i].dial # d
      BY <3>2, <1>7
    <3> QED BY <3>1, <3>2, <3>3, <1>11
  <2> QED BY <2>1, <2>2, <1>2 DEF GatewayOK
<1>16. \A e \in Dials : Sends(e)' <=> Sends(e)
  BY <1>2, <1>5 DEF Sends
<1>17. /\ dials[d].id < relay.next /\ \A e \in Dials : Sends(e) => dials[d].id < dials[e].id
  BY <1>1, <1>4 DEF CommandsOK
<1>18. WireOK'
  <2>1. \A i \in DOMAIN wire : wire[i] \in [dial : Dials, session : Nat, id : Nat]
    BY SequencesMean DEF DialInv
  <2>2. \A i \in DOMAIN wire :
           /\ wire[i].dial # d /\ wire[i].session = dials[wire[i].dial].session
           /\ wire[i].session = relay.serial => wire[i].id < dials[d].id
    BY <1>1, <1>4, <1>6, <1>7 DEF WireOK, Wired
  <2>3. ASSUME NEW i \in DOMAIN wire', NEW j \in DOMAIN wire', i < j
        PROVE  /\ wire'[i].dial # wire'[j].dial
               /\ wire'[i].session = wire'[j].session => wire'[i].id < wire'[j].id
    <3>1. CASE j \in DOMAIN wire
      <4>1. i \in DOMAIN wire
        BY <2>3, <3>1, <1>10
      <4>2. /\ wire[i].dial # wire[j].dial
            /\ wire[i].session = wire[j].session => wire[i].id < wire[j].id
        BY <4>1, <3>1, <2>3, <1>1 DEF WireOK
      <4>3. wire'[i] = wire[i] /\ wire'[j] = wire[j]
        BY <4>1, <3>1, <1>10
      <4> QED BY <4>2, <4>3
    <3>2. CASE j \notin DOMAIN wire
      <4>1. i \in DOMAIN wire
        <5>1. j = Len(wire) + 1 /\ i # Len(wire) + 1
          BY <2>3, <3>2, <1>10
        <5> QED BY <5>1, <1>10
      <4> QED BY <4>1, <3>2, <2>2, <1>10
    <3> QED BY <3>1, <3>2
  <2>4. ASSUME NEW i \in DOMAIN wire', wire'[i].session = relay.serial
        PROVE  /\ wire'[i].id < relay.next
               /\ \A e \in Dials : (Queued(e) \/ Sends(e))' => wire'[i].id < dials[e].id
    <3>1. CASE i \in DOMAIN wire
      BY <2>4, <3>1, <1>1, <1>9, <1>10, <1>16 DEF WireOK
    <3>2. CASE i \notin DOMAIN wire
      BY <3>2, <1>9, <1>10, <1>16, <1>17
    <3> QED BY <3>1, <3>2
  <2>5. \A i \in DOMAIN wire' : wire'[i].session = dials[wire'[i].dial].session
    BY <2>2, <1>7, <1>10
  <2> QED BY <2>3, <2>4, <2>5, <1>2, <1>5 DEF WireOK
<1>19. CommandsOK'
  <2>1. \A i \in DOMAIN q :
           /\ dials[q[i]].id < relay.next
           /\ \A j \in DOMAIN q : i < j => q[i] # q[j] /\ dials[q[i]].id < dials[q[j]].id
           /\ \A e \in Dials : Sends(e) => dials[q[i]].id < dials[e].id
    BY <1>1 DEF CommandsOK
  <2>2. \A i \in DOMAIN Tail(q) :
           /\ dials[Tail(q)[i]].id < relay.next
           /\ \A e \in Dials : Sends(e) => dials[Tail(q)[i]].id < dials[e].id
    BY <2>1, <1>4
  <2>3. ASSUME NEW i \in DOMAIN Tail(q), NEW j \in DOMAIN Tail(q), i < j
        PROVE  /\ Tail(q)[i] # Tail(q)[j]
               /\ dials[Tail(q)[i]].id < dials[Tail(q)[j]].id
    <3>1. i + 1 < j + 1 /\ i + 1 \in DOMAIN q /\ j + 1 \in DOMAIN q
      BY <2>3, <1>4
    <3> QED BY <3>1, <2>1, <1>4
  <2>4. relay'.commands = Tail(q) /\ relay'.next = relay.next
    BY <1>2, <1>5
  <2> HIDE DEF q
  <2> QED BY <2>2, <2>3, <2>4, <1>2, <1>16 DEF CommandsOK
<1>20. LockOK'
  BY <1>1, <1>2, <1>5, <1>16 DEF LockOK
<1> QED BY <1>13, <1>14, <1>15, <1>18, <1>19, <1>20 DEF DialInv

-----------------------------------------------------------------------------
(***************************************************************************)
(* The end of a session, and the next one.                                 *)
(***************************************************************************)
LEMMA EndDialsKeeps ==
    ASSUME DialInv, EndDials
    PROVE  DialInv'
<1> DEFINE s == [NewSession(relay.serial) EXCEPT !.next = relay.next]
<1>1. /\ dials \in [Dials -> DialStates] /\ relay \in RelayStates
      /\ gateway \in [Dials -> {"none", "dialling", "open", "gone"}]
      /\ relay.commands \in Seq(Dials)
      /\ wire \in Seq([dial : Dials, session : Nat, id : Nat])
      /\ \A e \in Dials : KnownOK(e) /\ CallerOK(e)
      /\ GatewayOK /\ WireOK /\ CommandsOK /\ LockOK
  BY DEF DialInv, DialTypes, RelayStates
<1>2. /\ relay' = s /\ inbox' = << >> /\ wire' = wire
      /\ gateway' = [d \in Dials |-> IF gateway[d] = "none" THEN "none" ELSE "gone"]
  BY DEF EndDials
<1>3. /\ s \in RelayStates /\ s.serial = relay.serial /\ s.next = relay.next
      /\ s.commands = << >> /\ s.pending = {} /\ s.pipes = {}
      /\ s.cancellations = {} /\ s.abandoned = {}
  BY <1>1, EmptySeq DEF RelayStates, NewSession
<1> HIDE DEF s
<1>4. \A e \in Dials : e \in ToSet(relay.commands) <=> Queued(e)
  BY DEF ToSet, Queued
<1>5. ASSUME NEW d \in Dials
      PROVE  \E r \in DialStates :
                /\ dials'[d] = r /\ r.session = dials[d].session /\ r.id = dials[d].id
                /\ r.stage = dials[d].stage /\ r.outcome = dials[d].outcome
                /\ \/ r.response = dials[d].response
                   \/ Queued(d) /\ r.response = "NotObserved" /\ r.stage = "waiting"
                   \/ /\ d \in relay.pending /\ r.response = "MaybeObserved"
                      /\ r.stage = "waiting"
  <2>1. /\ ~ At(d, "waiting") => dials'[d] = dials[d]
        /\ At(d, "waiting") /\ d \in ToSet(relay.commands) =>
              dials'[d] = [dials[d] EXCEPT !.response = "NotObserved"]
        /\ At(d, "waiting") /\ d \notin ToSet(relay.commands) /\ d \in relay.pending =>
              dials'[d] = [dials[d] EXCEPT !.response = "MaybeObserved"]
        /\ At(d, "waiting") /\ d \notin ToSet(relay.commands) /\ d \notin relay.pending =>
              dials'[d] = dials[d]
    BY DEF EndDials
  <2>2. dials[d] \in DialStates
    BY <1>1
  <2>3. CASE dials'[d] = dials[d]
    BY <2>2, <2>3
  <2>4. CASE At(d, "waiting") /\ d \in ToSet(relay.commands)
    <3> DEFINE r == [dials[d] EXCEPT !.response = "NotObserved"]
    <3>1. /\ r \in DialStates /\ r.session = dials[d].session /\ r.id = dials[d].id
          /\ r.stage = dials[d].stage /\ r.outcome = dials[d].outcome
          /\ r.response = "NotObserved"
      BY <2>2 DEF DialStates, Responses
    <3>2. dials'[d] = r /\ Queued(d) /\ dials[d].stage = "waiting"
      BY <2>1, <2>4, <1>4 DEF At
    <3> HIDE DEF r
    <3> QED BY <3>1, <3>2
  <2>5. CASE At(d, "waiting") /\ d \notin ToSet(relay.commands) /\ d \in relay.pending
    <3> DEFINE r == [dials[d] EXCEPT !.response = "MaybeObserved"]
    <3>1. /\ r \in DialStates /\ r.session = dials[d].session /\ r.id = dials[d].id
          /\ r.stage = dials[d].stage /\ r.outcome = dials[d].outcome
          /\ r.response = "MaybeObserved"
      BY <2>2 DEF DialStates, Responses
    <3>2. dials'[d] = r /\ dials[d].stage = "waiting"
      BY <2>1, <2>5 DEF At
    <3> HIDE DEF r
    <3> QED BY <3>1, <3>2, <2>5
  <2> QED BY <2>1, <2>3, <2>4, <2>5
<1>6. dials' = [d \in Dials |-> dials'[d]]
  BY DEF EndDials
<1>7. dials' \in [Dials -> DialStates]
  BY <1>5, <1>6
<1>8. gateway' \in [Dials -> {"none", "dialling", "open", "gone"}]
  BY <1>1, <1>2
<1>9. DialTypes'
  BY <1>1, <1>2, <1>3, <1>7, <1>8, EmptySeq DEF DialTypes
<1>10. \A e \in Dials : ~ Queued(e)' /\ (Wired(e)' <=> Wired(e))
  BY <1>2, <1>3 DEF Queued, Wired
<1>11. ASSUME NEW e \in Dials PROVE KnownOK(e)' /\ CallerOK(e)'
  <2>1. KnownOK(e) /\ CallerOK(e)
    BY <1>1
  <2>2. KnownOK(e)'
    BY <1>2, <1>3, <1>10 DEF KnownOK
  <2>3. CallerOK(e)'
    <3>1. PICK r \in DialStates :
                /\ dials'[e] = r /\ r.session = dials[e].session /\ r.id = dials[e].id
                /\ r.stage = dials[e].stage /\ r.outcome = dials[e].outcome
                /\ \/ r.response = dials[e].response
                   \/ Queued(e) /\ r.response = "NotObserved" /\ r.stage = "waiting"
                   \/ /\ e \in relay.pending /\ r.response = "MaybeObserved"
                      /\ r.stage = "waiting"
      BY <1>5
    <3>2. gateway[e] = "none" => gateway'[e] = "none"
      BY <1>2
    <3>3. r.session <= relay'.serial
      BY <2>1, <3>1, <1>2, <1>3 DEF CallerOK
    <3>4. CASE r.response = dials[e].response
      BY <2>1, <3>1, <3>2, <3>3, <3>4, <1>10 DEF CallerOK
    <3>5. CASE Queued(e) /\ r.response = "NotObserved" /\ r.stage = "waiting"
      BY <2>1, <3>1, <3>3, <3>5, <1>10 DEF CallerOK, KnownOK
    <3>6. CASE e \in relay.pending /\ r.response = "MaybeObserved" /\ r.stage = "waiting"
      BY <2>1, <3>1, <3>3, <3>6, <1>10 DEF CallerOK, KnownOK
    <3> QED BY <3>1, <3>4, <3>5, <3>6
  <2> QED BY <2>2, <2>3
<1>12. GatewayOK'
  BY <1>2 DEF GatewayOK
<1>13. \A e \in Dials :
          /\ Sends(e)' => Sends(e)
          /\ dials'[e].id = dials[e].id /\ dials'[e].session = dials[e].session
  BY <1>2, <1>3, <1>5 DEF Sends
<1>14. WireOK'
  <2>1. \A i \in DOMAIN wire : wire[i].dial \in Dials
    BY SequencesMean DEF DialInv
  <2> QED BY <2>1, <1>1, <1>2, <1>3, <1>10, <1>13 DEF WireOK
<1>15. CommandsOK'
  BY <1>2, <1>3 DEF CommandsOK
<1>16. LockOK'
  BY <1>1, <1>2, <1>3, <1>13 DEF LockOK
<1> QED BY <1>9, <1>11, <1>12, <1>14, <1>15, <1>16 DEF DialInv

(* A new session knows no dial, and no dial has its number. *)
LEMMA StartDialsKeeps ==
    ASSUME DialInv, StartDials, loop = "connect"
    PROVE  DialInv'
<1>1. /\ dials \in [Dials -> DialStates] /\ relay \in RelayStates
      /\ wire \in Seq([dial : Dials, session : Nat, id : Nat])
      /\ \A e \in Dials : KnownOK(e) /\ CallerOK(e)
      /\ GatewayOK /\ WireOK /\ relay.serial \in Nat \ {0}
  BY DEF DialInv, DialTypes, RelayStates
<1>2. PICK k \in Nat \ {0} :
         /\ relay' = NewSession(k) /\ relay.serial <= k
         /\ \A e \in Dials : dials[e].session # k
  <2>1. CASE \E e \in Dials : dials[e].session = relay.serial
    <3>1. relay' = NewSession(relay.serial + 1)
      BY <2>1 DEF StartDials
    <3>2. \A e \in Dials : dials[e].session \in Nat /\ dials[e].session <= relay.serial
      BY <1>1 DEF CallerOK, DialStates
    <3>3. \A e \in Dials : dials[e].session # relay.serial + 1
      BY <3>2, <1>1
    <3>4. relay.serial + 1 \in Nat \ {0} /\ relay.serial <= relay.serial + 1
      BY <1>1
    <3> QED BY <3>1, <3>3, <3>4
  <2>2. CASE ~ \E e \in Dials : dials[e].session = relay.serial
    <3>1. relay' = NewSession(relay.serial) /\ relay.serial <= relay.serial
      BY <2>2, <1>1 DEF StartDials
    <3> QED BY <3>1, <2>2, <1>1
  <2> QED BY <2>1, <2>2
<1>3. UNCHANGED <<dials, gateway, inbox, wire>>
  BY DEF StartDials
<1>4. /\ relay' \in RelayStates /\ relay'.serial = k
      /\ relay'.commands = << >> /\ relay'.pending = {} /\ relay'.pipes = {}
      /\ relay'.cancellations = {} /\ relay'.abandoned = {}
  BY <1>2, EmptySeq DEF RelayStates, NewSession
<1>5. DialTypes'
  BY <1>3, <1>4 DEF DialInv, DialTypes
<1>6. \A e \in Dials : ~ Queued(e)' /\ (Wired(e)' <=> Wired(e))
  BY <1>3, <1>4 DEF Queued, Wired
<1>7. ASSUME NEW e \in Dials PROVE KnownOK(e)' /\ CallerOK(e)'
  <2>1. CallerOK(e)
    BY <1>1
  <2>2. KnownOK(e)'
    BY <1>4, <1>6 DEF KnownOK
  <2>3. dials[e].session <= k
    <3>1. dials[e].session \in Nat /\ dials[e].session <= relay.serial
      BY <1>1, <2>1 DEF CallerOK, DialStates
    <3> QED BY <3>1, <1>1, <1>2
  <2>4. CallerOK(e)'
    BY <2>1, <2>3, <1>3, <1>4, <1>6 DEF CallerOK
  <2> QED BY <2>2, <2>4
<1>8. GatewayOK'
  <2>1. \A e \in Dials : gateway[e] \notin {"dialling", "open"}
    BY <1>1 DEF GatewayOK, KnownOK
  <2> QED BY <2>1, <1>1, <1>3 DEF GatewayOK
<1>9. \A e \in Dials : ~ Sends(e)'
  BY <1>2, <1>3, <1>4 DEF Sends
<1>10. WireOK'
  <2>1. \A i \in DOMAIN wire : wire[i].dial \in Dials
    BY SequencesMean DEF DialInv
  <2>2. \A i \in DOMAIN wire :
           wire[i].session = dials[wire[i].dial].session /\ wire[i].session # k
    BY <2>1, <1>1, <1>2 DEF WireOK
  <2> QED BY <2>2, <1>1, <1>3, <1>4 DEF WireOK
<1>11. CommandsOK'
  BY <1>4 DEF CommandsOK
<1>12. LockOK'
  BY <1>9 DEF LockOK
<1> QED BY <1>5, <1>7, <1>8, <1>10, <1>11, <1>12 DEF DialInv

(* The session ends by its cleanup, and no other step of the Listeners     *)
(* takes it there.                                                         *)
LEMMA LoopMoves ==
    ASSUME Next
    PROVE  /\ OutsideNext => loop' = loop
           /\ loop' \in {"drain", "connect", "closed"} =>
                 loop \in {"drain", "connect", "closed"} \/ (loop = "cleanup" /\ loop' = "drain")
           /\ loop = "cleanup" => loop' \in {"cleanup", "drain"}
<1>1. ASSUME NEW l \in Listeners, ListenSteps(l) \/ HandleSteps(l)
      PROVE  loop' = loop
  BY <1>1 DEF ListenSteps, HandleSteps, ListenReturns, ListenFails, ListenClosed,
              ListenDeadline, LeaveListen, RemoveListen, Detach, DrainOwn, session
<1>2. ASSUME NEW l \in Listeners, AcceptSteps(l) PROVE loop' = loop
  BY <1>2 DEF AcceptSteps, AcceptEnds, AcceptLooks, AcceptLocks, AcceptHolds,
              AcceptUnchanged, session
<1>3. ASSUME NEW l \in Listeners, Application(l) \/ DeadlinePasses(l) PROVE loop' = loop
  BY <1>3 DEF Application, DeadlinePasses, Listen, ListenCancelled, LeaveListen,
              CloseListener, DropListener, EndHandle, Accept, AcceptDropped,
              AcceptUnchanged, session
<1>4. ASSUME RelayClose \/ RelayCloseAll \/ \E e \in timers : RetryTimer(e)
      PROVE  loop' = loop
  BY <1>4 DEF RelayClose, RelayCloseAll, RetryTimer, session
<1>5. ASSUME Gateway
      PROVE  loop # "cleanup" /\ loop' \notin {"drain", "connect", "closed"}
  <2>1. ASSUME NEW d \in Destinations, OnPublished(d)
        PROVE  loop # "cleanup" /\ loop' \notin {"drain", "connect", "closed"}
    BY <2>1 DEF OnPublished
  <2>2. ASSUME NEW d \in Destinations, NEW p \in BOOLEAN, OnPublishFailed(d, p)
        PROVE  loop # "cleanup" /\ loop' \notin {"drain", "connect", "closed"}
    BY <2>2 DEF OnPublishFailed
  <2> QED BY <1>5, <2>1, <2>2 DEF Gateway
<1>6. ASSUME NEW d \in Destinations, OnToken(d)
      PROVE  loop # "cleanup" /\ loop' \notin {"drain", "connect", "closed"}
  BY <1>6 DEF OnToken
<1>7. ASSUME Faults PROVE loop' = loop \/ loop' = "cleanup"
  BY <1>7 DEF Faults, SessionBreaks, RegistrationDeadline, OnOffer, QueuedPipeEnds, session
<1>8. ASSUME ReconcileSnapshot \/ Register \/ Settle \/ Notified \/ SessionCancelled
      PROVE  loop # "cleanup" /\ loop' \notin {"drain", "connect", "closed"}
  BY <1>8 DEF ReconcileSnapshot, Register, Settle, Notified, SessionCancelled
<1>9. ASSUME Cleanup \/ Drain \/ SessionEnded \/ Connect \/ Shutdown
      PROVE  \/ loop \in {"drain", "connect", "closed"}
             \/ loop = "cleanup" /\ loop' = "drain"
  BY <1>9 DEF Cleanup, Drain, SessionEnded, Connect, Shutdown
<1>10. ASSUME SessionTask
       PROVE  /\ loop' \in {"drain", "connect", "closed"} =>
                    \/ loop \in {"drain", "connect", "closed"}
                    \/ loop = "cleanup" /\ loop' = "drain"
              /\ loop = "cleanup" => loop' \in {"cleanup", "drain"}
  BY <1>6, <1>8, <1>9, <1>10 DEF SessionTask
<1>11. OutsideNext => loop' = loop
  BY <1>1, <1>2, <1>3, <1>4 DEF OutsideNext
<1>12. CASE SessionNext
  BY <1>5, <1>7, <1>10, <1>11, <1>12 DEF SessionNext
<1> QED BY <1>11, <1>12 DEF Next

(* A step of the Listeners that leaves the dials alone. *)
LEMMA DialsAloneKeeps ==
    ASSUME DialInv, UNCHANGED dialVars,
           loop' \in {"drain", "connect", "closed"} => loop \in {"drain", "connect", "closed"},
           loop = "cleanup" => loop' = "cleanup"
    PROVE  DialInv'
<1>1. UNCHANGED <<dials, relay, gateway, inbox, wire>>
  BY DEF dialVars
<1>2. DialTypes'
  BY <1>1 DEF DialInv, DialTypes
<1>3. \A e \in Dials : (Queued(e)' <=> Queued(e)) /\ (Wired(e)' <=> Wired(e))
                       /\ (Sends(e)' <=> Sends(e))
  BY <1>1 DEF Queued, Wired, Sends
<1>4. ASSUME NEW e \in Dials PROVE KnownOK(e)' /\ CallerOK(e)'
  <2>1. KnownOK(e) /\ CallerOK(e)
    BY DEF DialInv
  <2> QED BY <2>1, <1>1, <1>3 DEF KnownOK, CallerOK, Owned, Noted
<1>5. GatewayOK'
  BY <1>1 DEF DialInv, GatewayOK
<1>6. WireOK'
  BY <1>1, <1>3 DEF DialInv, WireOK
<1>7. CommandsOK'
  BY <1>1, <1>3 DEF DialInv, CommandsOK
<1>8. LockOK'
  BY <1>1, <1>3 DEF DialInv, LockOK
<1> QED BY <1>2, <1>4, <1>5, <1>6, <1>7, <1>8 DEF DialInv

-----------------------------------------------------------------------------
(***************************************************************************)
(* The whole Relay.                                                        *)
(***************************************************************************)
RelayInv == ListenerInv /\ DialInv

(* The Listeners of a Relay that has just connected. *)
LEMMA ListenerInitKeeps ==
    ASSUME NEW w \in Workloads, InitWith(w.calls, w.closes)
    PROVE  ListenerInv
<1> USE ListenerAssumption
<1>1. closer \in {"kept", "open"}
  BY DEF InitWith
<1>2. ~ Cancelled
  BY <1>1 DEF Cancelled
<1>3. /\ NewListener \in ListenerStates
      /\ StateOK(NewListener) /\ NewListener.life = "Pending"
      /\ NewListener.status = "Registering" /\ NewListener.progress = "Waiting"
  BY DEF NewListener, ListenerStates, StateOK, Statuses, Lifecycles, Progress
<1>0. [pipes |-> << >>, open |-> TRUE] \in Queues
  <2>1. << >> \in Seq({"live", "ended", "old"}) /\ Len(<< >>) = 0
    BY EmptySeq
  <2>2. QueueCapacity \in Nat /\ Len(<< >>) <= QueueCapacity
    BY <2>1
  <2>3. << >> \in BoundedSeq({"live", "ended", "old"}, QueueCapacity)
    BY <2>1, <2>2, BoundedSeqMeans
  <2> QED BY <2>3 DEF Queues
<1>4. TypeOK
  BY <1>0, <1>1, <1>3 DEF InitWith, TypeOK, Calls, Loops
<1>5. ASSUME NEW l \in Listeners
      PROVE  /\ state[l] = NewListener /\ calls[l] \in {"new", "gone"}
             /\ answer[l] = "none" /\ sent[l] = "no" /\ queue[l].pipes = << >>
             /\ DestinationOf[l] \in Destinations /\ desired[DestinationOf[l]] = NoListener
             /\ l # NoListener
  BY DEF InitWith
<1>6. ASSUME NEW l \in Listeners
      PROVE  /\ StateOK(state[l]) /\ CallOK(l) /\ HeldOK(l) /\ ActiveOK(l) /\ TruthOK(l)
             /\ QueueOK(l)
  <2>1. StateOK(state[l]) /\ CallOK(l)
    BY <1>3, <1>5 DEF CallOK, IsCurrentDesired
  <2>2. HeldOK(l)
    BY DEF HeldOK, InitWith
  <2>3. ActiveOK(l)
    BY <1>3, <1>5 DEF ActiveOK
  <2>4. TruthOK(l)
    BY <1>3, <1>5 DEF TruthOK
  <2>5. QueueOK(l)
    BY <1>5 DEF QueueOK
  <2> QED BY <2>1, <2>2, <2>3, <2>4, <2>5
<1>7. BooksOK
  BY DEF BooksOK, InitWith
<1>8. DueOK
  BY DEF DueOK, RetryOK, RetryIsReady, InitWith
<1> QED BY <1>4, <1>6, <1>7, <1>8 DEF ListenerInv

(* Its dials. *)
LEMMA DialInitKeeps ==
    ASSUME NEW callers, DialInit(callers), loop = "reconcile"
    PROVE  DialInv
<1> DEFINE o == [NewDial EXCEPT !.stage = "done"]
<1>1. /\ NewDial \in DialStates /\ NewDial.session = 0 /\ NewDial.response = "none"
      /\ NewDial.outcome = "none" /\ NewDial.stage = "new"
      /\ o \in DialStates /\ o.session = 0 /\ o.response = "none" /\ o.outcome = "none"
      /\ o.stage = "done"
  BY DEF NewDial, DialStates, Stages, Responses
<1>2. /\ dials = [d \in Dials |-> IF d \in callers THEN NewDial ELSE o]
      /\ relay = NewSession(1) /\ gateway = [d \in Dials |-> "none"]
      /\ inbox = << >> /\ wire = << >>
  BY DEF DialInit
<1> HIDE DEF o
<1>3. /\ relay \in RelayStates /\ relay.serial = 1
      /\ relay.commands = << >> /\ relay.pending = {} /\ relay.pipes = {}
      /\ relay.cancellations = {} /\ relay.abandoned = {}
  BY <1>2, EmptySeq DEF RelayStates, NewSession
<1>4. \A d \in Dials :
         /\ dials[d] \in DialStates /\ dials[d].session = 0 /\ dials[d].response = "none"
         /\ dials[d].outcome = "none" /\ dials[d].stage \in {"new", "done"}
         /\ gateway[d] = "none"
  BY <1>1, <1>2
<1>5. DialTypes
  BY <1>2, <1>3, <1>4, EmptySeq DEF DialTypes
<1>6. \A d \in Dials : ~ Queued(d) /\ ~ Wired(d) /\ ~ Sends(d)
  BY <1>2, <1>3, <1>4 DEF Queued, Wired, Sends
<1>7. \A d \in Dials : KnownOK(d)
  BY <1>3, <1>6 DEF KnownOK
<1>8. \A d \in Dials : CallerOK(d)
  BY <1>3, <1>4, <1>6 DEF CallerOK
<1>9. GatewayOK /\ WireOK /\ CommandsOK /\ LockOK
  BY <1>2, <1>3, <1>4, <1>6 DEF GatewayOK, WireOK, CommandsOK, LockOK
<1> QED BY <1>5, <1>7, <1>8, <1>9 DEF DialInv

(* A step that changes no variable. *)
LEMMA RelayStutters ==
    ASSUME RelayInv, UNCHANGED relayVars
    PROVE  RelayInv'
<1>1. UNCHANGED vars /\ UNCHANGED dialVars
  BY DEF relayVars
<1>2. loop' = loop
  BY <1>1 DEF vars, session
<1> QED BY <1>1, <1>2, ListenerStuttering, DialsAloneKeeps DEF RelayInv

(* Every step of the Relay keeps both halves of the invariant. *)
LEMMA RelayNextKeeps ==
    ASSUME RelayInv, RelayNext
    PROVE  RelayInv'
<1>0. /\ ListenerInv /\ DialInv /\ permit \in BOOLEAN
      /\ UNCHANGED vars => UNCHANGED loop
  BY DEF RelayInv, ListenerInv, TypeOK, vars, session
<1>1. CASE ListenerStep
  <2>1. Next
    BY <1>1 DEF ListenerStep, Next
  <2>2. ListenerInv'
    BY <1>0, <2>1, ListenerNextKeeps
  <2>3. CASE OutsideNext /\ UNCHANGED dialVars
    <3>1. loop' = loop
      BY <2>1, <2>3, LoopMoves
    <3> QED BY <1>0, <2>2, <2>3, <3>1, DialsAloneKeeps DEF RelayInv
  <2>4. CASE IF loop = "cleanup" /\ loop' = "drain" THEN EndDials
             ELSE IF loop = "connect" /\ loop' = "reconcile" THEN StartDials
             ELSE UNCHANGED dialVars
    <3>1. CASE loop = "cleanup" /\ loop' = "drain"
      BY <1>0, <2>2, <2>4, <3>1, EndDialsKeeps DEF RelayInv
    <3>2. CASE loop = "connect" /\ loop' = "reconcile"
      BY <1>0, <2>2, <2>4, <3>2, StartDialsKeeps DEF RelayInv
    <3>3. CASE /\ ~ (loop = "cleanup" /\ loop' = "drain")
               /\ ~ (loop = "connect" /\ loop' = "reconcile")
      <4>1. UNCHANGED dialVars
        BY <2>4, <3>3
      <4>2. /\ loop' \in {"drain", "connect", "closed"} =>
                  loop \in {"drain", "connect", "closed"}
            /\ loop = "cleanup" => loop' = "cleanup"
        BY <2>1, <3>3, LoopMoves
      <4> QED BY <1>0, <2>2, <4>1, <4>2, DialsAloneKeeps DEF RelayInv
    <3> QED BY <3>1, <3>2, <3>3
  <2> QED BY <1>1, <2>3, <2>4 DEF ListenerStep
<1>2. CASE OnCommand \/ \E d \in Dials : OnCancelled(d) \/ OnAbandoned(d)
  <2>1. DialInv'
    BY <1>0, <1>2, OnCommandKeeps, OnCancelledKeeps, OnAbandonedKeeps
  <2>2. /\ loop = "select"
        /\ UNCHANGED vars \/ WriteFails
    BY <1>2 DEF OnCommand, OnCancelled, OnAbandoned, TakesBack, Polls
  <2>3. CASE UNCHANGED vars
    BY <1>0, <2>1, <2>3, ListenerStuttering DEF RelayInv
  <2>4. CASE WriteFails
    <3>1. /\ loop' = "cleanup"
          /\ UNCHANGED <<application, sent, offers, registry, retry, closer, todo,
                         pend, committed, regs, held, drains>>
      BY <2>4 DEF WriteFails
    <3> QED BY <1>0, <2>1, <2>2, <3>1, LoopStep DEF RelayInv, registry
  <2> QED BY <2>2, <2>3, <2>4
<1>3. CASE CancelledByDial
  <2>1. /\ loop = "select" /\ loop' = "cleanup" /\ UNCHANGED dialVars
        /\ UNCHANGED <<application, sent, offers, registry, retry, closer, todo,
                       pend, committed, regs, held, drains>>
    BY <1>3 DEF CancelledByDial, Polls
  <2>2. ListenerInv'
    BY <1>0, <2>1, LoopStep DEF registry
  <2>3. DialInv'
    BY <1>0, <2>1, DialsAloneKeeps
  <2> QED BY <2>2, <2>3 DEF RelayInv
<1>4. CASE OnDialFrame
  <2>1. UNCHANGED vars
    BY <1>4 DEF OnDialFrame
  <2> QED BY <1>0, <1>4, <2>1, OnDialFrameKeeps, ListenerStuttering DEF RelayInv
<1>5. ASSUME NEW d \in Dials,
             \/ Dial(d) \/ DialSteps(d) \/ DialDeadline(d)
             \/ DialDropped(d) \/ DropPipe(d) \/ GatewayAnswers(d)
      PROVE  RelayInv'
  <2>1. UNCHANGED vars
    BY <1>5 DEF Dial, DialSteps, DialDeadline, DialDropped,
                DropPipe, GatewayAnswers, DialLooks, DialToken, DialLocks, DialSends,
                DialPushes, DialRetries, DialReturns, DialClosed, OnlyDial
  <2>2. DialInv'
    BY <1>0, <1>5, <2>1, EarlyActionsKeep,
       DialLooksKeeps, DialLocksKeeps, DialPushesKeeps, DialReturnsKeeps,
       DialDeadlineKeeps, DialDroppedKeeps, DropPipeKeeps, GatewayAnswersKeeps
       DEF DialSteps
  <2> QED BY <1>0, <2>1, <2>2, ListenerStuttering DEF RelayInv
<1>6. CASE FindsNoCommand \/ FindsNoCancellation \/ FindsNothing
  <2>1. UNCHANGED vars
    BY <1>6 DEF FindsNoCommand, FindsNoCancellation, FindsNothing
  <2> QED BY <1>0, <1>6, <2>1, PollKeeps, ListenerStuttering DEF RelayInv
<1> QED BY <1>1, <1>2, <1>3, <1>4, <1>5, <1>6 DEF RelayNext, SessionSteps

-----------------------------------------------------------------------------
(* The inductive invariant of a Relay holds in every reachable state of    *)
(* every workload: RelayInit establishes it and every action of the        *)
(* application, the session task, its supervisor and the Gateway keeps it. *)
THEOREM RelayInvariantHolds == RelaySpec => []RelayInv
<1>1. RelayInit => RelayInv
  <2> SUFFICES ASSUME NEW w \in Workloads, InitWith(w.calls, w.closes), DialInit(w.calls)
               PROVE  RelayInv
    BY DEF RelayInit
  <2>1. loop = "reconcile"
    BY DEF InitWith
  <2> QED BY <2>1, ListenerInitKeeps, DialInitKeeps DEF RelayInv
<1>2. RelayInv /\ [RelayNext]_relayVars => RelayInv'
  BY RelayNextKeeps, RelayStutters
<1> QED BY <1>1, <1>2, PTL DEF RelaySpec

(* At most one Listener of a destination is held by the Gateway, the       *)
(* session knows it, and an ACTIVE Listener is one of them.                *)
LEMMA InvMeansBindingsAgree ==
    ASSUME RelayInv
    PROVE  BindingsAgree
<1> USE ListenerAssumption
<1>1. /\ TypeOK /\ BooksOK /\ \A l \in Listeners : HeldOK(l) /\ ActiveOK(l)
  BY DEF RelayInv, ListenerInv
<1>2. held \subseteq Listeners
  BY <1>1 DEF TypeOK
<1>3. \A l \in held : l \in Listeners /\ DestinationOf[l] \in Destinations /\ l # NoListener
  BY <1>2
<1>4. \A l \in held :
         \/ regs[DestinationOf[l]] = l
         \/ DestinationOf[l] \in committed /\ pend[DestinationOf[l]] = l
  BY <1>1, <1>3 DEF HeldOK
<1>5. held \subseteq Registered \union {pend[d] : d \in committed}
  BY <1>3, <1>4 DEF Registered
<1>6. ASSUME NEW d \in Destinations
      PROVE  Cardinality({l \in held : DestinationOf[l] = d}) <= 1
  <2> DEFINE H == {l \in held : DestinationOf[l] = d}
  <2>1. ASSUME NEW l \in H, NEW m \in H PROVE l = m
    <3>1. /\ regs[d] = l \/ pend[d] = l
          /\ regs[d] = m \/ pend[d] = m
          /\ l # NoListener /\ m # NoListener
      BY <1>3, <1>4
    <3>2. pend[d] # NoListener => regs[d] = NoListener
      BY <1>1 DEF BooksOK
    <3> QED BY <3>1, <3>2
  <2>2. CASE H = {}
    <3>1. Cardinality(H) = 0
      BY <2>2, FS_EmptySet
    <3> QED BY <3>1
  <2>3. CASE H # {}
    <3>1. PICK l \in H : H = {l}
      BY <2>1, <2>3
    <3>2. Cardinality(H) = 1
      BY <3>1, FS_Singleton
    <3> QED BY <3>2
  <2> QED BY <2>2, <2>3
<1>7. ActiveIsRegistered
  <2> SUFFICES ASSUME NEW l \in Listeners, state[l].status = "Active"
               PROVE  regs[DestinationOf[l]] = l /\ l \in held
    BY DEF ActiveIsRegistered
  <2>1. regs[DestinationOf[l]] = l /\ DestinationOf[l] \in Destinations /\ l # NoListener
    BY <1>1 DEF ActiveOK
  <2> QED BY <2>1, <1>1 DEF BooksOK
<1> QED BY <1>1, <1>5, <1>6, <1>7 DEF BindingsAgree, BindingsAreKnown

(* Listeners, session and Gateway agree on the bindings in every reachable *)
(* state: however fast Listeners of a destination are closed and replaced  *)
(* (commit_registration_token, on_published, reconcile_registrations), at  *)
(* most one binding of it is held, the session knows it, and a Listener    *)
(* the application sees ACTIVE has one.                                    *)
THEOREM BindingsAgreeAlways == RelaySpec => []BindingsAgree
<1>1. RelayInv => BindingsAgree
  BY InvMeansBindingsAgree
<1> QED BY <1>1, RelayInvariantHolds, PTL

(* No wake-up of the session task is lost: whenever it waits in its select *)
(* and a reconcile would find work, the Notify holds a permit or a call    *)
(* that is about to notify is under way, and a scheduled retry has its     *)
(* timer (detach_listener, schedule_reconcile, on_token).                  *)
THEOREM ReconcileIsDueAlways == RelaySpec => []ReconcileIsDue
<1>1. RelayInv => ReconcileIsDue
  <2> SUFFICES ASSUME RelayInv, loop = "select", ~ Cancelled
               PROVE  /\ ~ ReconcileWork \/ permit \/ Notifying
                      /\ ~ RetryIsReady => epoch \in timers
    BY DEF ReconcileIsDue, Notifying
  <2>1. ReconcileWork => WorkBeyond({})
    BY DEF ReconcileWork, WorkBeyond
  <2> QED BY <2>1 DEF RelayInv, ListenerInv, DueOK, RetryOK
<1> QED BY <1>1, RelayInvariantHolds, PTL

(* A listen() that reports NotObserved has no PUBLISH out that was not     *)
(* refused; a dial() that does has no DIAL on the wire, no dial has two    *)
(* and the ids of a session's DIALs increase (dial_inner's lock,           *)
(* fail_queued_dials, terminate_initial_operation).                        *)
THEOREM CallsTellTruthAlways == RelaySpec => []CallsTellTruth
<1>1. RelayInv => CallsTellTruth
  <2> SUFFICES ASSUME RelayInv PROVE ListenTellsTruth /\ DialTellsTruth
    BY DEF CallsTellTruth
  <2>1. ListenTellsTruth
    BY DEF RelayInv, ListenerInv, TruthOK, ListenTellsTruth
  <2>2. \A d \in Dials : dials[d].outcome = "NotObserved" =>
           \A i \in DOMAIN wire : wire[i].dial # d
    BY DEF RelayInv, DialInv, CallerOK, Wired
  <2>3. DialTellsTruth
    BY <2>2 DEF RelayInv, DialInv, WireOK, DialTellsTruth
  <2> QED BY <2>1, <2>3
<1> QED BY <1>1, RelayInvariantHolds, PTL

(* No Pipe outlives its owner unnoticed: no queue of an open Listener      *)
(* holds a Pipe of an ended session, whatever the Gateway holds of a dial  *)
(* the session knows until a failed write ends it, and what the session    *)
(* knows has an owner or a note to take it back, although the select polls *)
(* its queues one after the other: only a DIAL that was queued in the      *)
(* middle of a poll may go out unowned, and never becomes a Pipe           *)
(* (DialGuard, on_opened, on_cancelled, on_abandoned,                      *)
(* cleanup_relay_session).                                                 *)
THEOREM PipesHaveOwnersAlways == RelaySpec => []PipesHaveOwners
<1>1. RelayInv => PipesHaveOwners
  <2> SUFFICES ASSUME RelayInv PROVE QueuesAreCurrent /\ DialledPipesAreKnown
    BY DEF PipesHaveOwners
  <2>1. QueuesAreCurrent
    BY DEF RelayInv, ListenerInv, QueueOK, QueuesAreCurrent
  <2>2. relay \in RelayStates /\ \A d \in Dials : KnownOK(d)
    BY DEF RelayInv, DialInv, DialTypes
  <2>3. \A d \in relay.pipes : Owned(d) \/ Noted(d)
    BY <2>2 DEF KnownOK, RelayStates
  <2>4. ASSUME NEW d \in ToSet(relay.commands) \union relay.pending
        PROVE  Owned(d) \/ Noted(d) \/ dials[d].crossed
    <3>1. \A i \in DOMAIN relay.commands : relay.commands[i] \in Dials
      BY SequencesMean DEF RelayInv, DialInv
    <3>2. d \in ToSet(relay.commands) => d \in Dials /\ Queued(d)
      BY <3>1 DEF ToSet, Queued
    <3>3. d \in relay.pending => d \in Dials
      BY <2>2 DEF RelayStates
    <3> QED BY <2>2, <2>4, <3>2, <3>3 DEF KnownOK
  <2>5. DialledPipesAreKnown
    BY <2>3, <2>4 DEF RelayInv, DialInv, GatewayOK, DialledPipesAreKnown
  <2> QED BY <2>1, <2>5
<1> QED BY <1>1, RelayInvariantHolds, PTL

=============================================================================
