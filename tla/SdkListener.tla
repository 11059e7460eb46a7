---------------------------- MODULE SdkListener ----------------------------
(***************************************************************************)
(* The Listener half of the SDK's Relay: listen() calls and Listener       *)
(* handles of the application, the registry of desired Listeners they      *)
(* share with the Relay's session task, the session task that keeps the    *)
(* Gateway's bindings equal to that registry, and the supervisor that      *)
(* replaces an ended session.                                              *)
(*                                                                         *)
(* Application tasks and the session task run on different threads.  Each  *)
(* action is what one of them does under one lock, or between two awaits   *)
(* where only its own state is touched.  The Gateway is external: it       *)
(* answers a PUBLISH with PUBLISHED or with a transient or a permanent     *)
(* PUBLISH_FAILED, sends OFFERs, and may lose the session.                 *)
(***************************************************************************)
EXTENDS Naturals, Sequences, FiniteSets, SequencesExt

CONSTANTS
    Listeners,      \* the listen() calls the application makes
    Destinations,   \* the names they publish
    DestinationOf,  \* the destination of each call
    NoListener,     \* no Listener: an empty entry of a map
    QueueCapacity,  \* max_pending_pipes_per_listener
    MaxOffers,      \* bound: the OFFERs the Gateway sends
    MaxBreaks,      \* bound: the sessions the transport or a deadline ends
    MaxEpoch,       \* bound: the republish retry epochs
    Operations,     \* of each call: what the application and its dialers do
    Workloads       \* the calls that are made, and whether the Relay may be closed

ASSUME ListenerAssumption ==
    /\ DestinationOf \in [Listeners -> Destinations]
    /\ NoListener \notin Listeners
    /\ QueueCapacity \in Nat \ {0}
    /\ MaxOffers \in Nat /\ MaxBreaks \in Nat /\ MaxEpoch \in Nat
    /\ \A l \in Listeners :
          Operations[l] \subseteq {"cancel", "close", "drop", "accept", "offer"}
    /\ \A w \in Workloads : w.closes \in BOOLEAN

VARIABLES
    state,    \* ListenerState of each call, under its runtime lock
    calls,    \* how far the listen() call, and then its handle, has come
    answer,   \* what listen() returned
    sent,     \* whether its PUBLISH went out, and whether it was refused
    accepts,  \* the accept() call of each handle
    lane,     \* who holds the incoming_rx lock: nobody or an accept()
    queue,    \* the incoming Pipes, and whether the queue is open
    offers,   \* OFFERs so far
    desired,  \* RelayInner.desired: the Listener each destination should have
    permit,   \* the stored permit of the reconcile Notify
    epoch,    \* republish_retry_epoch: odd while a retry is scheduled
    timers,   \* the epochs the retry timers were scheduled for
    closer,   \* Relay::close: never called, open, cancelled, close_all done
    loop,     \* where the supervisor and its session loop are
    todo,     \* the snapshot of desired that reconcile works on
    pend,     \* pending_by_destination: the Listener being registered
    committed,\* the destinations whose pending PUBLISH was committed
    regs,     \* registrations of the session
    held,     \* Listeners whose binding the Gateway may hold in this session
    drains,   \* queues_to_drain of an ended session
    breaks    \* sessions ended by the transport or a deadline so far

application == <<state, calls, answer, accepts, lane, queue>>
registry    == <<desired, permit>>
retry       == <<epoch, timers>>
session     == <<loop, todo, pend, committed, regs, held, drains, breaks>>
vars        == <<application, sent, offers, registry, retry, closer, session>>

Statuses     == {"Registering", "Active", "Suspended", "Blocked", "Closed"}
Lifecycles   == {"Pending", "Returned", "Terminal"}
Progress     == {"Waiting", "TokenSource", "Committed"}
Observations == {"NotObserved", "MaybeObserved", "Observed"}
Calls        == {"new", "waiting", "terminating", "held", "closing",
                 "dropping", "draining", "gone"}
Loops        == {"reconcile", "register", "settle", "select", "cleanup",
                 "drain", "connect", "closed"}

Cancelled == closer \in {"cancelled", "closed"}

----------------------------------------------------------------------------
(* One Listener's state: every operator is one critical section of its     *)
(* runtime lock.                                                           *)

NewListener ==
    [status |-> "Registering", life |-> "Pending", progress |-> "Waiting",
     error |-> "none", late |-> FALSE]

Publish(r, status, error) ==
    IF r.status = "Closed" THEN r
    ELSE [r EXCEPT !.status = status, !.error = error]

(* initial_deadline is looked at only while the lifecycle is Pending.      *)
End(r, status, error) ==
    Publish([r EXCEPT !.life = "Terminal", !.progress = "Waiting", !.late = FALSE],
            status, error)

\* Mutant of FailInitial: the end of the lifecycle is not published.
FailInitialSilently(r, error) ==
    IF r.life = "Pending" THEN [r EXCEPT !.life = "Terminal"] ELSE r

FailInitial(r, error) ==
    IF r.life = "Pending" THEN End(r, "Closed", error) ELSE r

SuspendOrFailInitial(r, recovery, initial) ==
    CASE r.life = "Pending"  -> End(r, "Closed", initial)
      [] r.life = "Returned" ->
            Publish([r EXCEPT !.progress = "Waiting"], "Suspended", recovery)
      [] r.life = "Terminal" -> r

HandlePrecommitSessionEnd(r) ==
    LET waiting == [r EXCEPT !.progress = "Waiting"] IN
    CASE r.life = "Pending"  -> Publish(waiting, "Registering", "none")
      [] r.life = "Returned" -> Publish(waiting, "Suspended", "NotObserved")
      [] r.life = "Terminal" -> waiting

Block(r, error) ==
    IF r.life = "Terminal" THEN r ELSE End(r, "Blocked", error)

Activate(r) == Publish([r EXCEPT !.progress = "Waiting"], "Active", "none")

Close(r) == End(r, "Closed", "none")

\* Mutant of BeginRegistrationCommit: the commit is recorded once the
\* Gateway has answered.
BeginCommitUnmarked(r) == Publish(r, "Registering", "none")

BeginRegistrationCommit(r) ==
    Publish([r EXCEPT !.progress = "Committed"], "Registering", "none")

(* What a terminated initial operation says of the Gateway.                *)
InitialObservation(r) ==
    IF r.progress = "Committed" THEN "MaybeObserved" ELSE "NotObserved"

TerminateInitial(r) ==
    IF r.life = "Pending" THEN End(r, "Closed", InitialObservation(r)) ELSE r

----------------------------------------------------------------------------
(* The registry the application and the session task share.                *)

Closed(l) == state[l].status = "Closed"

IsCurrentDesired(l) == desired[DestinationOf[l]] = l

Without(map, l) ==
    IF map[DestinationOf[l]] = l
    THEN [map EXCEPT ![DestinationOf[l]] = NoListener] ELSE map

(* remove_terminal_listener, after the listener's own lock was released.   *)
RemoveTerminalListener(l) ==
    /\ desired' = Without(desired, l)
    /\ permit' = TRUE

(* detach_listener notifies only when it was still the desired one.        *)
\* Mutant of DetachListener: the session task is left to find out.
DetachQuietly(l) ==
    /\ desired' = Without(desired, l)
    /\ UNCHANGED permit

DetachListener(l) ==
    /\ desired' = Without(desired, l)
    /\ permit' = (permit \/ IsCurrentDesired(l))

RetryIsReady == epoch % 2 = 0

\* Mutant of ScheduleReconcile: the epoch is taken and no timer started.
ScheduleWithoutTimer ==
    IF RetryIsReady THEN epoch' = epoch + 1 /\ UNCHANGED timers
    ELSE UNCHANGED retry

ScheduleReconcile ==
    IF RetryIsReady
    THEN /\ epoch' = epoch + 1
         /\ timers' = timers \union {epoch + 1}
    ELSE UNCHANGED retry

ResetRepublishBackoff ==
    /\ epoch' = IF RetryIsReady THEN epoch ELSE epoch + 1
    /\ UNCHANGED timers

(* The timer task: only the epoch it was scheduled for is made ready.      *)
\* Mutant of RetryTimer: the epoch is made ready and nobody is told.
RetryTimerQuiet(e) ==
    /\ e \in timers
    /\ timers' = timers \ {e}
    /\ epoch' = IF epoch = e THEN epoch + 1 ELSE epoch
    /\ UNCHANGED <<application, sent, offers, registry, closer, session>>

RetryTimer(e) ==
    /\ e \in timers
    /\ timers' = timers \ {e}
    /\ epoch' = IF epoch = e THEN epoch + 1 ELSE epoch
    /\ permit' = (permit \/ (epoch = e /\ ~Cancelled))
    /\ UNCHANGED <<application, sent, offers, desired, closer, session>>

(* close_all: the registry is drained and every Listener in it closed.     *)
CloseAll ==
    /\ state' = [l \in Listeners |->
                    IF IsCurrentDesired(l) THEN Close(state[l]) ELSE state[l]]
    /\ desired' = [d \in Destinations |-> NoListener]
    /\ permit' = TRUE

(* The session of a Relay just connected; the application will call        *)
(* listen() for the Listeners in callers.                                  *)
InitWith(callers, closes) ==
    /\ state = [l \in Listeners |-> NewListener]
    /\ calls = [l \in Listeners |-> IF l \in callers THEN "new" ELSE "gone"]
    /\ answer = [l \in Listeners |-> "none"]
    /\ sent = [l \in Listeners |-> "no"]
    /\ accepts = [l \in Listeners |-> "idle"]
    /\ lane = [l \in Listeners |-> "free"]
    /\ queue = [l \in Listeners |-> [pipes |-> << >>, open |-> TRUE]]
    /\ offers = 0
    /\ desired = [d \in Destinations |-> NoListener]
    /\ permit = FALSE
    /\ epoch = 0 /\ timers = {}
    /\ closer = IF closes THEN "open" ELSE "kept"
    /\ loop = "reconcile"
    /\ todo = {}
    /\ pend = [d \in Destinations |-> NoListener]
    /\ committed = {}
    /\ regs = [d \in Destinations |-> NoListener]
    /\ held = {} /\ drains = {} /\ breaks = 0

Init == \E w \in Workloads : InitWith(w.calls, w.closes)

----------------------------------------------------------------------------
(* listen()                                                                *)

(* A destination that is already desired is refused with AlreadyExists and *)
(* nothing changes.                                                        *)
Listen(l) ==
    /\ calls[l] = "new"
    /\ desired[DestinationOf[l]] = NoListener
    /\ desired' = [desired EXCEPT ![DestinationOf[l]] = l]
    /\ permit' = TRUE
    /\ calls' = [calls EXCEPT ![l] = "waiting"]
    /\ UNCHANGED <<state, answer, accepts, lane, queue, sent, offers, retry,
                   closer, session>>

(* The call sees ACTIVE and promotes the Listener under its lock.          *)
ListenReturns(l) ==
    /\ calls[l] = "waiting"
    /\ state[l].status = "Active" /\ state[l].life = "Pending"
    /\ state' = [state EXCEPT ![l].life = "Returned", ![l].late = FALSE]
    /\ calls' = [calls EXCEPT ![l] = "held"]
    /\ answer' = [answer EXCEPT ![l] = "ok"]
    /\ UNCHANGED <<accepts, lane, queue, sent, offers, registry, retry, closer,
                   session>>

(* Every other way out leaves the guard armed: it terminates what is still *)
(* pending and, with the next action, takes the Listener out of desired.   *)
LeaveListen(l, result) ==
    /\ calls[l] = "waiting"
    /\ state' = [state EXCEPT ![l] = TerminateInitial(@)]
    /\ calls' = [calls EXCEPT ![l] = "terminating"]
    /\ answer' = [answer EXCEPT ![l] = result]
    /\ UNCHANGED <<accepts, lane, queue, sent, offers, registry, retry, closer,
                   session>>

(* The stored error, or Error::closed when close() left none.              *)
ListenFails(l) ==
    /\ state[l].status \in {"Blocked", "Closed"}
    /\ LeaveListen(l, IF state[l].error = "none" THEN "closed" ELSE state[l].error)

ListenClosed(l) ==
    /\ Cancelled
    /\ state[l].status \in {"Registering", "Suspended"}
    /\ LeaveListen(l, "closed")

(* The deadline leaves a Listener that became ACTIVE to the loop's reading *)
(* of the status.                                                          *)
ListenDeadline(l) ==
    /\ state[l].late
    /\ state[l].life = "Pending" /\ state[l].status # "Active"
    /\ LeaveListen(l, InitialObservation(state[l]))

ListenCancelled(l) ==
    /\ "cancel" \in Operations[l]
    /\ LeaveListen(l, "dropped")

RemoveListen(l) ==
    /\ calls[l] = "terminating"
    /\ RemoveTerminalListener(l)
    /\ calls' = [calls EXCEPT ![l] = "gone"]
    /\ UNCHANGED <<state, answer, accepts, lane, queue, sent, offers, retry,
                   closer, session>>

(* initial_deadline passes.                                                *)
DeadlinePasses(l) ==
    /\ calls[l] = "waiting" /\ state[l].life = "Pending" /\ ~state[l].late
    /\ state' = [state EXCEPT ![l].late = TRUE]
    /\ UNCHANGED <<calls, answer, accepts, lane, queue, sent, offers, registry,
                   retry, closer, session>>

----------------------------------------------------------------------------
(* The handle: close() and drop, in the two steps of detach_listener.      *)

EndHandle(l, how) ==
    /\ calls[l] = "held"
    /\ state' = [state EXCEPT ![l] = Close(@)]
    /\ calls' = [calls EXCEPT ![l] = how]
    /\ UNCHANGED <<answer, accepts, lane, queue, sent, offers, registry, retry,
                   closer, session>>

CloseListener(l) == "close" \in Operations[l] /\ EndHandle(l, "closing")

DropListener(l) ==
    "drop" \in Operations[l] /\ accepts[l] = "idle" /\ EndHandle(l, "dropping")

Detach(l) ==
    /\ calls[l] \in {"closing", "dropping"}
    /\ DetachListener(l)
    /\ calls' = [calls EXCEPT ![l] = IF @ = "closing" THEN "draining" ELSE "gone"]
    /\ UNCHANGED <<state, answer, accepts, lane, queue, sent, offers, retry,
                   closer, session>>

Emptied(q, close) == [pipes |-> << >>, open |-> q.open /\ ~close]

(* close() waits for the lane to drop what was not accepted, with a        *)
(* timeout after which it gives up.                                        *)
DrainOwn(l) ==
    /\ calls[l] = "draining"
    /\ queue' \in {queue} \union
            (IF lane[l] = "free"
             THEN {[queue EXCEPT ![l] = Emptied(@, TRUE)]} ELSE {})
    /\ calls' = [calls EXCEPT ![l] = "gone"]
    /\ UNCHANGED <<state, answer, accepts, lane, sent, offers, registry, retry,
                   closer, session>>

(* accept(): it waits while the Listener is not ACTIVE, and holds the lane *)
(* only while it is.                                                       *)
AcceptUnchanged == UNCHANGED <<state, calls, answer, sent, offers, registry,
                               retry, closer, session>>

Accept(l) ==
    /\ "accept" \in Operations[l]
    /\ calls[l] \in {"held", "closing", "draining"} /\ accepts[l] = "idle"
    /\ accepts' = [accepts EXCEPT ![l] = "looking"]
    /\ UNCHANGED <<lane, queue>> /\ AcceptUnchanged

AcceptEnds(l) ==
    /\ accepts[l] = "looking"
    /\ state[l].status \in {"Blocked", "Closed"}
    /\ lane[l] = "free"
    /\ queue' = [queue EXCEPT ![l] = Emptied(@, TRUE)]
    /\ accepts' = [accepts EXCEPT ![l] = "idle"]
    /\ UNCHANGED lane /\ AcceptUnchanged

AcceptLooks(l) ==
    /\ accepts[l] = "looking"
    /\ state[l].status = "Active"
    /\ accepts' = [accepts EXCEPT ![l] = "locking"]
    /\ UNCHANGED <<lane, queue>> /\ AcceptUnchanged

(* A Pipe taken from the queue is returned only while the Listener is      *)
(* ACTIVE and the Pipe not terminal; otherwise it is dropped.              *)
Take(l) ==
    /\ queue[l].pipes # << >>
    /\ queue' = [queue EXCEPT ![l].pipes = Tail(@)]
    /\ lane' = [lane EXCEPT ![l] = "free"]
    /\ accepts' = [accepts EXCEPT ![l] =
            IF state[l].status = "Active" /\ Head(queue[l].pipes) = "live"
            THEN "idle" ELSE "looking"]

AcceptLocks(l) ==
    /\ accepts[l] = "locking" /\ lane[l] = "free"
    /\ \/ /\ state[l].status # "Active"
          /\ accepts' = [accepts EXCEPT ![l] = "looking"]
          /\ UNCHANGED <<lane, queue>>
       \/ state[l].status = "Active" /\ Take(l)
       \/ /\ state[l].status = "Active" /\ queue[l].pipes = << >>
          /\ accepts' = [accepts EXCEPT ![l] = "holding"]
          /\ lane' = [lane EXCEPT ![l] = "accept"]
          /\ UNCHANGED queue
    /\ AcceptUnchanged

(* The biased select: a status change releases the lane before the queue   *)
(* is looked at.                                                           *)
\* Mutant of AcceptHolds: the call waits for a Pipe and for nothing else.
AcceptHoldsOn(l) ==
    /\ accepts[l] = "holding"
    /\ Take(l)
    /\ AcceptUnchanged

AcceptHolds(l) ==
    /\ accepts[l] = "holding"
    /\ \/ /\ state[l].status # "Active"
          /\ accepts' = [accepts EXCEPT ![l] = "looking"]
          /\ lane' = [lane EXCEPT ![l] = "free"]
          /\ UNCHANGED queue
       \/ state[l].status = "Active" /\ Take(l)
    /\ AcceptUnchanged

AcceptDropped(l) ==
    /\ "cancel" \in Operations[l] /\ accepts[l] # "idle"
    /\ accepts' = [accepts EXCEPT ![l] = "idle"]
    /\ lane' = [lane EXCEPT ![l] = "free"]
    /\ UNCHANGED queue /\ AcceptUnchanged

(* Relay::close cancels the runtime and then drains the registry.          *)
RelayClose ==
    /\ closer = "open"
    /\ closer' = "cancelled"
    /\ UNCHANGED <<application, sent, offers, registry, retry, session>>

RelayCloseAll ==
    /\ closer = "cancelled"
    /\ CloseAll
    /\ closer' = "closed"
    /\ UNCHANGED <<calls, answer, accepts, lane, queue, sent, offers, retry,
                   session>>

----------------------------------------------------------------------------
(* The session task: reconcile_registrations.                              *)

Withdrawn(l) == ~IsCurrentDesired(l) \/ Closed(l)

AbandonedCommit == \E d \in committed : Withdrawn(pend[d])

StaleDestinations == {d \in Destinations : regs[d] # NoListener /\ Withdrawn(regs[d])}

Wanted == {desired[d] : d \in Destinations} \ {NoListener}

(* The snapshot is taken.  A committed PUBLISH whose Listener was given up *)
(* cannot be taken back, so the session ends; a registration whose         *)
(* Listener was given up is removed and UNPUBLISHed.                       *)
ReconcileSnapshot ==
    /\ loop = "reconcile"
    /\ IF AbandonedCommit
       THEN loop' = "cleanup" /\ UNCHANGED <<regs, held, todo>>
       ELSE /\ regs' = [d \in Destinations |->
                            IF d \in StaleDestinations THEN NoListener ELSE regs[d]]
            /\ held' = held \ {regs[d] : d \in StaleDestinations}
            /\ todo' = Wanted
            /\ loop' = "register"
    /\ UNCHANGED <<application, sent, offers, registry, retry, closer, pend,
                   committed, drains, breaks>>

(* A Listener whose registration is to be started.                         *)
NeedsRegistration(l) ==
    /\ IsCurrentDesired(l)
    /\ state[l].status \notin {"Blocked", "Closed"}
    /\ state[l].status = "Suspended" => RetryIsReady
    /\ regs[DestinationOf[l]] = NoListener
    /\ pend[DestinationOf[l]] = NoListener

TooLate(l) == state[l].life # "Returned" /\ state[l].late

Register ==
    LET start  == {l \in todo : NeedsRegistration(l)}
        failed == {l \in start : TooLate(l)}
        begun  == {l \in start \ failed : state[l].life # "Terminal"}
    IN  /\ loop = "register"
        /\ state' = [l \in Listeners |->
              CASE l \in failed -> FailInitial(state[l], "NotObserved")
                [] l \in begun  -> [state[l] EXCEPT !.progress = "TokenSource"]
                [] OTHER        -> state[l]]
        /\ desired' = [d \in Destinations |->
              IF desired[d] \in failed THEN NoListener ELSE desired[d]]
        /\ permit' = (permit \/ failed # {})
        /\ pend' = [d \in Destinations |->
              IF \E l \in begun : DestinationOf[l] = d THEN desired[d] ELSE pend[d]]
        /\ todo' = {}
        /\ loop' = IF Cancelled THEN "cleanup" ELSE "settle"
        /\ UNCHANGED <<calls, answer, accepts, lane, queue, sent, offers, retry,
                       closer, committed, regs, held, drains, breaks>>

(* settle_reconnect: once every returned Listener is ACTIVE or BLOCKED the *)
(* shared republish backoff starts afresh.                                 *)
DesiredIsSettled ==
    \A l \in Wanted : state[l].life = "Returned" => state[l].status = "Active"

\* Mutant of Settle: the backoff is reset whatever the Listeners' status.
SettleAlways ==
    /\ loop = "settle"
    /\ ResetRepublishBackoff
    /\ loop' = "select"
    /\ UNCHANGED <<application, sent, offers, registry, closer, todo, pend,
                   committed, regs, held, drains, breaks>>

Settle ==
    /\ loop = "settle"
    /\ IF DesiredIsSettled THEN ResetRepublishBackoff ELSE UNCHANGED retry
    /\ loop' = "select"
    /\ UNCHANGED <<application, sent, offers, registry, closer, todo, pend,
                   committed, regs, held, drains, breaks>>

----------------------------------------------------------------------------
(* The session task: the arms of its select.  A frame is not sent once the *)
(* Relay is cancelled: the write fails and the session ends.               *)

Notified ==
    /\ loop = "select" /\ permit
    /\ permit' = FALSE
    /\ loop' = "reconcile"
    /\ UNCHANGED <<application, sent, offers, desired, retry, closer, todo, pend,
                   committed, regs, held, drains, breaks>>

Unpend(d) == pend' = [pend EXCEPT ![d] = NoListener]

(* An initial Listener that failed leaves the registry in the same breath. *)
FailInitialListener(l, error) ==
    /\ state' = [state EXCEPT ![l] = FailInitial(@, error)]
    /\ IF state[l].life = "Pending" THEN RemoveTerminalListener(l)
       ELSE UNCHANGED registry

(* A token arrives, or its supply failed.  A returned Listener's supply    *)
(* has a deadline of its own; an initial one retries what is transient     *)
(* until initial_deadline.                                                 *)
TokenOutcomes(l) ==
    IF Closed(l) THEN {"closed"}
    ELSE {"denied"} \union
         IF state[l].life = "Returned"
         THEN {"token"} \union IF epoch < MaxEpoch THEN {"unavailable"} ELSE {}
         ELSE IF state[l].late THEN {"unavailable"} ELSE {"token"}

(* The commit is marked under the Listener's lock before the frame is sent. *)
CommitToken(l, d) ==
    /\ IF state[l].life = "Terminal"
       THEN UNCHANGED <<state, committed, held, sent>> /\ Unpend(d)
       ELSE /\ state' = [state EXCEPT ![l] = BeginRegistrationCommit(@)]
            /\ committed' = committed \union {d}
            /\ IF Cancelled THEN UNCHANGED <<held, sent>>
               ELSE /\ held' = held \union {l}
                    /\ sent' = [sent EXCEPT ![l] = "sent"]
            /\ UNCHANGED pend
    /\ UNCHANGED <<queue, registry, retry>>

HandleTokenSourceError(l, d, outcome) ==
    /\ Unpend(d)
    /\ UNCHANGED <<committed, held, sent>>
    /\ IF state[l].life # "Returned"
       THEN FailInitialListener(l, "NotObserved") /\ UNCHANGED <<queue, retry>>
       ELSE IF outcome = "unavailable"
       THEN /\ state' = [state EXCEPT ![l] =
                 Publish([@ EXCEPT !.progress = "Waiting"], "Suspended", "NotObserved")]
            /\ ScheduleReconcile
            /\ UNCHANGED <<queue, registry>>
       ELSE /\ lane[l] = "free"
            /\ state' = [state EXCEPT ![l] = Block(@, "NotObserved")]
            /\ queue' = [queue EXCEPT ![l] = Emptied(@, TRUE)]
            /\ UNCHANGED <<registry, retry>>

(* commit_registration_token: a token that comes after its Listener was    *)
(* closed or replaced only frees the destination for the next reconcile.   *)
\* Mutant of OnToken: a late token frees the destination and tells nobody.
OnTokenQuiet(d) ==
    LET l == pend[d] IN
    /\ loop = "select" /\ l # NoListener /\ d \notin committed
    /\ IF Withdrawn(l)
       THEN /\ Unpend(d)
            /\ UNCHANGED <<state, queue, sent, registry, retry, committed, held>>
       ELSE \E outcome \in TokenOutcomes(l) :
              IF outcome = "token" THEN CommitToken(l, d)
              ELSE HandleTokenSourceError(l, d, outcome)
    /\ loop' = IF Cancelled /\ d \in committed' THEN "cleanup" ELSE "settle"
    /\ UNCHANGED <<calls, answer, accepts, lane, offers, closer, todo, regs,
                   drains, breaks>>

OnToken(d) ==
    LET l == pend[d] IN
    /\ loop = "select" /\ l # NoListener /\ d \notin committed
    /\ IF Withdrawn(l)
       THEN /\ Unpend(d) /\ permit' = TRUE
            /\ UNCHANGED <<state, queue, sent, desired, retry, committed, held>>
       ELSE \E outcome \in TokenOutcomes(l) :
              IF outcome = "token" THEN CommitToken(l, d)
              ELSE HandleTokenSourceError(l, d, outcome)
    /\ loop' = IF Cancelled /\ d \in committed' THEN "cleanup" ELSE "settle"
    /\ UNCHANGED <<calls, answer, accepts, lane, offers, closer, todo, regs,
                   drains, breaks>>

(* on_published: PUBLISHED for a Listener given up meanwhile is UNPUBLISHed. *)
\* Mutant of OnPublished: the binding of a Listener given up is forgotten.
OnPublishedForgets(d) ==
    LET l == pend[d] IN
    /\ loop = "select" /\ d \in committed
    /\ Unpend(d) /\ committed' = committed \ {d}
    /\ IF IsCurrentDesired(l) /\ state[l].life # "Terminal"
       THEN /\ state' = [state EXCEPT ![l] = Activate(@)]
            /\ regs' = [regs EXCEPT ![d] = l]
            /\ loop' = "settle"
       ELSE /\ loop' = "reconcile"
            /\ UNCHANGED <<state, regs>>
    /\ UNCHANGED <<calls, answer, accepts, lane, queue, sent, offers, registry,
                   retry, closer, todo, held, drains, breaks>>

OnPublished(d) ==
    LET l == pend[d] IN
    /\ loop = "select" /\ d \in committed
    /\ Unpend(d) /\ committed' = committed \ {d}
    /\ IF IsCurrentDesired(l) /\ state[l].life # "Terminal"
       THEN /\ state' = [state EXCEPT ![l] = Activate(@)]
            /\ regs' = [regs EXCEPT ![d] = l]
            /\ loop' = "settle"
            /\ UNCHANGED held
       ELSE /\ held' = held \ {l}
            /\ loop' = IF Cancelled THEN "cleanup" ELSE "reconcile"
            /\ UNCHANGED <<state, regs>>
    /\ UNCHANGED <<calls, answer, accepts, lane, queue, sent, offers, registry,
                   retry, closer, todo, drains, breaks>>

(* on_publish_failed.  The status is not ACTIVE, so an accept() that still *)
(* holds the lane is about to release it and the drain waits for that.     *)
OnPublishFailed(d, permanent) ==
    LET l == pend[d]
        r == [state[l] EXCEPT !.progress = "Waiting"]
    IN  /\ loop = "select" /\ d \in committed
        /\ state[l].life = "Returned" /\ ~permanent => epoch < MaxEpoch
        /\ Unpend(d) /\ committed' = committed \ {d}
        /\ held' = held \ {l}
        /\ sent' = [sent EXCEPT ![l] = "refused"]
        /\ \/ /\ Withdrawn(l)
              /\ state' = [state EXCEPT ![l] = r]
              /\ loop' = "reconcile"
              /\ UNCHANGED <<queue, registry, retry>>
           \/ /\ ~Withdrawn(l) /\ r.life # "Returned"
              /\ FailInitialListener(l, "NotObserved")
              /\ loop' = "reconcile"
              /\ UNCHANGED <<queue, retry>>
           \/ /\ ~Withdrawn(l) /\ r.life = "Returned" /\ lane[l] = "free"
              /\ state' = [state EXCEPT ![l] =
                    IF permanent THEN Block(r, "NotObserved")
                    ELSE Publish(r, "Suspended", "NotObserved")]
              /\ queue' = [queue EXCEPT ![l] = Emptied(@, permanent)]
              /\ IF permanent THEN UNCHANGED retry ELSE ScheduleReconcile
              /\ loop' = IF Cancelled THEN "cleanup" ELSE "settle"
              /\ UNCHANGED registry
        /\ UNCHANGED <<calls, answer, accepts, lane, offers, closer, todo, regs,
                       drains, breaks>>

(* The live Pipes of a queue, which are all alike. *)
LivePipes(pipes) ==
    [i \in 1 .. Cardinality({j \in DOMAIN pipes : pipes[j] = "live"}) |-> "live"]

(* on_offer: the Pipes that ended in the queue make room when no accept()  *)
(* holds the lane; an OFFER that is refused changes nothing.               *)
OnOffer(d) ==
    LET l    == regs[d]
        kept == IF lane[l] = "free" THEN LivePipes(queue[l].pipes) ELSE queue[l].pipes
    IN  /\ loop = "select" /\ l # NoListener
        /\ "offer" \in Operations[l] /\ offers < MaxOffers
        /\ IsCurrentDesired(l) /\ state[l].status = "Active"
        /\ queue[l].open /\ Len(kept) < QueueCapacity
        /\ queue' = [queue EXCEPT ![l].pipes = Append(kept, "live")]
        /\ offers' = offers + 1
        /\ UNCHANGED <<state, calls, answer, accepts, lane, sent, registry, retry,
                       closer, session>>

(* The dialer or the session ends a Pipe that nobody accepted yet.         *)
QueuedPipeEnds(l) ==
    /\ loop = "select"
    /\ \E i \in DOMAIN queue[l].pipes :
          /\ queue[l].pipes[i] = "live"
          /\ queue' = [queue EXCEPT ![l].pipes[i] = "ended"]
    /\ UNCHANGED <<state, calls, answer, accepts, lane, sent, offers, registry,
                   retry, closer, session>>

(* The transport fails or a heartbeat is not answered.                     *)
SessionBreaks ==
    /\ loop \in {"register", "select"} /\ breaks < MaxBreaks
    /\ loop' = "cleanup"
    /\ breaks' = breaks + 1
    /\ UNCHANGED <<application, sent, offers, registry, retry, closer, todo, pend,
                   committed, regs, held, drains>>

(* A committed PUBLISH not answered by its deadline ends the session.      *)
RegistrationDeadline(d) ==
    /\ loop = "select" /\ d \in committed /\ breaks < MaxBreaks
    /\ state[pend[d]].life = "Pending" => state[pend[d]].late
    /\ loop' = "cleanup"
    /\ breaks' = breaks + 1
    /\ UNCHANGED <<application, sent, offers, registry, retry, closer, todo, pend,
                   committed, regs, held, drains>>

SessionCancelled ==
    /\ loop = "select" /\ Cancelled
    /\ loop' = "cleanup"
    /\ UNCHANGED <<application, sent, offers, registry, retry, closer, todo, pend,
                   committed, regs, held, drains, breaks>>

----------------------------------------------------------------------------
(* The end of a session, and the supervisor.                               *)

Pended     == {pend[d] : d \in Destinations} \ {NoListener}
Registered == {regs[d] : d \in Destinations} \ {NoListener}

\* Mutant of AfterCleanup: only the registrations under way are told.
AfterCleanupPending(l) ==
    IF l \in {pend[d] : d \in committed}
    THEN SuspendOrFailInitial(state[l], "MaybeObserved", "MaybeObserved")
    ELSE state[l]

AfterCleanup(l) ==
    LET r == state[l] IN
    IF Closed(l) THEN r
    ELSE IF l \in Registered
         THEN SuspendOrFailInitial(r, "NotObserved", "Observed")
    ELSE IF l \in Pended /\ DestinationOf[l] \in committed
         THEN SuspendOrFailInitial(r, "MaybeObserved", "MaybeObserved")
    ELSE IF l \in Pended /\ IsCurrentDesired(l)
         THEN HandlePrecommitSessionEnd(r)
    ELSE r

(* Every Pipe of the session fails first; then every Listener that had a   *)
(* registration, or was getting one, leaves ACTIVE and its queue is noted. *)
Cleanup ==
    LET touched == Registered \union Pended
        failed  == {l \in touched : ~Closed(l) /\ AfterCleanup(l).status = "Closed"}
    IN  /\ loop = "cleanup"
        /\ state' = [l \in Listeners |-> AfterCleanup(l)]
        /\ queue' = [l \in Listeners |-> [queue[l] EXCEPT
                        !.pipes = [i \in DOMAIN queue[l].pipes |-> "old"]]]
        /\ desired' = [d \in Destinations |->
                        IF desired[d] \in failed THEN NoListener ELSE desired[d]]
        /\ permit' = (permit \/ failed # {})
        /\ drains' = {<<l, AfterCleanup(l).status \in {"Blocked", "Closed"}>> :
                        l \in touched}
        /\ pend' = [d \in Destinations |-> NoListener]
        /\ regs' = [d \in Destinations |-> NoListener]
        /\ committed' = {} /\ held' = {} /\ todo' = {}
        /\ loop' = "drain"
        /\ UNCHANGED <<calls, answer, accepts, lane, sent, offers, retry, closer,
                       breaks>>

Drain ==
    /\ loop = "drain"
    /\ \E q \in drains :
          /\ lane[q[1]] = "free"
          /\ queue' = [queue EXCEPT ![q[1]] = Emptied(@, q[2])]
          /\ drains' = drains \ {q}
    /\ UNCHANGED <<state, calls, answer, accepts, lane, sent, offers, registry,
                   retry, closer, loop, todo, pend, committed, regs, held, breaks>>

(* The supervisor waits out its backoff and establishes the next session,  *)
(* unless the Relay was closed.                                            *)
\* Mutant of SessionEnded: the replacement does not wait for the old queues.
SessionEndedEarly ==
    /\ loop = "drain"
    /\ loop' = "connect"
    /\ drains' = {}
    /\ UNCHANGED <<application, sent, offers, registry, retry, closer, todo, pend,
                   committed, regs, held, breaks>>

SessionEnded ==
    /\ loop = "drain" /\ drains = {}
    /\ loop' = "connect"
    /\ UNCHANGED <<application, sent, offers, registry, retry, closer, todo, pend,
                   committed, regs, held, drains, breaks>>

Connect ==
    /\ loop = "connect" /\ ~Cancelled
    /\ loop' = "reconcile"
    /\ UNCHANGED <<application, sent, offers, registry, retry, closer, todo, pend,
                   committed, regs, held, drains, breaks>>

Shutdown ==
    /\ loop = "connect" /\ Cancelled
    /\ CloseAll
    /\ loop' = "closed"
    /\ UNCHANGED <<calls, answer, accepts, lane, queue, sent, offers, retry, closer,
                   todo, pend, committed, regs, held, drains, breaks>>

----------------------------------------------------------------------------
ListenSteps(l) ==
    \/ ListenReturns(l) \/ ListenFails(l) \/ ListenClosed(l) \/ ListenDeadline(l)
    \/ RemoveListen(l)

HandleSteps(l) == Detach(l) \/ DrainOwn(l)

AcceptSteps(l) == AcceptEnds(l) \/ AcceptLooks(l) \/ AcceptLocks(l) \/ AcceptHolds(l)

Application(l) ==
    \/ Listen(l) \/ ListenCancelled(l) \/ CloseListener(l) \/ DropListener(l)
    \/ Accept(l) \/ AcceptDropped(l)

Gateway ==
    \E d \in Destinations : OnPublished(d) \/ \E p \in BOOLEAN : OnPublishFailed(d, p)

SessionTask ==
    \/ ReconcileSnapshot \/ Register \/ Settle \/ Notified
    \/ \E d \in Destinations : OnToken(d)
    \/ SessionCancelled \/ Cleanup \/ Drain \/ SessionEnded \/ Connect \/ Shutdown

Faults ==
    \/ SessionBreaks
    \/ \E d \in Destinations : RegistrationDeadline(d) \/ OnOffer(d)
    \/ \E l \in Listeners : QueuedPipeEnds(l)

(* The application's tasks and the timers, which run beside the session    *)
(* task, and the session task itself.                                      *)
OutsideNext ==
    \/ \E l \in Listeners :
          \/ ListenSteps(l) \/ HandleSteps(l) \/ AcceptSteps(l) \/ Application(l)
          \/ DeadlinePasses(l)
    \/ \E e \in timers : RetryTimer(e)
    \/ RelayClose \/ RelayCloseAll

SessionNext == Gateway \/ SessionTask \/ Faults

Next == OutsideNext \/ SessionNext

Spec == Init /\ [][Next]_vars

(* The session task and every call that is awaited are polled when they    *)
(* can go on, timers fire, token sources and the Gateway answer, and a     *)
(* session can be established in the end.                                  *)
Fairness ==
    /\ WF_vars(SessionTask) /\ WF_vars(Gateway)
    /\ \A l \in Listeners :
          /\ WF_vars(ListenSteps(l)) /\ WF_vars(HandleSteps(l))
          /\ WF_vars(AcceptSteps(l)) /\ WF_vars(DeadlinePasses(l))
    /\ \A e \in 1..MaxEpoch + 1 : WF_vars(RetryTimer(e))
    /\ WF_vars(RelayCloseAll)

FairSpec == Spec /\ Fairness

----------------------------------------------------------------------------
ListenerStates ==
    [status : Statuses, life : Lifecycles, progress : Progress,
     error : Observations \union {"none"}, late : BOOLEAN]

Queues ==
    [pipes : BoundedSeq({"live", "ended", "old"}, QueueCapacity), open : BOOLEAN]

(* Every variable has the shape its field has in the code. *)
TypeOK ==
    /\ state \in [Listeners -> ListenerStates]
    /\ calls \in [Listeners -> Calls]
    /\ answer \in [Listeners -> Observations \union {"none", "ok", "closed", "dropped"}]
    /\ sent \in [Listeners -> {"no", "sent", "refused"}]
    /\ accepts \in [Listeners -> {"idle", "looking", "locking", "holding"}]
    /\ lane \in [Listeners -> {"free", "accept"}]
    /\ queue \in [Listeners -> Queues]
    /\ desired \in [Destinations -> Listeners \union {NoListener}]
    /\ permit \in BOOLEAN
    /\ epoch \in Nat /\ timers \subseteq 1..epoch
    /\ closer \in {"kept", "open", "cancelled", "closed"}
    /\ loop \in Loops /\ todo \subseteq Listeners
    /\ pend \in [Destinations -> Listeners \union {NoListener}]
    /\ committed \subseteq {d \in Destinations : pend[d] # NoListener}
    /\ regs \in [Destinations -> Listeners \union {NoListener}]
    /\ held \subseteq Listeners /\ drains \subseteq Listeners \X BOOLEAN

(* What a reconcile would still do.                                         *)
ReconcileWork ==
    \/ AbandonedCommit
    \/ StaleDestinations # {}
    \/ \E l \in Wanted : NeedsRegistration(l)

(* Whoever changes what reconcile acts on wakes it: while the session task  *)
(* waits, there is work left only if the permit is stored or the task that  *)
(* made the work has not come to its notification yet; and a retry epoch    *)
(* that holds Suspended Listeners back has a timer that will release it     *)
(* (schedule_reconcile, remove_terminal_listener, commit_registration_token). *)
ReconcileIsDue ==
    loop = "select" /\ ~Cancelled =>
        /\ \/ ~ReconcileWork
           \/ permit
           \/ \E l \in Listeners : calls[l] \in {"terminating", "closing", "dropping"}
        /\ ~RetryIsReady => epoch \in timers

(* The bindings the Gateway may hold for this session are the session's     *)
(* registrations and committed requests: none is forgotten, and it is never *)
(* asked for a second binding of a destination before the first was refused *)
(* or UNPUBLISHed, however fast Listeners for it are closed and replaced    *)
(* (commit_registration_token, on_published, reconcile_registrations).      *)
BindingsAreKnown ==
    /\ held \subseteq Registered \union {pend[d] : d \in committed}
    /\ \A d \in Destinations :
          Cardinality({l \in held : DestinationOf[l] = d}) <= 1

(* A Listener the application sees ACTIVE has its registration in the       *)
(* current session and its binding was neither withdrawn nor refused: the   *)
(* status and the session's books move together across listen, close,       *)
(* replacement and the loss of the session (on_published,                   *)
(* cleanup_relay_session).                                                  *)
ActiveIsRegistered ==
    \A l \in Listeners :
        state[l].status = "Active" =>
            regs[DestinationOf[l]] = l /\ l \in held

(* Listeners, session and Gateway agree on the bindings. *)
BindingsAgree == TypeOK /\ BindingsAreKnown /\ ActiveIsRegistered

(* A listen() that reports NotObserved left no binding behind: its PUBLISH  *)
(* was never sent or was refused, also when its deadline, a late token and  *)
(* the Gateway's answer race (terminate_initial_operation).  The            *)
(* Error::closed() of a Relay that is closed meanwhile, which says          *)
(* NotObserved whatever was sent, is the answer "closed" and not counted.   *)
ListenTellsTruth ==
    \A l \in Listeners : answer[l] = "NotObserved" => sent[l] # "sent"

(* A new session starts with empty queues: no Pipe of an ended session is   *)
(* left for accept() to find, unless its Listener is closed                 *)
(* (cleanup_relay_session's drain before the replacement session).          *)
QueuesAreCurrent ==
    loop \notin {"drain", "cleanup"} =>
        \A l \in Listeners :
            ~Closed(l) => \A i \in DOMAIN queue[l].pipes : queue[l].pipes[i] # "old"

(* Every listen() is answered, and an ended session is always replaced or   *)
(* the Relay closed: no accept() keeps the lane the cleanup waits for.      *)
ListensAreAnswered ==
    \A l \in Listeners : calls[l] = "waiting" ~> calls[l] # "waiting"

SessionsAreReplaced == loop = "cleanup" ~> loop \in {"select", "closed"}

(* A returned Listener that lost its registration gets it back, or learns   *)
(* that it never will (Blocked), or is closed.                              *)
HandlesRecover ==
    \A l \in Listeners :
        calls[l] = "held" /\ state[l].status \in {"Suspended", "Registering"}
            ~> state[l].status \in {"Active", "Blocked", "Closed"}

(* The Relay recovers from the loss of its session with all its Listeners. *)
RelayRecovers == SessionsAreReplaced /\ HandlesRecover
=============================================================================
