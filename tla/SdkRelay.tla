------------------------------ MODULE SdkRelay ------------------------------
(***************************************************************************)
(* A whole Relay: the Listeners of SdkListener and the dial() calls that   *)
(* share its session.  A dial waits for a session, obtains a token,        *)
(* reserves a Pipe, allocates a ConnectionId and queues its DIAL under the *)
(* session's lock, and waits for the answer; the session task sends the    *)
(* DIAL, applies the Gateway's answer, and takes back what a dropped call  *)
(* or Pipe leaves behind.  A step of SdkListener leaves the dials alone,   *)
(* except that the end of a session ends its dials and that a new session  *)
(* starts without any.                                                     *)
(***************************************************************************)
EXTENDS SdkListener

CONSTANTS
    Dials,            \* the dial() calls the application makes
    CommandCapacity   \* outbound_capacity: the session's command queue

ASSUME RelayAssumption ==
    /\ Dials \intersect Listeners = {}
    /\ CommandCapacity \in Nat \ {0}
    /\ Workloads \subseteq [calls : SUBSET (Listeners \union Dials), closes : BOOLEAN]

VARIABLES
    dials,    \* each call: where it is, its session and id, what it returned
    relay,    \* the session's dial state: queues, pending_dials, pipes
    gateway,  \* external: what the Gateway holds of each dial
    inbox,    \* external: its frames on their way to the session
    wire      \* history: the DIALs sent

dialVars  == <<dials, relay, gateway, inbox, wire>>
relayVars == <<vars, dialVars>>

Stages == {"new", "looking", "token", "lock", "send", "push", "waiting", "stale", "done"}

NewDial == [stage |-> "new", session |-> 0, id |-> 0, token |-> FALSE,
            response |-> "none", outcome |-> "none",
            crossed |-> FALSE]    \* history: queued in the middle of a poll

(* RelaySession and the part of RelaySessionState that is about dials. *)
NewSession(serial) ==
    [serial        |-> serial,
     next          |-> 1,         \* next_connection_id
     commands      |-> << >>,
     cancellations |-> {},
     abandoned     |-> {},
     pending       |-> {},        \* pending_dials
     pipes         |-> {},        \* the Pipes that were dialled
     cancel        |-> FALSE,     \* the session's token, by a dial
     poll          |-> "commands"]  \* the queue the select polls next

DialInit(callers) ==
    /\ dials = [d \in Dials |->
            IF d \in callers THEN NewDial ELSE [NewDial EXCEPT !.stage = "done"]]
    /\ relay = NewSession(1)
    /\ gateway = [d \in Dials |-> "none"]
    /\ inbox = << >> /\ wire = << >>

RelayInit == \E w \in Workloads : InitWith(w.calls, w.closes) /\ DialInit(w.calls)

----------------------------------------------------------------------------
(* The session a dial took from the watch, and whether it takes commands:  *)
(* its cleanup closes the queue first.                                     *)
CurrentSession == IF loop \in {"connect", "closed"} THEN 0 ELSE relay.serial

TakesCommands(d) ==
    dials[d].session = relay.serial /\ loop \notin {"drain", "connect", "closed"}

(* At most one dial of a session allocates an id and queues its command. *)
LockIsFree(d) ==
    \A e \in Dials \ {d} :
        ~ (dials[e].stage \in {"send", "push"} /\ dials[e].session = dials[d].session)

At(d, stage) == dials[d].stage = stage

Moves(d, stage) == dials' = [dials EXCEPT ![d].stage = stage]

Answers(d, outcome) ==
    dials' = [dials EXCEPT ![d].stage = "done", ![d].outcome = outcome]

OnlyDial == UNCHANGED <<vars, gateway, inbox, wire>>

----------------------------------------------------------------------------
(* dial()                                                                  *)

Dial(d) == At(d, "new") /\ Moves(d, "looking") /\ OnlyDial /\ UNCHANGED relay

(* try_reserve_outgoing, then the wait for the session's lock.  Pipes of   *)
(* other calls and of Listeners may have taken all there are.              *)
ReserveOutgoing(d, serial) ==
    \/ dials' = [dials EXCEPT ![d].stage = "lock", ![d].session = serial, ![d].token = TRUE]
    \/ Answers(d, "NotObserved")

(* The head of the loop: the session in the watch; a token is asked for    *)
(* once and kept through retries.                                          *)
DialLooks(d) ==
    /\ At(d, "looking") /\ ~ Cancelled /\ CurrentSession # 0
    /\ IF dials[d].token THEN ReserveOutgoing(d, CurrentSession)
       ELSE dials' = [dials EXCEPT ![d].stage = "token", ![d].session = CurrentSession]
    /\ OnlyDial /\ UNCHANGED relay

(* supply_with_retry gives a token, or fails like the reservation. *)
DialToken(d) ==
    /\ At(d, "token")
    /\ ReserveOutgoing(d, dials[d].session)
    /\ OnlyDial /\ UNCHANGED relay

(* Mutant of DialLocks: an atomic counter instead of the lock. *)
DialTakesId(d) ==
    /\ At(d, "lock")
    /\ dials' = [dials EXCEPT ![d].stage = "send", ![d].id = relay.next]
    /\ relay' = IF dials[d].session = relay.serial
                THEN [relay EXCEPT !.next = @ + 1] ELSE relay
    /\ OnlyDial

(* The id is allocated with the lock held.  Of an older session nobody     *)
(* will see it.                                                            *)
DialLocks(d) ==
    /\ At(d, "lock") /\ LockIsFree(d)
    /\ dials' = [dials EXCEPT ![d].stage = "send", ![d].id = relay.next]
    /\ relay' = IF dials[d].session = relay.serial
                THEN [relay EXCEPT !.next = @ + 1] ELSE relay
    /\ OnlyDial

(* commands.send: a permit is acquired, or the queue was closed. *)
DialSends(d) ==
    /\ At(d, "send")
    /\ \/ /\ TakesCommands(d)
          /\ Len(relay.commands) +
                Cardinality({e \in Dials \ {d} : At(e, "push") /\ TakesCommands(e)})
             < CommandCapacity
          /\ Moves(d, "push")
       \/ ~ TakesCommands(d) /\ Moves(d, "stale")
    /\ OnlyDial /\ UNCHANGED relay

(* The permit is used.  A command that comes after the queue was drained   *)
(* is never looked at.                                                     *)
DialPushes(d) ==
    /\ At(d, "push")
    /\ dials' = [dials EXCEPT ![d].stage = "waiting",
                              ![d].crossed = (relay.poll # "commands")]
    /\ relay' = IF TakesCommands(d) THEN [relay EXCEPT !.commands = Append(@, d)] ELSE relay
    /\ OnlyDial

(* Only a DIAL that was not queued is tried again, on another session. *)
DialRetries(d) ==
    /\ At(d, "stale") /\ CurrentSession # dials[d].session
    /\ Moves(d, "looking")
    /\ OnlyDial /\ UNCHANGED relay

DialReturns(d) ==
    /\ At(d, "waiting") /\ dials[d].response # "none"
    /\ Answers(d, dials[d].response)
    /\ OnlyDial /\ UNCHANGED relay

DialClosed(d) ==
    /\ dials[d].stage \in {"looking", "token", "stale"} /\ Cancelled
    /\ Answers(d, "NotObserved")
    /\ OnlyDial /\ UNCHANGED relay

(* DialGuard::drop tells the session, and a Pipe that was never taken is   *)
(* dropped with the channel it waits in.                                   *)
Leaves(d) ==
    IF ~ TakesCommands(d) THEN relay
    ELSE [relay EXCEPT !.cancellations = @ \union {d},
                       !.abandoned = IF dials[d].response = "pipe" /\ d \in relay.pipes
                                     THEN @ \union {d} ELSE @]

(* A deadline before the command was queued, and one after it: the latter  *)
(* ends the session, whose Gateway does not answer.                        *)
DialDeadline(d) ==
    \/ /\ dials[d].stage \in {"looking", "token", "lock", "send", "stale"}
       /\ Answers(d, "NotObserved")
       /\ UNCHANGED relay /\ OnlyDial
    \/ /\ At(d, "waiting") /\ dials[d].response = "none"
       /\ Answers(d, "MaybeObserved")
       /\ relay' = IF dials[d].session = relay.serial
                   THEN [Leaves(d) EXCEPT !.cancel = TRUE] ELSE relay
       /\ OnlyDial

(* The application drops the future at one of its awaits. *)
DialDropped(d) ==
    /\ "cancel" \in Operations[d]
    /\ dials[d].stage \in {"looking", "token", "lock", "send", "waiting", "stale"}
    /\ Answers(d, "dropped")
    /\ relay' = IF At(d, "waiting") THEN Leaves(d) ELSE relay
    /\ OnlyDial

(* The application drops the Pipe it was given. *)
DropPipe(d) ==
    /\ "drop" \in Operations[d]
    /\ dials[d].outcome = "pipe" /\ d \in relay.pipes \ relay.abandoned
    /\ relay' = [relay EXCEPT !.abandoned = @ \union {d}]
    /\ OnlyDial /\ UNCHANGED dials

----------------------------------------------------------------------------
(* The session task                                                        *)

(* The session's token is looked at first. *)
Selects == loop = "select" /\ ~ relay.cancel /\ ~ Cancelled

Respond(d, response) ==
    IF At(d, "waiting") THEN [dials EXCEPT ![d].response = response] ELSE dials

GatewayDrops(d) == gateway' = [gateway EXCEPT ![d] = "gone"]

(* A write fails, or the session's token is found cancelled: the session   *)
(* ends.                                                                   *)
WriteFails ==
    /\ Selects => breaks < MaxBreaks
    /\ loop' = "cleanup"
    /\ breaks' = IF Selects THEN breaks + 1 ELSE breaks
    /\ UNCHANGED <<application, sent, offers, registry, retry, closer, todo, pend,
                   committed, regs, held, drains, gateway>>

(* A CANCEL or CLOSE is sent for a dial the session has removed. *)
TakesBack(d, removed) ==
    \/ d \notin removed /\ UNCHANGED <<vars, gateway>>
    \/ d \in removed /\ Selects /\ GatewayDrops(d) /\ UNCHANGED vars
    \/ d \in removed /\ WriteFails

(* The select polls commands, cancellations and abandoned Pipes one after  *)
(* the other, while the application goes on.                               *)
Polls(branch) == loop = "select" /\ relay.poll = branch

(* on_command: the dial is pending before its DIAL is written. *)
OnCommand ==
    LET d == Head(relay.commands)
        s == [relay EXCEPT !.commands = Tail(@), !.pending = @ \union {d}]
    IN  /\ Polls("commands") /\ relay.commands # << >>
        /\ relay' = s
        /\ \/ /\ Selects
              /\ wire' = Append(wire, [dial |-> d, session |-> relay.serial, id |-> dials[d].id])
              /\ gateway' = [gateway EXCEPT ![d] = "dialling"]
              /\ UNCHANGED vars
           \/ WriteFails /\ UNCHANGED wire
        /\ UNCHANGED <<dials, inbox>>

(* Mutant of FindsNoCommand: cancellations are polled before commands. *)
PassesCommands ==
    /\ Selects /\ Polls("commands")
    /\ \E d \in Dials : TakesCommands(d)
    /\ relay' = [relay EXCEPT !.poll = "cancellations"]
    /\ UNCHANGED <<vars, dials, gateway, inbox, wire>>

(* The poll of the commands finds none: until it returns to them, the      *)
(* session task takes none that is queued meanwhile.  Polls are followed   *)
(* once a call has taken the session; before, all three queues are empty.  *)
FindsNoCommand ==
    /\ Selects /\ Polls("commands") /\ relay.commands = << >>
    /\ \E d \in Dials : TakesCommands(d)
    /\ relay' = [relay EXCEPT !.poll = "cancellations"]
    /\ UNCHANGED <<vars, dials, gateway, inbox, wire>>

FindsNoCancellation ==
    /\ Polls("cancellations") /\ relay.cancellations = {}
    /\ relay' = [relay EXCEPT !.poll = "abandoned"]
    /\ UNCHANGED <<vars, dials, gateway, inbox, wire>>

FindsNothing ==
    /\ Polls("abandoned") /\ relay.abandoned = {}
    /\ relay' = [relay EXCEPT !.poll = "commands"]
    /\ UNCHANGED <<vars, dials, gateway, inbox, wire>>

(* Mutant of OnOpened: a Pipe nobody waits for is forgotten. *)
OnOpenedForgets(d) ==
    /\ d \in relay.pending
    /\ dials' = Respond(d, "pipe")
    /\ relay' = [relay EXCEPT !.pending = @ \ {d},
                              !.pipes = IF At(d, "waiting") THEN @ \union {d} ELSE @]
    /\ UNCHANGED gateway

(* on_opened: a Pipe whose call is gone is cancelled at once. *)
OnOpened(d) ==
    /\ d \in relay.pending
    /\ dials' = Respond(d, "pipe")
    /\ relay' = [relay EXCEPT !.pending = @ \ {d},
                              !.pipes = IF At(d, "waiting") THEN @ \union {d} ELSE @]
    /\ IF At(d, "waiting") THEN UNCHANGED gateway ELSE GatewayDrops(d)

OnDialFailed(d) ==
    /\ d \in relay.pending
    /\ dials' = Respond(d, "refused")
    /\ relay' = [relay EXCEPT !.pending = @ \ {d}]
    /\ UNCHANGED gateway

(* on_reset and, for a Pipe, on_close. *)
OnReset(d) ==
    /\ d \in relay.pipes \union relay.pending
    /\ dials' = IF d \in relay.pipes THEN dials ELSE Respond(d, "refused")
    /\ relay' = [relay EXCEPT !.pipes = @ \ {d}, !.pending = @ \ {d}]
    /\ UNCHANGED gateway

(* A frame about a dial the session no longer has is ignored. *)
OnDialFrame ==
    LET d    == Head(inbox).dial
        kind == Head(inbox).kind
    IN  /\ Selects /\ Polls("commands") /\ inbox # << >>
        /\ inbox' = Tail(inbox)
        /\ \/ kind = "OPENED" /\ OnOpened(d)
           \/ kind = "DIAL_FAILED" /\ OnDialFailed(d)
           \/ kind = "RESET" /\ OnReset(d)
           \/ /\ d \notin relay.pending \union (IF kind = "RESET" THEN relay.pipes ELSE {})
              /\ UNCHANGED <<dials, relay, gateway>>
        /\ UNCHANGED <<vars, wire>>

(* on_cancelled sends CANCEL for what it finds.  The DIAL of a call that   *)
(* was queued and dropped after the poll of the commands is not found, and *)
(* will be sent.                                                           *)
OnCancelled(d) ==
    /\ Polls("cancellations") /\ d \in relay.cancellations
    /\ relay' = [relay EXCEPT !.cancellations = @ \ {d}, !.pending = @ \ {d},
                              !.pipes = @ \ {d}, !.poll = "commands"]
    /\ TakesBack(d, relay.pending \union relay.pipes)
    /\ UNCHANGED <<dials, inbox, wire>>

(* on_abandoned sends CLOSE. *)
OnAbandoned(d) ==
    /\ Polls("abandoned") /\ d \in relay.abandoned
    /\ relay' = [relay EXCEPT !.abandoned = @ \ {d}, !.pipes = @ \ {d},
                              !.poll = "commands"]
    /\ TakesBack(d, relay.pipes)
    /\ UNCHANGED <<dials, inbox, wire>>

(* A dial whose answer did not come in time cancelled the session. *)
CancelledByDial ==
    /\ Polls("commands") /\ relay.cancel
    /\ loop' = "cleanup"
    /\ UNCHANGED <<application, sent, offers, registry, retry, closer, todo, pend,
                   committed, regs, held, drains, breaks, dialVars>>

(* Mutant of EndDials: every dial left is said not to be observed. *)
EndDialsUnobserved ==
    /\ dials' = [d \in Dials |->
            IF At(d, "waiting") /\ d \in ToSet(relay.commands) \union relay.pending
            THEN [dials[d] EXCEPT !.response = "NotObserved"] ELSE dials[d]]
    /\ relay' = [NewSession(relay.serial) EXCEPT !.next = relay.next]
    /\ gateway' = [d \in Dials |-> IF gateway[d] = "none" THEN "none" ELSE "gone"]
    /\ inbox' = << >>
    /\ UNCHANGED wire

(* fail_queued_dials and the dials of cleanup_relay_session: a DIAL that   *)
(* was still queued was not sent, a pending one may have been.  The        *)
(* Gateway drops what it held for the session.                             *)
EndDials ==
    /\ dials' = [d \in Dials |->
            IF ~ At(d, "waiting") THEN dials[d]
            ELSE IF d \in ToSet(relay.commands)
                 THEN [dials[d] EXCEPT !.response = "NotObserved"]
            ELSE IF d \in relay.pending
                 THEN [dials[d] EXCEPT !.response = "MaybeObserved"]
            ELSE dials[d]]
    /\ relay' = [NewSession(relay.serial) EXCEPT !.next = relay.next]
    /\ gateway' = [d \in Dials |-> IF gateway[d] = "none" THEN "none" ELSE "gone"]
    /\ inbox' = << >>
    /\ UNCHANGED wire

(* A session no dial has seen can give its number to the next one. *)
StartDials ==
    /\ relay' = NewSession(IF \E d \in Dials : dials[d].session = relay.serial
                           THEN relay.serial + 1 ELSE relay.serial)
    /\ UNCHANGED <<dials, gateway, inbox, wire>>

(* The Gateway answers a DIAL, and ends a Pipe it opened. *)
GatewayAnswers(d) ==
    /\ loop \notin {"drain", "connect", "closed"}
    /\ \E kind \in {"OPENED", "DIAL_FAILED", "RESET"} :
          /\ gateway[d] = "dialling" \/ (gateway[d] = "open" /\ kind = "RESET")
          /\ gateway' = [gateway EXCEPT ![d] = IF kind = "OPENED" THEN "open" ELSE "gone"]
          /\ inbox' = Append(inbox, [kind |-> kind, dial |-> d])
    /\ UNCHANGED <<vars, dials, relay, wire>>

----------------------------------------------------------------------------
(* A Listener step, with what it means for the dials.  The session task    *)
(* takes no other branch in the middle of a poll.                          *)
ListenerStep ==
    \/ OutsideNext /\ UNCHANGED dialVars
    \/ /\ SessionNext /\ relay.poll = "commands"
       /\ IF loop = "cleanup" /\ loop' = "drain" THEN EndDials
          ELSE IF loop = "connect" /\ loop' = "reconcile" THEN StartDials
          ELSE UNCHANGED dialVars

DialSteps(d) ==
    \/ DialLooks(d) \/ DialToken(d) \/ DialLocks(d) \/ DialSends(d) \/ DialPushes(d)
    \/ DialRetries(d) \/ DialReturns(d) \/ DialClosed(d)

SessionSteps ==
    \/ OnCommand \/ OnDialFrame \/ CancelledByDial
    \/ FindsNoCommand \/ FindsNoCancellation \/ FindsNothing
    \/ \E d \in Dials : OnCancelled(d) \/ OnAbandoned(d)

RelayNext ==
    \/ ListenerStep
    \/ SessionSteps
    \/ \E d \in Dials :
          \/ Dial(d) \/ DialSteps(d) \/ DialDeadline(d) \/ DialDropped(d) \/ DropPipe(d)
          \/ GatewayAnswers(d)

RelaySpec == RelayInit /\ [][RelayNext]_relayVars

----------------------------------------------------------------------------
(***************************************************************************)
(* A committed dial is never replayed: no call has two DIALs on the wire,  *)
(* the ids of a session's DIALs increase, and a call that reports          *)
(* NotObserved has none (dial_inner's lock, fail_queued_dials).  That is   *)
(* what the SDK says of itself; the observation that a DIAL_FAILED of the  *)
(* Gateway carries is the Gateway's, about the Listener's side, and such   *)
(* an answer is "refused" here.                                            *)
(***************************************************************************)
DialTellsTruth ==
    /\ \A i, j \in DOMAIN wire :
          i < j => /\ wire[i].dial # wire[j].dial
                   /\ wire[i].session = wire[j].session => wire[i].id < wire[j].id
    /\ \A d \in Dials :
          dials[d].outcome = "NotObserved" => \A i \in DOMAIN wire : wire[i].dial # d

(* A listen() or dial() says NotObserved only if the Gateway holds nothing. *)
CallsTellTruth == ListenTellsTruth /\ DialTellsTruth

(* The call still waits, or the application has the Pipe. *)
Owned(d) == dials[d].stage \in {"push", "waiting"} \/ dials[d].outcome = "pipe"

(* Its cancellation or its drop is still to be handled. *)
Noted(d) == d \in relay.cancellations \union relay.abandoned

(***************************************************************************)
(* Whatever the Gateway holds of a dial the session knows, until a failed  *)
(* write ends it, and whatever the session knows has an owner or a note    *)
(* that takes it back: no Pipe is left that nobody will ever close.  The   *)
(* one DIAL that is sent although nobody waits for it and nothing takes it *)
(* back before its answer is one that was queued in the middle of a poll   *)
(* and dropped before the poll came to the cancellations (DialGuard,       *)
(* on_opened, on_cancelled, on_abandoned).                                 *)
(***************************************************************************)
DialledPipesAreKnown ==
    /\ loop # "cleanup" => \A d \in Dials :
          gateway[d] \in {"dialling", "open"} => d \in relay.pending \union relay.pipes
    /\ \A d \in relay.pipes : Owned(d) \/ Noted(d)
    /\ \A d \in ToSet(relay.commands) \union relay.pending :
          Owned(d) \/ Noted(d) \/ dials[d].crossed

(* No Pipe, offered or dialled, outlives its session or its owner. *)
PipesHaveOwners == QueuesAreCurrent /\ DialledPipesAreKnown
=============================================================================
