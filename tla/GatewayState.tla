---------------------------- MODULE GatewayState ----------------------------
(***************************************************************************)
(* The state core of one Gateway: SDK sessions, the Destinations they      *)
(* publish, Pipes from OFFER to their end, and remote OPEN attempts        *)
(* (crates/relaygate-gateway/src/state.rs, state/*.rs and registry.rs).    *)
(*                                                                         *)
(* Every handler runs under the Gateway's state lock, so each is one       *)
(* action.  Between them run, in any order: the read loop of each session  *)
(* (blocked while an operation of it is being authorized), the detached    *)
(* ResolveRoute, OpenPeer and CancelPeerOpen effects (gateway/effects.rs), *)
(* the events of peer streams, the offer sweep and session cleanup.        *)
(*                                                                         *)
(* A PipeEndpoint is a session or a peer stream key.  A session lives on   *)
(* one Gateway, so an OpenIdentity (Gateway, session, connection id) is    *)
(* written as its PipeId.  Times, metrics, payloads and error codes are    *)
(* left out; rate limiting and token verification are nondeterministic; an *)
(* absent map entry is None.  Frames that change nothing (PING, a repeated *)
(* DIAL, a frame for a Pipe that is gone) are stuttering steps, and a      *)
(* frame for somebody else's Pipe ends the session: RemoveSession.         *)
(***************************************************************************)
EXTENDS Naturals, Sequences, FiniteSets

CONSTANTS
    Sessions,               \* SessionIds of this Gateway, each used once
    PeerSessions,           \* SessionIds of other Gateways
    ConnIds,                \* connection_ids dialers choose
    Destinations,
    Bindings,               \* BindingIds unique_binding_id can return
    Keys,                   \* PeerStreamKeys, each used once
    Distributed,            \* gateway_id is set: new_distributed
    MaxSessions, MaxBindings, MaxPendingOffers, MaxRemoteDialAttempts,
    MaxLivePipes,           \* GatewayLimits
    CursorWrap,             \* the selection cursor wraps here (usize)
    None

ASSUME IdentityAssumption ==
    /\ ConnIds \subseteq Nat \ {0}
    /\ Sessions \cap PeerSessions = {}
    /\ Sessions \cap Keys = {}
    /\ None \notin Sessions \cup Keys \cup Bindings

ASSUME LimitsAssumption ==
    /\ Distributed \in BOOLEAN
    /\ {MaxSessions, MaxBindings, MaxPendingOffers, MaxRemoteDialAttempts,
        MaxLivePipes, CursorWrap} \subseteq Nat \ {0}

VARIABLES
    sessions,               \* live sessions
    ended,                  \* sessions that were removed
    highest_connection_id,
    authorizing,            \* session -> operation whose token is verified
    by_id, by_destination, by_session, next_selection,  \* LocalRegistry
    pipes, peer_pipes, active_peer_opens, remote_open_attempts,
    pending_offer_count, live_pipe_count, originated_pipe_count,
    draining,
    published,              \* session -> snapshot last given to routing
    resolving,              \* ResolveRoute effects in flight
    opening,                \* OpenPeer effects: "requested", or the key
    cancelling,             \* CancelPeerOpen effects in flight
    undelivered,            \* OFFERs not yet in the acceptor's writer queue
    streams,                \* the peer streams behind the keys
    dials,                  \* what each DIAL of a live session came to
    held                    \* <<session, pipe>>: the session was told of the
                            \* Pipe and not yet of its end

registry == <<by_id, by_destination, by_session, next_selection>>
table == <<pipes, peer_pipes, active_peer_opens, remote_open_attempts,
           pending_offer_count, live_pipe_count, originated_pipe_count>>
effects == <<resolving, opening, cancelling, undelivered>>
ledger == <<streams, dials, held>>
admission == <<sessions, ended, highest_connection_id, authorizing>>
vars == <<admission, registry, table, draining, published, effects, ledger>>

PipeIds == [session : Sessions \cup PeerSessions, conn : ConnIds]

OwnPipeIds == [session : Sessions, conn : ConnIds]

PeerPipeIds == [session : PeerSessions, conn : ConnIds]

PipeId(s, c) == [session |-> s, conn |-> c]

Endpoints == Sessions \cup Keys

Operations ==
    [kind : {"Publish"}, destination : Destinations]
    \cup [kind : {"Dial"}, destination : Destinations, conn : ConnIds]

(* binding_id is None when the binding belongs to the peer Gateway. *)
PipeEntries ==
    [dialer : Endpoints, acceptor : Endpoints,
     binding_id : Bindings \cup {None},
     phase : {"Offered", "Open"},
     finished : SUBSET Endpoints]

RemoteOpenAttempts ==
    [destination : Destinations,
     phase : {"Resolving", "StartingPeer", "AwaitingPeer"},
     key : Keys \cup {None}]

(***************************************************************************)
(* What a key stands for: a stream we opened (opening until the peer       *)
(* answers, cancelled if we end it before), a stream a peer opened         *)
(* (incoming until we answer), an open one, and an ended one.              *)
(***************************************************************************)
StreamPhases ==
    {"unused", "opening", "cancelled", "incoming", "open", "ended"}

Registered == [session : Sessions, destination : Destinations]

ASSUME NoneAssumption ==
    /\ None \notin PipeIds \cup PipeEntries \cup RemoteOpenAttempts
    /\ None \notin Operations \cup Registered \cup {"requested"}
    /\ "requested" \notin Keys

Init ==
    /\ sessions = {}
    /\ ended = {}
    /\ highest_connection_id = [s \in Sessions |-> 0]
    /\ authorizing = [s \in Sessions |-> None]
    /\ by_id = [b \in Bindings |-> None]
    /\ by_destination = [d \in Destinations |-> <<>>]
    /\ by_session = [s \in Sessions |-> {}]
    /\ next_selection = [d \in Destinations |-> 0]
    /\ pipes = [p \in PipeIds |-> None]
    /\ peer_pipes = [k \in Keys |-> None]
    /\ active_peer_opens = [p \in PipeIds |-> None]
    /\ remote_open_attempts = [p \in OwnPipeIds |-> None]
    /\ pending_offer_count = 0
    /\ live_pipe_count = 0
    /\ originated_pipe_count = 0
    /\ draining = FALSE
    /\ published = [s \in Sessions |-> {}]
    /\ resolving = {}
    /\ opening = [p \in OwnPipeIds |-> None]
    /\ cancelling = {}
    /\ undelivered = {}
    /\ streams = [k \in Keys |-> [phase |-> "unused", pipe |-> None]]
    /\ dials = [p \in OwnPipeIds |-> "unused"]
    /\ held = {}

-----------------------------------------------------------------------------
(***************************************************************************)
(* LocalRegistry                                                           *)
(***************************************************************************)

BindingCount == Cardinality({b \in Bindings : by_id[b] # None})

(* Vec::retain or a filter: the elements of q that are in S, in their order. *)
Retain(q, S) ==
    LET kept == {i \in 1 .. Len(q) : q[i] \in S} IN
    [n \in 1 .. Cardinality(kept) |->
        q[CHOOSE i \in kept : Cardinality({j \in kept : j <= i}) = n]]

BindingsOf(s, d) == {b \in by_session[s] : by_id[b].destination = d}

(* unique_binding_id and register, of a destination s does not publish yet. *)
RegisterBinding(b, s, d) ==
    /\ by_id[b] = None
    /\ by_id' = [by_id EXCEPT ![b] = [session |-> s, destination |-> d]]
    /\ by_destination' = [by_destination EXCEPT ![d] = Append(@, b)]
    /\ by_session' = [by_session EXCEPT ![s] = @ \cup {b}]
    /\ UNCHANGED next_selection

(* Mutant of RemoveBindings: the Destination's list is left alone. *)
RemoveBindingsKeepingDestination(B) ==
    /\ by_id' = [b \in Bindings |-> IF b \in B THEN None ELSE by_id[b]]
    /\ by_session' = [s \in Sessions |-> by_session[s] \ B]
    /\ UNCHANGED <<by_destination, next_selection>>

RemoveBindings(B) ==
    /\ by_id' = [b \in Bindings |-> IF b \in B THEN None ELSE by_id[b]]
    /\ by_destination' = [d \in Destinations |->
          Retain(by_destination[d], Bindings \ B)]
    /\ by_session' = [s \in Sessions |-> by_session[s] \ B]
    /\ next_selection' = [d \in Destinations |->
          IF by_destination'[d] = <<>> THEN 0 ELSE next_selection[d]]

(* Mutant of Eligible: the dialer's own binding counts. *)
EligibleIncludingSelf(d, s) == by_destination[d]

(* select_excluding: the bindings of other sessions, taken in turn. *)
Eligible(d, s) ==
    Retain(by_destination[d],
           {b \in Bindings : by_id[b] # None /\ by_id[b].session # s})

Selected(d, s) == Eligible(d, s)[(next_selection[d] % Len(Eligible(d, s))) + 1]

(* Mutant of AdvanceSelection: the cursor never wraps. *)
AdvanceSelectionUnwrapped(d) ==
    /\ next_selection' = [next_selection EXCEPT ![d] = @ + 1]
    /\ UNCHANGED <<by_id, by_destination, by_session>>

AdvanceSelection(d) ==
    /\ next_selection' = [next_selection EXCEPT ![d] = (@ + 1) % CursorWrap]
    /\ UNCHANGED <<by_id, by_destination, by_session>>

(* exact: the binding is still the one the route named. *)
Exact(b, s, d) == by_id[b] = [session |-> s, destination |-> d]

(* Mutant of Snapshot: draining is ignored. *)
SnapshotWhileDraining(s) == by_session'[s]

(* registration_publication: nothing while draining, else the bindings as   *)
(* the handler leaves them.                                                *)
Snapshot(s) == IF draining' THEN {} ELSE by_session'[s]

(* The snapshots of the sessions of S are committed to routing before the   *)
(* lock is released; a Gateway that is not distributed has no routing.     *)
PublishRegistration(S) ==
    published' = [s \in Sessions |->
        IF s \in S /\ Distributed THEN Snapshot(s) ELSE published[s]]

-----------------------------------------------------------------------------
(***************************************************************************)
(* The Pipe table, its indexes and its counters.                           *)
(***************************************************************************)

Active == {p \in PipeIds : pipes[p] # None}
Offered == {p \in Active : pipes[p].phase = "Offered"}
Opened == {p \in Active : pipes[p].phase = "Open"}
Attempts == {p \in OwnPipeIds : remote_open_attempts[p] # None}
Ends(p) == {pipes[p].dialer, pipes[p].acceptor}

Originated(entry) == entry.phase = "Open" /\ entry.dialer \in Sessions

(* Mutant of Remove: the OpenIdentity stays reserved. *)
RemoveKeepingPeerOpen(R, T) ==
    /\ pipes' = [p \in PipeIds |-> IF p \in R THEN None ELSE pipes[p]]
    /\ peer_pipes' = [k \in Keys |->
          IF \E p \in R : k \in Ends(p) THEN None ELSE peer_pipes[k]]
    /\ active_peer_opens' = [p \in PipeIds |->
          IF p \in T THEN None ELSE active_peer_opens[p]]
    /\ remote_open_attempts' = [p \in OwnPipeIds |->
          IF p \in T THEN None ELSE remote_open_attempts[p]]
    /\ pending_offer_count' = pending_offer_count - Cardinality(R \cap Offered)
    /\ live_pipe_count' = live_pipe_count - Cardinality(R \cap Opened)
    /\ originated_pipe_count' = originated_pipe_count -
          Cardinality({p \in R : Originated(pipes[p])})

(* remove_pipe for each of R, and take_remote_attempt for each of T. *)
Remove(R, T) ==
    /\ pipes' = [p \in PipeIds |-> IF p \in R THEN None ELSE pipes[p]]
    /\ peer_pipes' = [k \in Keys |->
          IF \E p \in R : k \in Ends(p) THEN None ELSE peer_pipes[k]]
    /\ active_peer_opens' = [p \in PipeIds |->
          IF p \in T \/ (p \in R /\ Ends(p) \cap Keys # {})
          THEN None ELSE active_peer_opens[p]]
    /\ remote_open_attempts' = [p \in OwnPipeIds |->
          IF p \in T THEN None ELSE remote_open_attempts[p]]
    /\ pending_offer_count' = pending_offer_count - Cardinality(R \cap Offered)
    /\ live_pipe_count' = live_pipe_count - Cardinality(R \cap Opened)
    /\ originated_pipe_count' = originated_pipe_count -
          Cardinality({p \in R : Originated(pipes[p])})

(* insert_offer or insert_open, with the attempts T taken. *)
Insert(p, entry, T) ==
    LET K == {entry.dialer, entry.acceptor} \cap Keys IN
    /\ pipes' = [pipes EXCEPT ![p] = entry]
    /\ peer_pipes' = [k \in Keys |-> IF k \in K THEN p ELSE peer_pipes[k]]
    /\ active_peer_opens' = [q \in PipeIds |->
          IF q = p /\ K # {} THEN CHOOSE k \in K : TRUE
          ELSE IF q \in T THEN None ELSE active_peer_opens[q]]
    /\ remote_open_attempts' = [q \in OwnPipeIds |->
          IF q \in T THEN None ELSE remote_open_attempts[q]]
    /\ pending_offer_count' = pending_offer_count +
          (IF entry.phase = "Offered" THEN 1 ELSE 0)
    /\ live_pipe_count' = live_pipe_count +
          (IF entry.phase = "Open" THEN 1 ELSE 0)
    /\ originated_pipe_count' = originated_pipe_count +
          (IF Originated(entry) THEN 1 ELSE 0)

(* Mutant of Promote: originated Pipes are not counted. *)
PromoteUncounted(p) ==
    /\ pipes' = [pipes EXCEPT ![p].phase = "Open"]
    /\ pending_offer_count' = pending_offer_count - 1
    /\ live_pipe_count' = live_pipe_count + 1
    /\ UNCHANGED <<originated_pipe_count, peer_pipes, active_peer_opens,
                   remote_open_attempts>>

(* promote_offer *)
Promote(p) ==
    /\ pipes' = [pipes EXCEPT ![p].phase = "Open"]
    /\ pending_offer_count' = pending_offer_count - 1
    /\ live_pipe_count' = live_pipe_count + 1
    /\ originated_pipe_count' = originated_pipe_count +
          (IF pipes[p].dialer \in Sessions THEN 1 ELSE 0)
    /\ UNCHANGED <<peer_pipes, active_peer_opens, remote_open_attempts>>

(* Mutant of LiveCapacityReached: one Pipe too many is admitted. *)
LiveCapacityExceeded == live_pipe_count > MaxLivePipes

LiveCapacityReached == live_pipe_count >= MaxLivePipes

PendingCapacityReached ==
    pending_offer_count + Cardinality(Attempts) >= MaxPendingOffers

-----------------------------------------------------------------------------
(***************************************************************************)
(* What the handlers send.                                                 *)
(***************************************************************************)

(* The dials after those of P got OPENED, DIAL_FAILED, or a RESET in place  *)
(* of them, or were cancelled by their own session.                        *)
Answered(P) ==
    [p \in OwnPipeIds |->
        IF p \notin P THEN dials[p]
        ELSE IF dials[p] = "waiting" THEN "answered" ELSE "repeated"]

(* The streams after FAILED, CLOSE or RESET is sent on the keys of K. *)
EndStreams(K) ==
    [k \in Keys |->
        IF k \notin K THEN streams[k]
        ELSE [pipe |-> streams[k].pipe,
              phase |-> IF streams[k].phase \in {"opening", "cancelled"}
                        THEN "cancelled" ELSE "ended"]]

(* dialer_failure for the Pipes of P; the <<endpoint, pipe>> pairs of told  *)
(* are sent the end of the Pipe, or brought it about.                      *)
Notify(P, told) ==
    /\ dials' = Answered(P \cap OwnPipeIds)
    /\ streams' = EndStreams(({pipes[p].dialer : p \in P}
                               \cup {e[1] : e \in told}) \cap Keys)
    /\ held' = held \ told

Counterpart(p, e) ==
    IF pipes[p].dialer = e THEN pipes[p].acceptor ELSE pipes[p].dialer

(* Mutant of ProtocolReset: the acceptor is not told. *)
ProtocolResetDialer(p) ==
    /\ Remove({p}, {})
    /\ Notify({p} \cap Offered, {<<pipes[p].dialer, p>>})

(* protocol_reset: both ends get RESET, also a dialer that still waits. *)
ProtocolReset(p) ==
    /\ Remove({p}, {})
    /\ Notify({p} \cap Offered, {<<e, p>> : e \in Ends(p)})

(* Mutant of FailAttempts: no DIAL_FAILED is sent. *)
FailAttemptsSilently(T) == Remove({}, T) /\ UNCHANGED dials

(* fail_remote_attempt for each of T. *)
FailAttempts(T) ==
    /\ Remove({}, T)
    /\ dials' = Answered(T)

(* offer_local_at.  The binding's session is live: remove_session drops its *)
(* bindings, so the branch for a dead listener is unreachable.             *)
OfferLocal(p, b, T) ==
    /\ Insert(p, [dialer |-> p.session, acceptor |-> by_id[b].session,
                  binding_id |-> b, phase |-> "Offered", finished |-> {}], T)
    /\ undelivered' = undelivered \cup {<<by_id[b].session, p>>}
    /\ held' = held \cup {<<by_id[b].session, p>>}
    /\ UNCHANGED <<streams, dials>>

-----------------------------------------------------------------------------
(***************************************************************************)
(* Sessions.  The read loop of a session takes its next frame only when no *)
(* operation of it is being authorized.                                    *)
(***************************************************************************)

Ready(s) == s \in sessions /\ authorizing[s] = None

(* session_rejection and add_session *)
AddSession(s) ==
    /\ s \notin sessions \cup ended
    /\ ~draining
    /\ Cardinality(sessions) < MaxSessions
    /\ sessions' = sessions \cup {s}
    /\ UNCHANGED <<ended, highest_connection_id, authorizing, registry, table,
                   draining, published, effects, ledger>>

(***************************************************************************)
(* remove_session for each of S: its bindings, its attempts by phase, and  *)
(* its Pipes.  Dialers that still wait for an acceptor in S get a failure, *)
(* every other counterpart a RESET.                                        *)
(***************************************************************************)
RemoveSessions(S) ==
    LET gone == {p \in Active : Ends(p) \cap S # {}}
        failed == {p \in gone \cap Offered : pipes[p].dialer \notin S}
        dropped == {p \in Attempts : p.session \in S}
        In(phase) == {p \in dropped : remote_open_attempts[p].phase = phase}
    IN
    /\ sessions' = sessions \ S
    /\ ended' = ended \cup S
    /\ highest_connection_id' = [s \in Sessions |->
          IF s \in S THEN 0 ELSE highest_connection_id[s]]
    /\ authorizing' = [s \in Sessions |->
          IF s \in S THEN None ELSE authorizing[s]]
    /\ UNCHANGED <<draining, resolving, opening>>
    /\ RemoveBindings(UNION {by_session[s] : s \in S})
    /\ PublishRegistration({s \in S : by_session[s] # {}})
    /\ Remove(gone, dropped)
    /\ cancelling' = cancelling \cup In("StartingPeer")
    /\ undelivered' = {u \in undelivered : u[1] \notin S}
    /\ dials' = [p \in OwnPipeIds |->
          IF p.session \in S THEN "unused"
          ELSE Answered(failed \cap OwnPipeIds)[p]]
    /\ streams' = EndStreams(Keys \cap
          ({pipes[p].dialer : p \in failed}
            \cup (UNION {Ends(p) : p \in gone \ failed})
            \cup {remote_open_attempts[p].key : p \in In("AwaitingPeer")}))
    /\ held' = {h \in held : h[1] \notin S /\ h[2] \notin gone \ failed}

(* The connection ends, a delivery to it fails, its heartbeat expires, or   *)
(* it sends what it may not.                                               *)
RemoveSession(s) == s \in sessions /\ RemoveSessions({s})

(* expire_offers: the offers of X are overdue, so their dialers get a       *)
(* failure and their acceptors are removed.                                *)
ExpireOffers(X) ==
    /\ X # {}
    /\ RemoveSessions({pipes[p].acceptor : p \in X})

BeginDraining ==
    /\ ~draining
    /\ draining' = TRUE
    /\ UNCHANGED registry
    /\ PublishRegistration(sessions)
    /\ UNCHANGED <<admission, table, effects, ledger>>

-----------------------------------------------------------------------------
(***************************************************************************)
(* PUBLISH, UNPUBLISH and DIAL.  prepare_authorization runs before the     *)
(* token is verified, commit_authorized after.                             *)
(***************************************************************************)

PreparePublish(s, d) ==
    /\ Ready(s)
    /\ ~draining
    /\ authorizing' = [authorizing EXCEPT ![s] =
                          [kind |-> "Publish", destination |-> d]]
    /\ UNCHANGED <<sessions, ended, highest_connection_id, registry, table,
                   draining, published, effects, ledger>>

(* A DIAL consumes its connection id also when draining or the rate limit   *)
(* refuses it.                                                             *)
PrepareDial(s, c, d) ==
    /\ Ready(s)
    /\ c > highest_connection_id[s]
    /\ highest_connection_id' = [highest_connection_id EXCEPT ![s] = c]
    /\ \/ /\ dials' = [dials EXCEPT ![PipeId(s, c)] = "answered"]
          /\ UNCHANGED authorizing
       \/ /\ ~draining
          /\ dials' = [dials EXCEPT ![PipeId(s, c)] = "waiting"]
          /\ authorizing' = [authorizing EXCEPT ![s] =
                [kind |-> "Dial", destination |-> d, conn |-> c]]
    /\ UNCHANGED <<sessions, ended, registry, table, draining, published,
                   effects, streams, held>>

Authorizing(s, kind) == authorizing[s] # None /\ authorizing[s].kind = kind

(* authorization_failed, or the token expired before commit_authorized. *)
AuthorizationFailed(s) ==
    /\ authorizing[s] # None
    /\ authorizing' = [authorizing EXCEPT ![s] = None]
    /\ dials' = IF Authorizing(s, "Dial")
                THEN Answered({PipeId(s, authorizing[s].conn)}) ELSE dials
    /\ UNCHANGED <<sessions, ended, highest_connection_id, registry, table,
                   draining, published, effects, streams, held>>

Publish(s) ==
    LET d == authorizing[s].destination
        full == BindingCount >= MaxBindings IN
    /\ Authorizing(s, "Publish")
    /\ authorizing' = [authorizing EXCEPT ![s] = None]
    /\ UNCHANGED draining
    /\ \/ /\ draining \/ full \/ BindingsOf(s, d) # {}
          /\ UNCHANGED <<registry, published>>
       \/ /\ ~draining /\ ~full /\ BindingsOf(s, d) = {}
          /\ \E b \in Bindings : RegisterBinding(b, s, d)
          /\ PublishRegistration({s})
    /\ UNCHANGED <<sessions, ended, highest_connection_id, table, effects,
                   ledger>>

(* cancel_pending_binding: the acceptor s withdrew the offers itself and is *)
(* sent no RESET for them.                                                 *)
CancelPendingBinding(s, b) ==
    LET withdrawn == {p \in Offered : pipes[p].binding_id = b} IN
    /\ Remove(withdrawn, {})
    /\ Notify(withdrawn, {<<s, p>> : p \in withdrawn})

Unpublish(s, b) ==
    /\ Ready(s)
    /\ b \in by_session[s]
    /\ RemoveBindings({b})
    /\ UNCHANGED draining
    /\ PublishRegistration({s})
    /\ CancelPendingBinding(s, b)
    /\ UNCHANGED <<admission, effects>>

DialRefused(s, d) ==
    \/ draining
    \/ LiveCapacityReached
    \/ PendingCapacityReached
    \/ /\ Eligible(d, s) = <<>>
       /\ ~Distributed \/ Cardinality(Attempts) >= MaxRemoteDialAttempts

Dial(s) ==
    LET d == authorizing[s].destination
        p == PipeId(s, authorizing[s].conn) IN
    /\ Authorizing(s, "Dial")
    /\ authorizing' = [authorizing EXCEPT ![s] = None]
    /\ \/ /\ DialRefused(s, d)
          /\ dials' = Answered({p})
          /\ UNCHANGED <<registry, table, effects, streams, held>>
       \/ /\ ~DialRefused(s, d)
          /\ Eligible(d, s) # <<>>
          /\ AdvanceSelection(d)
          /\ OfferLocal(p, Selected(d, s), {})
          /\ UNCHANGED <<resolving, opening, cancelling>>
       \/ /\ ~DialRefused(s, d)
          /\ Eligible(d, s) = <<>>
          /\ remote_open_attempts' = [remote_open_attempts EXCEPT ![p] =
                [destination |-> d, phase |-> "Resolving", key |-> None]]
          /\ resolving' = resolving \cup {p}
          /\ UNCHANGED <<registry, pipes, peer_pipes, active_peer_opens,
                         pending_offer_count, live_pipe_count,
                         originated_pipe_count, opening, cancelling,
                         undelivered, ledger>>
    /\ UNCHANGED <<sessions, ended, highest_connection_id, draining, published>>

(* The other Pipe frames leave sessions and bindings alone. *)
PipesOnly == UNCHANGED <<admission, registry, draining, published>>

(* What a cancelled attempt leaves to end depends on how far it got. *)
CancelRemoteAttempt(p) ==
    /\ Remove({}, {p})
    /\ cancelling' = IF remote_open_attempts[p].phase = "StartingPeer"
                     THEN cancelling \cup {p} ELSE cancelling
    /\ dials' = Answered({p})
    /\ streams' = EndStreams({remote_open_attempts[p].key})
    /\ UNCHANGED held

Cancel(s, p) ==
    /\ Ready(s)
    /\ \/ /\ p \in Active
          /\ pipes[p].dialer = s
          /\ Remove({p}, {})
          /\ Notify({p} \cap Offered, {<<e, p>> : e \in Ends(p)})
          /\ UNCHANGED cancelling
       \/ p \in Attempts /\ p.session = s /\ CancelRemoteAttempt(p)
    /\ PipesOnly
    /\ UNCHANGED <<resolving, opening, undelivered>>

-----------------------------------------------------------------------------
(***************************************************************************)
(* The acceptor's answer to an OFFER, and OFFERs that do not reach it.     *)
(***************************************************************************)

OfferDelivered(s, p) ==
    /\ <<s, p>> \in undelivered
    /\ undelivered' = undelivered \ {<<s, p>>}
    /\ PipesOnly
    /\ UNCHANGED <<table, resolving, opening, cancelling, ledger>>

(* offer_delivery_rejected: the writer queue was full, and by now the Pipe  *)
(* may be gone, or its identity offered to another session.                *)
OfferDeliveryRejected(s, p) ==
    /\ <<s, p>> \in undelivered
    /\ undelivered' = undelivered \ {<<s, p>>}
    /\ \/ /\ p \in Offered /\ pipes[p].acceptor = s
          /\ Remove({p}, {})
          /\ Notify({p}, {<<s, p>>})
       \/ /\ ~(p \in Offered /\ pipes[p].acceptor = s)
          /\ UNCHANGED <<table, ledger>>
    /\ PipesOnly
    /\ UNCHANGED <<resolving, opening, cancelling>>

(* The frames an SDK session can send on a Pipe it knows of. *)
OnPipe(s, p) ==
    /\ Ready(s)
    /\ p \in Active
    /\ s \in Ends(p)
    /\ <<s, p>> \notin undelivered

(* dialer_opened *)
TellOpened(p) ==
    \/ /\ pipes[p].dialer \in Sessions
       /\ dials' = Answered({p})
       /\ held' = held \cup {<<pipes[p].dialer, p>>}
       /\ UNCHANGED streams
    \/ /\ pipes[p].dialer \in Keys
       /\ streams' = [streams EXCEPT ![pipes[p].dialer].phase = "open"]
       /\ UNCHANGED <<dials, held>>

OfferAccepted(s, p) ==
    /\ OnPipe(s, p)
    /\ pipes[p].acceptor = s
    /\ \/ p \in Opened /\ ProtocolReset(p)
       \/ /\ p \in Offered /\ LiveCapacityReached
          /\ Remove({p}, {})
          /\ Notify({p}, {<<s, p>>})
       \/ /\ p \in Offered /\ ~LiveCapacityReached
          /\ Promote(p)
          /\ TellOpened(p)
    /\ PipesOnly
    /\ UNCHANGED effects

OfferRejected(s, p) ==
    /\ OnPipe(s, p)
    /\ pipes[p].acceptor = s
    /\ \/ p \in Opened /\ ProtocolReset(p)
       \/ /\ p \in Offered
          /\ Remove({p}, {})
          /\ Notify({p}, {<<s, p>>})
    /\ PipesOnly
    /\ UNCHANGED effects

-----------------------------------------------------------------------------
(***************************************************************************)
(* Relaying, of frames of a session or of events of an open peer stream.   *)
(* The peer actor already refuses DATA that is out of place.               *)
(***************************************************************************)

Sends(e, p) ==
    \/ e \in Sessions /\ OnPipe(e, p)
    \/ e \in Keys /\ peer_pipes[e] = p /\ streams[e].phase = "open"

(* relay_data: DATA before OPENED or after FIN. *)
MisplacedData(s, p) ==
    /\ OnPipe(s, p)
    /\ p \in Offered \/ s \in pipes[p].finished
    /\ ProtocolReset(p)
    /\ PipesOnly
    /\ UNCHANGED effects

RelayFin(e, p) ==
    /\ Sends(e, p)
    /\ e \notin pipes[p].finished
    /\ \/ p \in Offered /\ ProtocolReset(p)
       \/ /\ p \in Opened /\ Counterpart(p, e) \notin pipes[p].finished
          /\ pipes' = [pipes EXCEPT ![p].finished = @ \cup {e}]
          /\ UNCHANGED <<peer_pipes, active_peer_opens, remote_open_attempts,
                         pending_offer_count, live_pipe_count,
                         originated_pipe_count, ledger>>
       \/ /\ p \in Opened /\ Counterpart(p, e) \in pipes[p].finished
          /\ Remove({p}, {})
          /\ Notify({}, {<<x, p>> : x \in Ends(p)})
    /\ PipesOnly
    /\ UNCHANGED effects

(* relay_close and relay_reset *)
RelayEnd(e, p) ==
    /\ Sends(e, p)
    /\ \/ p \in Offered /\ ProtocolReset(p)
       \/ /\ p \in Opened
          /\ Remove({p}, {})
          /\ Notify({}, {<<e, p>>, <<Counterpart(p, e), p>>})
    /\ PipesOnly
    /\ UNCHANGED effects

(* peer_reset of a stream whose OFFER is still pending: the peer withdrew.  *)
(* A send on the stream that fails is handled the same way.                *)
PeerReset(k) ==
    LET p == peer_pipes[k] IN
    /\ streams[k].phase = "incoming"
    /\ Remove({p}, {})
    /\ Notify({}, {<<e, p>> : e \in Ends(p)})
    /\ PipesOnly
    /\ UNCHANGED effects

-----------------------------------------------------------------------------
(***************************************************************************)
(* A remote OPEN of our own: resolve, start, commit, await.                *)
(***************************************************************************)

Phase(p) ==
    IF p \in Attempts THEN remote_open_attempts[p].phase ELSE "None"

(* route_resolved and route_failed, with what the RouteTable may answer: a  *)
(* binding of ours, current or stale, one of another Gateway, or nothing   *)
(* usable.  A result for an attempt that ended is dropped.                 *)
RouteResolved(p) ==
    /\ p \in resolving
    /\ resolving' = resolving \ {p}
    /\ \/ /\ Phase(p) = "None"
          /\ UNCHANGED <<table, opening, undelivered, ledger>>
       \/ /\ Phase(p) = "Resolving"
          /\ \E s \in Sessions \ {p.session}, b \in Bindings :
                /\ Exact(b, s, remote_open_attempts[p].destination)
                /\ OfferLocal(p, b, {p})
          /\ UNCHANGED opening
       \/ /\ Phase(p) = "Resolving"
          /\ remote_open_attempts' = [remote_open_attempts EXCEPT
                                         ![p].phase = "StartingPeer"]
          /\ opening' = [opening EXCEPT ![p] = "requested"]
          /\ UNCHANGED <<pipes, peer_pipes, active_peer_opens,
                         pending_offer_count, live_pipe_count,
                         originated_pipe_count, undelivered, ledger>>
       \/ /\ Phase(p) = "Resolving"
          /\ FailAttempts({p})
          /\ UNCHANGED <<opening, undelivered, streams, held>>
    /\ PipesOnly
    /\ UNCHANGED cancelling

(* The transport actor commits OPEN on a new stream; its reply and the      *)
(* events of the stream reach the Gateway in any order.                    *)
OpenCommits(p, k) ==
    /\ opening[p] = "requested"
    /\ streams[k].phase = "unused"
    /\ opening' = [opening EXCEPT ![p] = k]
    /\ streams' = [streams EXCEPT ![k] = [phase |-> "opening", pipe |-> p]]
    /\ PipesOnly
    /\ UNCHANGED <<table, resolving, cancelling, undelivered, dials, held>>

(* Mutant of PeerOpenCommitted: a late commit is ignored. *)
PeerOpenCommittedIgnoringLate(p) ==
    LET k == opening[p] IN
    /\ k \in Keys
    /\ opening' = [opening EXCEPT ![p] = None]
    /\ \/ /\ Phase(p) = "StartingPeer"
          /\ active_peer_opens' = [active_peer_opens EXCEPT ![p] = k]
          /\ remote_open_attempts' = [remote_open_attempts EXCEPT
                ![p] = [@ EXCEPT !.phase = "AwaitingPeer", !.key = k]]
          /\ UNCHANGED <<pipes, peer_pipes, pending_offer_count,
                         live_pipe_count, originated_pipe_count>>
       \/ Phase(p) = "None" /\ UNCHANGED table
    /\ PipesOnly
    /\ UNCHANGED <<streams, resolving, cancelling, undelivered, dials, held>>

(* peer_open_committed.  An attempt in another phase, and a key or identity *)
(* that is already active, cannot meet this reply.                         *)
PeerOpenCommitted(p) ==
    LET k == opening[p] IN
    /\ k \in Keys
    /\ opening' = [opening EXCEPT ![p] = None]
    /\ \/ /\ Phase(p) = "StartingPeer"
          /\ active_peer_opens' = [active_peer_opens EXCEPT ![p] = k]
          /\ remote_open_attempts' = [remote_open_attempts EXCEPT
                ![p] = [@ EXCEPT !.phase = "AwaitingPeer", !.key = k]]
          /\ UNCHANGED <<pipes, peer_pipes, pending_offer_count,
                         live_pipe_count, originated_pipe_count, streams>>
       \/ /\ Phase(p) = "None" /\ active_peer_opens[p] = k
          /\ UNCHANGED <<table, streams>>
       \/ /\ Phase(p) = "None" /\ active_peer_opens[p] # k
          /\ streams' = EndStreams({k})
          /\ UNCHANGED table
    /\ PipesOnly
    /\ UNCHANGED <<resolving, cancelling, undelivered, dials, held>>

(* Mutant of PeerOpenCommitFailed: the attempt is not failed. *)
PeerOpenCommitFailedIgnored(p) ==
    /\ opening[p] = "requested"
    /\ opening' = [opening EXCEPT ![p] = None]
    /\ PipesOnly
    /\ UNCHANGED <<table, resolving, cancelling, undelivered, ledger>>

PeerOpenCommitFailed(p) ==
    /\ opening[p] = "requested"
    /\ opening' = [opening EXCEPT ![p] = None]
    /\ \/ Phase(p) = "StartingPeer" /\ FailAttempts({p})
       \/ Phase(p) = "None" /\ UNCHANGED <<table, dials>>
    /\ PipesOnly
    /\ UNCHANGED <<resolving, cancelling, undelivered, streams, held>>

(* The CancelPeerOpen effect resets the stream if OPEN was committed; it is *)
(* dropped when no effect slot is free.                                    *)
CancelPeerOpen(p) ==
    /\ p \in cancelling
    /\ cancelling' = cancelling \ {p}
    /\ \/ UNCHANGED streams
       \/ streams' = EndStreams({k \in Keys :
                         streams[k] = [phase |-> "opening", pipe |-> p]})
    /\ PipesOnly
    /\ UNCHANGED <<table, resolving, opening, undelivered, dials, held>>

(* Mutant of PeerOpened: a late OPENED opens the Pipe. *)
PeerOpenedReviving(k) ==
    LET p == streams[k].pipe IN
    /\ streams[k].phase \in {"opening", "cancelled"}
    /\ p.session \in sessions
    /\ Insert(p, [dialer |-> p.session, acceptor |-> k, binding_id |-> None,
                  phase |-> "Open", finished |-> {}], {p})
    /\ dials' = IF p \in Attempts THEN Answered({p}) ELSE dials
    /\ streams' = [streams EXCEPT ![k].phase = "open"]
    /\ held' = held \cup {<<p.session, p>>}
    /\ PipesOnly
    /\ UNCHANGED effects

(* peer_opened.  The dialer of an attempt is live: remove_session drops its *)
(* attempts.                                                               *)
PeerOpened(k) ==
    LET p == streams[k].pipe IN
    /\ streams[k].phase \in {"opening", "cancelled"}
    /\ \/ /\ p \notin Attempts
          /\ streams' = [streams EXCEPT ![k].phase = "ended"]
          /\ UNCHANGED <<table, dials, held>>
       \/ /\ p \in Attempts /\ LiveCapacityReached
          /\ FailAttempts({p})
          /\ streams' = [streams EXCEPT ![k].phase = "ended"]
          /\ UNCHANGED held
       \/ /\ p \in Attempts /\ ~LiveCapacityReached
          /\ Insert(p, [dialer |-> p.session, acceptor |-> k,
                        binding_id |-> None, phase |-> "Open",
                        finished |-> {}], {p})
          /\ dials' = Answered({p})
          /\ streams' = [streams EXCEPT ![k].phase = "open"]
          /\ held' = held \cup {<<p.session, p>>}
    /\ PipesOnly
    /\ UNCHANGED effects

(* Mutant of PeerOpenFailed: the peer's refusal is ignored. *)
PeerOpenFailedIgnored(k) ==
    /\ streams[k].phase = "opening"
    /\ streams' = [streams EXCEPT ![k].phase = "ended"]
    /\ PipesOnly
    /\ UNCHANGED <<table, effects, dials, held>>

(* peer_open_failed: the peer refused, or its answer timed out. *)
PeerOpenFailed(k) ==
    LET p == streams[k].pipe IN
    /\ streams[k].phase = "opening"
    /\ streams' = [streams EXCEPT ![k].phase = "ended"]
    /\ \/ p \in Attempts /\ FailAttempts({p})
       \/ p \notin Attempts /\ UNCHANGED <<table, dials>>
    /\ PipesOnly
    /\ UNCHANGED <<effects, held>>

-----------------------------------------------------------------------------
(***************************************************************************)
(* A peer's OPEN, and the loss of a PeerTransport.                         *)
(***************************************************************************)

(* Mutant of ReceivePeerOpen: draining is not checked. *)
ReceivePeerOpenWhileDraining(k, p, s, b, d) ==
    /\ streams[k].phase = "unused"
    /\ active_peer_opens[p] = None
    /\ ~LiveCapacityReached /\ ~PendingCapacityReached /\ Exact(b, s, d)
    /\ Insert(p, [dialer |-> k, acceptor |-> s, binding_id |-> b,
                  phase |-> "Offered", finished |-> {}], {})
    /\ streams' = [streams EXCEPT ![k] = [phase |-> "incoming", pipe |-> p]]
    /\ undelivered' = undelivered \cup {<<s, p>>}
    /\ held' = held \cup {<<s, p>>}
    /\ PipesOnly
    /\ UNCHANGED <<resolving, opening, cancelling, dials>>

(* receive_peer_open.  The peer names its own sessions, so its PipeId is    *)
(* active only together with its OpenIdentity.                             *)
ReceivePeerOpen(k, p, s, b, d) ==
    LET refused == \/ draining
                   \/ active_peer_opens[p] # None
                   \/ LiveCapacityReached
                   \/ PendingCapacityReached
                   \/ ~Exact(b, s, d) IN
    /\ streams[k].phase = "unused"
    /\ \/ /\ refused
          /\ streams' = [streams EXCEPT ![k] = [phase |-> "ended", pipe |-> p]]
          /\ UNCHANGED <<table, undelivered, held>>
       \/ /\ ~refused
          /\ Insert(p, [dialer |-> k, acceptor |-> s, binding_id |-> b,
                        phase |-> "Offered", finished |-> {}], {})
          /\ streams' = [streams EXCEPT
                            ![k] = [phase |-> "incoming", pipe |-> p]]
          /\ undelivered' = undelivered \cup {<<s, p>>}
          /\ held' = held \cup {<<s, p>>}
    /\ PipesOnly
    /\ UNCHANGED <<resolving, opening, cancelling, dials>>

(* peer_transport_lost_stream for each stream of K. *)
TransportLost(K) ==
    LET failed == {p \in Attempts : \E k \in K :
                      streams[k] = [phase |-> "opening", pipe |-> p]}
        lost == {p \in Active : Ends(p) \cap K # {}} IN
    /\ K # {}
    /\ \A k \in K : streams[k].phase \notin {"unused", "ended"}
    /\ Remove(lost, failed)
    /\ dials' = Answered(failed)
    /\ streams' = [k \in Keys |->
          IF k \in K THEN [phase |-> "ended", pipe |-> streams[k].pipe]
          ELSE streams[k]]
    /\ held' = held \ {<<e, p>> : e \in Sessions, p \in lost}
    /\ PipesOnly
    /\ UNCHANGED effects

-----------------------------------------------------------------------------
SessionNext(s) ==
    \/ AddSession(s)
    \/ RemoveSession(s)
    \/ \E d \in Destinations : PreparePublish(s, d)
    \/ \E c \in ConnIds, d \in Destinations : PrepareDial(s, c, d)
    \/ AuthorizationFailed(s)
    \/ Publish(s)
    \/ Dial(s)
    \/ \E b \in Bindings : Unpublish(s, b)

PipeNext(p) ==
    \/ \E s \in Sessions :
          \/ Cancel(s, p)
          \/ OfferDelivered(s, p)
          \/ OfferDeliveryRejected(s, p)
          \/ OfferAccepted(s, p)
          \/ OfferRejected(s, p)
          \/ MisplacedData(s, p)
    \/ \E e \in Endpoints : RelayFin(e, p) \/ RelayEnd(e, p)

OpenNext(p) ==
    \/ RouteResolved(p)
    \/ \E k \in Keys : OpenCommits(p, k)
    \/ PeerOpenCommitted(p)
    \/ PeerOpenCommitFailed(p)
    \/ CancelPeerOpen(p)

StreamNext(k) ==
    \/ PeerOpened(k)
    \/ PeerOpenFailed(k)
    \/ PeerReset(k)
    \/ \E p \in PeerPipeIds, s \in Sessions, b \in Bindings,
          d \in Destinations : ReceivePeerOpen(k, p, s, b, d)

Next ==
    \/ \E s \in Sessions : SessionNext(s)
    \/ \E p \in PipeIds : PipeNext(p)
    \/ \E p \in OwnPipeIds : OpenNext(p)
    \/ \E k \in Keys : StreamNext(k)
    \/ \E K \in SUBSET Keys : TransportLost(K)
    \/ \E X \in SUBSET Offered : ExpireOffers(X)
    \/ BeginDraining

Spec == Init /\ [][Next]_vars

-----------------------------------------------------------------------------
(* The Gateway's variables range over what their Rust types allow. *)
TypeOK ==
    /\ sessions \subseteq Sessions
    /\ ended \subseteq Sessions \ sessions
    /\ highest_connection_id \in [Sessions -> ConnIds \cup {0}]
    /\ authorizing \in [Sessions -> Operations \cup {None}]
    /\ by_id \in [Bindings -> Registered \cup {None}]
    /\ by_destination \in [Destinations -> Seq(Bindings)]
    /\ by_session \in [Sessions -> SUBSET Bindings]
    /\ next_selection \in [Destinations -> 0 .. CursorWrap - 1]
    /\ pipes \in [PipeIds -> PipeEntries \cup {None}]
    /\ peer_pipes \in [Keys -> PipeIds \cup {None}]
    /\ active_peer_opens \in [PipeIds -> Keys \cup {None}]
    /\ remote_open_attempts \in [OwnPipeIds -> RemoteOpenAttempts \cup {None}]
    /\ {pending_offer_count, live_pipe_count, originated_pipe_count}
          \subseteq Nat
    /\ draining \in BOOLEAN
    /\ published \in [Sessions -> SUBSET Bindings]
    /\ resolving \subseteq OwnPipeIds
    /\ opening \in [OwnPipeIds -> Keys \cup {"requested", None}]
    /\ cancelling \subseteq OwnPipeIds
    /\ undelivered \subseteq Sessions \X PipeIds
    /\ streams \in [Keys -> [phase : StreamPhases, pipe : PipeIds \cup {None}]]
    /\ dials \in [OwnPipeIds -> {"unused", "waiting", "answered", "repeated"}]
    /\ held \subseteq Sessions \X PipeIds

(* The three indexes of LocalRegistry describe the same bindings, and a     *)
(* session holds at most one binding per Destination (register, remove).   *)
RegistryIndexesAgree ==
    /\ \A b \in Bindings, s \in Sessions :
          b \in by_session[s] <=> by_id[b] # None /\ by_id[b].session = s
    /\ \A b \in Bindings, d \in Destinations :
          Cardinality({i \in 1 .. Len(by_destination[d]) :
                          by_destination[d][i] = b})
            = IF by_id[b] # None /\ by_id[b].destination = d THEN 1 ELSE 0
    /\ \A s \in Sessions, d \in Destinations :
          Cardinality(BindingsOf(s, d)) <= 1

(* The counters that admission and is_drained read count the Pipe table. *)
CountersMatchPipes ==
    /\ pending_offer_count = Cardinality(Offered)
    /\ live_pipe_count = Cardinality(Opened)
    /\ originated_pipe_count =
          Cardinality({p \in Opened : pipes[p].dialer \in Sessions})

(* peer_pipes holds exactly the peer ends of Pipes, and active_peer_opens   *)
(* exactly those and the committed attempts: remove_pipe and               *)
(* take_remote_attempt leave no entry behind.                              *)
PeerIndexesMatchPipes ==
    \A k \in Keys, p \in PipeIds :
        /\ peer_pipes[k] = p <=> p \in Active /\ k \in Ends(p)
        /\ active_peer_opens[p] = k <=>
              \/ p \in Active /\ k \in Ends(p)
              \/ p \in Attempts /\ remote_open_attempts[p].key = k

(* No peer stream is leaked: an incoming or open one is the end of a Pipe,  *)
(* and an opening one is awaited, or the reply to its OPEN, which ends it  *)
(* or binds it, is still to come.                                          *)
StreamsAreOwned ==
    \A k \in Keys :
        LET p == streams[k].pipe IN
        /\ streams[k].phase \in {"incoming", "open"} =>
              p \in Active /\ k \in Ends(p)
        /\ streams[k].phase = "opening" =>
              \/ p \in Attempts /\ remote_open_attempts[p].key = k
              \/ opening[p] = k

(* A remote attempt is never left without the effect or the stream that     *)
(* will settle it.                                                         *)
AttemptsHaveEffects ==
    \A p \in Attempts :
        /\ Phase(p) = "Resolving" => p \in resolving
        /\ Phase(p) = "StartingPeer" => opening[p] # None
        /\ Phase(p) = "AwaitingPeer" =>
              streams[remote_open_attempts[p].key] =
                  [phase |-> "opening", pipe |-> p]

(* No interleaving of admissions and late results exceeds GatewayLimits. *)
LimitsHold ==
    /\ Cardinality(sessions) <= MaxSessions
    /\ BindingCount <= MaxBindings
    /\ Cardinality(Opened) <= MaxLivePipes
    /\ Cardinality(Offered) + Cardinality(Attempts) <= MaxPendingOffers
    /\ Cardinality(Attempts) <= MaxRemoteDialAttempts

(* What the Gateway keeps beside the Pipe table agrees with it through late, *)
(* lost and refused effects: counters, peer indexes, peer streams and the  *)
(* effects that attempts wait for; and GatewayLimits hold.                 *)
PipeBooksAgree ==
    /\ TypeOK /\ CountersMatchPipes /\ PeerIndexesMatchPipes
    /\ StreamsAreOwned /\ AttemptsHaveEffects /\ LimitsHold

(* Nothing refers to a session that was removed: not a Pipe, not an attempt, *)
(* not a binding; a pending OFFER's binding is still registered to its     *)
(* acceptor, and no session is both ends of a Pipe.                        *)
EndpointsAreLive ==
    /\ \A p \in Active : /\ Ends(p) \cap Sessions \subseteq sessions
                         /\ pipes[p].dialer # pipes[p].acceptor
    /\ \A p \in Attempts : p.session \in sessions
    /\ \A b \in Bindings : by_id[b] # None => by_id[b].session \in sessions
    /\ \A p \in Offered :
          LET b == pipes[p].binding_id IN
          by_id[b] # None /\ by_id[b].session = pipes[p].acceptor

BeingAuthorized(p) ==
    Authorizing(p.session, "Dial") /\ authorizing[p.session].conn = p.conn

(* A DIAL is answered once: while it waits it is in exactly one of          *)
(* authorization, a remote attempt and a pending OFFER, and once answered  *)
(* it is in none of them.                                                  *)
OneAnswerPerDial ==
    \A p \in OwnPipeIds :
        LET stages == {i \in 1 .. 3 : \/ i = 1 /\ BeingAuthorized(p)
                                      \/ i = 2 /\ p \in Attempts
                                      \/ i = 3 /\ p \in Offered} IN
        /\ dials[p] # "repeated"
        /\ Cardinality(stages) = IF dials[p] = "waiting" THEN 1 ELSE 0

(* A session is told of the end of exactly the Pipes it was told of: no     *)
(* handler drops a Pipe without a frame to the other end.                  *)
EndpointsAreTold ==
    held = {h \in Sessions \X Active :
               \/ pipes[h[2]].acceptor = h[1]
               \/ h[2] \in Opened /\ pipes[h[2]].dialer = h[1]}

(* Routing was last given each session's current bindings, and nothing once *)
(* the Gateway drains: no handler changes the registry without publishing. *)
PublicationMatchesRegistry ==
    \A s \in Sessions :
        published[s] = IF draining \/ ~Distributed THEN {} ELSE by_session[s]

(* A late route answer, OPEN reply or OPENED never revives a DIAL that was  *)
(* answered and whose Pipe, if any, has ended.                             *)
EndedDialsStayEnded ==
    [][\A p \in OwnPipeIds :
          dials[p] \in {"answered", "repeated"} /\ p \notin Active =>
              p \notin Active' \cup Attempts']_vars

(* While the Gateway drains, the work is_drained waits for never grows. *)
DrainOnlyShrinks ==
    [][draining => pending_offer_count' + live_pipe_count' + Cardinality(Attempts')
                     <= pending_offer_count + live_pipe_count
                        + Cardinality(Attempts)]_vars

(* What has ended, or may no longer start, never comes back with a result   *)
(* that is applied late.                                                   *)
NothingRevives == EndedDialsStayEnded /\ DrainOnlyShrinks

-----------------------------------------------------------------------------
(***************************************************************************)
(* Fairness: verification, the effects and the peer's answers are bounded  *)
(* by timeouts (authorization_timeout, the resolver's and the peer         *)
(* runtime's deadlines, open_response_timeout), a queued frame is          *)
(* delivered or its session ends, and the offer sweep runs periodically.   *)
(***************************************************************************)
Fairness ==
    /\ \A s \in Sessions :
          WF_vars(AuthorizationFailed(s) \/ Publish(s) \/ Dial(s))
    /\ \A p \in OwnPipeIds :
          /\ WF_vars(RouteResolved(p))
          /\ WF_vars(PeerOpenCommitted(p) \/ PeerOpenCommitFailed(p))
    /\ \A k \in Keys : WF_vars(PeerOpened(k) \/ PeerOpenFailed(k))
    /\ \A p \in PipeIds :
          WF_vars(\E X \in SUBSET Offered : p \in X /\ ExpireOffers(X))

FairSpec == Spec /\ Fairness

(* Every DIAL is answered, or its session ends. *)
DialsAreSettled ==
    \A p \in OwnPipeIds : dials[p] = "waiting" ~> dials[p] # "waiting"

(* Draining settles every pending open, so is_drained waits only for live   *)
(* Pipes.                                                                  *)
DrainingSettlesOpens ==
    draining ~> pending_offer_count = 0 /\ Attempts = {}

(* Every open settles, whatever its effects return and draining or not. *)
OpensAreSettled == DialsAreSettled /\ DrainingSettlesOpens
=============================================================================
