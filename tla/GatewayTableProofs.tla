------------------------- MODULE GatewayTableProofs -------------------------
(* The Pipe table and the DIALs of a Gateway. *)
EXTENDS GatewayRegistryProofs

-----------------------------------------------------------------------------
(***************************************************************************)
(* What a step can do to the Pipe table.                                   *)
(***************************************************************************)

(* The stream that becomes an end of a Pipe is the end of no other. *)
FreeEnds(entry) ==
    \A q \in Active, k \in Keys : k \in {entry.dialer, entry.acceptor} => k \notin Ends(q)

(* A DIAL or a peer's OPEN is admitted as an OFFER. *)
Admits(p, entry) ==
    /\ p \in PipeIds \ Active /\ p \notin Attempts
    /\ entry \in PipeEntries /\ EntryOK(p, entry) /\ entry.phase = "Offered"
    /\ FreeEnds(entry)
    /\ ~draining /\ ~PendingCapacityReached
    /\ Insert(p, entry, {})

(* A remote attempt becomes an OFFER to a session of ours or an open Pipe. *)
Settles(p, entry) ==
    /\ p \in Attempts \ Active
    /\ entry \in PipeEntries /\ EntryOK(p, entry) /\ FreeEnds(entry)
    /\ entry.phase = "Open" => ~LiveCapacityReached
    /\ Insert(p, entry, {p})

Promotes(p) ==
    /\ p \in Offered
    /\ ~LiveCapacityReached
    /\ Promote(p)

Finishes(p, e) ==
    /\ p \in Opened /\ e \in Endpoints
    /\ pipes' = [pipes EXCEPT ![p].finished = @ \cup {e}]
    /\ UNCHANGED <<peer_pipes, active_peer_opens, remote_open_attempts,
                   pending_offer_count, live_pipe_count, originated_pipe_count>>

(* An attempt begins. *)
Begins(p, d) ==
    /\ p \in OwnPipeIds \ Attempts
    /\ p.session \in sessions /\ d \in Destinations
    /\ ~draining /\ ~PendingCapacityReached
    /\ Cardinality(Attempts) < MaxRemoteDialAttempts
    /\ remote_open_attempts' = [remote_open_attempts EXCEPT ![p] =
          [destination |-> d, phase |-> "Resolving", key |-> None]]
    /\ UNCHANGED <<pipes, peer_pipes, active_peer_opens, pending_offer_count,
                   live_pipe_count, originated_pipe_count>>

(* An attempt starts its OPEN. *)
Starts(p) ==
    /\ p \in Attempts /\ remote_open_attempts[p].phase = "Resolving"
    /\ remote_open_attempts' = [remote_open_attempts EXCEPT
                                   ![p].phase = "StartingPeer"]
    /\ UNCHANGED <<pipes, peer_pipes, active_peer_opens, pending_offer_count,
                   live_pipe_count, originated_pipe_count>>

(* The OPEN of an attempt is committed on the stream k. *)
Commits(p, k) ==
    /\ p \in Attempts /\ k \in Keys
    /\ active_peer_opens' = [active_peer_opens EXCEPT ![p] = k]
    /\ remote_open_attempts' = [remote_open_attempts EXCEPT
          ![p] = [@ EXCEPT !.phase = "AwaitingPeer", !.key = k]]
    /\ UNCHANGED <<pipes, peer_pipes, pending_offer_count, live_pipe_count,
                   originated_pipe_count>>

TableStep ==
    \/ UNCHANGED table
    \/ \E R \in SUBSET Active, T \in SUBSET Attempts : Remove(R, T)
    \/ \E p \in PipeIds, entry \in PipeEntries : Admits(p, entry)
    \/ \E p \in PipeIds, entry \in PipeEntries : Settles(p, entry)
    \/ \E p \in PipeIds : Promotes(p)
    \/ \E p \in PipeIds, e \in Endpoints : Finishes(p, e)
    \/ \E p \in OwnPipeIds, d \in Destinations : Begins(p, d)
    \/ \E p \in OwnPipeIds : Starts(p)
    \/ \E p \in OwnPipeIds, k \in Keys : Commits(p, k)

(* The Pipe identity of a DIAL whose token is verified. *)
LEMMA DialFacts ==
    ASSUME AdmissionOK, NEW s \in Sessions, Authorizing(s, "Dial")
    PROVE  LET p == PipeId(s, authorizing[s].conn) IN
           /\ p \in OwnPipeIds /\ p \in PipeIds
           /\ p.session = s /\ p.conn = authorizing[s].conn
           /\ BeingAuthorized(p)
           /\ s \in sessions
           /\ authorizing[s].destination \in Destinations
<1>1. /\ authorizing[s] \in Operations /\ authorizing[s].kind = "Dial"
      /\ s \in sessions
  BY DEF AdmissionOK, Authorizing
<1>2. authorizing[s].conn \in ConnIds /\ authorizing[s].destination \in Destinations
  BY <1>1 DEF Operations
<1> QED BY <1>1, <1>2 DEF PipeId, OwnPipeIds, PipeIds, BeingAuthorized

(* An OFFER to a registered binding of another session is well-formed. *)
LEMMA LocalEntryOK ==
    ASSUME RegistryOK, AdmissionOK, NEW p \in OwnPipeIds, p.session \in sessions,
           NEW b \in Bindings, by_id[b] # None, by_id[b].session # p.session
    PROVE  LET entry == [dialer |-> p.session, acceptor |-> by_id[b].session,
                         binding_id |-> b, phase |-> "Offered", finished |-> {}]
           IN  entry \in PipeEntries /\ EntryOK(p, entry) /\ FreeEnds(entry)
<1>1. by_id[b].session \in sessions /\ sessions \subseteq Sessions
  BY DEF RegistryOK, AdmissionOK
<1>2. \A k \in Keys : k # p.session /\ k # by_id[b].session
  BY <1>1, IdentityAssumption
<1> QED BY <1>1, <1>2 DEF PipeEntries, EntryOK, Endpoints, FreeEnds

(* Every action does one of these things to the table. *)
LEMMA TableCases ==
    ASSUME IInv, Next
    PROVE  TableStep
<1> USE DEF IInv
<1>1. ASSUME NEW s \in Sessions, Dial(s)
      PROVE  TableStep
  <2> DEFINE d == authorizing[s].destination
             p == PipeId(s, authorizing[s].conn)
  <2>1. Authorizing(s, "Dial")
    BY <1>1 DEF Dial
  <2>2. /\ p \in OwnPipeIds /\ p \in PipeIds /\ p.session = s /\ s \in sessions
        /\ BeingAuthorized(p) /\ d \in Destinations
    BY <2>1, DialFacts
  <2>3. p \notin Active /\ p \notin Attempts
    BY <2>2 DEF DialsOK, DialOK
  <2> HIDE DEF p, d
  <2>4. CASE UNCHANGED table
    BY <2>4 DEF TableStep
  <2>5. CASE /\ ~DialRefused(s, d) /\ Eligible(d, s) # <<>>
             /\ OfferLocal(p, Selected(d, s), {})
    <3> DEFINE b == Selected(d, s)
               entry == [dialer |-> p.session, acceptor |-> by_id[b].session,
                         binding_id |-> b, phase |-> "Offered", finished |-> {}]
    <3>1. b \in Bindings /\ by_id[b] # None /\ by_id[b].session # s
      BY <2>2, <2>5, SelectedIsBound DEF RegistryOK
    <3> HIDE DEF b
    <3>2. /\ entry \in PipeEntries /\ EntryOK(p, entry) /\ entry.phase = "Offered"
          /\ FreeEnds(entry)
      BY <2>2, <3>1, LocalEntryOK
    <3>3. Insert(p, entry, {})
      BY <2>5 DEF OfferLocal, b
    <3>4. ~draining /\ ~PendingCapacityReached
      BY <2>5 DEF DialRefused
    <3> HIDE DEF entry
    <3> QED BY <2>2, <2>3, <3>2, <3>3, <3>4 DEF TableStep, Admits
  <2>6. CASE /\ ~DialRefused(s, d) /\ Eligible(d, s) = <<>>
             /\ remote_open_attempts' = [remote_open_attempts EXCEPT ![p] =
                   [destination |-> d, phase |-> "Resolving", key |-> None]]
             /\ UNCHANGED <<pipes, peer_pipes, active_peer_opens,
                            pending_offer_count, live_pipe_count,
                            originated_pipe_count>>
    <3>1. ~draining /\ ~PendingCapacityReached
      BY <2>6 DEF DialRefused
    <3>2. Cardinality(Attempts) < MaxRemoteDialAttempts
      <4>1. Cardinality(Attempts) \in Nat
        BY FS_CardinalityType DEF CountsOK
      <4> QED BY <2>6, <4>1, LimitsAssumption DEF DialRefused
    <3>3. Begins(p, d)
      BY <2>2, <2>3, <2>6, <3>1, <3>2 DEF Begins
    <3> QED BY <2>2, <3>3 DEF TableStep
  <2> QED BY <1>1, <2>4, <2>5, <2>6 DEF Dial, p, d
<1>2. ASSUME NEW p \in OwnPipeIds, RouteResolved(p)
      PROVE  TableStep
  <2>1. CASE UNCHANGED table
    BY <2>1 DEF TableStep
  <2>2. ASSUME NEW s \in Sessions \ {p.session}, NEW b \in Bindings,
               Phase(p) = "Resolving",
               Exact(b, s, remote_open_attempts[p].destination),
               OfferLocal(p, b, {p})
        PROVE  TableStep
    <3> DEFINE entry == [dialer |-> p.session, acceptor |-> by_id[b].session,
                         binding_id |-> b, phase |-> "Offered", finished |-> {}]
    <3>1. p \in Attempts /\ p.session \in sessions /\ p \in PipeIds
      BY <2>2 DEF Phase, EntriesOK, OwnPipeIds, PipeIds
    <3>2. p \notin Active
      BY <3>1 DEF DialsOK, DialOK
    <3>3. by_id[b] # None /\ by_id[b].session # p.session
      <4>1. remote_open_attempts[p].destination \in Destinations
        BY <3>1, NoneAssumption DEF TableTypes, Attempts, RemoteOpenAttempts
      <4> QED BY <2>2, <4>1, NoneAssumption DEF Exact, Registered
    <3>4. /\ entry \in PipeEntries /\ EntryOK(p, entry) /\ entry.phase = "Offered"
          /\ FreeEnds(entry)
      BY <3>1, <3>3, LocalEntryOK
    <3>5. Insert(p, entry, {p})
      BY <2>2 DEF OfferLocal
    <3> HIDE DEF entry
    <3> QED BY <3>1, <3>2, <3>4, <3>5 DEF TableStep, Settles
  <2>3. CASE /\ Phase(p) = "Resolving"
             /\ remote_open_attempts' = [remote_open_attempts EXCEPT
                                            ![p].phase = "StartingPeer"]
             /\ UNCHANGED <<pipes, peer_pipes, active_peer_opens,
                            pending_offer_count, live_pipe_count,
                            originated_pipe_count>>
    BY <2>3 DEF TableStep, Starts, Phase
  <2>4. CASE Phase(p) = "Resolving" /\ FailAttempts({p})
    <3>1. p \in Attempts
      BY <2>4 DEF Phase
    <3> QED BY <2>4, <3>1 DEF TableStep, FailAttempts
  <2> QED BY <1>2, <2>1, <2>2, <2>3, <2>4 DEF RouteResolved
<1>3. ASSUME NEW p \in OwnPipeIds, PeerOpenCommitted(p)
      PROVE  TableStep
  <2>1. CASE UNCHANGED table
    BY <2>1 DEF TableStep
  <2>2. CASE Phase(p) = "StartingPeer" /\ Commits(p, opening[p])
    BY <1>3, <2>2 DEF TableStep, PeerOpenCommitted
  <2>3. Phase(p) = "StartingPeer" => p \in Attempts
    BY DEF Phase
  <2> QED BY <1>3, <2>1, <2>2, <2>3 DEF PeerOpenCommitted, Commits
<1>4. ASSUME NEW k \in Keys, PeerOpened(k)
      PROVE  TableStep
  <2> DEFINE p == streams[k].pipe
             entry == [dialer |-> p.session, acceptor |-> k, binding_id |-> None,
                       phase |-> "Open", finished |-> {}]
  <2>1. CASE UNCHANGED table
    BY <2>1 DEF TableStep
  <2>2. CASE p \in Attempts /\ FailAttempts({p})
    BY <2>2 DEF TableStep, FailAttempts
  <2>3. CASE /\ p \in Attempts /\ ~LiveCapacityReached
             /\ Insert(p, entry, {p})
    <3>1. p \in OwnPipeIds /\ p.session \in sessions /\ p \in PipeIds
      BY <2>3 DEF Attempts, EntriesOK, OwnPipeIds, PipeIds
    <3>2. p \notin Active
      BY <2>3, <3>1 DEF DialsOK, DialOK
    <3>3. entry \in PipeEntries /\ EntryOK(p, entry)
      <4>1. p.session \in Sessions /\ k \notin Sessions
        BY <3>1, IdentityAssumption DEF AdmissionOK
      <4> HIDE DEF p
      <4> QED BY <3>1, <4>1 DEF PipeEntries, EntryOK, Endpoints
    <3>4. FreeEnds(entry)
      <4>1. k # p.session /\ (\A j \in Keys : j # p.session)
        BY <3>1, IdentityAssumption DEF AdmissionOK
      <4>2. streams[k].phase \notin {"incoming", "open"}
        BY <1>4 DEF PeerOpened
      <4>3. \A q \in Active : k \notin Ends(q)
        BY <4>2 DEF StreamsOK, KeyEndsOK
      <4> HIDE DEF p
      <4> QED BY <4>1, <4>3 DEF FreeEnds
    <3> HIDE DEF p, entry
    <3> QED BY <2>3, <3>1, <3>2, <3>3, <3>4 DEF TableStep, Settles
  <2> QED BY <1>4, <2>1, <2>2, <2>3 DEF PeerOpened
<1>5. ASSUME NEW k \in Keys, NEW p \in PeerPipeIds, NEW s \in Sessions,
             NEW b \in Bindings, NEW d \in Destinations,
             ReceivePeerOpen(k, p, s, b, d)
      PROVE  TableStep
  <2> DEFINE entry == [dialer |-> k, acceptor |-> s, binding_id |-> b,
                       phase |-> "Offered", finished |-> {}]
  <2>1. CASE UNCHANGED table
    BY <2>1 DEF TableStep
  <2>2. CASE /\ ~draining /\ active_peer_opens[p] = None
             /\ ~PendingCapacityReached
             /\ Exact(b, s, d) /\ Insert(p, entry, {})
    <3>1. p \in PipeIds /\ p \notin OwnPipeIds
      BY IdentityAssumption DEF PipeIds, PeerPipeIds, OwnPipeIds
    <3>2. p \notin Active
      <4>1. SUFFICES ASSUME p \in Active PROVE FALSE
        OBVIOUS
      <4>2. pipes[p].dialer \in Keys
        BY <3>1, <4>1 DEF EntriesOK, EntryOK
      <4>3. active_peer_opens[p] = pipes[p].dialer
        BY <3>1, <4>1, <4>2 DEF StreamsOK, PeerIndexesMatchPipes, Ends
      <4> QED BY <2>2, <4>2, <4>3, IdentityAssumption
    <3>3. /\ by_id[b] # None /\ by_id[b].session = s /\ s \in sessions
      BY <2>2, NoneAssumption DEF Exact, Registered, RegistryOK
    <3>4. entry \in PipeEntries /\ EntryOK(p, entry)
      BY <3>1, <3>3, IdentityAssumption DEF PipeEntries, EntryOK, Endpoints
    <3>5. FreeEnds(entry)
      <4>1. streams[k].phase \notin {"incoming", "open"}
        BY <1>5 DEF ReceivePeerOpen
      <4>2. \A q \in Active : k \notin Ends(q)
        BY <4>1 DEF StreamsOK, KeyEndsOK
      <4> QED BY <4>2, IdentityAssumption DEF FreeEnds
    <3>6. p \notin Attempts
      BY <3>1 DEF Attempts
    <3> HIDE DEF entry
    <3> QED BY <2>2, <3>1, <3>2, <3>4, <3>5, <3>6 DEF TableStep, Admits, entry
  <2> QED BY <1>5, <2>1, <2>2 DEF ReceivePeerOpen
<1>6. ASSUME NEW s \in Sessions, NEW p \in PipeIds, OfferAccepted(s, p)
      PROVE  TableStep
  <2>1. CASE Remove({p}, {})
    BY <1>6, <2>1 DEF TableStep, OfferAccepted, OnPipe
  <2>2. CASE Promote(p) /\ p \in Offered /\ ~LiveCapacityReached
    BY <2>2 DEF TableStep, Promotes
  <2> QED BY <1>6, <2>1, <2>2 DEF OfferAccepted, ProtocolReset
<1>7. ASSUME NEW e \in Endpoints, NEW p \in PipeIds, RelayFin(e, p)
      PROVE  TableStep
  <2>1. CASE p \in Active /\ Remove({p}, {})
    BY <2>1 DEF TableStep
  <2>2. CASE Finishes(p, e)
    BY <2>2 DEF TableStep
  <2> QED BY <1>7, <2>1, <2>2 DEF RelayFin, ProtocolReset, Finishes, Offered, Opened
<1>8. ASSUME \/ \E s \in Sessions, p \in PipeIds :
                   \/ Cancel(s, p) \/ OfferDelivered(s, p)
                   \/ OfferDeliveryRejected(s, p) \/ OfferRejected(s, p)
                   \/ MisplacedData(s, p)
             \/ \E e \in Endpoints, p \in PipeIds : RelayEnd(e, p)
             \/ \E k \in Keys : PeerReset(k)
             \/ \E p \in OwnPipeIds : PeerOpenCommitFailed(p)
             \/ \E k \in Keys : PeerOpenFailed(k)
      PROVE  TableStep
  <2>1. CASE UNCHANGED table
    BY <2>1 DEF TableStep
  <2>2. ASSUME NEW p \in Active, Remove({p}, {})
        PROVE  TableStep
    BY <2>2 DEF TableStep
  <2>3. ASSUME NEW p \in Attempts, Remove({}, {p})
        PROVE  TableStep
    BY <2>3 DEF TableStep
  <2>4. ASSUME NEW s \in Sessions, NEW p \in PipeIds,
               \/ Cancel(s, p) \/ OfferDelivered(s, p)
               \/ OfferDeliveryRejected(s, p) \/ OfferRejected(s, p)
               \/ MisplacedData(s, p) \/ RelayEnd(s, p)
        PROVE  TableStep
    BY <2>1, <2>2, <2>3, <2>4
       DEF Cancel, OfferDelivered, OfferDeliveryRejected, OfferRejected,
           MisplacedData, RelayEnd, ProtocolReset, CancelRemoteAttempt, OnPipe,
           Offered, Opened
  <2>5. ASSUME NEW e \in Endpoints, NEW p \in PipeIds, RelayEnd(e, p)
        PROVE  TableStep
    BY <2>2, <2>5 DEF RelayEnd, ProtocolReset, Offered, Opened
  <2>6. ASSUME NEW k \in Keys, PeerReset(k)
        PROVE  TableStep
    <3>1. streams[k].pipe \in Active /\ k \in Ends(streams[k].pipe)
      BY <2>6 DEF PeerReset, StreamsOK, StreamsAreOwned
    <3>2. peer_pipes[k] = streams[k].pipe
      BY <3>1 DEF StreamsOK, PeerIndexesMatchPipes, Active
    <3> QED BY <2>2, <2>6, <3>1, <3>2 DEF PeerReset
  <2>7. ASSUME NEW p \in OwnPipeIds, PeerOpenCommitFailed(p)
        PROVE  TableStep
    BY <2>1, <2>3, <2>7 DEF PeerOpenCommitFailed, FailAttempts, Phase
  <2>8. ASSUME NEW k \in Keys, PeerOpenFailed(k)
        PROVE  TableStep
    BY <2>1, <2>3, <2>8 DEF PeerOpenFailed, FailAttempts
  <2> QED BY <1>8, <2>4, <2>5, <2>6, <2>7, <2>8
<1>9. ASSUME NEW S \in SUBSET sessions, RemoveSessions(S)
      PROVE  TableStep
  BY <1>9 DEF RemoveSessions, TableStep
<1>10. ASSUME NEW s \in Sessions, NEW b \in Bindings, Unpublish(s, b)
      PROVE  TableStep
  BY <1>10 DEF Unpublish, CancelPendingBinding, TableStep, Offered
<1>11. ASSUME NEW K \in SUBSET Keys, TransportLost(K)
      PROVE  TableStep
  BY <1>11 DEF TransportLost, TableStep
<1>12. ASSUME \/ \E s \in Sessions : AddSession(s)
              \/ \E s \in Sessions, d \in Destinations : PreparePublish(s, d)
              \/ \E s \in Sessions, c \in ConnIds, d \in Destinations :
                    PrepareDial(s, c, d)
              \/ \E s \in Sessions : AuthorizationFailed(s)
              \/ \E s \in Sessions : Publish(s)
              \/ \E p \in OwnPipeIds, k \in Keys : OpenCommits(p, k)
              \/ \E p \in OwnPipeIds : CancelPeerOpen(p)
              \/ BeginDraining
       PROVE  TableStep
  <2>1. UNCHANGED table
    BY <1>12 DEF AddSession, PreparePublish, PrepareDial, AuthorizationFailed,
                 Publish, OpenCommits, CancelPeerOpen, BeginDraining
  <2> QED BY <2>1 DEF TableStep
<1>13. RegistryTypes /\ EntriesOK
  BY DEF RegistryOK
<1> QED BY StepCases, <1>1, <1>2, <1>3, <1>4, <1>5, <1>6, <1>7, <1>8, <1>9,
           <1>10, <1>11, <1>12, <1>13, Zenon

-----------------------------------------------------------------------------
(***************************************************************************)
(* Types and ends.                                                         *)
(***************************************************************************)

(* Only an attempt whose OPEN was committed has a key. *)
LEMMA TableTypesStep ==
    ASSUME TableTypes, TableStep
    PROVE  TableTypes'
<1> USE NoneAssumption, IdentityAssumption DEF TableTypes
<1>1. CASE UNCHANGED table
  BY <1>1 DEF table, Attempts
<1>2. ASSUME NEW R \in SUBSET Active, NEW T \in SUBSET Attempts, Remove(R, T)
      PROVE  TableTypes'
  BY <1>2 DEF Remove, Attempts
<1>3. ASSUME NEW p \in PipeIds, NEW entry \in PipeEntries, NEW T, Insert(p, entry, T)
      PROVE  TableTypes'
  <2> DEFINE K == {entry.dialer, entry.acceptor} \cap Keys
  <2>1. K # {} => (CHOOSE k \in K : TRUE) \in Keys
    OBVIOUS
  <2>2. active_peer_opens' \in [PipeIds -> Keys \cup {None}]
    BY <1>3, <2>1 DEF Insert
  <2>3. peer_pipes' \in [Keys -> PipeIds \cup {None}]
    BY <1>3 DEF Insert
  <2> QED BY <1>3, <2>2, <2>3 DEF Insert, Attempts
<1>4. ASSUME NEW p \in PipeIds, Promotes(p) \/ \E e \in Endpoints : Finishes(p, e)
      PROVE  TableTypes'
  <2>1. pipes[p] \in PipeEntries
    BY <1>4 DEF Promotes, Finishes, Offered, Opened, Active
  <2>2. \A x \in PipeEntries : /\ [x EXCEPT !.phase = "Open"] \in PipeEntries
                               /\ \A e \in Endpoints :
                                     [x EXCEPT !.finished = @ \cup {e}] \in PipeEntries
    BY DEF PipeEntries
  <2>3. pipes' \in [PipeIds -> PipeEntries \cup {None}]
    <3>1. CASE Promotes(p)
      <4>1. pipes' = [pipes EXCEPT ![p] = [pipes[p] EXCEPT !.phase = "Open"]]
        BY <3>1 DEF Promotes, Promote
      <4> QED BY <2>1, <2>2, <4>1
    <3>2. ASSUME NEW e \in Endpoints, Finishes(p, e)
          PROVE  pipes' \in [PipeIds -> PipeEntries \cup {None}]
      <4>1. pipes' = [pipes EXCEPT ![p] = [pipes[p] EXCEPT !.finished = @ \cup {e}]]
        BY <3>2 DEF Finishes
      <4> QED BY <2>1, <2>2, <4>1
    <3> QED BY <1>4, <3>1, <3>2
  <2> QED BY <1>4, <2>3 DEF Promotes, Promote, Finishes, Attempts
<1>5. ASSUME NEW p \in OwnPipeIds, NEW d \in Destinations, Begins(p, d)
      PROVE  TableTypes'
  BY <1>5 DEF Begins, Attempts, RemoteOpenAttempts
<1>6. ASSUME NEW p \in OwnPipeIds, Starts(p)
      PROVE  TableTypes'
  BY <1>6 DEF Starts, Attempts, RemoteOpenAttempts
<1>7. ASSUME NEW p \in OwnPipeIds, NEW k \in Keys, Commits(p, k)
      PROVE  TableTypes'
  <2> DEFINE old == remote_open_attempts[p]
             new == [old EXCEPT !.phase = "AwaitingPeer", !.key = k]
  <2>1. remote_open_attempts' = [remote_open_attempts EXCEPT ![p] = new]
    BY <1>7 DEF Commits
  <2>2. old \in RemoteOpenAttempts
    BY <1>7 DEF Commits, Attempts
  <2>3. new \in RemoteOpenAttempts /\ new.key = k /\ new.phase = "AwaitingPeer"
    BY <2>2 DEF RemoteOpenAttempts
  <2> HIDE DEF new
  <2>4. active_peer_opens' \in [PipeIds -> Keys \cup {None}]
    BY <1>7 DEF Commits
  <2> QED BY <1>7, <2>1, <2>3, <2>4 DEF Commits, Attempts
<1> QED BY <1>1, <1>2, <1>3, <1>4, <1>5, <1>6, <1>7
        DEF TableStep, Admits, Settles

(* The Pipes and attempts there are after a step. *)
LEMMA AfterRemove ==
    ASSUME TableTypes, NEW R \in SUBSET Active, NEW T \in SUBSET Attempts, Remove(R, T)
    PROVE  /\ Active' = Active \ R /\ Attempts' = Attempts \ T
           /\ \A p \in Active' : pipes'[p] = pipes[p]
           /\ \A p \in Attempts' : remote_open_attempts'[p] = remote_open_attempts[p]
BY DEF TableTypes, Remove, Active, Attempts

(* insert_offer and insert_open. *)
LEMMA AfterInsert ==
    ASSUME TableTypes, NEW p \in PipeIds, NEW entry \in PipeEntries, NEW T,
           Insert(p, entry, T)
    PROVE  /\ Active' = Active \cup {p} /\ Attempts' = Attempts \ T
           /\ pipes'[p] = entry
           /\ \A q \in Active : q # p => pipes'[q] = pipes[q]
           /\ \A q \in Attempts' : remote_open_attempts'[q] = remote_open_attempts[q]
BY NoneAssumption DEF TableTypes, Insert, Active, Attempts

(* promote_offer. *)
LEMMA AfterPromote ==
    ASSUME TableTypes, NEW p \in Offered, Promote(p)
    PROVE  /\ Active' = Active /\ Attempts' = Attempts
           /\ pipes'[p] = [pipes[p] EXCEPT !.phase = "Open"]
           /\ \A q \in Active : q # p => pipes'[q] = pipes[q]
           /\ remote_open_attempts' = remote_open_attempts
<1>1. p \in PipeIds /\ pipes[p] \in PipeEntries
  BY DEF TableTypes, Offered, Active
<1>2. [pipes[p] EXCEPT !.phase = "Open"] \in PipeEntries
  BY <1>1 DEF PipeEntries
<1> QED BY <1>1, <1>2, NoneAssumption DEF TableTypes, Promote, Active, Attempts

(* relay_fin. *)
LEMMA AfterFinish ==
    ASSUME TableTypes, NEW p \in Opened, NEW e \in Endpoints, Finishes(p, e)
    PROVE  /\ Active' = Active /\ Attempts' = Attempts
           /\ pipes'[p] = [pipes[p] EXCEPT !.finished = @ \cup {e}]
           /\ \A q \in Active : q # p => pipes'[q] = pipes[q]
           /\ remote_open_attempts' = remote_open_attempts
<1>1. p \in PipeIds /\ pipes[p] \in PipeEntries
  BY DEF TableTypes, Opened, Active
<1>2. [pipes[p] EXCEPT !.finished = @ \cup {e}] \in PipeEntries
  BY <1>1 DEF PipeEntries
<1> QED BY <1>1, <1>2, NoneAssumption DEF TableTypes, Finishes, Active, Attempts

(* A remote attempt begins. *)
LEMMA AfterBegin ==
    ASSUME TableTypes, NEW p \in OwnPipeIds, NEW d \in Destinations, Begins(p, d)
    PROVE  /\ Active' = Active /\ Attempts' = Attempts \cup {p}
           /\ remote_open_attempts'[p] =
                 [destination |-> d, phase |-> "Resolving", key |-> None]
           /\ \A q \in Attempts : q # p =>
                 remote_open_attempts'[q] = remote_open_attempts[q]
<1>1. [destination |-> d, phase |-> "Resolving", key |-> None] \in RemoteOpenAttempts
  BY DEF RemoteOpenAttempts
<1> QED BY <1>1, NoneAssumption DEF TableTypes, Begins, Active, Attempts

(* Its OPEN is requested. *)
LEMMA AfterStart ==
    ASSUME TableTypes, NEW p \in OwnPipeIds, Starts(p)
    PROVE  /\ Active' = Active /\ Attempts' = Attempts
           /\ remote_open_attempts'[p] =
                 [remote_open_attempts[p] EXCEPT !.phase = "StartingPeer"]
           /\ \A q \in Attempts : q # p =>
                 remote_open_attempts'[q] = remote_open_attempts[q]
<1>1. \A r \in RemoteOpenAttempts :
         [r EXCEPT !.phase = "StartingPeer"] \in RemoteOpenAttempts
  BY DEF RemoteOpenAttempts
<1> QED BY <1>1, NoneAssumption DEF TableTypes, Starts, Active, Attempts

(* Its OPEN is committed. *)
LEMMA AfterCommit ==
    ASSUME TableTypes, NEW p \in OwnPipeIds, NEW k \in Keys, Commits(p, k)
    PROVE  /\ Active' = Active /\ Attempts' = Attempts
           /\ remote_open_attempts'[p] =
                 [remote_open_attempts[p] EXCEPT !.phase = "AwaitingPeer", !.key = k]
           /\ \A q \in Attempts : q # p =>
                 remote_open_attempts'[q] = remote_open_attempts[q]
<1>1. \A r \in RemoteOpenAttempts :
         [r EXCEPT !.phase = "AwaitingPeer", !.key = k] \in RemoteOpenAttempts
  BY DEF RemoteOpenAttempts
<1> QED BY <1>1, NoneAssumption DEF TableTypes, Commits, Active, Attempts

-----------------------------------------------------------------------------
(***************************************************************************)
(* Counters and limits.                                                    *)
(***************************************************************************)

Dialed == {p \in Opened : pipes[p].dialer \in Sessions}

TableCountsOK ==
    /\ IsFiniteSet(Active) /\ IsFiniteSet(Attempts)
    /\ CountersMatchPipes
    /\ Cardinality(Opened) <= MaxLivePipes
    /\ Cardinality(Offered) + Cardinality(Attempts) <= MaxPendingOffers
    /\ Cardinality(Attempts) <= MaxRemoteDialAttempts

Pending == Cardinality(Offered) + Cardinality(Opened) + Cardinality(Attempts)

(* The parts of a finite table are finite. *)
LEMMA FiniteParts ==
    ASSUME IsFiniteSet(Active), IsFiniteSet(Attempts)
    PROVE  /\ IsFiniteSet(Offered) /\ IsFiniteSet(Opened) /\ IsFiniteSet(Dialed)
           /\ Cardinality(Offered) \in Nat /\ Cardinality(Opened) \in Nat
           /\ Cardinality(Dialed) \in Nat /\ Cardinality(Attempts) \in Nat
<1>1. Offered \subseteq Active /\ Opened \subseteq Active /\ Dialed \subseteq Active
  BY DEF Offered, Opened, Dialed
<1> QED BY <1>1, FS_Subset, FS_CardinalityType

(* remove_pipe takes from each counter what it takes from the table. *)
LEMMA RemoveCounts ==
    ASSUME TableTypes, TableCountsOK, NEW R \in SUBSET Active,
           NEW T \in SUBSET Attempts, Remove(R, T)
    PROVE  TableCountsOK' /\ Pending' <= Pending
<1> DEFINE O == {p \in R : Originated(pipes[p])}
<1>0. /\ IsFiniteSet(Offered) /\ IsFiniteSet(Opened) /\ IsFiniteSet(Dialed)
      /\ Cardinality(Offered) \in Nat /\ Cardinality(Opened) \in Nat
      /\ Cardinality(Dialed) \in Nat /\ Cardinality(Attempts) \in Nat
  BY FiniteParts DEF TableCountsOK
<1>1. /\ Active' = Active \ R /\ Attempts' = Attempts \ T
      /\ \A p \in Active' : pipes'[p] = pipes[p]
  BY AfterRemove
<1>2. Offered' = Offered \ R /\ Opened' = Opened \ R /\ Dialed' = Dialed \ R
  BY <1>1 DEF Offered, Opened, Dialed
<1>3. O = Dialed \cap R
  BY DEF Originated, Dialed, Opened
<1> HIDE DEF O
<1>4. /\ Cardinality(Offered') = Cardinality(Offered) - Cardinality(R \cap Offered)
      /\ Cardinality(Opened') = Cardinality(Opened) - Cardinality(R \cap Opened)
      /\ Cardinality(Dialed') = Cardinality(Dialed) - Cardinality(O)
      /\ Cardinality(Attempts') = Cardinality(Attempts) - Cardinality(Attempts \cap T)
  <2>1. /\ R \cap Offered = Offered \cap R /\ R \cap Opened = Opened \cap R
    OBVIOUS
  <2>2. /\ Cardinality(Offered \ R) = Cardinality(Offered) - Cardinality(Offered \cap R)
        /\ Cardinality(Opened \ R) = Cardinality(Opened) - Cardinality(Opened \cap R)
        /\ Cardinality(Dialed \ R) = Cardinality(Dialed) - Cardinality(Dialed \cap R)
    BY <1>0, FS_Difference
  <2>3. Cardinality(Attempts \ T) = Cardinality(Attempts) - Cardinality(Attempts \cap T)
    BY FS_Difference DEF TableCountsOK
  <2> QED BY <1>1, <1>2, <1>3, <2>1, <2>2, <2>3
<1>5. /\ Cardinality(Offered') \in Nat /\ Cardinality(Opened') \in Nat
      /\ Cardinality(Attempts') \in Nat
      /\ Cardinality(Offered') <= Cardinality(Offered)
      /\ Cardinality(Opened') <= Cardinality(Opened)
      /\ Cardinality(Attempts') <= Cardinality(Attempts)
  <2>1. /\ Offered' \subseteq Offered /\ Opened' \subseteq Opened
        /\ Attempts' \subseteq Attempts
    BY <1>1, <1>2
  <2> QED BY <1>0, <2>1, FS_Subset, FS_CardinalityType DEF TableCountsOK
<1>6. IsFiniteSet(Active') /\ IsFiniteSet(Attempts')
  BY <1>1, FS_Difference DEF TableCountsOK
<1>7. CountersMatchPipes'
  BY <1>4 DEF TableCountsOK, CountersMatchPipes, Remove, O, Dialed
<1>8. Pending' <= Pending
  BY <1>0, <1>5 DEF Pending
<1> QED BY <1>0, <1>5, <1>6, <1>7, <1>8, LimitsAssumption DEF TableCountsOK

(* insert_offer and insert_open add one to the counter of the phase. *)
LEMMA InsertCounts ==
    ASSUME TableTypes, TableCountsOK, NEW p \in PipeIds \ Active,
           NEW entry \in PipeEntries, NEW T \in SUBSET Attempts,
           Insert(p, entry, T)
    PROVE  /\ IsFiniteSet(Active') /\ IsFiniteSet(Attempts')
           /\ CountersMatchPipes'
           /\ Cardinality(Offered') = Cardinality(Offered) +
                 (IF entry.phase = "Offered" THEN 1 ELSE 0)
           /\ Cardinality(Opened') = Cardinality(Opened) +
                 (IF entry.phase = "Open" THEN 1 ELSE 0)
           /\ Cardinality(Attempts') = Cardinality(Attempts) - Cardinality(T)
           /\ Cardinality(T) \in Nat
<1>0. /\ IsFiniteSet(Offered) /\ IsFiniteSet(Opened) /\ IsFiniteSet(Dialed)
      /\ Cardinality(Offered) \in Nat /\ Cardinality(Opened) \in Nat
      /\ Cardinality(Dialed) \in Nat /\ Cardinality(Attempts) \in Nat
  BY FiniteParts DEF TableCountsOK
<1>1. /\ Active' = Active \cup {p} /\ Attempts' = Attempts \ T /\ pipes'[p] = entry
      /\ \A q \in Active : q # p => pipes'[q] = pipes[q]
  BY AfterInsert
<1>2. IsFiniteSet(Active')
  BY <1>1, FS_AddElement DEF TableCountsOK
<1>3. /\ IsFiniteSet(Attempts') /\ Cardinality(T) \in Nat
      /\ Cardinality(Attempts') = Cardinality(Attempts) - Cardinality(T)
  <2>1. Attempts \cap T = T
    OBVIOUS
  <2>2. IsFiniteSet(T) /\ Cardinality(T) \in Nat
    BY FS_Subset, FS_CardinalityType DEF TableCountsOK
  <2>3. /\ IsFiniteSet(Attempts \ T)
        /\ Cardinality(Attempts \ T) = Cardinality(Attempts) - Cardinality(Attempts \cap T)
    BY FS_Difference DEF TableCountsOK
  <2> QED BY <1>1, <2>1, <2>2, <2>3
<1>4. entry.phase \in {"Offered", "Open"}
  BY DEF PipeEntries
<1>5. /\ p \notin Offered /\ p \notin Opened /\ p \notin Dialed
  BY DEF Offered, Opened, Dialed
<1>6. Offered' = IF entry.phase = "Offered" THEN Offered \cup {p} ELSE Offered
  BY <1>1 DEF Offered
<1>7. Opened' = IF entry.phase = "Open" THEN Opened \cup {p} ELSE Opened
  BY <1>1 DEF Opened
<1>8. Dialed' = IF Originated(entry) THEN Dialed \cup {p} ELSE Dialed
  BY <1>1, <1>5, <1>7 DEF Dialed, Originated, Opened
<1>9. Cardinality(Offered') = Cardinality(Offered) +
         (IF entry.phase = "Offered" THEN 1 ELSE 0)
  <2>1. Cardinality(Offered \cup {p}) = Cardinality(Offered) + 1
    BY <1>0, <1>5, FS_AddElement
  <2>2. CASE entry.phase = "Offered"
    BY <2>1, <2>2, <1>6
  <2>3. CASE ~(entry.phase = "Offered")
    BY <1>0, <2>3, <1>6
  <2> QED BY <2>2, <2>3
<1>10. Cardinality(Opened') = Cardinality(Opened) +
         (IF entry.phase = "Open" THEN 1 ELSE 0)
  <2>1. Cardinality(Opened \cup {p}) = Cardinality(Opened) + 1
    BY <1>0, <1>5, FS_AddElement
  <2>2. CASE entry.phase = "Open"
    BY <2>1, <2>2, <1>7
  <2>3. CASE ~(entry.phase = "Open")
    BY <1>0, <2>3, <1>7
  <2> QED BY <2>2, <2>3
<1>11. Cardinality(Dialed') = Cardinality(Dialed) +
         (IF Originated(entry) THEN 1 ELSE 0)
  <2>1. Cardinality(Dialed \cup {p}) = Cardinality(Dialed) + 1
    BY <1>0, <1>5, FS_AddElement
  <2>2. CASE Originated(entry)
    BY <2>1, <2>2, <1>8
  <2>3. CASE ~(Originated(entry))
    BY <1>0, <2>3, <1>8
  <2> QED BY <2>2, <2>3
<1>12. CountersMatchPipes'
  BY <1>9, <1>10, <1>11 DEF TableCountsOK, CountersMatchPipes, Insert, Dialed
<1> QED BY <1>2, <1>3, <1>9, <1>10, <1>12

(* promote_offer moves one from the pending to the live counter. *)
LEMMA PromoteCounts ==
    ASSUME TableTypes, TableCountsOK, NEW p \in Offered, Promote(p)
    PROVE  /\ IsFiniteSet(Active') /\ IsFiniteSet(Attempts')
           /\ CountersMatchPipes'
           /\ Cardinality(Offered') = Cardinality(Offered) - 1
           /\ Cardinality(Opened') = Cardinality(Opened) + 1
           /\ Attempts' = Attempts
<1>0. /\ IsFiniteSet(Offered) /\ IsFiniteSet(Opened) /\ IsFiniteSet(Dialed)
      /\ Cardinality(Offered) \in Nat /\ Cardinality(Opened) \in Nat
      /\ Cardinality(Dialed) \in Nat
  BY FiniteParts DEF TableCountsOK
<1>1. /\ Active' = Active /\ Attempts' = Attempts
      /\ pipes'[p] = [pipes[p] EXCEPT !.phase = "Open"]
      /\ \A q \in Active : q # p => pipes'[q] = pipes[q]
  BY AfterPromote
<1>2. /\ pipes[p] \in PipeEntries /\ pipes[p].phase = "Offered" /\ p \in Active
  BY DEF TableTypes, Offered, Active
<1>3. pipes'[p].phase = "Open" /\ pipes'[p].dialer = pipes[p].dialer
  BY <1>1, <1>2 DEF PipeEntries
<1>4. /\ Offered' = Offered \ {p} /\ Opened' = Opened \cup {p} /\ p \notin Opened
  BY <1>1, <1>2, <1>3 DEF Offered, Opened
<1>5. /\ Dialed' = IF pipes[p].dialer \in Sessions THEN Dialed \cup {p} ELSE Dialed
      /\ p \notin Dialed
  BY <1>1, <1>2, <1>3, <1>4 DEF Dialed, Opened
<1>6. Cardinality(Offered') = Cardinality(Offered) - 1
  BY <1>0, <1>4, FS_RemoveElement
<1>7. Cardinality(Opened') = Cardinality(Opened) + 1
  BY <1>0, <1>4, FS_AddElement
<1>8. Cardinality(Dialed') = Cardinality(Dialed) +
         (IF pipes[p].dialer \in Sessions THEN 1 ELSE 0)
  <2>1. Cardinality(Dialed \cup {p}) = Cardinality(Dialed) + 1
    BY <1>0, <1>5, FS_AddElement
  <2>2. CASE pipes[p].dialer \in Sessions
    BY <2>1, <2>2, <1>5
  <2>3. CASE ~(pipes[p].dialer \in Sessions)
    BY <1>0, <2>3, <1>5
  <2> QED BY <2>2, <2>3
<1>9. CountersMatchPipes'
  BY <1>6, <1>7, <1>8 DEF TableCountsOK, CountersMatchPipes, Promote, Dialed
<1> QED BY <1>1, <1>6, <1>7, <1>9 DEF TableCountsOK

(* No step exceeds a limit, and none adds work to a Gateway that drains. *)
LEMMA TableCountsStep ==
    ASSUME TableTypes, TableCountsOK, TableStep
    PROVE  TableCountsOK' /\ (draining => Pending' <= Pending)
<1>0. /\ Cardinality(Offered) \in Nat /\ Cardinality(Opened) \in Nat
      /\ Cardinality(Attempts) \in Nat
      /\ pending_offer_count = Cardinality(Offered)
      /\ live_pipe_count = Cardinality(Opened)
      /\ MaxLivePipes \in Nat /\ MaxPendingOffers \in Nat
      /\ MaxRemoteDialAttempts \in Nat
  BY FiniteParts, LimitsAssumption DEF TableCountsOK, CountersMatchPipes
<1>1. ASSUME pipes' = pipes, Attempts' = Attempts,
             UNCHANGED <<pending_offer_count, live_pipe_count, originated_pipe_count>>
      PROVE  TableCountsOK' /\ Pending' <= Pending
  <2>1. Active' = Active /\ Offered' = Offered /\ Opened' = Opened
    BY <1>1 DEF Active, Offered, Opened
  <2>2. CountersMatchPipes'
    BY <1>1, <2>1 DEF TableCountsOK, CountersMatchPipes
  <2> QED BY <1>0, <1>1, <2>1, <2>2 DEF TableCountsOK, Pending
<1>2. CASE UNCHANGED table
  BY <1>1, <1>2 DEF table, Attempts
<1>3. ASSUME NEW R \in SUBSET Active, NEW T \in SUBSET Attempts, Remove(R, T)
      PROVE  TableCountsOK' /\ Pending' <= Pending
  BY <1>3, RemoveCounts
<1>4. ASSUME NEW p \in PipeIds, NEW entry \in PipeEntries, Admits(p, entry)
      PROVE  TableCountsOK' /\ ~draining
  <2>1. /\ p \in PipeIds \ Active /\ entry.phase = "Offered" /\ Insert(p, entry, {})
        /\ ~draining /\ ~PendingCapacityReached
    BY <1>4 DEF Admits
  <2>2. /\ IsFiniteSet(Active') /\ IsFiniteSet(Attempts')
        /\ CountersMatchPipes'
        /\ Cardinality(Offered') = Cardinality(Offered) +
              (IF entry.phase = "Offered" THEN 1 ELSE 0)
        /\ Cardinality(Opened') = Cardinality(Opened) +
              (IF entry.phase = "Open" THEN 1 ELSE 0)
        /\ Cardinality(Attempts') = Cardinality(Attempts) - Cardinality({})
    BY <2>1, InsertCounts
  <2>3. Cardinality(Offered) + Cardinality(Attempts) < MaxPendingOffers
    BY <1>0, <2>1 DEF PendingCapacityReached
  <2>4. Cardinality({}) = 0
    BY FS_EmptySet
  <2> QED BY <1>0, <2>1, <2>2, <2>3, <2>4 DEF TableCountsOK
<1>5. ASSUME NEW p \in PipeIds, NEW entry \in PipeEntries, Settles(p, entry)
      PROVE  TableCountsOK' /\ Pending' <= Pending
  <2>1. /\ p \in PipeIds \ Active /\ p \in Attempts /\ Insert(p, entry, {p})
        /\ entry.phase = "Open" => ~LiveCapacityReached
        /\ entry.phase \in {"Offered", "Open"}
    BY <1>5 DEF Settles, PipeEntries
  <2>2. /\ IsFiniteSet(Active') /\ IsFiniteSet(Attempts')
        /\ CountersMatchPipes'
        /\ Cardinality(Offered') = Cardinality(Offered) +
              (IF entry.phase = "Offered" THEN 1 ELSE 0)
        /\ Cardinality(Opened') = Cardinality(Opened) +
              (IF entry.phase = "Open" THEN 1 ELSE 0)
        /\ Cardinality(Attempts') = Cardinality(Attempts) - Cardinality({p})
    BY <2>1, InsertCounts
  <2>3. entry.phase = "Open" => Cardinality(Opened) < MaxLivePipes
    BY <1>0, <2>1 DEF LiveCapacityReached
  <2>4. Cardinality({p}) = 1
    BY FS_Singleton
  <2> QED BY <1>0, <2>1, <2>2, <2>3, <2>4 DEF TableCountsOK, Pending
<1>6. ASSUME NEW p \in PipeIds, Promotes(p)
      PROVE  TableCountsOK' /\ Pending' <= Pending
  <2>1. p \in Offered /\ Promote(p) /\ ~LiveCapacityReached
    BY <1>6 DEF Promotes
  <2>2. /\ IsFiniteSet(Active') /\ IsFiniteSet(Attempts')
        /\ CountersMatchPipes'
        /\ Cardinality(Offered') = Cardinality(Offered) - 1
        /\ Cardinality(Opened') = Cardinality(Opened) + 1
        /\ Attempts' = Attempts
    BY <2>1, PromoteCounts
  <2>3. Cardinality(Opened) < MaxLivePipes
    BY <1>0, <2>1 DEF LiveCapacityReached
  <2> QED BY <1>0, <2>2, <2>3 DEF TableCountsOK, Pending
<1>7. ASSUME NEW p \in PipeIds, NEW e \in Endpoints, Finishes(p, e)
      PROVE  TableCountsOK' /\ Pending' <= Pending
  <2>1. /\ Active' = Active /\ Attempts' = Attempts
        /\ pipes'[p] = [pipes[p] EXCEPT !.finished = @ \cup {e}]
        /\ \A q \in Active : q # p => pipes'[q] = pipes[q]
        /\ p \in Active
    BY <1>7, AfterFinish DEF Finishes, Opened
  <2>2. pipes[p] \in PipeEntries
    BY <2>1 DEF TableTypes, Active
  <2>3. pipes'[p].phase = pipes[p].phase /\ pipes'[p].dialer = pipes[p].dialer
    BY <2>1, <2>2 DEF PipeEntries
  <2>4. Offered' = Offered /\ Opened' = Opened
    BY <2>1, <2>3 DEF Offered, Opened
  <2>5. Dialed' = Dialed
    BY <2>1, <2>3, <2>4 DEF Dialed, Opened
  <2>6. CountersMatchPipes'
    BY <1>7, <2>4, <2>5 DEF TableCountsOK, CountersMatchPipes, Finishes, Dialed
  <2> QED BY <1>0, <2>1, <2>4, <2>6 DEF TableCountsOK, Pending
<1>8. ASSUME NEW p \in OwnPipeIds, NEW d \in Destinations, Begins(p, d)
      PROVE  TableCountsOK' /\ ~draining
  <2>1. pipes' = pipes /\ Attempts' = Attempts \cup {p}
    BY <1>8, NoneAssumption DEF TableTypes, Begins, Attempts, RemoteOpenAttempts
  <2>2. /\ p \notin Attempts /\ Cardinality(Attempts) < MaxRemoteDialAttempts
        /\ ~draining /\ ~PendingCapacityReached
    BY <1>8 DEF Begins
  <2>3. Active' = Active /\ Offered' = Offered /\ Opened' = Opened
    BY <2>1 DEF Active, Offered, Opened
  <2>4. CountersMatchPipes'
    BY <1>8, <2>1, <2>3 DEF TableCountsOK, CountersMatchPipes, Begins
  <2>5. IsFiniteSet(Attempts') /\ Cardinality(Attempts') = Cardinality(Attempts) + 1
    BY <2>1, <2>2, FS_AddElement DEF TableCountsOK
  <2>6. Cardinality(Offered) + Cardinality(Attempts) < MaxPendingOffers
    BY <1>0, <2>2 DEF PendingCapacityReached
  <2> QED BY <1>0, <2>2, <2>3, <2>4, <2>5, <2>6 DEF TableCountsOK
<1>9. ASSUME NEW p \in OwnPipeIds, Starts(p) \/ \E k \in Keys : Commits(p, k)
      PROVE  TableCountsOK' /\ Pending' <= Pending
  <2>1. Attempts' = Attempts
    BY <1>9, AfterStart, AfterCommit
  <2> QED BY <1>1, <1>9, <2>1 DEF Starts, Commits
<1> QED BY <1>2, <1>3, <1>4, <1>5, <1>6, <1>7, <1>8, <1>9 DEF TableStep

(* add_session and publish respect their limits. *)
LEMMA AdmissionCountsStep ==
    ASSUME IInv, Next
    PROVE  /\ IsFiniteSet(sessions') /\ IsFiniteSet(Bound')
           /\ Cardinality(sessions') <= MaxSessions
           /\ BindingCount' <= MaxBindings
<1> USE DEF IInv
<1>0. /\ IsFiniteSet(sessions) /\ IsFiniteSet(Bound)
      /\ Cardinality(sessions) <= MaxSessions /\ Cardinality(Bound) <= MaxBindings
      /\ Cardinality(sessions) \in Nat /\ Cardinality(Bound) \in Nat
      /\ MaxSessions \in Nat /\ MaxBindings \in Nat
  BY LimitsAssumption, FS_CardinalityType
     DEF CountsOK, LimitsHold, BindingCount, Bound
<1>1. ASSUME NEW s \in Sessions, AddSession(s)
      PROVE  /\ IsFiniteSet(sessions') /\ Cardinality(sessions') <= MaxSessions
             /\ Bound' = Bound
  <2>1. /\ sessions' = sessions \cup {s} /\ s \notin sessions /\ by_id' = by_id
        /\ Cardinality(sessions) < MaxSessions
    BY <1>1 DEF AddSession, registry
  <2>2. IsFiniteSet(sessions') /\ Cardinality(sessions') = Cardinality(sessions) + 1
    BY <1>0, <2>1, FS_AddElement
  <2> QED BY <1>0, <2>1, <2>2 DEF Bound
<1>2. ASSUME NEW S \in SUBSET sessions, RemoveSessions(S)
      PROVE  sessions' \subseteq sessions /\ Bound' \subseteq Bound
  BY <1>2 DEF RemoveSessions, RemoveBindings, Bound
<1>3. ASSUME NEW s \in Sessions, NEW b \in Bindings, Unpublish(s, b)
      PROVE  sessions' \subseteq sessions /\ Bound' \subseteq Bound
  BY <1>3 DEF Unpublish, RemoveBindings, Bound, admission
<1>4. ASSUME NEW s \in Sessions, Publish(s)
      PROVE  /\ sessions' = sessions
             /\ IsFiniteSet(Bound') /\ Cardinality(Bound') <= MaxBindings
  <2>1. sessions' = sessions
    BY <1>4 DEF Publish
  <2>2. CASE UNCHANGED registry
    BY <1>0, <2>1, <2>2 DEF registry, Bound
  <2>3. ASSUME NEW b \in Bindings, NEW d, RegisterBinding(b, s, d),
               ~(BindingCount >= MaxBindings), d \in Destinations
        PROVE  IsFiniteSet(Bound') /\ Cardinality(Bound') <= MaxBindings
    <3>1. [session |-> s, destination |-> d] # None
      BY <2>3, NoneAssumption DEF Registered
    <3>2. Bound' = Bound \cup {b} /\ b \notin Bound
      BY <2>3, <3>1 DEF RegisterBinding, Bound, RegistryOK, RegistryTypes
    <3>3. Cardinality(Bound) < MaxBindings
      BY <1>0, <2>3 DEF BindingCount, Bound
    <3>4. IsFiniteSet(Bound') /\ Cardinality(Bound') = Cardinality(Bound) + 1
      BY <1>0, <3>2, FS_AddElement
    <3> QED BY <1>0, <3>3, <3>4
  <2>4. authorizing[s].destination \in Destinations
    BY <1>4 DEF AdmissionOK, Publish, Authorizing, Operations
  <2> QED BY <1>4, <2>1, <2>2, <2>3, <2>4 DEF Publish
<1>5. ASSUME \/ PipesOnly \/ BeginDraining
             \/ \E s \in Sessions, d \in Destinations : PreparePublish(s, d)
             \/ \E s \in Sessions, c \in ConnIds, d \in Destinations :
                   PrepareDial(s, c, d)
             \/ \E s \in Sessions : AuthorizationFailed(s)
             \/ \E s \in Sessions : Dial(s)
      PROVE  sessions' \subseteq sessions /\ Bound' \subseteq Bound
  <2>1. sessions' = sessions /\ by_id' = by_id
    BY <1>5 DEF PipesOnly, BeginDraining, PreparePublish, PrepareDial,
                AuthorizationFailed, Dial, AdvanceSelection, admission, registry
  <2> QED BY <2>1 DEF Bound
<1>6. ASSUME sessions' \subseteq sessions, Bound' \subseteq Bound
      PROVE  /\ IsFiniteSet(sessions') /\ IsFiniteSet(Bound')
             /\ Cardinality(sessions') <= MaxSessions
             /\ Cardinality(Bound') <= MaxBindings
  <2>1. /\ IsFiniteSet(sessions') /\ IsFiniteSet(Bound')
        /\ Cardinality(sessions') <= Cardinality(sessions)
        /\ Cardinality(Bound') <= Cardinality(Bound)
    BY <1>0, <1>6, FS_Subset
  <2>2. Cardinality(sessions') \in Nat /\ Cardinality(Bound') \in Nat
    BY <2>1, FS_CardinalityType
  <2> QED BY <1>0, <2>1, <2>2
<1>7. RegistryTypes /\ EntriesOK
  BY DEF RegistryOK
<1>8. BindingCount' = Cardinality(Bound')
  BY DEF BindingCount, Bound
<1>9. CASE \E s \in Sessions : AddSession(s)
  BY <1>0, <1>1, <1>8, <1>9
<1>10. CASE \E s \in Sessions : Publish(s)
  BY <1>0, <1>4, <1>8, <1>10
<1> QED BY AdmissionCases, <1>2, <1>3, <1>5, <1>6, <1>7, <1>8, <1>9, <1>10, Zenon

(* The counters and the limits hold after every step. *)
LEMMA CountsStep ==
    ASSUME IInv, Next
    PROVE  CountsOK'
<1>1. TableTypes /\ TableCountsOK
  BY DEF IInv, CountsOK, LimitsHold, TableCountsOK
<1>2. TableCountsOK'
  BY <1>1, TableCases, TableCountsStep
<1> QED BY <1>2, AdmissionCountsStep DEF CountsOK, LimitsHold, TableCountsOK

-----------------------------------------------------------------------------
(***************************************************************************)
(* Ends of Pipes.                                                          *)
(***************************************************************************)

(* Sessions stay, and bindings stay with their sessions. *)
Keeps ==
    /\ sessions \subseteq sessions'
    /\ \A b \in Bindings : by_id[b] # None => by_id'[b] = by_id[b]

(* An entry stays well-formed while its sessions and binding stay. *)
LEMMA KeepsEntries ==
    ASSUME Keeps
    PROVE  \A p \in PipeIds : \A x : EntryOK(p, x) => EntryOK(p, x)'
BY DEF Keeps, EntryOK

(* A step that ends no session and removes no binding keeps the ends. *)
LEMMA EntriesKept ==
    ASSUME TableTypes, EntriesOK, TableStep, Keeps
    PROVE  EntriesOK'
<1>0. \A p \in PipeIds : \A x : EntryOK(p, x) => EntryOK(p, x)'
  BY KeepsEntries
<1>1. /\ \A p \in Active : EntryOK(p, pipes[p]) /\ p \in PipeIds
      /\ \A p \in Attempts : p.session \in sessions'
  BY DEF EntriesOK, Keeps, Active
<1>2. ASSUME Active' \subseteq Active, Attempts' \subseteq Attempts,
             \A p \in Active' : pipes'[p] = pipes[p]
      PROVE  EntriesOK'
  BY <1>0, <1>1, <1>2 DEF EntriesOK
<1>3. CASE UNCHANGED table
  BY <1>2, <1>3 DEF table, Active, Attempts
<1>4. ASSUME NEW R \in SUBSET Active, NEW T \in SUBSET Attempts, Remove(R, T)
      PROVE  EntriesOK'
  BY <1>2, <1>4, AfterRemove
<1>5. ASSUME NEW p \in PipeIds, NEW entry \in PipeEntries, NEW T,
             Insert(p, entry, T), EntryOK(p, entry)
      PROVE  EntriesOK'
  BY <1>0, <1>1, <1>5, AfterInsert DEF EntriesOK
<1>6. ASSUME NEW p \in Active, NEW x, pipes'[p] = x, EntryOK(p, x),
             Active' = Active, Attempts' \subseteq Attempts,
             \A q \in Active : q # p => pipes'[q] = pipes[q]
      PROVE  EntriesOK'
  BY <1>0, <1>1, <1>6 DEF EntriesOK
<1>7. ASSUME NEW p \in PipeIds, Promotes(p)
      PROVE  EntriesOK'
  <2>1. p \in Active /\ p \in Offered /\ Promote(p) /\ pipes[p] \in PipeEntries
    BY <1>7 DEF Promotes, Offered, Active, TableTypes
  <2>2. EntryOK(p, [pipes[p] EXCEPT !.phase = "Open"])
    BY <1>1, <2>1 DEF EntryOK, PipeEntries
  <2> QED BY <1>6, <2>1, <2>2, AfterPromote
<1>8. ASSUME NEW p \in PipeIds, NEW e \in Endpoints, Finishes(p, e)
      PROVE  EntriesOK'
  <2>1. p \in Active /\ p \in Opened /\ pipes[p] \in PipeEntries
    BY <1>8 DEF Finishes, Opened, Active, TableTypes
  <2>2. EntryOK(p, [pipes[p] EXCEPT !.finished = @ \cup {e}])
    BY <1>1, <2>1 DEF EntryOK, PipeEntries
  <2> QED BY <1>6, <1>8, <2>1, <2>2, AfterFinish
<1>9. ASSUME NEW p \in OwnPipeIds, NEW d \in Destinations, Begins(p, d)
      PROVE  EntriesOK'
  <2>1. Active' = Active /\ pipes' = pipes /\ Attempts' = Attempts \cup {p}
    BY <1>9, AfterBegin DEF Begins
  <2>2. p.session \in sessions'
    BY <1>9 DEF Begins, Keeps
  <2> QED BY <1>0, <1>1, <2>1, <2>2 DEF EntriesOK
<1>10. ASSUME NEW p \in OwnPipeIds, Starts(p) \/ \E k \in Keys : Commits(p, k)
       PROVE  EntriesOK'
  <2>1. Attempts' = Attempts /\ Active' = Active /\ pipes' = pipes
    BY <1>10, AfterStart, AfterCommit DEF Starts, Commits
  <2> QED BY <1>2, <2>1
<1> QED BY <1>3, <1>4, <1>5, <1>7, <1>8, <1>9, <1>10 DEF TableStep, Admits, Settles

(* The ends of Pipes are live, and OFFERs pend at registered bindings. *)
LEMMA EntriesStep ==
    ASSUME IInv, Next
    PROVE  EntriesOK'
<1> USE DEF IInv
<1>0. TableStep /\ RegistryTypes /\ EntriesOK
  BY TableCases DEF RegistryOK
<1>1. CASE Keeps
  BY <1>0, <1>1, EntriesKept
<1>2. ASSUME NEW S \in SUBSET sessions, RemoveSessions(S)
      PROVE  EntriesOK'
  <2> DEFINE R == {p \in Active : Ends(p) \cap S # {}}
             T == {p \in Attempts : p.session \in S}
             B == UNION {by_session[s] : s \in S}
  <2>1. Remove(R, T) /\ sessions' = sessions \ S /\ RemoveBindings(B)
    BY <1>2 DEF RemoveSessions
  <2>2. /\ Active' = Active \ R /\ Attempts' = Attempts \ T
        /\ \A p \in Active' : pipes'[p] = pipes[p]
    <3>1. R \in SUBSET Active /\ T \in SUBSET Attempts
      OBVIOUS
    <3> HIDE DEF R, T
    <3> QED BY <2>1, <3>1, AfterRemove
  <2>3. \A b \in Bindings : by_id[b] # None /\ by_id[b].session \notin S =>
                               by_id'[b] = by_id[b]
    <3>1. \A b \in Bindings : b \in B => by_id[b].session \in S
      BY DEF RegistryOK, SessionIndexOK, AdmissionOK
    <3> HIDE DEF B
    <3> QED BY <2>1, <3>1 DEF RemoveBindings
  <2>4. ASSUME NEW p \in Active'
        PROVE  EntryOK(p, pipes[p])'
    <3>1. p \in Active /\ EntryOK(p, pipes[p]) /\ pipes'[p] = pipes[p]
      BY <2>2, <2>4 DEF EntriesOK
    <3>2. pipes[p].dialer \notin S /\ pipes[p].acceptor \notin S
      BY <2>2, <2>4 DEF Ends
    <3>3. \A x : x = pipes[p] => EntryOK(p, x)'
      BY <2>1, <2>3, <3>1, <3>2 DEF EntryOK
    <3> QED BY <3>1, <3>3
  <2>5. \A p \in Attempts' : p.session \in sessions'
    BY <2>1, <2>2 DEF EntriesOK
  <2> QED BY <2>4, <2>5 DEF EntriesOK
<1>3. ASSUME NEW s \in Sessions, NEW b \in Bindings, Unpublish(s, b)
      PROVE  EntriesOK'
  <2> DEFINE R == {p \in Offered : pipes[p].binding_id = b}
  <2>1. Remove(R, {}) /\ sessions' = sessions /\ RemoveBindings({b})
    BY <1>3 DEF Unpublish, CancelPendingBinding, admission
  <2>2. /\ Active' = Active \ R /\ Attempts' = Attempts
        /\ \A p \in Active' : pipes'[p] = pipes[p]
    <3>1. R \in SUBSET Active /\ {} \in SUBSET Attempts
      BY DEF Offered
    <3> HIDE DEF R
    <3> QED BY <2>1, <3>1, AfterRemove
  <2>3. ASSUME NEW p \in Active'
        PROVE  EntryOK(p, pipes[p])'
    <3>1. p \in Active /\ EntryOK(p, pipes[p]) /\ pipes'[p] = pipes[p]
      BY <2>2, <2>3 DEF EntriesOK
    <3>2. pipes[p].phase = "Offered" => pipes[p].binding_id # b
      BY <2>2, <2>3, <3>1 DEF Offered
    <3>3. \A x : x = pipes[p] => EntryOK(p, x)'
      BY <2>1, <3>1, <3>2 DEF EntryOK, RemoveBindings
    <3> QED BY <3>1, <3>3
  <2>4. \A p \in Attempts' : p.session \in sessions'
    BY <2>1, <2>2 DEF EntriesOK
  <2> QED BY <2>3, <2>4 DEF EntriesOK
<1>4. ASSUME NEW s \in Sessions, AddSession(s) \/ Publish(s)
      PROVE  Keeps
  <2>1. CASE AddSession(s)
    BY <2>1 DEF AddSession, registry, Keeps
  <2>2. CASE Publish(s) /\ UNCHANGED registry
    BY <2>2 DEF Publish, registry, Keeps
  <2>3. ASSUME NEW b \in Bindings, NEW d, RegisterBinding(b, s, d),
               sessions' = sessions
        PROVE  Keeps
    BY <2>3 DEF RegisterBinding, Keeps, RegistryOK, RegistryTypes
  <2> QED BY <1>4, <2>1, <2>2, <2>3 DEF Publish
<1>5. ASSUME \/ PipesOnly \/ BeginDraining
             \/ \E s \in Sessions, d \in Destinations : PreparePublish(s, d)
             \/ \E s \in Sessions, c \in ConnIds, d \in Destinations :
                   PrepareDial(s, c, d)
             \/ \E s \in Sessions : AuthorizationFailed(s)
             \/ \E s \in Sessions : Dial(s)
      PROVE  Keeps
  <2>1. sessions' = sessions /\ by_id' = by_id
    BY <1>5 DEF PipesOnly, BeginDraining, PreparePublish, PrepareDial,
                AuthorizationFailed, Dial, AdvanceSelection, admission, registry
  <2> QED BY <2>1 DEF Keeps
<1> QED BY AdmissionCases, <1>0, <1>1, <1>2, <1>3, <1>4, <1>5, Zenon

-----------------------------------------------------------------------------
(***************************************************************************)
(* What sessions are told.                                                 *)
(***************************************************************************)

(* Sessions forget the Pipes that are removed. *)
LEMMA HeldAfterRemove ==
    ASSUME TableTypes, HeldOK, NEW R \in SUBSET Active, NEW T \in SUBSET Attempts,
           Remove(R, T), held' \subseteq held,
           \A s \in Sessions, p \in PipeIds :
              <<s, p>> \in held => (<<s, p>> \in held' <=> p \notin R)
    PROVE  HeldOK'
<1>1. /\ Active' = Active \ R
      /\ \A p \in Active' : pipes'[p] = pipes[p]
  BY AfterRemove
<1>2. \A s \in Sessions, p \in PipeIds : Knows(s, p)' <=> Knows(s, p) /\ p \notin R
  BY <1>1 DEF Knows
<1>3. \A s \in Sessions, p \in PipeIds :
         <<s, p>> \in held' <=> <<s, p>> \in held /\ p \notin R
  OBVIOUS
<1> QED BY <1>2, <1>3 DEF HeldOK

(* The acceptor learns of an OFFER, the dialer of an open Pipe. *)
LEMMA HeldAfterInsert ==
    ASSUME TableTypes, HeldOK, NEW p \in PipeIds \ Active, NEW entry \in PipeEntries,
           NEW T, Insert(p, entry, T), NEW x \in Sessions,
           held' = held \cup {<<x, p>>},
           \A s \in Sessions : (\/ entry.acceptor = s
                                \/ entry.phase = "Open" /\ entry.dialer = s) <=> s = x
    PROVE  HeldOK'
<1>1. /\ Active' = Active \cup {p} /\ pipes'[p] = entry
      /\ \A q \in Active : q # p => pipes'[q] = pipes[q]
  BY AfterInsert
<1>2. \A s \in Sessions : Knows(s, p)' <=> s = x
  BY <1>1 DEF Knows
<1>3. \A s \in Sessions, q \in PipeIds : q # p => (Knows(s, q)' <=> Knows(s, q))
  BY <1>1 DEF Knows
<1>4. \A s \in Sessions : ~Knows(s, p)
  BY DEF Knows
<1>5. \A s \in Sessions, q \in PipeIds :
         <<s, q>> \in held' <=> <<s, q>> \in held \/ (q = p /\ s = x)
  OBVIOUS
<1>6. held' \subseteq Sessions \X PipeIds
  BY DEF HeldOK
<1> QED BY <1>2, <1>3, <1>4, <1>5, <1>6 DEF HeldOK

(* Steps that leave Pipes alone. *)
LEMMA HeldUnchanged ==
    ASSUME HeldOK, pipes' = pipes, held' = held
    PROVE  HeldOK'
BY DEF HeldOK, Knows, Active

(* A Pipe is dropped with a frame to each session that knows of it. *)
LEMMA HeldAfterDrop ==
    ASSUME TableTypes, HeldOK, NEW p \in Active, Remove({p}, {}),
           NEW told, held' = held \ told,
           told \subseteq {<<e, p>> : e \in Endpoints},
           \A s \in Sessions : Knows(s, p) => <<s, p>> \in told
    PROVE  HeldOK'
<1>1. \A s \in Sessions, q \in PipeIds : q # p => <<s, q>> \notin told
  OBVIOUS
<1>2. \A s \in Sessions, q \in PipeIds :
         <<s, q>> \in held => (<<s, q>> \in held' <=> q \notin {p})
  BY <1>1 DEF HeldOK
<1>3. {p} \in SUBSET Active /\ {} \in SUBSET Attempts
  OBVIOUS
<1>4. held' \subseteq held
  OBVIOUS
<1> QED BY <1>2, <1>3, <1>4, HeldAfterRemove

(* Attempts are known to no session. *)
LEMMA HeldAfterFailure ==
    ASSUME TableTypes, HeldOK, NEW T \in SUBSET Attempts, Remove({}, T), held' = held
    PROVE  HeldOK'
<1>1. {} \in SUBSET Active
  OBVIOUS
<1> QED BY <1>1, HeldAfterRemove

(* No handler drops a Pipe without a frame to the session at the other end. *)
LEMMA HeldStep ==
    ASSUME IInv, Next
    PROVE  HeldOK'
<1> USE DEF IInv
<1>0. /\ \A p \in Active : /\ pipes[p] \in PipeEntries /\ p \in PipeIds
                           /\ EntryOK(p, pipes[p])
                           /\ pipes[p].dialer \in Endpoints
                           /\ pipes[p].acceptor \in Endpoints
  BY DEF TableTypes, Active, PipeEntries, EntriesOK
<1>1. ASSUME NEW p \in Active, NEW told, Remove({p}, {}), held' = held \ told,
             told \in {{<<e, p>> : e \in Ends(p)},
                       {<<pipes[p].dialer, p>>, <<pipes[p].acceptor, p>>}}
      PROVE  HeldOK'
  <2>1. told \subseteq {<<e, p>> : e \in Endpoints}
    BY <1>0, <1>1 DEF Ends
  <2>2. \A s \in Sessions : Knows(s, p) => <<s, p>> \in told
    BY <1>1 DEF Knows, Ends
  <2> QED BY <1>1, <2>1, <2>2, HeldAfterDrop
<1>2. ASSUME NEW p \in Offered, Remove({p}, {}),
             held' = held \ {<<pipes[p].acceptor, p>>}
      PROVE  HeldOK'
  <2>1. p \in Active /\ pipes[p].phase = "Offered"
    BY <1>2 DEF Offered
  <2>2. {<<pipes[p].acceptor, p>>} \subseteq {<<e, p>> : e \in Endpoints}
    BY <1>0, <2>1
  <2>3. \A s \in Sessions : Knows(s, p) => <<s, p>> \in {<<pipes[p].acceptor, p>>}
    BY <2>1 DEF Knows
  <2> QED BY <1>2, <2>1, <2>2, <2>3, HeldAfterDrop
<1>3. ASSUME NEW p \in Active, ProtocolReset(p)
      PROVE  HeldOK'
  BY <1>1, <1>3 DEF ProtocolReset, Notify
<1>4. ASSUME NEW s \in Sessions, NEW p \in PipeIds, Cancel(s, p)
      PROVE  HeldOK'
  <2>1. CASE p \in Active /\ Remove({p}, {})
             /\ Notify({p} \cap Offered, {<<e, p>> : e \in Ends(p)})
    BY <1>1, <2>1 DEF Notify
  <2>2. CASE p \in Attempts /\ CancelRemoteAttempt(p)
    BY <2>2, HeldAfterFailure DEF CancelRemoteAttempt
  <2> QED BY <1>4, <2>1, <2>2 DEF Cancel
<1>5. ASSUME NEW s \in Sessions, NEW p \in PipeIds,
             OfferDeliveryRejected(s, p) \/ OfferRejected(s, p)
      PROVE  HeldOK'
  <2>1. CASE p \in Active /\ ProtocolReset(p)
    BY <1>3, <2>1
  <2>2. CASE /\ p \in Offered /\ pipes[p].acceptor = s /\ Remove({p}, {})
             /\ Notify({p}, {<<s, p>>})
    BY <1>2, <2>2 DEF Notify
  <2>3. CASE UNCHANGED <<table, ledger>>
    BY <2>3, HeldUnchanged DEF table, ledger
  <2> QED BY <1>5, <2>1, <2>2, <2>3 DEF OfferDeliveryRejected, OfferRejected, OnPipe
<1>6. ASSUME NEW s \in Sessions, NEW p \in PipeIds, OfferAccepted(s, p)
      PROVE  HeldOK'
  <2>1. CASE p \in Active /\ ProtocolReset(p)
    BY <1>3, <2>1
  <2>2. CASE /\ p \in Offered /\ pipes[p].acceptor = s /\ Remove({p}, {})
             /\ Notify({p}, {<<s, p>>})
    BY <1>2, <2>2 DEF Notify
  <2>3. CASE p \in Offered /\ Promote(p) /\ TellOpened(p)
    <3>1. /\ Active' = Active /\ p \in Active
          /\ pipes'[p] = [pipes[p] EXCEPT !.phase = "Open"]
          /\ \A q \in Active : q # p => pipes'[q] = pipes[q]
      BY <2>3, AfterPromote DEF Offered
    <3>2. /\ pipes'[p].phase = "Open" /\ pipes'[p].dialer = pipes[p].dialer
          /\ pipes'[p].acceptor = pipes[p].acceptor /\ pipes[p].phase = "Offered"
      BY <1>0, <2>3, <3>1 DEF PipeEntries, Offered
    <3>3. \A t \in Sessions : Knows(t, p)' <=> Knows(t, p) \/ t = pipes[p].dialer
      BY <3>1, <3>2 DEF Knows
    <3>4. \A t \in Sessions, q \in PipeIds : q # p => (Knows(t, q)' <=> Knows(t, q))
      BY <3>1 DEF Knows
    <3>5. CASE pipes[p].dialer \in Sessions /\ held' = held \cup {<<pipes[p].dialer, p>>}
      <4>1. \A t \in Sessions, q \in PipeIds :
               <<t, q>> \in held' <=> <<t, q>> \in held \/ (q = p /\ t = pipes[p].dialer)
        BY <3>5
      <4>2. held' \subseteq Sessions \X PipeIds
        BY <3>5 DEF HeldOK
      <4> QED BY <3>3, <3>4, <4>1, <4>2 DEF HeldOK
    <3>6. CASE pipes[p].dialer \in Keys /\ held' = held
      <4>1. pipes[p].dialer \notin Sessions
        BY <3>6, IdentityAssumption
      <4> QED BY <3>3, <3>4, <3>6, <4>1 DEF HeldOK
    <3> QED BY <2>3, <3>5, <3>6 DEF TellOpened
  <2> QED BY <1>6, <2>1, <2>2, <2>3 DEF OfferAccepted, OnPipe
<1>7. ASSUME NEW s \in Sessions, NEW p \in PipeIds, MisplacedData(s, p)
      PROVE  HeldOK'
  BY <1>3, <1>7 DEF MisplacedData, OnPipe
<1>8. ASSUME NEW e \in Endpoints, NEW p \in PipeIds, RelayFin(e, p)
      PROVE  HeldOK'
  <2>1. CASE p \in Active /\ ProtocolReset(p)
    BY <1>3, <2>1
  <2>2. CASE p \in Active /\ Remove({p}, {})
             /\ Notify({}, {<<x, p>> : x \in Ends(p)})
    BY <1>1, <2>2 DEF Notify
  <2>3. CASE Finishes(p, e) /\ UNCHANGED ledger
    <3>1. /\ Active' = Active /\ p \in Active
          /\ pipes'[p] = [pipes[p] EXCEPT !.finished = @ \cup {e}]
          /\ \A q \in Active : q # p => pipes'[q] = pipes[q]
      BY <2>3, AfterFinish DEF Finishes, Opened
    <3>2. /\ pipes'[p].phase = pipes[p].phase /\ pipes'[p].dialer = pipes[p].dialer
          /\ pipes'[p].acceptor = pipes[p].acceptor
      BY <1>0, <3>1 DEF PipeEntries
    <3>3. \A t \in Sessions, q \in PipeIds : Knows(t, q)' <=> Knows(t, q)
      BY <3>1, <3>2 DEF Knows
    <3> QED BY <2>3, <3>3 DEF HeldOK, ledger
  <2> QED BY <1>8, <2>1, <2>2, <2>3 DEF RelayFin, Finishes, Offered, Opened
<1>9. ASSUME NEW e \in Endpoints, NEW p \in PipeIds, RelayEnd(e, p)
      PROVE  HeldOK'
  <2>1. CASE p \in Active /\ ProtocolReset(p)
    BY <1>3, <2>1
  <2>2. CASE p \in Active /\ Remove({p}, {})
             /\ Notify({}, {<<e, p>>, <<Counterpart(p, e), p>>})
    <3>1. e \in Ends(p)
      <4>1. CASE e \in Sessions /\ OnPipe(e, p)
        BY <4>1 DEF OnPipe
      <4>2. CASE e \in Keys /\ peer_pipes[e] = p
        BY <4>2 DEF StreamsOK, PeerIndexesMatchPipes
      <4> QED BY <1>9, <4>1, <4>2 DEF RelayEnd, Sends
    <3>2. {<<e, p>>, <<Counterpart(p, e), p>>} =
             {<<pipes[p].dialer, p>>, <<pipes[p].acceptor, p>>}
      BY <3>1 DEF Counterpart, Ends
    <3> QED BY <1>1, <2>2, <3>2 DEF Notify
  <2> QED BY <1>9, <2>1, <2>2 DEF RelayEnd, Offered, Opened
<1>10. ASSUME NEW k \in Keys, PeerReset(k)
       PROVE  HeldOK'
  <2>1. streams[k].pipe \in Active /\ k \in Ends(streams[k].pipe)
    BY <1>10 DEF PeerReset, StreamsOK, StreamsAreOwned
  <2>2. peer_pipes[k] = streams[k].pipe
    BY <2>1 DEF StreamsOK, PeerIndexesMatchPipes, Active
  <2> QED BY <1>1, <1>10, <2>1, <2>2 DEF PeerReset, Notify
<1>11. ASSUME NEW p \in OwnPipeIds \ Active, NEW b \in Bindings, NEW T,
              by_id[b] # None, by_id[b].session # p.session,
              p.session \in sessions, OfferLocal(p, b, T)
       PROVE  HeldOK'
  <2> DEFINE entry == [dialer |-> p.session, acceptor |-> by_id[b].session,
                       binding_id |-> b, phase |-> "Offered", finished |-> {}]
  <2>1. entry \in PipeEntries /\ p \in PipeIds \ Active
    BY <1>11, LocalEntryOK DEF OwnPipeIds, PipeIds
  <2>2. by_id[b].session \in Sessions
    BY <1>11 DEF RegistryOK, AdmissionOK
  <2>3. Insert(p, entry, T) /\ held' = held \cup {<<by_id[b].session, p>>}
    BY <1>11 DEF OfferLocal
  <2>4. entry.acceptor = by_id[b].session /\ entry.phase = "Offered"
    OBVIOUS
  <2> HIDE DEF entry
  <2> QED BY <2>1, <2>2, <2>3, <2>4, HeldAfterInsert
<1>12. ASSUME NEW s \in Sessions, Dial(s)
       PROVE  HeldOK'
  <2> DEFINE d == authorizing[s].destination
             p == PipeId(s, authorizing[s].conn)
  <2>1. Authorizing(s, "Dial")
    BY <1>12 DEF Dial
  <2>2. /\ p \in OwnPipeIds /\ p.session = s /\ s \in sessions
        /\ BeingAuthorized(p) /\ d \in Destinations
    BY <2>1, DialFacts
  <2>3. p \notin Active
    BY <2>2 DEF DialsOK, DialOK
  <2> HIDE DEF p, d
  <2>4. CASE Eligible(d, s) # <<>> /\ OfferLocal(p, Selected(d, s), {})
    <3>1. /\ Selected(d, s) \in Bindings /\ by_id[Selected(d, s)] # None
          /\ by_id[Selected(d, s)].session # s
      BY <2>2, <2>4, SelectedIsBound DEF RegistryOK
    <3> QED BY <1>11, <2>2, <2>3, <2>4, <3>1
  <2>5. CASE pipes' = pipes /\ held' = held
    BY <2>5, HeldUnchanged
  <2> QED BY <1>12, <2>4, <2>5 DEF Dial, p, d, table, ledger
<1>13. ASSUME NEW p \in OwnPipeIds, RouteResolved(p)
       PROVE  HeldOK'
  <2>1. CASE pipes' = pipes /\ held' = held
    BY <2>1, HeldUnchanged
  <2>2. ASSUME NEW s \in Sessions \ {p.session}, NEW b \in Bindings,
               Phase(p) = "Resolving",
               Exact(b, s, remote_open_attempts[p].destination),
               OfferLocal(p, b, {p})
        PROVE  HeldOK'
    <3>1. p \in Attempts /\ p.session \in sessions
      BY <2>2 DEF Phase, EntriesOK
    <3>2. p \notin Active
      BY <3>1 DEF DialsOK, DialOK
    <3>3. by_id[b] # None /\ by_id[b].session # p.session
      <4>1. remote_open_attempts[p].destination \in Destinations
        BY <3>1, NoneAssumption DEF TableTypes, Attempts, RemoteOpenAttempts
      <4> QED BY <2>2, <4>1, NoneAssumption DEF Exact, Registered
    <3> QED BY <1>11, <2>2, <3>1, <3>2, <3>3
  <2>3. CASE Phase(p) = "Resolving" /\ FailAttempts({p}) /\ held' = held
    BY <2>3, HeldAfterFailure DEF FailAttempts, Phase
  <2> QED BY <1>13, <2>1, <2>2, <2>3 DEF RouteResolved, table, ledger
<1>14. ASSUME NEW k \in Keys, PeerOpened(k)
       PROVE  HeldOK'
  <2> DEFINE p == streams[k].pipe
             entry == [dialer |-> p.session, acceptor |-> k, binding_id |-> None,
                       phase |-> "Open", finished |-> {}]
  <2>1. CASE UNCHANGED <<table, held>>
    BY <2>1, HeldUnchanged DEF table
  <2>2. CASE p \in Attempts /\ FailAttempts({p}) /\ held' = held
    BY <2>2, HeldAfterFailure DEF FailAttempts
  <2>3. CASE /\ p \in Attempts /\ Insert(p, entry, {p})
             /\ held' = held \cup {<<p.session, p>>}
    <3>1. p \in OwnPipeIds /\ p.session \in sessions /\ p \in PipeIds
      BY <2>3 DEF Attempts, EntriesOK, OwnPipeIds, PipeIds
    <3>2. p \notin Active
      BY <2>3, <3>1 DEF DialsOK, DialOK
    <3>3. p.session \in Sessions /\ k \notin Sessions
      BY <3>1, IdentityAssumption DEF AdmissionOK
    <3>4. /\ entry \in PipeEntries /\ entry.acceptor = k /\ entry.phase = "Open"
          /\ entry.dialer = p.session
      <4> HIDE DEF p
      <4> QED BY <3>3 DEF PipeEntries, Endpoints
    <3> HIDE DEF p, entry
    <3>5. \A s \in Sessions : (\/ entry.acceptor = s
                               \/ entry.phase = "Open" /\ entry.dialer = s)
                               <=> s = p.session
      BY <3>3, <3>4
    <3> QED BY <2>3, <3>1, <3>2, <3>3, <3>4, <3>5, HeldAfterInsert
  <2> QED BY <1>14, <2>1, <2>2, <2>3 DEF PeerOpened
<1>15. ASSUME NEW k \in Keys, NEW p \in PeerPipeIds, NEW s \in Sessions,
              NEW b \in Bindings, NEW d \in Destinations,
              ReceivePeerOpen(k, p, s, b, d)
       PROVE  HeldOK'
  <2> DEFINE entry == [dialer |-> k, acceptor |-> s, binding_id |-> b,
                       phase |-> "Offered", finished |-> {}]
  <2>1. CASE UNCHANGED <<table, held>>
    BY <2>1, HeldUnchanged DEF table
  <2>2. CASE /\ active_peer_opens[p] = None /\ Insert(p, entry, {})
             /\ held' = held \cup {<<s, p>>}
    <3>1. p \in PipeIds /\ p \notin OwnPipeIds
      BY IdentityAssumption DEF PipeIds, PeerPipeIds, OwnPipeIds
    <3>2. p \notin Active
      <4>1. SUFFICES ASSUME p \in Active PROVE FALSE
        OBVIOUS
      <4>2. pipes[p].dialer \in Keys
        BY <1>0, <3>1, <4>1 DEF EntryOK
      <4>3. active_peer_opens[p] = pipes[p].dialer
        BY <3>1, <4>1, <4>2 DEF StreamsOK, PeerIndexesMatchPipes, Ends
      <4> QED BY <2>2, <4>2, <4>3, IdentityAssumption
    <3>3. entry \in PipeEntries /\ entry.acceptor = s /\ entry.phase = "Offered"
      BY DEF PipeEntries, Endpoints
    <3> HIDE DEF entry
    <3> QED BY <2>2, <3>1, <3>2, <3>3, HeldAfterInsert
  <2> QED BY <1>15, <2>1, <2>2 DEF ReceivePeerOpen
<1>16. ASSUME NEW K \in SUBSET Keys, TransportLost(K)
       PROVE  HeldOK'
  <2> DEFINE T == {p \in Attempts : \E k \in K :
                      streams[k] = [phase |-> "opening", pipe |-> p]}
             R == {p \in Active : Ends(p) \cap K # {}}
  <2>1. /\ Remove(R, T) /\ R \in SUBSET Active /\ T \in SUBSET Attempts
        /\ held' = held \ {<<e, p>> : e \in Sessions, p \in R}
    BY <1>16 DEF TransportLost
  <2> HIDE DEF R, T
  <2>2. held' \subseteq held
    BY <2>1
  <2>3. \A s \in Sessions, p \in PipeIds :
           <<s, p>> \in held => (<<s, p>> \in held' <=> p \notin R)
    BY <2>1
  <2> QED BY <2>1, <2>2, <2>3, HeldAfterRemove
<1>17. ASSUME NEW s \in Sessions, NEW b \in Bindings, Unpublish(s, b)
       PROVE  HeldOK'
  <2> DEFINE R == {p \in Offered : pipes[p].binding_id = b}
  <2>1. /\ Remove(R, {}) /\ R \in SUBSET Active
        /\ held' = held \ {<<s, p>> : p \in R}
    BY <1>17 DEF Unpublish, CancelPendingBinding, Notify, Offered
  <2>2. \A p \in R : pipes[p].acceptor = s /\ pipes[p].phase = "Offered"
    BY <1>0, <1>17 DEF Offered, EntryOK, Unpublish, RegistryOK, SessionIndexOK
  <2> HIDE DEF R
  <2>3. held' \subseteq held
    BY <2>1
  <2>4. \A t \in Sessions, p \in PipeIds :
           <<t, p>> \in held => (<<t, p>> \in held' <=> p \notin R)
    BY <2>1, <2>2 DEF HeldOK, Knows
  <2> QED BY <2>1, <2>3, <2>4, HeldAfterRemove
<1>18. ASSUME NEW S \in SUBSET sessions, RemoveSessions(S)
       PROVE  HeldOK'
  <2> DEFINE R == {p \in Active : Ends(p) \cap S # {}}
             F == {p \in R \cap Offered : pipes[p].dialer \notin S}
             T == {p \in Attempts : p.session \in S}
  <2>1. /\ Remove(R, T) /\ R \in SUBSET Active /\ T \in SUBSET Attempts
        /\ held' = {h \in held : h[1] \notin S /\ h[2] \notin R \ F}
    BY <1>18 DEF RemoveSessions
  <2>2. held' \subseteq held
    BY <2>1
  <2>3. \A t \in Sessions, p \in PipeIds : Knows(t, p) /\ t \in S => p \in R
    BY DEF Knows, Ends
  <2>4. \A t \in Sessions, p \in PipeIds : Knows(t, p) /\ p \in F => t \in S
    BY DEF Knows, Ends, Offered
  <2> HIDE DEF R, F, T
  <2>5. \A t \in Sessions, p \in PipeIds :
           <<t, p>> \in held => (<<t, p>> \in held' <=> p \notin R)
    <3>1. \A t \in Sessions, p \in PipeIds : <<t, p>> \in held =>
             (<<t, p>> \in held' <=> t \notin S /\ p \notin R \ F)
      BY <2>1
    <3>2. F \subseteq R
      BY DEF F
    <3> QED BY <2>3, <2>4, <3>1, <3>2 DEF HeldOK
  <2> QED BY <2>1, <2>2, <2>5, HeldAfterRemove
<1>19. ASSUME NEW p \in OwnPipeIds,
              PeerOpenCommitted(p) \/ PeerOpenCommitFailed(p)
       PROVE  HeldOK'
  <2>1. CASE pipes' = pipes /\ held' = held
    BY <2>1, HeldUnchanged
  <2>2. CASE p \in Attempts /\ FailAttempts({p}) /\ held' = held
    BY <2>2, HeldAfterFailure DEF FailAttempts
  <2> QED BY <1>19, <2>1, <2>2
          DEF PeerOpenCommitted, PeerOpenCommitFailed, table, Phase
<1>20. ASSUME NEW k \in Keys, PeerOpenFailed(k)
       PROVE  HeldOK'
  <2> DEFINE p == streams[k].pipe
  <2>1. CASE pipes' = pipes /\ held' = held
    BY <2>1, HeldUnchanged
  <2>2. CASE p \in Attempts /\ FailAttempts({p}) /\ held' = held
    BY <2>2, HeldAfterFailure DEF FailAttempts
  <2> QED BY <1>20, <2>1, <2>2 DEF PeerOpenFailed, table
<1>21. ASSUME \/ \E s \in Sessions : AddSession(s)
              \/ \E s \in Sessions, d \in Destinations : PreparePublish(s, d)
              \/ \E s \in Sessions, c \in ConnIds, d \in Destinations :
                    PrepareDial(s, c, d)
              \/ \E s \in Sessions : AuthorizationFailed(s)
              \/ \E s \in Sessions : Publish(s)
              \/ \E s \in Sessions, p \in PipeIds : OfferDelivered(s, p)
              \/ \E p \in OwnPipeIds, k \in Keys : OpenCommits(p, k)
              \/ \E p \in OwnPipeIds : CancelPeerOpen(p)
              \/ BeginDraining
       PROVE  HeldOK'
  <2>1. pipes' = pipes /\ held' = held
    BY <1>21 DEF AddSession, PreparePublish, PrepareDial, AuthorizationFailed,
                 Publish, OfferDelivered, OpenCommits, CancelPeerOpen,
                 BeginDraining, table, ledger
  <2> QED BY <2>1, HeldUnchanged
<1>22. RegistryTypes /\ EntriesOK
  BY DEF RegistryOK
<1> QED BY StepCases, <1>4, <1>5, <1>6, <1>7, <1>8, <1>9, <1>10, <1>12, <1>13,
           <1>14, <1>15, <1>16, <1>17, <1>18, <1>19, <1>20, <1>21, <1>22, Zenon

-----------------------------------------------------------------------------
(***************************************************************************)
(* DIALs.                                                                  *)
(***************************************************************************)

(* Ending Pipes and attempts answers the DIALs that waited for them. *)
LEMMA DialsAfterRemove ==
    ASSUME TableTypes, DialsOK, NEW R \in SUBSET Active, NEW T \in SUBSET Attempts,
           Remove(R, T), UNCHANGED <<sessions, highest_connection_id, authorizing>>,
           dials' = Answered((R \cap Offered \cap OwnPipeIds) \cup T)
    PROVE  DialsOK'
<1>1. /\ Active' = Active \ R /\ Attempts' = Attempts \ T
      /\ \A p \in Active' : pipes'[p] = pipes[p]
  BY AfterRemove
<1>2. Offered' = Offered \ R /\ Opened' = Opened \ R
  BY <1>1 DEF Offered, Opened
<1>3. ASSUME NEW p \in OwnPipeIds
      PROVE  DialOK(p)' /\ dials'[p] \in {"unused", "waiting", "answered"}
  <2>1. DialOK(p) /\ dials[p] \in {"unused", "waiting", "answered"}
    BY DEF DialsOK
  <2>2. BeingAuthorized(p)' <=> BeingAuthorized(p)
    BY DEF BeingAuthorized, Authorizing
  <2>3. p \in Active => p \in Offered \/ p \in Opened
    BY DEF Offered, Opened, Active, TableTypes, PipeEntries
  <2>4. CASE p \in (R \cap Offered \cap OwnPipeIds) \cup T
    <3>1. dials[p] = "waiting"
      BY <2>1, <2>4 DEF DialOK
    <3>2. dials'[p] = "answered"
      BY <2>4, <3>1 DEF Answered
    <3>3. p \notin Active' /\ p \notin Attempts' /\ ~BeingAuthorized(p)'
      BY <1>1, <2>1, <2>2, <2>4 DEF DialOK, Offered
    <3> QED BY <1>1, <1>2, <2>1, <3>1, <3>2, <3>3 DEF DialOK, Offered, Opened
  <2>5. CASE p \notin (R \cap Offered \cap OwnPipeIds) \cup T
    <3>1. dials'[p] = dials[p]
      BY <2>5 DEF Answered
    <3>2. (p \in Offered' <=> p \in Offered) /\ (p \in Attempts' <=> p \in Attempts)
      BY <1>1, <1>2, <2>5
    <3>3. (p \in Opened' => p \in Opened) /\ (p \in Active' => p \in Active)
      BY <1>1, <1>2
    <3> QED BY <2>1, <2>2, <3>1, <3>2, <3>3 DEF DialOK
  <2> QED BY <2>4, <2>5
<1>4. dials' \in [OwnPipeIds -> {"unused", "waiting", "answered"}]
  BY <1>3 DEF Answered
<1> QED BY <1>3, <1>4 DEF DialsOK

SameStages(q) ==
    /\ BeingAuthorized(q)' <=> BeingAuthorized(q)
    /\ q \in Attempts' <=> q \in Attempts
    /\ q \in Active' <=> q \in Active
    /\ q \in Offered' <=> q \in Offered
    /\ q \in Opened' <=> q \in Opened

(* Steps that leave the stages of every DIAL but p alone. *)
LEMMA DialsExcept ==
    ASSUME DialsOK, UNCHANGED <<sessions, highest_connection_id>>,
           NEW p \in OwnPipeIds, NEW x \in {"unused", "waiting", "answered"},
           dials' = [dials EXCEPT ![p] = x],
           \A q \in OwnPipeIds : q # p => SameStages(q),
           DialOK(p)'
    PROVE  DialsOK'
<1>1. ASSUME NEW q \in OwnPipeIds, q # p
      PROVE  DialOK(q)'
  <2>1. DialOK(q) /\ dials'[q] = dials[q]
    BY <1>1 DEF DialsOK
  <2> QED BY <1>1, <2>1 DEF DialOK, SameStages
<1> QED BY <1>1 DEF DialsOK

(* Steps that leave the stages of every DIAL alone. *)
LEMMA DialsUnchanged ==
    ASSUME DialsOK, UNCHANGED <<sessions, highest_connection_id, dials>>,
           \A q \in OwnPipeIds : SameStages(q)
    PROVE  DialsOK'
<1>1. ASSUME NEW q \in OwnPipeIds
      PROVE  DialOK(q)'
  BY <1>1 DEF DialsOK, DialOK, SameStages
<1> QED BY <1>1 DEF DialsOK

(* What authorizing another operation means for the DIALs of a session. *)
LEMMA OtherAuthorizing ==
    ASSUME AdmissionOK, NEW s \in Sessions, NEW x \in Operations \cup {None},
           authorizing' = [authorizing EXCEPT ![s] = x]
    PROVE  \A q \in OwnPipeIds :
              /\ q.session # s => (BeingAuthorized(q)' <=> BeingAuthorized(q))
              /\ q.session = s => (BeingAuthorized(q)' <=>
                    x # None /\ x.kind = "Dial" /\ x.conn = q.conn)
<1>1. \A q \in OwnPipeIds : q.session \in Sessions
  BY DEF OwnPipeIds
<1> QED BY <1>1 DEF BeingAuthorized, Authorizing, AdmissionOK

(* What a Pipe identity of our own is made of. *)
LEMMA OwnPipeIdFacts ==
    /\ OwnPipeIds \subseteq PipeIds
    /\ \A q \in OwnPipeIds : q.session \in Sessions /\ q.conn \in ConnIds
    /\ \A q \in OwnPipeIds, s \in Sessions, c \in ConnIds :
          q = PipeId(s, c) <=> q.session = s /\ q.conn = c
BY DEF OwnPipeIds, PipeIds, PipeId

(* The ends of an OFFER of our own are sessions, and a session that dials   *)
(* dials a Pipe of our own.                                                *)
LEMMA OfferEnds ==
    ASSUME TableTypes, EntriesOK, RegistryTypes, NEW p \in Active
    PROVE  /\ p \in PipeIds /\ pipes[p] \in PipeEntries
           /\ p \in Offered \/ p \in Opened
           /\ p \in Offered => pipes[p].acceptor \in Sessions
           /\ p \in OwnPipeIds <=> pipes[p].dialer \in Sessions
           /\ p \in OwnPipeIds <=> pipes[p].dialer \notin Keys
           /\ p \in OwnPipeIds => pipes[p].dialer = p.session
           /\ p \in Offered /\ p \in OwnPipeIds => Ends(p) \subseteq Sessions
           /\ p \notin OwnPipeIds => pipes[p].acceptor \in Sessions
<1>1. p \in PipeIds /\ pipes[p] \in PipeEntries /\ EntryOK(p, pipes[p])
  BY DEF TableTypes, Active, EntriesOK
<1>2. p \in Offered \/ p \in Opened
  BY <1>1 DEF Offered, Opened, PipeEntries
<1>3. p \in Offered => pipes[p].acceptor \in Sessions
  BY <1>1 DEF Offered, EntryOK, RegistryTypes, Registered
<1>4. p \in OwnPipeIds => pipes[p].dialer = p.session /\ pipes[p].dialer \in Sessions
  BY <1>1, OwnPipeIdFacts DEF EntryOK
<1>5. p \notin OwnPipeIds => pipes[p].dialer \in Keys /\ pipes[p].acceptor \in Sessions
  BY <1>1 DEF EntryOK
<1> QED BY <1>1, <1>2, <1>3, <1>4, <1>5, IdentityAssumption DEF Ends

(* A Pipe that is inserted leaves the stages of the others alone. *)
LEMMA InsertStages ==
    ASSUME TableTypes, NEW p \in PipeIds, p \notin Active,
           NEW entry \in PipeEntries, NEW T \in SUBSET {p}, Insert(p, entry, T)
    PROVE  /\ \A q : q # p => /\ q \in Attempts' <=> q \in Attempts
                              /\ q \in Active' <=> q \in Active
                              /\ q \in Offered' <=> q \in Offered
                              /\ q \in Opened' <=> q \in Opened
           /\ p \in Active' /\ (p \in Attempts' <=> p \in Attempts /\ p \notin T)
           /\ p \in Offered' <=> entry.phase = "Offered"
           /\ p \in Opened' <=> entry.phase = "Open"
<1>1. /\ Active' = Active \cup {p} /\ Attempts' = Attempts \ T
      /\ pipes'[p] = entry
      /\ \A q \in Active : q # p => pipes'[q] = pipes[q]
  BY AfterInsert
<1> QED BY <1>1 DEF Offered, Opened

(* The DIAL whose authorization ends is in no stage until it is answered. *)
LEMMA DialStages ==
    ASSUME AdmissionOK, DialsOK, NEW s \in Sessions, Authorizing(s, "Dial"),
           authorizing' = [authorizing EXCEPT ![s] = None],
           UNCHANGED <<sessions, highest_connection_id>>,
           NEW p, p = PipeId(s, authorizing[s].conn)
    PROVE  /\ p \in OwnPipeIds /\ p \in PipeIds /\ p.session = s
           /\ p \notin Active /\ p \notin Attempts
           /\ dials[p] = "waiting" /\ BeingAuthorized(p) /\ ~BeingAuthorized(p)'
           /\ p.session \in sessions' /\ p.conn <= highest_connection_id'[p.session]
           /\ \A q \in OwnPipeIds : q # p =>
                 (BeingAuthorized(q)' <=> BeingAuthorized(q))
<1>1. /\ p \in OwnPipeIds /\ p \in PipeIds /\ p.session = s /\ BeingAuthorized(p)
      /\ p.conn = authorizing[s].conn
  BY DialFacts
<1>2. authorizing[s].conn \in ConnIds
  BY <1>1, OwnPipeIdFacts
<1>3. \A q \in OwnPipeIds :
         /\ q.session # s => (BeingAuthorized(q)' <=> BeingAuthorized(q))
         /\ q.session = s => ~BeingAuthorized(q)'
  BY OtherAuthorizing
<1>4. ASSUME NEW q \in OwnPipeIds, q.session = s, q # p
      PROVE  ~BeingAuthorized(q)
  <2>1. q.conn # authorizing[s].conn
    BY <1>2, <1>4, OwnPipeIdFacts
  <2> QED BY <1>4, <2>1 DEF BeingAuthorized
<1>5. DialOK(p)
  BY <1>1 DEF DialsOK
<1>6. /\ p \notin Active /\ p \notin Attempts /\ dials[p] = "waiting"
      /\ p.session \in sessions /\ p.conn <= highest_connection_id[p.session]
  BY <1>1, <1>5 DEF DialOK
<1> QED BY <1>1, <1>3, <1>4, <1>6

(* A DIAL is in one stage until it is answered, and is answered once. *)
LEMMA DialsStep ==
    ASSUME IInv, Next
    PROVE  DialsOK'
<1> USE DEF IInv
<1>a. \A p \in Active : /\ pipes[p] \in PipeEntries /\ p \in PipeIds
                        /\ EntryOK(p, pipes[p])
                        /\ p \in Offered \/ p \in Opened
  BY OfferEnds DEF EntriesOK, RegistryOK
<1>b. PipesOnly => UNCHANGED <<sessions, highest_connection_id, authorizing>>
  BY DEF PipesOnly, admission
<1>c. ASSUME authorizing' = authorizing
      PROVE  \A q \in OwnPipeIds : BeingAuthorized(q)' <=> BeingAuthorized(q)
  BY <1>c DEF BeingAuthorized, Authorizing
<1>d. \A q \in OwnPipeIds : q.session \in Sessions /\ q.conn \in ConnIds
  BY OwnPipeIdFacts
<1>e. ASSUME PipesOnly, NEW p \in Active, Remove({p}, {}),
             dials' = Answered({p} \cap Offered \cap OwnPipeIds)
      PROVE  DialsOK'
  <2>1. ({p} \cap Offered \cap OwnPipeIds) \cup {} = {p} \cap Offered \cap OwnPipeIds
    OBVIOUS
  <2>2. {p} \in SUBSET Active /\ {} \in SUBSET Attempts
    OBVIOUS
  <2> QED BY <1>b, <1>e, <2>1, <2>2, DialsAfterRemove
<1>f. ASSUME PipesOnly, NEW p \in Attempts, Remove({}, {p}), dials' = Answered({p})
      PROVE  DialsOK'
  <2>1. ({} \cap Offered \cap OwnPipeIds) \cup {p} = {p}
    OBVIOUS
  <2>2. {} \in SUBSET Active /\ {p} \in SUBSET Attempts
    OBVIOUS
  <2> QED BY <1>b, <1>f, <2>1, <2>2, DialsAfterRemove
<1>g. ASSUME PipesOnly, UNCHANGED <<table, dials>>
      PROVE  DialsOK'
  <2>1. Active' = Active /\ Attempts' = Attempts /\ Offered' = Offered /\ Opened' = Opened
    BY <1>g DEF table, Active, Attempts, Offered, Opened
  <2>s. \A q \in OwnPipeIds : SameStages(q)
    BY <1>b, <1>c, <1>g, <2>1 DEF SameStages
  <2> QED BY <1>b, <1>c, <1>g, <2>1, <2>s, DialsUnchanged
<1>h. ASSUME PipesOnly, NEW p \in Active, ProtocolReset(p)
      PROVE  DialsOK'
  BY <1>e, <1>h DEF ProtocolReset, Notify
<1>i. ASSUME PipesOnly, NEW p \in Opened, Remove({p}, {}), NEW told, Notify({}, told)
      PROVE  DialsOK'
  <2>1. {p} \cap Offered \cap OwnPipeIds = {} \cap OwnPipeIds
    BY DEF Offered, Opened
  <2>2. p \in Active
    BY DEF Opened
  <2> QED BY <1>e, <1>i, <2>1, <2>2 DEF Notify
<1>j. ASSUME PipesOnly, NEW p \in Offered, Remove({p}, {}), NEW told, Notify({p}, told)
      PROVE  DialsOK'
  <2>1. {p} \cap Offered \cap OwnPipeIds = {p} \cap OwnPipeIds /\ p \in Active
    BY DEF Offered
  <2> QED BY <1>e, <1>j, <2>1 DEF Notify
<1>1. ASSUME NEW s \in Sessions, AddSession(s)
      PROVE  DialsOK'
  <2>1. /\ sessions \subseteq sessions'
        /\ UNCHANGED <<highest_connection_id, dials, authorizing, table>>
    BY <1>1 DEF AddSession, ledger
  <2>2. Active' = Active /\ Attempts' = Attempts /\ Offered' = Offered /\ Opened' = Opened
    BY <2>1 DEF table, Active, Attempts, Offered, Opened
  <2>3. ASSUME NEW q \in OwnPipeIds
        PROVE  DialOK(q)'
    <3>1. DialOK(q) /\ (BeingAuthorized(q)' <=> BeingAuthorized(q))
      BY <1>c, <2>1 DEF DialsOK
    <3> QED BY <2>1, <2>2, <3>1 DEF DialOK
  <2> QED BY <2>1, <2>3 DEF DialsOK
<1>2. ASSUME NEW S \in SUBSET sessions, RemoveSessions(S)
      PROVE  DialsOK'
  <2> DEFINE R == {p \in Active : Ends(p) \cap S # {}}
             F == {p \in R \cap Offered : pipes[p].dialer \notin S}
             T == {p \in Attempts : p.session \in S}
             D == F \cap OwnPipeIds
  <2>1. /\ Remove(R, T) /\ sessions' = sessions \ S
        /\ R \in SUBSET Active /\ T \in SUBSET Attempts
        /\ highest_connection_id' = [s \in Sessions |->
              IF s \in S THEN 0 ELSE highest_connection_id[s]]
        /\ authorizing' = [s \in Sessions |->
              IF s \in S THEN None ELSE authorizing[s]]
        /\ dials' = [p \in OwnPipeIds |->
              IF p.session \in S THEN "unused" ELSE Answered(D)[p]]
    BY <1>2 DEF RemoveSessions
  <2>2. \A p \in OwnPipeIds \cap Active : p.session = pipes[p].dialer
    BY <1>a DEF EntryOK
  <2>3. \A p \in OwnPipeIds : p.session \in S => (p \in Active => p \in R)
    BY <2>2 DEF Ends
  <2>4. \A p \in OwnPipeIds : p.session \notin S /\ p \in Offered =>
                                 (p \in R <=> p \in D)
    BY <2>2 DEF Offered
  <2>5. D \subseteq Offered /\ D \subseteq R
    OBVIOUS
  <2>6. \A p \in OwnPipeIds : p.session \in S => (p \in Attempts <=> p \in T)
    OBVIOUS
  <2>7. \A p \in OwnPipeIds : p.session \notin S => p \notin T
    OBVIOUS
  <2> HIDE DEF R, F, T, D
  <2>8. /\ Active' = Active \ R /\ Attempts' = Attempts \ T
        /\ \A p \in Active' : pipes'[p] = pipes[p]
    BY <2>1, AfterRemove
  <2>9. Offered' = Offered \ R /\ Opened' = Opened \ R
    BY <2>8 DEF Offered, Opened
  <2>10. ASSUME NEW p \in OwnPipeIds, p.session \in S
         PROVE  DialOK(p)' /\ dials'[p] = "unused"
    <3>1. p \notin Active' /\ p \notin Attempts' /\ dials'[p] = "unused"
      BY <2>1, <2>3, <2>6, <2>8, <2>10
    <3>2. ~BeingAuthorized(p)'
      BY <1>d, <2>1, <2>10 DEF BeingAuthorized, Authorizing
    <3> QED BY <3>1, <3>2 DEF DialOK, Offered, Opened
  <2>11. ASSUME NEW p \in OwnPipeIds, p.session \notin S
         PROVE  DialOK(p)' /\ dials'[p] \in {"unused", "waiting", "answered"}
    <3>1. /\ DialOK(p) /\ dials[p] \in {"unused", "waiting", "answered"}
          /\ p.session \in Sessions
      BY <1>d DEF DialsOK
    <3>2. BeingAuthorized(p)' <=> BeingAuthorized(p)
      BY <2>1, <2>11, <3>1 DEF BeingAuthorized, Authorizing
    <3>3. /\ highest_connection_id'[p.session] = highest_connection_id[p.session]
          /\ p.session \in sessions => p.session \in sessions'
      BY <2>1, <2>11, <3>1
    <3>4. p \in Attempts' <=> p \in Attempts
      BY <2>7, <2>8, <2>11
    <3>5. CASE p \in D
      <4>1. p \in Offered /\ p \in R /\ p \in Active /\ dials[p] = "waiting"
        BY <2>5, <3>1, <3>5 DEF DialOK, Offered
      <4>2. dials'[p] = "answered"
        BY <2>1, <2>11, <3>5, <4>1 DEF Answered
      <4> QED BY <2>8, <2>9, <3>1, <3>2, <3>3, <3>4, <4>1, <4>2 DEF DialOK
    <3>6. CASE p \notin D
      <4>1. dials'[p] = dials[p]
        BY <2>1, <2>11, <3>6 DEF Answered
      <4>2. p \in Offered' <=> p \in Offered
        BY <2>4, <2>9, <2>11, <3>6
      <4>3. (p \in Active' => p \in Active) /\ (p \in Opened' => p \in Opened)
        BY <2>8, <2>9
      <4> QED BY <3>1, <3>2, <3>3, <3>4, <4>1, <4>2, <4>3 DEF DialOK
    <3> QED BY <3>5, <3>6
  <2>12. dials' \in [OwnPipeIds -> {"unused", "waiting", "answered"}]
    BY <2>1, <2>10, <2>11
  <2> QED BY <2>10, <2>11, <2>12 DEF DialsOK
<1>3. ASSUME NEW s \in Sessions, NEW x \in Operations \cup {None},
             authorizing' = [authorizing EXCEPT ![s] = x],
             ~Authorizing(s, "Dial"), x # None => x.kind = "Publish",
             UNCHANGED <<sessions, highest_connection_id, dials, table>>
      PROVE  DialsOK'
  <2>1. Active' = Active /\ Attempts' = Attempts /\ Offered' = Offered /\ Opened' = Opened
    BY <1>3 DEF table, Active, Attempts, Offered, Opened
  <2>2. \A q \in OwnPipeIds : BeingAuthorized(q)' <=> BeingAuthorized(q)
    <3>1. \A q \in OwnPipeIds : q.session = s => ~BeingAuthorized(q)
      BY <1>3 DEF BeingAuthorized
    <3> QED BY <1>3, <3>1, OtherAuthorizing
  <2>s. \A q \in OwnPipeIds : SameStages(q)
    BY <1>3, <2>1, <2>2 DEF SameStages
  <2> QED BY <1>3, <2>1, <2>2, <2>s, DialsUnchanged
<1>4. ASSUME NEW s \in Sessions, NEW d \in Destinations, PreparePublish(s, d)
      PROVE  DialsOK'
  <2>1. [kind |-> "Publish", destination |-> d] \in Operations
    BY DEF Operations
  <2> QED BY <1>3, <1>4, <2>1 DEF PreparePublish, Ready, Authorizing, ledger
<1>5. ASSUME NEW s \in Sessions, Publish(s)
      PROVE  DialsOK'
  <2>1. /\ authorizing' = [authorizing EXCEPT ![s] = None]
        /\ authorizing[s].kind = "Publish"
        /\ UNCHANGED <<sessions, highest_connection_id, dials, table>>
    BY <1>5 DEF Publish, Authorizing, ledger
  <2> QED BY <1>3, <2>1 DEF Authorizing
<1>6. ASSUME NEW s \in Sessions, NEW c \in ConnIds, NEW d \in Destinations,
             PrepareDial(s, c, d)
      PROVE  DialsOK'
  <2> DEFINE p == PipeId(s, c)
  <2>1. /\ s \in sessions /\ authorizing[s] = None /\ c > highest_connection_id[s]
        /\ highest_connection_id' = [highest_connection_id EXCEPT ![s] = c]
        /\ UNCHANGED <<sessions, table>>
    BY <1>6 DEF PrepareDial, Ready
  <2>2. p \in OwnPipeIds /\ p.session = s /\ p.conn = c
    BY DEF PipeId, OwnPipeIds
  <2> HIDE DEF p
  <2>3. /\ c \in Nat /\ highest_connection_id[s] \in Nat
        /\ \A t \in Sessions : highest_connection_id[t] \in Nat
    <3>1. ConnIds \subseteq Nat
      BY IdentityAssumption
    <3>2. \A t \in Sessions : highest_connection_id[t] \in ConnIds \cup {0}
      BY DEF AdmissionOK
    <3>3. ConnIds \cup {0} \subseteq Nat
      BY <3>1
    <3>4. \A t \in Sessions : highest_connection_id[t] \in Nat
      BY <3>2, <3>3, Zenon
    <3> QED BY <3>1, <3>4
  <2>4. /\ dials[p] = "unused" /\ p \notin Active /\ p \notin Attempts
        /\ ~BeingAuthorized(p)
    <3>1. DialOK(p) /\ ~(c <= highest_connection_id[s])
      BY <2>1, <2>2, <2>3 DEF DialsOK
    <3>2. p \in Active => p \in Offered \/ p \in Opened
      BY <1>a
    <3> QED BY <2>2, <3>1, <3>2 DEF DialOK
  <2>5. Active' = Active /\ Attempts' = Attempts /\ Offered' = Offered /\ Opened' = Opened
    BY <2>1 DEF table, Active, Attempts, Offered, Opened
  <2>6. ASSUME NEW q \in OwnPipeIds, q # p, dials'[q] = dials[q],
               BeingAuthorized(q)' <=> BeingAuthorized(q)
        PROVE  DialOK(q)'
    <3>1. DialOK(q) /\ q.session \in Sessions /\ q.conn \in Nat
      BY <1>d, IdentityAssumption DEF DialsOK
    <3>2. q.conn <= highest_connection_id[q.session] =>
             q.conn <= highest_connection_id'[q.session]
      BY <2>1, <2>3, <3>1 DEF AdmissionOK
    <3> QED BY <2>1, <2>5, <2>6, <3>1, <3>2 DEF DialOK
  <2>7. p.session \in sessions' /\ p.conn <= highest_connection_id'[p.session]
    BY <2>1, <2>2, <2>3 DEF AdmissionOK
  <2>8. p \notin Offered /\ p \notin Opened
    BY <2>4 DEF Offered, Opened
  <2>9. CASE dials' = [dials EXCEPT ![p] = "answered"] /\ UNCHANGED authorizing
    <3>1. \A q \in OwnPipeIds : BeingAuthorized(q)' <=> BeingAuthorized(q)
      BY <1>c, <2>9
    <3>2. DialOK(p)'
      BY <2>2, <2>4, <2>5, <2>7, <2>8, <2>9, <3>1 DEF DialOK, DialsOK
    <3>3. \A q \in OwnPipeIds : DialOK(q)'
      BY <2>6, <2>9, <3>1, <3>2 DEF DialsOK
    <3> QED BY <2>2, <2>9, <3>3 DEF DialsOK
  <2>10. CASE /\ dials' = [dials EXCEPT ![p] = "waiting"]
              /\ authorizing' = [authorizing EXCEPT ![s] =
                    [kind |-> "Dial", destination |-> d, conn |-> c]]
    <3> DEFINE x == [kind |-> "Dial", destination |-> d, conn |-> c]
    <3>1. x \in Operations \cup {None} /\ x # None /\ x.kind = "Dial" /\ x.conn = c
      BY NoneAssumption DEF Operations
    <3>2. authorizing' = [authorizing EXCEPT ![s] = x]
      BY <2>10
    <3> HIDE DEF x
    <3>3. \A q \in OwnPipeIds :
             /\ q.session # s => (BeingAuthorized(q)' <=> BeingAuthorized(q))
             /\ q.session = s => (BeingAuthorized(q)' <=> q.conn = c)
      <4>1. \A q \in OwnPipeIds :
               /\ q.session # s => (BeingAuthorized(q)' <=> BeingAuthorized(q))
               /\ q.session = s => (BeingAuthorized(q)' <=>
                     x # None /\ x.kind = "Dial" /\ x.conn = q.conn)
        BY <3>1, <3>2, OtherAuthorizing
      <4> QED BY <3>1, <4>1, Zenon
    <3>4. \A q \in OwnPipeIds : q.session = s => ~BeingAuthorized(q)
      BY <2>1 DEF BeingAuthorized, Authorizing
    <3>5. \A q \in OwnPipeIds : q # p => (BeingAuthorized(q)' <=> BeingAuthorized(q))
      BY <3>3, <3>4, OwnPipeIdFacts DEF p
    <3>6. BeingAuthorized(p)'
      BY <2>2, <3>3
    <3>7. DialOK(p)'
      BY <2>2, <2>4, <2>5, <2>7, <2>8, <2>10, <3>6 DEF DialOK, DialsOK
    <3>8. \A q \in OwnPipeIds : DialOK(q)'
      BY <2>6, <2>10, <3>5, <3>7 DEF DialsOK
    <3> QED BY <2>2, <2>10, <3>8 DEF DialsOK
  <2> QED BY <1>6, <2>9, <2>10 DEF PrepareDial, p
<1>8. ASSUME NEW s \in Sessions, Authorizing(s, "Dial"),
             authorizing' = [authorizing EXCEPT ![s] = None],
             UNCHANGED <<sessions, highest_connection_id, table>>,
             dials' = Answered({PipeId(s, authorizing[s].conn)})
      PROVE  DialsOK'
  <2>0. PICK p : p = PipeId(s, authorizing[s].conn) /\ dials' = Answered({p})
    BY <1>8
  <2>1. /\ p \in OwnPipeIds /\ p \notin Active /\ p \notin Attempts
        /\ dials[p] = "waiting" /\ ~BeingAuthorized(p)'
        /\ p.session \in sessions' /\ p.conn <= highest_connection_id'[p.session]
        /\ \A q \in OwnPipeIds : q # p => (BeingAuthorized(q)' <=> BeingAuthorized(q))
    BY <1>8, <2>0, DialStages
  <2>3. Active' = Active /\ Attempts' = Attempts /\ Offered' = Offered /\ Opened' = Opened
    BY <1>8 DEF table, Active, Attempts, Offered, Opened
  <2>4. dials' = [dials EXCEPT ![p] = "answered"] /\ dials'[p] = "answered"
    BY <2>0, <2>1 DEF Answered, DialsOK
  <2>6. p \notin Offered /\ p \notin Opened
    BY <2>1 DEF Offered, Opened
  <2>5. DialOK(p)'
    BY <2>1, <2>3, <2>4, <2>6 DEF DialOK
  <2>s. \A q \in OwnPipeIds : q # p => SameStages(q)
    BY <2>1, <2>3 DEF SameStages
  <2>7. UNCHANGED <<sessions, highest_connection_id>>
    BY <1>8
  <2> QED BY <2>1, <2>4, <2>5, <2>7, <2>s, DialsExcept
<1>9. ASSUME NEW s \in Sessions, AuthorizationFailed(s)
      PROVE  DialsOK'
  <2>1. /\ authorizing' = [authorizing EXCEPT ![s] = None]
        /\ UNCHANGED <<sessions, highest_connection_id, table>>
    BY <1>9 DEF AuthorizationFailed
  <2>2. CASE Authorizing(s, "Dial")
    BY <1>8, <1>9, <2>1, <2>2 DEF AuthorizationFailed
  <2>3. CASE ~Authorizing(s, "Dial")
    BY <1>3, <1>9, <2>1, <2>3 DEF AuthorizationFailed
  <2> QED BY <2>2, <2>3
<1>11. ASSUME NEW s \in Sessions, Dial(s)
       PROVE  DialsOK'
  <2>0. PICK p, d : p = PipeId(s, authorizing[s].conn) /\ d = authorizing[s].destination
    OBVIOUS
  <2>1. /\ Authorizing(s, "Dial")
        /\ authorizing' = [authorizing EXCEPT ![s] = None]
        /\ UNCHANGED <<sessions, highest_connection_id>>
    BY <1>11 DEF Dial
  <2>2. d \in Destinations /\ s \in sessions
    BY <2>0, <2>1, DialFacts
  <2>4. CASE dials' = Answered({p}) /\ UNCHANGED table
    BY <1>8, <2>0, <2>1, <2>4
  <2>3. /\ p \in OwnPipeIds /\ p \in PipeIds /\ p.session = s
        /\ p \notin Active /\ p \notin Attempts
        /\ dials[p] = "waiting" /\ ~BeingAuthorized(p)'
        /\ p.session \in sessions' /\ p.conn <= highest_connection_id'[p.session]
        /\ \A q \in OwnPipeIds : q # p => (BeingAuthorized(q)' <=> BeingAuthorized(q))
    BY <2>0, <2>1, DialStages
  <2>5. dials = [dials EXCEPT ![p] = "waiting"]
    BY <2>3 DEF DialsOK
  <2>6. CASE /\ Eligible(d, s) # <<>>
             /\ OfferLocal(p, Selected(d, s), {})
    <3> DEFINE b == Selected(d, s)
               entry == [dialer |-> p.session, acceptor |-> by_id[b].session,
                         binding_id |-> b, phase |-> "Offered", finished |-> {}]
    <3>1. b \in Bindings /\ by_id[b] # None /\ by_id[b].session # s
      BY <2>2, <2>6, SelectedIsBound DEF RegistryOK
    <3> HIDE DEF b
    <3>2. entry \in PipeEntries /\ entry.phase = "Offered"
      BY <2>2, <2>3, <3>1, LocalEntryOK
    <3>3. Insert(p, entry, {}) /\ dials' = dials
      BY <2>6 DEF OfferLocal, b
    <3> HIDE DEF entry
    <3>4. /\ \A q \in PipeIds : q # p => /\ q \in Attempts' <=> q \in Attempts
                                         /\ q \in Active' <=> q \in Active
                                         /\ q \in Offered' <=> q \in Offered
                                         /\ q \in Opened' <=> q \in Opened
          /\ p \in Active' /\ (p \in Attempts' <=> p \in Attempts)
          /\ p \in Offered' /\ p \notin Opened'
      BY <2>2, <2>3, <3>2, <3>3, InsertStages
    <3>5. DialOK(p)'
      <4>1. dials'[p] = "waiting" /\ p \notin Attempts' /\ ~BeingAuthorized(p)'
        BY <2>3, <3>3, <3>4
      <4> QED BY <2>3, <3>4, <4>1 DEF DialOK
    <3>6. OwnPipeIds \subseteq PipeIds
      BY DEF OwnPipeIds, PipeIds
    <3>s. \A q \in OwnPipeIds : q # p => SameStages(q)
      BY <2>1, <2>2, <2>3, <2>5, <3>3, <3>4, <3>5, <3>6 DEF SameStages
    <3> QED BY <2>1, <2>2, <2>3, <2>5, <3>3, <3>4, <3>5, <3>6, <3>s, DialsExcept
  <2>7. CASE /\ remote_open_attempts' = [remote_open_attempts EXCEPT ![p] =
                   [destination |-> d, phase |-> "Resolving", key |-> None]]
             /\ pipes' = pipes /\ dials' = dials
    <3>1. [destination |-> d, phase |-> "Resolving", key |-> None] # None
      BY <2>2, NoneAssumption DEF RemoteOpenAttempts
    <3>2. Attempts' = Attempts \cup {p}
      BY <2>3, <2>7, <3>1 DEF TableTypes, Attempts
    <3>3. Active' = Active /\ Offered' = Offered /\ Opened' = Opened
      BY <2>7 DEF Active, Offered, Opened
    <3>4. DialOK(p)'
      <4>1. dials'[p] = "waiting" /\ p \in Attempts' /\ p \notin Active'
        BY <2>3, <2>7, <3>2, <3>3
      <4>2. p \notin Offered' /\ p \notin Opened'
        BY <4>1 DEF Offered, Opened
      <4> QED BY <2>3, <4>1, <4>2 DEF DialOK
    <3>s. \A q \in OwnPipeIds : q # p => SameStages(q)
      BY <2>1, <2>2, <2>3, <2>5, <2>7, <3>2, <3>3, <3>4 DEF SameStages
    <3> QED BY <2>1, <2>2, <2>3, <2>5, <2>7, <3>2, <3>3, <3>4, <3>s, DialsExcept
  <2> QED BY <1>11, <2>0, <2>4, <2>6, <2>7 DEF Dial, ledger
<1>12. ASSUME NEW s \in Sessions, NEW b \in Bindings, Unpublish(s, b)
       PROVE  DialsOK'
  <2> DEFINE R == {p \in Offered : pipes[p].binding_id = b}
  <2>1. /\ Remove(R, {}) /\ dials' = Answered(R \cap OwnPipeIds)
        /\ UNCHANGED <<sessions, highest_connection_id, authorizing>>
    BY <1>12 DEF Unpublish, CancelPendingBinding, Notify, admission
  <2>2. /\ R \in SUBSET Active /\ {} \in SUBSET Attempts
        /\ R \cap OwnPipeIds = (R \cap Offered \cap OwnPipeIds) \cup {}
    BY DEF Offered
  <2> HIDE DEF R
  <2> QED BY <2>1, <2>2, DialsAfterRemove
<1>13. ASSUME NEW s \in Sessions, NEW p \in PipeIds, Cancel(s, p)
       PROVE  DialsOK'
  <2>1. CASE /\ p \in Active /\ Remove({p}, {})
             /\ Notify({p} \cap Offered, {<<e, p>> : e \in Ends(p)})
    BY <1>e, <1>13, <2>1 DEF Cancel, Notify
  <2>2. CASE p \in Attempts /\ CancelRemoteAttempt(p)
    BY <1>f, <1>13, <2>2 DEF Cancel, CancelRemoteAttempt
  <2> QED BY <1>13, <2>1, <2>2 DEF Cancel
<1>14. ASSUME NEW s \in Sessions, NEW p \in PipeIds,
              OfferDelivered(s, p) \/ OfferDeliveryRejected(s, p)
       PROVE  DialsOK'
  <2>1. CASE UNCHANGED <<table, dials>>
    BY <1>g, <1>14, <2>1 DEF OfferDelivered, OfferDeliveryRejected
  <2>2. CASE p \in Offered /\ Remove({p}, {}) /\ Notify({p}, {<<s, p>>})
    BY <1>j, <1>14, <2>2 DEF OfferDelivered, OfferDeliveryRejected
  <2> QED BY <1>14, <2>1, <2>2 DEF OfferDelivered, OfferDeliveryRejected, ledger
<1>15. ASSUME NEW s \in Sessions, NEW p \in PipeIds,
              OfferAccepted(s, p) \/ OfferRejected(s, p) \/ MisplacedData(s, p)
       PROVE  DialsOK'
  <2>0. PipesOnly /\ p \in Active
    BY <1>15 DEF OfferAccepted, OfferRejected, MisplacedData, OnPipe
  <2>1. CASE ProtocolReset(p)
    BY <1>h, <2>0, <2>1
  <2>2. CASE p \in Offered /\ Remove({p}, {}) /\ Notify({p}, {<<s, p>>})
    BY <1>j, <2>0, <2>2
  <2>3. CASE p \in Offered /\ Promote(p) /\ TellOpened(p)
    <3>1. /\ Active' = Active /\ Attempts' = Attempts
          /\ pipes'[p] = [pipes[p] EXCEPT !.phase = "Open"]
          /\ \A q \in Active : q # p => pipes'[q] = pipes[q]
      BY <2>3, AfterPromote
    <3>2. pipes'[p].phase = "Open"
      BY <1>a, <2>0, <3>1 DEF PipeEntries
    <3>3. /\ \A q \in OwnPipeIds : q # p => /\ q \in Offered' <=> q \in Offered
                                            /\ q \in Opened' <=> q \in Opened
          /\ p \notin Offered' /\ p \in Opened'
      BY <2>0, <3>1, <3>2 DEF Offered, Opened
    <3>4. CASE pipes[p].dialer \in Sessions /\ dials' = Answered({p})
      <4>1. p \in OwnPipeIds
        BY <2>0, <3>4, OfferEnds DEF RegistryOK
      <4>2. DialOK(p) /\ dials[p] = "waiting"
        BY <2>3, <4>1 DEF DialsOK, DialOK
      <4>3. dials' = [dials EXCEPT ![p] = "answered"]
        BY <3>4, <4>1, <4>2 DEF Answered, DialsOK
      <4>4. \A q \in OwnPipeIds : BeingAuthorized(q)' <=> BeingAuthorized(q)
        BY <1>b, <1>c, <2>0
      <4>5. DialOK(p)'
        BY <1>b, <2>0, <2>3, <3>1, <3>3, <4>1, <4>2, <4>3, <4>4
           DEF DialOK, DialsOK, Offered
      <4>s. \A q \in OwnPipeIds : q # p => SameStages(q)
        BY <1>b, <2>0, <3>1, <3>3, <4>1, <4>3, <4>4, <4>5 DEF SameStages
      <4> QED BY <1>b, <2>0, <3>1, <3>3, <4>1, <4>3, <4>4, <4>5, <4>s, DialsExcept
    <3>5. CASE pipes[p].dialer \in Keys /\ dials' = dials
      <4>1. p \notin OwnPipeIds
        BY <2>0, <3>5, OfferEnds DEF RegistryOK
      <4>s. \A q \in OwnPipeIds : SameStages(q)
        BY <1>b, <1>c, <2>0, <3>1, <3>3, <3>5, <4>1 DEF SameStages
      <4> QED BY <1>b, <1>c, <2>0, <3>1, <3>3, <3>5, <4>1, <4>s, DialsUnchanged
    <3> QED BY <2>3, <3>4, <3>5 DEF TellOpened
  <2> QED BY <1>15, <2>1, <2>2, <2>3 DEF OfferAccepted, OfferRejected, MisplacedData
<1>16. ASSUME NEW e \in Endpoints, NEW p \in PipeIds, RelayFin(e, p) \/ RelayEnd(e, p)
       PROVE  DialsOK'
  <2>0. PipesOnly
    BY <1>16 DEF RelayFin, RelayEnd
  <2>1. CASE p \in Active /\ ProtocolReset(p)
    BY <1>h, <2>0, <2>1
  <2>2. ASSUME NEW told, p \in Opened, Remove({p}, {}), Notify({}, told)
        PROVE  DialsOK'
    BY <1>i, <2>0, <2>2
  <2>3. CASE Finishes(p, e) /\ UNCHANGED ledger
    <3>1. /\ Active' = Active /\ Attempts' = Attempts /\ p \in Active
          /\ pipes'[p] = [pipes[p] EXCEPT !.finished = @ \cup {e}]
          /\ \A q \in Active : q # p => pipes'[q] = pipes[q]
      BY <2>3, AfterFinish DEF Finishes, Opened
    <3>2. pipes'[p].phase = pipes[p].phase
      BY <1>a, <3>1 DEF PipeEntries
    <3>3. Offered' = Offered /\ Opened' = Opened
      BY <3>1, <3>2 DEF Offered, Opened
    <3>s. \A q \in OwnPipeIds : SameStages(q)
      BY <1>b, <1>c, <2>0, <2>3, <3>1, <3>3 DEF SameStages
    <3> QED BY <1>b, <1>c, <2>0, <2>3, <3>1, <3>3, <3>s, DialsUnchanged DEF ledger
  <2> QED BY <1>16, <2>1, <2>2, <2>3
          DEF RelayFin, RelayEnd, Finishes, Offered, Opened
<1>17. ASSUME NEW p \in OwnPipeIds, RouteResolved(p)
       PROVE  DialsOK'
  <2>0. PipesOnly
    BY <1>17 DEF RouteResolved
  <2>1. CASE UNCHANGED <<table, ledger>>
    BY <1>g, <2>0, <2>1 DEF ledger
  <2>2. ASSUME NEW s \in Sessions \ {p.session}, NEW b \in Bindings,
               Phase(p) = "Resolving",
               Exact(b, s, remote_open_attempts[p].destination),
               OfferLocal(p, b, {p})
        PROVE  DialsOK'
    <3> DEFINE entry == [dialer |-> p.session, acceptor |-> by_id[b].session,
                         binding_id |-> b, phase |-> "Offered", finished |-> {}]
    <3>1. /\ p \in Attempts /\ p.session \in sessions /\ p \in PipeIds
      BY <2>2 DEF Phase, EntriesOK, OwnPipeIds, PipeIds
    <3>2. /\ p \notin Active /\ dials[p] = "waiting" /\ ~BeingAuthorized(p)
          /\ DialOK(p)
      BY <3>1 DEF DialsOK, DialOK
    <3>3. by_id[b] # None /\ by_id[b].session # p.session
      <4>1. remote_open_attempts[p].destination \in Destinations
        BY <3>1, NoneAssumption DEF TableTypes, Attempts, RemoteOpenAttempts
      <4> QED BY <2>2, <4>1, NoneAssumption DEF Exact, Registered
    <3>4. entry \in PipeEntries /\ entry.phase = "Offered"
      BY <3>1, <3>3, LocalEntryOK
    <3>5. Insert(p, entry, {p}) /\ dials' = dials
      BY <2>2 DEF OfferLocal
    <3> HIDE DEF entry
    <3>6. /\ \A q \in PipeIds : q # p => /\ q \in Attempts' <=> q \in Attempts
                                         /\ q \in Active' <=> q \in Active
                                         /\ q \in Offered' <=> q \in Offered
                                         /\ q \in Opened' <=> q \in Opened
          /\ p \in Active' /\ p \notin Attempts' /\ p \in Offered' /\ p \notin Opened'
      BY <3>1, <3>2, <3>4, <3>5, InsertStages
    <3>7. OwnPipeIds \subseteq PipeIds /\ dials' = [dials EXCEPT ![p] = "waiting"]
      BY <3>2, <3>5 DEF OwnPipeIds, PipeIds, DialsOK
    <3>8. \A q \in OwnPipeIds : BeingAuthorized(q)' <=> BeingAuthorized(q)
      BY <1>b, <1>c, <2>0
    <3>9. DialOK(p)'
      BY <1>b, <2>0, <3>2, <3>5, <3>6, <3>8 DEF DialOK
    <3>s. \A q \in OwnPipeIds : q # p => SameStages(q)
      BY <1>b, <2>0, <3>6, <3>7, <3>8, <3>9 DEF SameStages
    <3> QED BY <1>b, <2>0, <3>6, <3>7, <3>8, <3>9, <3>s, DialsExcept
  <2>3. CASE Starts(p) /\ UNCHANGED ledger
    <3>1. Attempts' = Attempts /\ Active' = Active /\ pipes' = pipes
      BY <2>3, AfterStart DEF Starts
    <3>2. Offered' = Offered /\ Opened' = Opened
      BY <3>1 DEF Active, Offered, Opened
    <3>s. \A q \in OwnPipeIds : SameStages(q)
      BY <1>b, <1>c, <2>0, <2>3, <3>1, <3>2 DEF SameStages
    <3> QED BY <1>b, <1>c, <2>0, <2>3, <3>1, <3>2, <3>s, DialsUnchanged DEF ledger
  <2>4. CASE Phase(p) = "Resolving" /\ FailAttempts({p})
    BY <1>f, <2>0, <2>4 DEF FailAttempts, Phase
  <2> QED BY <1>17, <2>1, <2>2, <2>3, <2>4 DEF RouteResolved, Starts, Phase
<1>18. ASSUME NEW p \in OwnPipeIds, PeerOpenCommitted(p) \/ PeerOpenCommitFailed(p)
       PROVE  DialsOK'
  <2>0. PipesOnly
    BY <1>18 DEF PeerOpenCommitted, PeerOpenCommitFailed
  <2>1. CASE UNCHANGED <<table, dials>>
    BY <1>g, <2>0, <2>1
  <2>2. CASE p \in Attempts /\ FailAttempts({p})
    BY <1>f, <2>0, <2>2 DEF FailAttempts
  <2>3. ASSUME NEW k \in Keys, Commits(p, k), UNCHANGED dials
        PROVE  DialsOK'
    <3>1. Attempts' = Attempts /\ Active' = Active /\ pipes' = pipes
      BY <2>3, AfterCommit DEF Commits
    <3>2. Offered' = Offered /\ Opened' = Opened
      BY <3>1 DEF Active, Offered, Opened
    <3>s. \A q \in OwnPipeIds : SameStages(q)
      BY <1>b, <1>c, <2>0, <2>3, <3>1, <3>2 DEF SameStages
    <3> QED BY <1>b, <1>c, <2>0, <2>3, <3>1, <3>2, <3>s, DialsUnchanged
  <2> QED BY <1>18, <2>1, <2>2, <2>3
          DEF PeerOpenCommitted, PeerOpenCommitFailed, Commits, Phase
<1>19. ASSUME NEW k \in Keys, PeerOpened(k) \/ PeerOpenFailed(k)
       PROVE  DialsOK'
  <2>p. PICK p : p = streams[k].pipe
    OBVIOUS
  <2> DEFINE entry == [dialer |-> p.session, acceptor |-> k, binding_id |-> None,
                       phase |-> "Open", finished |-> {}]
  <2>0. PipesOnly
    BY <1>19 DEF PeerOpened, PeerOpenFailed
  <2>1. CASE UNCHANGED <<table, dials>>
    BY <1>g, <2>0, <2>1
  <2>2. CASE p \in Attempts /\ FailAttempts({p})
    BY <1>f, <2>0, <2>2 DEF FailAttempts
  <2>3. CASE p \in Attempts /\ Insert(p, entry, {p}) /\ dials' = Answered({p})
    <3>1. p \in OwnPipeIds /\ p.session \in sessions /\ p \in PipeIds
      BY <2>3 DEF Attempts, EntriesOK, OwnPipeIds, PipeIds
    <3>2. /\ p \notin Active /\ dials[p] = "waiting" /\ ~BeingAuthorized(p)
          /\ DialOK(p)
      BY <2>3, <3>1 DEF DialsOK, DialOK
    <3>3. entry \in PipeEntries /\ entry.phase = "Open"
      <4>1. p.session \in Sessions
        BY <3>1 DEF AdmissionOK
      <4> QED BY <4>1 DEF PipeEntries, Endpoints
    <3> HIDE DEF entry
    <3>4. /\ \A q \in PipeIds : q # p => /\ q \in Attempts' <=> q \in Attempts
                                         /\ q \in Active' <=> q \in Active
                                         /\ q \in Offered' <=> q \in Offered
                                         /\ q \in Opened' <=> q \in Opened
          /\ p \in Active' /\ p \notin Attempts' /\ p \notin Offered' /\ p \in Opened'
      BY <2>3, <3>1, <3>2, <3>3, InsertStages
    <3>5. OwnPipeIds \subseteq PipeIds /\ dials' = [dials EXCEPT ![p] = "answered"]
      BY <2>3, <3>2 DEF OwnPipeIds, PipeIds, DialsOK, Answered
    <3>6. \A q \in OwnPipeIds : BeingAuthorized(q)' <=> BeingAuthorized(q)
      BY <1>b, <1>c, <2>0
    <3>7. DialOK(p)'
      <4>1. dials'[p] = "answered" /\ ~BeingAuthorized(p)'
        BY <3>1, <3>2, <3>5, <3>6 DEF DialsOK
      <4> QED BY <1>b, <2>0, <3>1, <3>2, <3>4, <4>1 DEF DialOK
    <3>s. \A q \in OwnPipeIds : q # p => SameStages(q)
      BY <1>b, <2>0, <3>1, <3>4, <3>5, <3>6, <3>7 DEF SameStages
    <3> QED BY <1>b, <2>0, <3>1, <3>4, <3>5, <3>6, <3>7, <3>s, DialsExcept
  <2> QED BY <1>19, <2>p, <2>1, <2>2, <2>3 DEF PeerOpened, PeerOpenFailed
<1>20. ASSUME NEW k \in Keys, PeerReset(k)
       PROVE  DialsOK'
  <2> DEFINE p == streams[k].pipe
  <2>1. p \in Active /\ k \in Ends(p)
    BY <1>20 DEF PeerReset, StreamsOK, StreamsAreOwned
  <2>2. peer_pipes[k] = p
    BY <2>1 DEF StreamsOK, PeerIndexesMatchPipes, Active
  <2>3. {p} \cap Offered \cap OwnPipeIds = {} \cap OwnPipeIds
    <3>1. p \in Offered /\ p \in OwnPipeIds => k \in Sessions
      BY <2>1, OfferEnds DEF RegistryOK
    <3> QED BY <3>1, IdentityAssumption
  <2> QED BY <1>e, <1>20, <2>1, <2>2, <2>3 DEF PeerReset, Notify
<1>21. ASSUME NEW k \in Keys, NEW p \in PeerPipeIds, NEW s \in Sessions,
              NEW b \in Bindings, NEW d \in Destinations,
              ReceivePeerOpen(k, p, s, b, d)
       PROVE  DialsOK'
  <2> DEFINE entry == [dialer |-> k, acceptor |-> s, binding_id |-> b,
                       phase |-> "Offered", finished |-> {}]
  <2>0. PipesOnly /\ dials' = dials
    BY <1>21 DEF ReceivePeerOpen
  <2>1. CASE UNCHANGED table
    BY <1>g, <2>0, <2>1
  <2>2. CASE Insert(p, entry, {})
    <3>1. entry \in PipeEntries /\ p \in PipeIds /\ p \notin OwnPipeIds
      BY IdentityAssumption DEF PipeEntries, Endpoints, PipeIds, PeerPipeIds, OwnPipeIds
    <3> HIDE DEF entry
    <3>4. /\ Active' = Active \cup {p} /\ Attempts' = Attempts \ {}
          /\ \A q \in Active : q # p => pipes'[q] = pipes[q]
      BY <2>2, <3>1, AfterInsert
    <3>2. /\ Active' = Active \cup {p} /\ Attempts' = Attempts
          /\ \A q \in Active : q # p => pipes'[q] = pipes[q]
      BY <3>4
    <3>3. \A q \in OwnPipeIds : /\ q \in Active' <=> q \in Active
                                /\ q \in Offered' <=> q \in Offered
                                /\ q \in Opened' <=> q \in Opened
      BY <3>1, <3>2 DEF Offered, Opened
    <3>s. \A q \in OwnPipeIds : SameStages(q)
      BY <1>b, <1>c, <2>0, <3>2, <3>3 DEF SameStages
    <3> QED BY <1>b, <1>c, <2>0, <3>2, <3>3, <3>s, DialsUnchanged
  <2> QED BY <1>21, <2>1, <2>2 DEF ReceivePeerOpen
<1>22. ASSUME NEW K \in SUBSET Keys, TransportLost(K)
       PROVE  DialsOK'
  <2> DEFINE T == {p \in Attempts : \E k \in K :
                      streams[k] = [phase |-> "opening", pipe |-> p]}
             R == {p \in Active : Ends(p) \cap K # {}}
  <2>1. /\ Remove(R, T) /\ R \in SUBSET Active /\ T \in SUBSET Attempts
        /\ dials' = Answered(T) /\ PipesOnly
    BY <1>22 DEF TransportLost
  <2>2. R \cap Offered \cap OwnPipeIds = {}
    <3>1. ASSUME NEW p \in Offered, p \in OwnPipeIds
          PROVE  Ends(p) \subseteq Sessions
      BY <3>1, OfferEnds DEF RegistryOK, Offered
    <3> QED BY <3>1, IdentityAssumption
  <2> HIDE DEF R, T
  <2>3. (R \cap Offered \cap OwnPipeIds) \cup T = T
    BY <2>2
  <2> QED BY <1>b, <2>1, <2>3, DialsAfterRemove
<1>23. ASSUME \/ \E p \in OwnPipeIds, k \in Keys : OpenCommits(p, k)
              \/ \E p \in OwnPipeIds : CancelPeerOpen(p)
       PROVE  DialsOK'
  <2>1. PipesOnly /\ UNCHANGED <<table, dials>>
    BY <1>23 DEF OpenCommits, CancelPeerOpen
  <2> QED BY <1>g, <2>1
<1>24. ASSUME BeginDraining
       PROVE  DialsOK'
  <2>1. UNCHANGED <<sessions, highest_connection_id, authorizing, table, dials>>
    BY <1>24 DEF BeginDraining, admission, ledger
  <2>2. Active' = Active /\ Attempts' = Attempts /\ Offered' = Offered /\ Opened' = Opened
    BY <2>1 DEF table, Active, Attempts, Offered, Opened
  <2>s. \A q \in OwnPipeIds : SameStages(q)
    BY <1>c, <2>1, <2>2 DEF SameStages
  <2> QED BY <1>c, <2>1, <2>2, <2>s, DialsUnchanged
<1>25. RegistryTypes /\ EntriesOK
  BY DEF RegistryOK
<1> QED BY StepCases, <1>1, <1>2, <1>4, <1>5, <1>6, <1>9, <1>11, <1>12, <1>13,
           <1>14, <1>15, <1>16, <1>17, <1>18, <1>19, <1>20, <1>21, <1>22,
           <1>23, <1>24, <1>25, Zenon

=============================================================================
