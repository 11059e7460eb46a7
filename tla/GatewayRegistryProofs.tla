----------------------- MODULE GatewayRegistryProofs -----------------------
(* The binding registry of a Gateway. *)
EXTENDS GatewayState, FiniteSetTheorems, TLAPS

Times(q, b) == Cardinality({i \in 1 .. Len(q) : q[i] = b})

Rank(kept, i) == Cardinality({j \in kept : j <= i})

(* The positions that stay are numbered 1, 2, ... in their order. *)
LEMMA RankIsOnto ==
    ASSUME NEW m \in Nat, NEW kept \in SUBSET (1 .. m)
    PROVE  /\ IsFiniteSet(kept)
           /\ Cardinality(kept) \in Nat
           /\ \A n \in 1 .. Cardinality(kept) : \E i \in kept : Rank(kept, i) = n
           /\ \A i \in kept : Rank(kept, i) \in 1 .. Cardinality(kept)
           /\ \A i, j \in kept : Rank(kept, i) = Rank(kept, j) => i = j
<1> DEFINE Below(i) == {j \in kept : j <= i}
           rank == [i \in kept |-> Cardinality(Below(i))]
           size == Cardinality(kept)
<1>0. IsFiniteSet(1 .. m)
  BY FS_Interval
<1>1. IsFiniteSet(kept) /\ size \in Nat
  BY <1>0, FS_Subset, FS_CardinalityType
<1>2. \A i \in kept : IsFiniteSet(Below(i)) /\ Cardinality(Below(i)) \in Nat
  BY <1>1, FS_Subset, FS_CardinalityType
<1>3. \A i \in kept : Cardinality(Below(i)) \in 1 .. size
  <2> TAKE i \in kept
  <2>1. i \in Below(i) /\ Below(i) \subseteq kept
    OBVIOUS
  <2>2. Cardinality(Below(i)) <= size
    BY <1>1, <2>1, FS_Subset
  <2>3. Cardinality(Below(i)) # 0
    BY <1>2, <2>1, FS_EmptySet
  <2> QED BY <1>1, <1>2, <2>2, <2>3
<1>4. \A i, j \in kept : Cardinality(Below(i)) = Cardinality(Below(j)) => i = j
  <2>1. ASSUME NEW i \in kept, NEW j \in kept, i < j,
               Cardinality(Below(i)) = Cardinality(Below(j))
        PROVE  FALSE
    <3>1. Below(i) \subseteq Below(j)
      <4>1. ASSUME NEW x \in kept, x <= i
            PROVE  x <= j
        <5>1. x \in Int /\ i \in Int /\ j \in Int
          OBVIOUS
        <5> QED BY <2>1, <4>1, <5>1
      <4> QED BY <4>1
    <3>2. Below(i) = Below(j)
      BY <1>2, <2>1, <3>1, FS_Subset
    <3>3. j \in Below(j) /\ j \notin Below(i)
      BY <2>1
    <3> QED BY <3>2, <3>3
  <2> QED BY <2>1
<1>5. rank \in Injection(kept, 1 .. size)
  BY <1>3, <1>4 DEF Injection, IsInjective
<1>6. rank \in Surjection(kept, 1 .. size)
  <2>1. IsFiniteSet(1 .. size) /\ Cardinality(1 .. size) = size
    BY <1>1, FS_Interval
  <2> QED BY <1>1, <1>5, <2>1, FS_Injection
<1>7. \A n \in 1 .. size : \E i \in kept : rank[i] = n
  BY <1>6 DEF Surjection
<1> QED BY <1>1, <1>3, <1>4, <1>7 DEF Rank

(* Retain keeps exactly the elements of S, each as often as it occurred. *)
LEMMA RetainKeeps ==
    ASSUME NEW X, NEW q \in Seq(X), NEW S
    PROVE  /\ Retain(q, S) \in Seq(X \cap S)
           /\ \A b \in S : Times(Retain(q, S), b) = Times(q, b)
<1> DEFINE kept == {i \in 1 .. Len(q) : q[i] \in S}
           at(n) == CHOOSE i \in kept : Cardinality({j \in kept : j <= i}) = n
           r == Retain(q, S)
           size == Cardinality(kept)
<1>1. kept \in SUBSET (1 .. Len(q)) /\ Len(q) \in Nat
  OBVIOUS
<1>2. /\ IsFiniteSet(kept)
      /\ size \in Nat
      /\ \A n \in 1 .. size : \E i \in kept : Rank(kept, i) = n
      /\ \A i \in kept : Rank(kept, i) \in 1 .. size
      /\ \A i, j \in kept : Rank(kept, i) = Rank(kept, j) => i = j
  BY <1>1, RankIsOnto
<1>3. \A n \in 1 .. size : at(n) \in kept /\ Rank(kept, at(n)) = n
  BY <1>2 DEF Rank
<1>4. r = [n \in 1 .. size |-> q[at(n)]]
  BY DEF Retain
<1> HIDE DEF r, at
<1>5. \A n \in 1 .. size : r[n] \in X \cap S
  BY <1>3, <1>4
<1>6. r \in Seq(X \cap S) /\ Len(r) = size
  <2>1. r \in [1 .. size -> X \cap S]
    BY <1>4, <1>5
  <2> QED BY <1>2, <2>1
<1>7. ASSUME NEW b \in S
      PROVE  Times(r, b) = Times(q, b)
  <2> DEFINE New == {i \in 1 .. size : r[i] = b}
             Old == {i \in 1 .. Len(q) : q[i] = b}
             f == [n \in New |-> at(n)]
  <2>1. f \in [New -> Old]
    BY <1>3, <1>4
  <2>2. \A m, n \in New : f[m] = f[n] => m = n
    BY <1>3
  <2>3. \A i \in Old : \E n \in New : f[n] = i
    <3> TAKE i \in Old
    <3>1. i \in kept
      BY <1>7
    <3>2. PICK n \in 1 .. size : n = Rank(kept, i)
      BY <1>2, <3>1
    <3>3. at(n) = i
      BY <1>2, <1>3, <3>1, <3>2
    <3> QED BY <1>4, <3>2, <3>3
  <2>4. f \in Bijection(New, Old)
    BY <2>1, <2>2, <2>3 DEF Bijection, Injection, Surjection, IsInjective
  <2>5. IsFiniteSet(New)
    <3>1. IsFiniteSet(1 .. size)
      BY <1>2, FS_Interval
    <3> QED BY <3>1, FS_Subset
  <2>6. Cardinality(Old) = Cardinality(New)
    BY <2>4, <2>5, FS_Bijection DEF ExistsBijection
  <2> QED BY <1>6, <2>6 DEF Times
<1> QED BY <1>6, <1>7 DEF r

-----------------------------------------------------------------------------
(***************************************************************************)
(* The inductive invariant, by the part of the state it is about.          *)
(***************************************************************************)

(* Sessions end once, and only a live one has an operation in progress. *)
AdmissionOK ==
    /\ sessions \subseteq Sessions
    /\ ended \subseteq Sessions \ sessions
    /\ highest_connection_id \in [Sessions -> ConnIds \cup {0}]
    /\ authorizing \in [Sessions -> Operations \cup {None}]
    /\ draining \in BOOLEAN
    /\ \A s \in Sessions : authorizing[s] # None => s \in sessions

RegistryTypes ==
    /\ by_id \in [Bindings -> Registered \cup {None}]
    /\ by_destination \in [Destinations -> Seq(Bindings)]
    /\ by_session \in [Sessions -> SUBSET Bindings]
    /\ next_selection \in [Destinations -> 0 .. CursorWrap - 1]
    /\ published \in [Sessions -> SUBSET Bindings]

(* A binding is in the set of its session, and there only. *)
SessionIndexOK ==
    \A b \in Bindings, s \in Sessions :
        b \in by_session[s] <=> by_id[b] # None /\ by_id[b].session = s

(* A binding is once in the list of its Destination, and in no other. *)
DestinationIndexOK ==
    \A b \in Bindings, d \in Destinations :
        Times(by_destination[d], b) =
            IF by_id[b] # None /\ by_id[b].destination = d THEN 1 ELSE 0

OneBindingEach ==
    \A b, c \in Bindings : by_id[b] # None /\ by_id[b] = by_id[c] => b = c

(* What registry.rs keeps, and what routing was told of it. *)
RegistryOK ==
    /\ RegistryTypes
    /\ SessionIndexOK /\ DestinationIndexOK /\ OneBindingEach
    /\ \A b \in Bindings : by_id[b] # None => by_id[b].session \in sessions
    /\ PublicationMatchesRegistry

(* An attempt has a key from the commit of its OPEN on. *)
TableTypes ==
    /\ pipes \in [PipeIds -> PipeEntries \cup {None}]
    /\ peer_pipes \in [Keys -> PipeIds \cup {None}]
    /\ active_peer_opens \in [PipeIds -> Keys \cup {None}]
    /\ remote_open_attempts \in [OwnPipeIds -> RemoteOpenAttempts \cup {None}]
    /\ \A p \in Attempts : remote_open_attempts[p].key \in Keys <=>
                              remote_open_attempts[p].phase = "AwaitingPeer"

(* Who the ends of a Pipe can be: a Pipe of our own is dialed by its        *)
(* session, a peer's by a stream and accepted by a session, and an OFFER   *)
(* is pending at the session that holds its binding.                       *)
EntryOK(p, entry) ==
    /\ p \in OwnPipeIds => entry.dialer = p.session
    /\ p \notin OwnPipeIds => entry.dialer \in Keys /\ entry.acceptor \in Sessions
    /\ entry.phase = "Offered" => /\ entry.binding_id \in Bindings
                                  /\ by_id[entry.binding_id] # None
                                  /\ by_id[entry.binding_id].session = entry.acceptor
    /\ {entry.dialer, entry.acceptor} \cap Sessions \subseteq sessions
    /\ entry.dialer # entry.acceptor

EntriesOK ==
    /\ \A p \in Active : EntryOK(p, pipes[p])
    /\ \A p \in Attempts : p.session \in sessions

(* A session is told of an OFFER made to it and of a DIAL that was opened. *)
Knows(s, p) ==
    /\ p \in Active
    /\ \/ pipes[p].acceptor = s
       \/ pipes[p].phase = "Open" /\ pipes[p].dialer = s

HeldOK ==
    /\ held \subseteq Sessions \X PipeIds
    /\ \A s \in Sessions, p \in PipeIds : <<s, p>> \in held <=> Knows(s, p)

(* A DIAL that waits is in one stage, and one that was never made, or was   *)
(* answered, in none.                                                      *)
DialOK(p) ==
    /\ dials[p] \in {"unused", "waiting", "answered"}
    /\ dials[p] # "unused" =>
          p.session \in sessions /\ p.conn <= highest_connection_id[p.session]
    /\ dials[p] = "waiting" <=>
          BeingAuthorized(p) \/ p \in Attempts \/ p \in Offered
    /\ ~(BeingAuthorized(p) /\ p \in Attempts)
    /\ ~(BeingAuthorized(p) /\ p \in Active)
    /\ ~(p \in Attempts /\ p \in Active)
    /\ p \in Opened => dials[p] = "answered"

DialsOK ==
    /\ dials \in [OwnPipeIds -> {"unused", "waiting", "answered"}]
    /\ \A p \in OwnPipeIds : DialOK(p)

EffectTypes ==
    /\ resolving \subseteq OwnPipeIds
    /\ opening \in [OwnPipeIds -> Keys \cup {"requested", None}]
    /\ cancelling \subseteq OwnPipeIds
    /\ undelivered \subseteq Sessions \X PipeIds
    /\ streams \in [Keys -> [phase : StreamPhases, pipe : PipeIds \cup {None}]]
    /\ \A k \in Keys :
          /\ streams[k].phase = "unused" => streams[k].pipe = None
          /\ streams[k].phase \in {"opening", "cancelled"} =>
                streams[k].pipe \in OwnPipeIds

NoStream(p) == \A k \in Keys : streams[k].pipe # p

(* A DIAL whose remote OPEN can still begin. *)
Fresh(p) ==
    p.session \notin ended /\ (dials[p] = "unused" \/ BeingAuthorized(p))

(* The effects of an OPEN of our own follow each other, on one stream. *)
EffectsOK ==
    /\ \A p \in OwnPipeIds :
          /\ Fresh(p) => /\ p \notin resolving
                         /\ opening[p] = None
                         /\ p \notin cancelling
                         /\ NoStream(p)
          /\ p \in resolving => opening[p] = None /\ NoStream(p)
          /\ opening[p] = "requested" => NoStream(p)
          /\ opening[p] \in Keys => streams[opening[p]].pipe = p
    /\ \A j, k \in Keys :
          streams[j].pipe \in OwnPipeIds /\ streams[j].pipe = streams[k].pipe
            => j = k

(* An attempt is settled by the effect or the stream of its phase. *)
AttemptOK(p) ==
    /\ p \notin cancelling
    /\ Phase(p) = "Resolving" => p \in resolving
    /\ Phase(p) = "StartingPeer" => opening[p] # None
    /\ Phase(p) = "AwaitingPeer" => streams[remote_open_attempts[p].key].pipe = p
    /\ \A k \in Keys : streams[k].pipe = p => streams[k].phase = "opening"

AttemptsOK == \A p \in Attempts : AttemptOK(p)

(* The stream behind the peer end of a Pipe is in use by that Pipe. *)
KeyEndsOK ==
    \A p \in Active, k \in Keys :
        k \in Ends(p) => /\ streams[k].phase \in {"incoming", "open"}
                         /\ streams[k].pipe = p

StreamsOK ==
    EffectsOK /\ AttemptsOK /\ KeyEndsOK /\ StreamsAreOwned
    /\ PeerIndexesMatchPipes

Bound == {b \in Bindings : by_id[b] # None}

(* Counters and limits, of finite sets. *)
CountsOK ==
    /\ IsFiniteSet(sessions) /\ IsFiniteSet(Bound)
    /\ IsFiniteSet(Active) /\ IsFiniteSet(Attempts)
    /\ CountersMatchPipes
    /\ LimitsHold

IInv ==
    /\ AdmissionOK /\ RegistryOK /\ TableTypes /\ EntriesOK
    /\ HeldOK /\ DialsOK /\ EffectTypes /\ StreamsOK /\ CountsOK


-----------------------------------------------------------------------------
(***************************************************************************)
(* Every step is a step of one action.                                     *)
(***************************************************************************)
LEMMA StepCases ==
    ASSUME RegistryTypes, EntriesOK, Next
    PROVE  \/ \E s \in Sessions : AddSession(s)
           \/ \E S \in SUBSET sessions : RemoveSessions(S)
           \/ \E s \in Sessions, d \in Destinations : PreparePublish(s, d)
           \/ \E s \in Sessions, c \in ConnIds, d \in Destinations :
                 PrepareDial(s, c, d)
           \/ \E s \in Sessions : AuthorizationFailed(s)
           \/ \E s \in Sessions : Publish(s)
           \/ \E s \in Sessions : Dial(s)
           \/ \E s \in Sessions, b \in Bindings : Unpublish(s, b)
           \/ \E s \in Sessions, p \in PipeIds : Cancel(s, p)
           \/ \E s \in Sessions, p \in PipeIds : OfferDelivered(s, p)
           \/ \E s \in Sessions, p \in PipeIds : OfferDeliveryRejected(s, p)
           \/ \E s \in Sessions, p \in PipeIds : OfferAccepted(s, p)
           \/ \E s \in Sessions, p \in PipeIds : OfferRejected(s, p)
           \/ \E s \in Sessions, p \in PipeIds : MisplacedData(s, p)
           \/ \E e \in Endpoints, p \in PipeIds : RelayFin(e, p)
           \/ \E e \in Endpoints, p \in PipeIds : RelayEnd(e, p)
           \/ \E p \in OwnPipeIds : RouteResolved(p)
           \/ \E p \in OwnPipeIds, k \in Keys : OpenCommits(p, k)
           \/ \E p \in OwnPipeIds : PeerOpenCommitted(p)
           \/ \E p \in OwnPipeIds : PeerOpenCommitFailed(p)
           \/ \E p \in OwnPipeIds : CancelPeerOpen(p)
           \/ \E k \in Keys : PeerOpened(k)
           \/ \E k \in Keys : PeerOpenFailed(k)
           \/ \E k \in Keys : PeerReset(k)
           \/ \E k \in Keys, p \in PeerPipeIds, s \in Sessions, b \in Bindings,
                 d \in Destinations : ReceivePeerOpen(k, p, s, b, d)
           \/ \E K \in SUBSET Keys : TransportLost(K)
           \/ BeginDraining
<1>1. ASSUME NEW X \in SUBSET Offered, ExpireOffers(X)
      PROVE  \E S \in SUBSET sessions : RemoveSessions(S)
  <2>1. ASSUME NEW p \in X
        PROVE  pipes[p].acceptor \in sessions
    <3>1. /\ p \in Active /\ pipes[p].phase = "Offered"
          /\ EntryOK(p, pipes[p])
      BY <2>1 DEF Offered, EntriesOK
    <3> QED BY <3>1, NoneAssumption
            DEF EntryOK, Ends, RegistryTypes, Registered
  <2> QED BY <1>1, <2>1 DEF ExpireOffers
<1>2. ASSUME NEW s \in Sessions, RemoveSession(s)
      PROVE  \E S \in SUBSET sessions : RemoveSessions(S)
  BY <1>2 DEF RemoveSession
<1> QED BY <1>1, <1>2, Zenon DEF Next, SessionNext, PipeNext, OpenNext, StreamNext

-----------------------------------------------------------------------------
(***************************************************************************)
(* Lists of bindings.                                                      *)
(***************************************************************************)

(* A binding that is appended is there once more. *)
LEMMA TimesOfAppend ==
    ASSUME NEW q \in Seq(Bindings), NEW b \in Bindings, NEW c \in Bindings
    PROVE  Times(Append(q, b), c) = Times(q, c) + (IF b = c THEN 1 ELSE 0)
<1> DEFINE old == {i \in 1 .. Len(q) : q[i] = c}
           new == {i \in 1 .. Len(Append(q, b)) : Append(q, b)[i] = c}
           n == Len(q) + 1
<1>0. Times(q, c) = Cardinality(old) /\ Times(Append(q, b), c) = Cardinality(new)
  BY DEF Times
<1>1. /\ Len(Append(q, b)) = n /\ Append(q, b)[n] = b /\ n \in Nat
      /\ \A i \in 1 .. Len(q) : Append(q, b)[i] = q[i]
  OBVIOUS
<1>2. IsFiniteSet(old) /\ n \notin old /\ Cardinality(old) \in Nat
  <2>1. IsFiniteSet(1 .. Len(q))
    BY FS_Interval
  <2> QED BY <2>1, FS_Subset, FS_CardinalityType
<1>3. CASE b = c
  <2>1. new = old \cup {n}
    BY <1>1, <1>3
  <2>2. Cardinality(new) = Cardinality(old) + 1
    BY <1>2, <2>1, FS_AddElement
  <2> HIDE DEF old, new
  <2> QED BY <1>0, <1>3, <2>2
<1>4. CASE b # c
  <2>1. new = old
    BY <1>1, <1>4
  <2>2. Cardinality(new) = Cardinality(old)
    BY <2>1, Zenon
  <2> HIDE DEF old, new
  <2> QED BY <1>0, <1>2, <1>4, <2>2
<1> QED BY <1>3, <1>4

(* A binding is in a list exactly if it is there at least once. *)
LEMMA TimesIsPositive ==
    ASSUME NEW q \in Seq(Bindings), NEW b
    PROVE  /\ Times(q, b) \in Nat
           /\ Times(q, b) = 0 <=> \A i \in 1 .. Len(q) : q[i] # b
<1> DEFINE at == {i \in 1 .. Len(q) : q[i] = b}
<1>1. IsFiniteSet(at)
  <2>1. IsFiniteSet(1 .. Len(q))
    BY FS_Interval
  <2> QED BY <2>1, FS_Subset
<1>2. Times(q, b) = Cardinality(at)
  BY DEF Times
<1>3. Cardinality(at) \in Nat /\ (Cardinality(at) = 0 <=> at = {})
  BY <1>1, FS_CardinalityType, FS_EmptySet
<1>4. at = {} <=> \A i \in 1 .. Len(q) : q[i] # b
  OBVIOUS
<1> QED BY <1>2, <1>3, <1>4

(* Vec::retain drops what is not in S and leaves the rest as it was. *)
LEMMA TimesOfRetain ==
    ASSUME NEW q \in Seq(Bindings), NEW S, NEW b
    PROVE  /\ Retain(q, S) \in Seq(Bindings)
           /\ Times(Retain(q, S), b) = IF b \in S THEN Times(q, b) ELSE 0
<1>1. Retain(q, S) \in Seq(Bindings \cap S)
  BY RetainKeeps
<1>2. Retain(q, S) \in Seq(Bindings)
  BY <1>1
<1>3. CASE b \in S
  <2>1. Times(Retain(q, S), b) = Times(q, b)
    BY <1>3, RetainKeeps
  <2> QED BY <1>2, <1>3, <2>1
<1>4. CASE b \notin S
  <2>1. \A i \in 1 .. Len(Retain(q, S)) : Retain(q, S)[i] # b
    BY <1>1, <1>4
  <2> QED BY <1>2, <1>4, <2>1, TimesIsPositive
<1> QED BY <1>2, <1>3, <1>4

(* select_excluding returns a registered binding of another session. *)
LEMMA SelectedIsBound ==
    ASSUME RegistryTypes, NEW d \in Destinations, NEW s, Eligible(d, s) # <<>>
    PROVE  LET b == Selected(d, s) IN
           b \in Bindings /\ by_id[b] # None /\ by_id[b].session # s
<1> DEFINE S == {b \in Bindings : by_id[b] # None /\ by_id[b].session # s}
           e == Eligible(d, s)
<1>1. e \in Seq(Bindings \cap S) /\ e # <<>>
  BY RetainKeeps DEF RegistryTypes, Eligible
<1>2. Len(e) \in Nat \ {0}
  BY <1>1
<1>3. next_selection[d] \in Nat
  BY LimitsAssumption DEF RegistryTypes
<1>4. (next_selection[d] % Len(e)) + 1 \in 1 .. Len(e)
  <2> HIDE DEF e
  <2> QED BY <1>2, <1>3
<1>5. Selected(d, s) \in Bindings \cap S
  <2> HIDE DEF e, S
  <2> QED BY <1>1, <1>4 DEF e, Selected
<1> QED BY <1>5

-----------------------------------------------------------------------------
(***************************************************************************)
(* Admission and the registry.                                             *)
(***************************************************************************)

(* Frames, effects and events on Pipes leave sessions, registry and routing *)
(* alone.                                                                  *)
LEMMA AdmissionCases ==
    ASSUME RegistryTypes, EntriesOK, Next
    PROVE  \/ \E s \in Sessions : AddSession(s)
           \/ \E S \in SUBSET sessions : RemoveSessions(S)
           \/ \E s \in Sessions, d \in Destinations : PreparePublish(s, d)
           \/ \E s \in Sessions, c \in ConnIds, d \in Destinations :
                 PrepareDial(s, c, d)
           \/ \E s \in Sessions : AuthorizationFailed(s)
           \/ \E s \in Sessions : Publish(s)
           \/ \E s \in Sessions : Dial(s)
           \/ \E s \in Sessions, b \in Bindings : Unpublish(s, b)
           \/ BeginDraining
           \/ PipesOnly
<1>1. \A s, p : \/ Cancel(s, p) \/ OfferDelivered(s, p)
                \/ OfferDeliveryRejected(s, p) \/ OfferAccepted(s, p)
                \/ OfferRejected(s, p) \/ MisplacedData(s, p)
                \/ RelayFin(s, p) \/ RelayEnd(s, p) \/ OpenCommits(p, s)
                => PipesOnly
  BY DEF Cancel, OfferDelivered, OfferDeliveryRejected, OfferAccepted,
         OfferRejected, MisplacedData, RelayFin, RelayEnd, OpenCommits
<1>2. \A p : RouteResolved(p) => PipesOnly
  BY DEF RouteResolved
<1>3. \A p : PeerOpenCommitted(p) => PipesOnly
  BY DEF PeerOpenCommitted
<1>4. \A p : PeerOpenCommitFailed(p) => PipesOnly
  BY DEF PeerOpenCommitFailed
<1>5. \A p : CancelPeerOpen(p) => PipesOnly
  BY DEF CancelPeerOpen
<1>6. \A p : PeerOpened(p) => PipesOnly
  BY DEF PeerOpened
<1>7. \A p : PeerOpenFailed(p) => PipesOnly
  BY DEF PeerOpenFailed
<1>8. \A p : PeerReset(p) => PipesOnly
  BY DEF PeerReset
<1>9. \A p : TransportLost(p) => PipesOnly
  BY DEF TransportLost
<1>10. \A k, p, s, b, d : ReceivePeerOpen(k, p, s, b, d) => PipesOnly
  BY DEF ReceivePeerOpen
<1> QED BY StepCases, <1>1, <1>2, <1>3, <1>4, <1>5, <1>6, <1>7, <1>8, <1>9, <1>10,
           Zenon

(* Sessions end once, whatever happens to their Pipes. *)
LEMMA AdmissionStep ==
    ASSUME AdmissionOK, RegistryTypes, EntriesOK, Next
    PROVE  AdmissionOK'
<1>1. ASSUME NEW s \in Sessions, AddSession(s)
      PROVE  AdmissionOK'
  BY <1>1 DEF AdmissionOK, AddSession
<1>2. ASSUME NEW S \in SUBSET sessions, RemoveSessions(S)
      PROVE  AdmissionOK'
  BY <1>2 DEF AdmissionOK, RemoveSessions
<1>3. ASSUME NEW s \in Sessions, NEW d \in Destinations, PreparePublish(s, d)
      PROVE  AdmissionOK'
  BY <1>3 DEF AdmissionOK, PreparePublish, Ready, Operations
<1>4. ASSUME NEW s \in Sessions, NEW c \in ConnIds, NEW d \in Destinations,
             PrepareDial(s, c, d)
      PROVE  AdmissionOK'
  BY <1>4 DEF AdmissionOK, PrepareDial, Ready, Operations
<1>5. ASSUME NEW s \in Sessions,
             AuthorizationFailed(s) \/ Publish(s) \/ Dial(s)
      PROVE  AdmissionOK'
  <2>1. /\ authorizing' = [authorizing EXCEPT ![s] = None]
        /\ UNCHANGED <<sessions, ended, highest_connection_id, draining>>
    BY <1>5 DEF AuthorizationFailed, Publish, Dial
  <2> QED BY <2>1 DEF AdmissionOK
<1>6. ASSUME \/ BeginDraining
             \/ UNCHANGED <<admission, draining>>
      PROVE  AdmissionOK'
  BY <1>6 DEF AdmissionOK, BeginDraining, admission
<1>7. ASSUME NEW s \in Sessions, NEW b \in Bindings, Unpublish(s, b)
      PROVE  UNCHANGED <<admission, draining>>
  BY <1>7 DEF Unpublish
<1>8. PipesOnly => UNCHANGED <<admission, draining>>
  BY DEF PipesOnly
<1> QED BY AdmissionCases, <1>1, <1>2, <1>3, <1>4, <1>5, <1>6, <1>7, <1>8, Zenon

(* Removing bindings keeps the three indexes together. *)
LEMMA DropBindings ==
    ASSUME RegistryOK, NEW B \in SUBSET Bindings, RemoveBindings(B)
    PROVE  /\ by_id' \in [Bindings -> Registered \cup {None}]
           /\ by_destination' \in [Destinations -> Seq(Bindings)]
           /\ by_session' \in [Sessions -> SUBSET Bindings]
           /\ next_selection' \in [Destinations -> 0 .. CursorWrap - 1]
           /\ SessionIndexOK' /\ DestinationIndexOK' /\ OneBindingEach'
<1>1. \A d \in Destinations, b \in Bindings :
          /\ by_destination'[d] \in Seq(Bindings)
          /\ Times(by_destination'[d], b) =
                IF b \in B THEN 0 ELSE Times(by_destination[d], b)
  <2> TAKE d \in Destinations, b \in Bindings
  <2>1. by_destination[d] \in Seq(Bindings)
    BY DEF RegistryOK, RegistryTypes
  <2> DEFINE S == Bindings \ B
  <2>2. by_destination'[d] = Retain(by_destination[d], S) /\ (b \in S <=> b \notin B)
    BY DEF RemoveBindings
  <2> HIDE DEF S
  <2>3. /\ Retain(by_destination[d], S) \in Seq(Bindings)
        /\ Times(Retain(by_destination[d], S), b) =
              IF b \in S THEN Times(by_destination[d], b) ELSE 0
    BY <2>1, TimesOfRetain
  <2> QED BY <2>2, <2>3
<1>2. by_destination' \in [Destinations -> Seq(Bindings)]
  <2>1. \A d \in Destinations : by_destination'[d] \in Seq(Bindings)
    <3> TAKE d \in Destinations
    <3>1. by_destination[d] \in Seq(Bindings)
      BY DEF RegistryOK, RegistryTypes
    <3>2. by_destination'[d] = Retain(by_destination[d], Bindings \ B)
      BY DEF RemoveBindings
    <3>3. Retain(by_destination[d], Bindings \ B) \in Seq(Bindings)
      BY <3>1, TimesOfRetain
    <3> QED BY <3>2, <3>3
  <2> QED BY <2>1 DEF RemoveBindings
<1>3. by_id' \in [Bindings -> Registered \cup {None}]
  BY DEF RegistryOK, RegistryTypes, RemoveBindings
<1>4. by_session' \in [Sessions -> SUBSET Bindings]
  BY DEF RegistryOK, RegistryTypes, RemoveBindings
<1>5. next_selection' \in [Destinations -> 0 .. CursorWrap - 1]
  BY LimitsAssumption DEF RegistryOK, RegistryTypes, RemoveBindings
<1>6. SessionIndexOK'
  BY DEF RegistryOK, RegistryTypes, RemoveBindings, SessionIndexOK
<1>7. DestinationIndexOK'
  <2>1. \A b \in Bindings : by_id'[b] = IF b \in B THEN None ELSE by_id[b]
    BY DEF RemoveBindings
  <2> QED BY <1>1, <2>1 DEF RegistryOK, DestinationIndexOK
<1>8. OneBindingEach'
  BY DEF RegistryOK, RemoveBindings, OneBindingEach
<1> QED BY <1>2, <1>3, <1>4, <1>5, <1>6, <1>7, <1>8

(* register_unique adds a binding its session does not have yet. *)
LEMMA AddBinding ==
    ASSUME RegistryOK, NEW b \in Bindings, NEW s \in Sessions,
           NEW d \in Destinations, BindingsOf(s, d) = {}, RegisterBinding(b, s, d)
    PROVE  /\ by_id' \in [Bindings -> Registered \cup {None}]
           /\ by_destination' \in [Destinations -> Seq(Bindings)]
           /\ by_session' \in [Sessions -> SUBSET Bindings]
           /\ next_selection' \in [Destinations -> 0 .. CursorWrap - 1]
           /\ SessionIndexOK' /\ DestinationIndexOK' /\ OneBindingEach'
<1> DEFINE entry == [session |-> s, destination |-> d]
<1>0. /\ entry \in Registered /\ entry # None
      /\ entry.session = s /\ entry.destination = d
  BY NoneAssumption DEF Registered
<1> HIDE DEF entry
<1>1. /\ by_id[b] = None
      /\ by_id' = [by_id EXCEPT ![b] = entry]
      /\ by_destination' = [by_destination EXCEPT ![d] = Append(@, b)]
      /\ by_session' = [by_session EXCEPT ![s] = @ \cup {b}]
      /\ next_selection' = next_selection
  BY DEF RegisterBinding, entry
<1>2. by_id' \in [Bindings -> Registered \cup {None}]
  BY <1>0, <1>1 DEF RegistryOK, RegistryTypes
<1>3. by_destination' \in [Destinations -> Seq(Bindings)]
  BY <1>1 DEF RegistryOK, RegistryTypes
<1>4. /\ by_session' \in [Sessions -> SUBSET Bindings]
      /\ next_selection' \in [Destinations -> 0 .. CursorWrap - 1]
  BY <1>1 DEF RegistryOK, RegistryTypes
<1>5. SessionIndexOK'
  BY <1>0, <1>1 DEF RegistryOK, RegistryTypes, SessionIndexOK
<1>6. DestinationIndexOK'
  <2>1. SUFFICES ASSUME NEW c \in Bindings, NEW e \in Destinations
                 PROVE  Times(by_destination'[e], c) =
                          IF by_id'[c] # None /\ by_id'[c].destination = e
                          THEN 1 ELSE 0
    BY DEF DestinationIndexOK
  <2>2. /\ by_destination[e] \in Seq(Bindings)
        /\ Times(by_destination[e], c) =
              IF by_id[c] # None /\ by_id[c].destination = e THEN 1 ELSE 0
    BY DEF RegistryOK, RegistryTypes, DestinationIndexOK
  <2>3. by_destination'[e] = IF e = d THEN Append(by_destination[e], b)
                             ELSE by_destination[e]
    BY <1>1 DEF RegistryOK, RegistryTypes
  <2>4. by_id'[c] = IF c = b THEN entry ELSE by_id[c]
    BY <1>1 DEF RegistryOK, RegistryTypes
  <2>5. e = d => Times(by_destination'[e], c) =
                   Times(by_destination[e], c) + (IF b = c THEN 1 ELSE 0)
    BY <2>2, <2>3, TimesOfAppend
  <2>6. CASE e = d /\ c = b
    BY <1>0, <1>1, <2>2, <2>4, <2>5, <2>6
  <2>7. CASE e = d /\ c # b
    BY <2>2, <2>4, <2>5, <2>7
  <2>8. CASE e # d
    BY <1>0, <1>1, <2>2, <2>3, <2>4, <2>8
  <2> QED BY <2>6, <2>7, <2>8
<1>7. OneBindingEach'
  <2>1. \A c \in Bindings : by_id[c] # entry
    BY <1>0 DEF RegistryOK, SessionIndexOK, BindingsOf
  <2> QED BY <1>0, <1>1, <2>1 DEF RegistryOK, RegistryTypes, OneBindingEach
<1> QED BY <1>2, <1>3, <1>4, <1>5, <1>6, <1>7

(* Every handler that changes a session's bindings publishes them. *)
LEMMA RegistryStep ==
    ASSUME AdmissionOK, RegistryOK, EntriesOK, Next
    PROVE  RegistryOK'
<1>0. RegistryTypes
  BY DEF RegistryOK
<1>1. ASSUME NEW s \in Sessions, AddSession(s)
      PROVE  RegistryOK'
  BY <1>1 DEF AddSession, registry, RegistryOK, RegistryTypes, SessionIndexOK,
              DestinationIndexOK, OneBindingEach, PublicationMatchesRegistry
<1>2. ASSUME NEW S \in SUBSET sessions, RemoveSessions(S)
      PROVE  RegistryOK'
  <2> DEFINE B == UNION {by_session[s] : s \in S}
  <2>1. /\ RemoveBindings(B) /\ sessions' = sessions \ S
        /\ PublishRegistration({s \in S : by_session[s] # {}})
        /\ draining' = draining
    BY <1>2 DEF RemoveSessions
  <2>2. B \in SUBSET Bindings
    BY DEF AdmissionOK, RegistryOK, RegistryTypes
  <2>3. \A b \in Bindings : b \in B <=> by_id[b] # None /\ by_id[b].session \in S
    BY DEF AdmissionOK, RegistryOK, SessionIndexOK
  <2> HIDE DEF B
  <2>4. \A s \in Sessions : by_session'[s] = IF s \in S THEN {} ELSE by_session[s]
    <3>1. \A s \in Sessions : by_session'[s] = by_session[s] \ B
      BY <2>1 DEF RemoveBindings
    <3>2. \A s \in Sessions : \A b \in by_session[s] : b \in B <=> s \in S
      BY <2>3 DEF RegistryOK, RegistryTypes, SessionIndexOK
    <3> QED BY <3>1, <3>2
  <2>5. PublicationMatchesRegistry' /\ published' \in [Sessions -> SUBSET Bindings]
    <3>1. published' = [s \in Sessions |->
             IF s \in S /\ by_session[s] # {} /\ Distributed
             THEN IF draining THEN {} ELSE by_session'[s] ELSE published[s]]
      BY <2>1 DEF PublishRegistration, Snapshot
    <3> QED BY <2>1, <2>4, <3>1
            DEF RegistryOK, RegistryTypes, PublicationMatchesRegistry
  <2>6. \A b \in Bindings : by_id'[b] # None => by_id'[b].session \in sessions'
    BY <2>1, <2>3 DEF RegistryOK, RemoveBindings
  <2> QED BY <2>1, <2>2, <2>5, <2>6, DropBindings DEF RegistryOK, RegistryTypes
<1>3. ASSUME UNCHANGED <<sessions, registry, draining, published>>
      PROVE  RegistryOK'
  BY <1>3 DEF registry, RegistryOK, RegistryTypes, SessionIndexOK,
              DestinationIndexOK, OneBindingEach, PublicationMatchesRegistry
<1>4. ASSUME NEW s \in Sessions, Publish(s)
      PROVE  RegistryOK'
  <2> DEFINE d == authorizing[s].destination
  <2>1. CASE UNCHANGED <<registry, published>>
    BY <1>3, <1>4, <2>1 DEF Publish
  <2>2. ASSUME NEW b \in Bindings, RegisterBinding(b, s, d), ~draining,
               BindingsOf(s, d) = {}, PublishRegistration({s})
        PROVE  RegistryOK'
    <3>1. d \in Destinations /\ s \in sessions
      BY <1>4, NoneAssumption DEF AdmissionOK, Publish, Authorizing, Operations
    <3>2. sessions' = sessions /\ draining' = draining /\ ~draining
      BY <1>4, <2>2 DEF Publish
    <3>3. by_session' = [by_session EXCEPT ![s] = @ \cup {b}]
      BY <2>2 DEF RegisterBinding
    <3>4. PublicationMatchesRegistry' /\ published' \in [Sessions -> SUBSET Bindings]
      BY <2>2, <3>2, <3>3 DEF RegistryOK, RegistryTypes, PublishRegistration,
                              Snapshot, PublicationMatchesRegistry
    <3>5. \A c \in Bindings : by_id'[c] # None => by_id'[c].session \in sessions'
      BY <2>2, <3>1, <3>2 DEF RegisterBinding, RegistryOK, RegistryTypes
    <3> QED BY <2>2, <3>1, <3>4, <3>5, AddBinding DEF RegistryOK, RegistryTypes
  <2> QED BY <1>4, <2>1, <2>2 DEF Publish
<1>5. ASSUME NEW s \in Sessions, Dial(s)
      PROVE  RegistryOK'
  <2> DEFINE d == authorizing[s].destination
  <2>1. CASE UNCHANGED registry
    BY <1>3, <1>5, <2>1 DEF Dial
  <2>2. CASE AdvanceSelection(d)
    <3>1. next_selection' \in [Destinations -> 0 .. CursorWrap - 1]
      <4>1. \A n \in 0 .. CursorWrap - 1 : (n + 1) % CursorWrap \in 0 .. CursorWrap - 1
        BY LimitsAssumption
      <4> QED BY <2>2, <4>1 DEF AdvanceSelection, RegistryOK, RegistryTypes
    <3> QED BY <1>5, <2>2, <3>1
            DEF Dial, AdvanceSelection, RegistryOK, RegistryTypes, SessionIndexOK,
                DestinationIndexOK, OneBindingEach, PublicationMatchesRegistry
  <2> QED BY <1>5, <2>1, <2>2 DEF Dial
<1>6. ASSUME NEW s \in Sessions, NEW b \in Bindings, Unpublish(s, b)
      PROVE  RegistryOK'
  <2>1. /\ RemoveBindings({b}) /\ sessions' = sessions /\ b \in by_session[s]
        /\ PublishRegistration({s}) /\ draining' = draining
    BY <1>6 DEF Unpublish, admission
  <2>2. PublicationMatchesRegistry' /\ published' \in [Sessions -> SUBSET Bindings]
    <3>1. \A t \in Sessions : by_session'[t] = by_session[t] \ {b}
      BY <2>1 DEF RemoveBindings
    <3>2. \A t \in Sessions : t # s => by_session'[t] = by_session[t]
      <4>1. \A t \in Sessions : t # s => b \notin by_session[t]
        BY <2>1 DEF RegistryOK, SessionIndexOK
      <4> QED BY <3>1, <4>1
    <3>3. published' = [t \in Sessions |->
             IF t = s /\ Distributed
             THEN IF draining THEN {} ELSE by_session'[t] ELSE published[t]]
      BY <2>1 DEF PublishRegistration, Snapshot
    <3> QED BY <2>1, <3>1, <3>2, <3>3
            DEF RegistryOK, RegistryTypes, PublicationMatchesRegistry
  <2>3. \A c \in Bindings : by_id'[c] # None => by_id'[c].session \in sessions'
    BY <2>1 DEF RegistryOK, RemoveBindings
  <2> QED BY <2>1, <2>2, <2>3, DropBindings DEF RegistryOK, RegistryTypes
<1>7. ASSUME BeginDraining
      PROVE  RegistryOK'
  <2>1. /\ draining' = TRUE /\ sessions' = sessions /\ UNCHANGED registry
        /\ published' = [s \in Sessions |->
             IF s \in sessions /\ Distributed THEN {} ELSE published[s]]
    BY <1>7 DEF BeginDraining, admission, PublishRegistration, Snapshot
  <2>2. \A s \in Sessions : s \notin sessions => by_session[s] = {}
    BY DEF RegistryOK, RegistryTypes, SessionIndexOK
  <2> QED BY <2>1, <2>2
          DEF registry, RegistryOK, RegistryTypes, SessionIndexOK,
              DestinationIndexOK, OneBindingEach, PublicationMatchesRegistry
<1>8. ASSUME \/ PipesOnly
             \/ \E s \in Sessions, d \in Destinations : PreparePublish(s, d)
             \/ \E s \in Sessions, c \in ConnIds, d \in Destinations :
                   PrepareDial(s, c, d)
             \/ \E s \in Sessions : AuthorizationFailed(s)
      PROVE  UNCHANGED <<sessions, registry, draining, published>>
  BY <1>8 DEF PipesOnly, admission, PreparePublish, PrepareDial,
              AuthorizationFailed
<1> QED BY AdmissionCases, <1>0, <1>1, <1>2, <1>3, <1>4, <1>5, <1>6, <1>7, <1>8,
           Zenon

=============================================================================
