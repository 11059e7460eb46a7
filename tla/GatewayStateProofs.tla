------------------------- MODULE GatewayStateProofs -------------------------
(* The effects and the peer streams of a Gateway, and what holds of it. *)
EXTENDS GatewayTableProofs

-----------------------------------------------------------------------------
(***************************************************************************)
(* The peer indexes.                                                       *)
(***************************************************************************)

(* No Pipe is also an attempt. *)
LEMMA StagesDisjoint ==
    ASSUME DialsOK
    PROVE  \A p \in Attempts : p \notin Active
BY DEF DialsOK, DialOK, Attempts

(* A Pipe has at most one peer end, and an OFFER's is its dialer. *)
LEMMA OneKeyEnd ==
    ASSUME TableTypes, EntriesOK, RegistryTypes, NEW p \in Active,
           NEW k \in Keys, k \in Ends(p)
    PROVE  /\ \A j \in Keys : j \in Ends(p) => j = k
           /\ p \in Offered => k = pipes[p].dialer
BY OfferEnds, IdentityAssumption DEF Ends

(* remove_pipe and take_remote_attempt clear both indexes. *)
LEMMA IndexesAfterRemove ==
    ASSUME TableTypes, DialsOK, PeerIndexesMatchPipes,
           NEW R \in SUBSET Active, NEW T \in SUBSET Attempts, Remove(R, T)
    PROVE  PeerIndexesMatchPipes'
<1>0. /\ Active' = Active \ R /\ Attempts' = Attempts \ T
      /\ \A p \in Active' : pipes'[p] = pipes[p]
      /\ \A p \in Attempts' : remote_open_attempts'[p] = remote_open_attempts[p]
  BY AfterRemove
<1>1. ASSUME NEW k \in Keys, NEW p \in PipeIds
      PROVE  peer_pipes'[k] = p <=> p \in Active' /\ k \in Ends(p)'
  <2>1. peer_pipes[k] = p <=> p \in Active /\ k \in Ends(p)
    BY DEF PeerIndexesMatchPipes
  <2>2. CASE \E q \in R : k \in Ends(q)
    <3>1. PICK q \in R : k \in Ends(q)
      BY <2>2
    <3>2. q \in PipeIds /\ peer_pipes[k] = q
      BY <3>1 DEF PeerIndexesMatchPipes, Active
    <3>3. peer_pipes'[k] = None
      BY <2>2 DEF Remove
    <3>4. p \in Active' => k \notin Ends(p)'
      BY <1>0, <2>1, <3>2 DEF Ends
    <3> QED BY <3>3, <3>4, NoneAssumption
  <2>3. CASE ~\E q \in R : k \in Ends(q)
    <3>1. peer_pipes'[k] = peer_pipes[k]
      BY <2>3 DEF Remove
    <3> QED BY <1>0, <2>1, <2>3, <3>1 DEF Ends
  <2> QED BY <2>2, <2>3
<1>2. ASSUME NEW k \in Keys, NEW p \in PipeIds
      PROVE  active_peer_opens'[p] = k <=>
                \/ p \in Active' /\ k \in Ends(p)'
                \/ p \in Attempts' /\ remote_open_attempts'[p].key = k
  <2>1. active_peer_opens[p] = k <=>
           \/ p \in Active /\ k \in Ends(p)
           \/ p \in Attempts /\ remote_open_attempts[p].key = k
    BY DEF PeerIndexesMatchPipes
  <2>2. p \in Attempts => p \notin Active
    BY StagesDisjoint
  <2>3. CASE p \in T \/ (p \in R /\ Ends(p) \cap Keys # {})
    <3>1. active_peer_opens'[p] = None
      BY <2>3 DEF Remove
    <3>2. p \notin Active' /\ p \notin Attempts'
      BY <1>0, <2>2, <2>3
    <3> QED BY <3>1, <3>2, IdentityAssumption
  <2>4. CASE ~(p \in T \/ (p \in R /\ Ends(p) \cap Keys # {}))
    <3>1. active_peer_opens'[p] = active_peer_opens[p]
      BY <2>4 DEF Remove
    <3> QED BY <1>0, <2>1, <2>2, <2>4, <3>1 DEF Ends
  <2> QED BY <2>3, <2>4
<1> QED BY <1>1, <1>2 DEF PeerIndexesMatchPipes

(* insert_offer and insert_open enter the peer end in both. *)
LEMMA IndexesAfterInsert ==
    ASSUME TableTypes, DialsOK, PeerIndexesMatchPipes,
           NEW p \in PipeIds, p \notin Active, NEW entry \in PipeEntries,
           entry.dialer \notin Keys \/ entry.acceptor \notin Keys, FreeEnds(entry),
           NEW T \in SUBSET {p}, p \in Attempts => p \in T, Insert(p, entry, T)
    PROVE  PeerIndexesMatchPipes'
<1> DEFINE K == {entry.dialer, entry.acceptor} \cap Keys
<1>0. /\ Active' = Active \cup {p} /\ Attempts' = Attempts \ T
      /\ pipes'[p] = entry
      /\ \A q \in Active : q # p => pipes'[q] = pipes[q]
      /\ \A q \in Attempts' : remote_open_attempts'[q] = remote_open_attempts[q]
  BY AfterInsert
<1>1. \A k \in K : K = {k} /\ k = CHOOSE x \in K : TRUE
  OBVIOUS
<1>2. /\ Ends(p)' \cap Keys = K
      /\ \A q \in Active : q # p => Ends(q)' = Ends(q)
  BY <1>0 DEF Ends
<1>3. \A q \in Active, k \in K : k \notin Ends(q)
  BY DEF FreeEnds
<1>4. peer_pipes' = [k \in Keys |-> IF k \in K THEN p ELSE peer_pipes[k]]
  BY DEF Insert
<1>5. active_peer_opens' = [q \in PipeIds |->
          IF q = p /\ K # {} THEN CHOOSE k \in K : TRUE
          ELSE IF q \in T THEN None ELSE active_peer_opens[q]]
  BY DEF Insert
<1> HIDE DEF K
<1>6. ASSUME NEW k \in Keys, NEW q \in PipeIds
      PROVE  peer_pipes'[k] = q <=> q \in Active' /\ k \in Ends(q)'
  <2>1. peer_pipes[k] = q <=> q \in Active /\ k \in Ends(q)
    BY DEF PeerIndexesMatchPipes
  <2>2. CASE k \in K
    BY <1>0, <1>2, <1>3, <1>4, <2>1, <2>2
  <2>3. CASE k \notin K
    BY <1>0, <1>2, <1>4, <2>1, <2>3
  <2> QED BY <2>2, <2>3
<1>7. ASSUME NEW k \in Keys, NEW q \in PipeIds
      PROVE  active_peer_opens'[q] = k <=>
                \/ q \in Active' /\ k \in Ends(q)'
                \/ q \in Attempts' /\ remote_open_attempts'[q].key = k
  <2>1. active_peer_opens[q] = k <=>
           \/ q \in Active /\ k \in Ends(q)
           \/ q \in Attempts /\ remote_open_attempts[q].key = k
    BY DEF PeerIndexesMatchPipes
  <2>2. CASE q # p
    <3>1. active_peer_opens'[q] = active_peer_opens[q]
      BY <1>5, <2>2
    <3> QED BY <1>0, <1>2, <2>1, <2>2, <3>1
  <2>3. CASE q = p /\ K # {}
    <3>1. active_peer_opens'[p] = CHOOSE x \in K : TRUE
      BY <1>5, <2>3
    <3>2. active_peer_opens'[p] = k <=> k \in K
      BY <1>1, <2>3, <3>1
    <3>3. p \notin Attempts' /\ p \in Active'
      BY <1>0
    <3> QED BY <1>2, <2>3, <3>2, <3>3
  <2>4. CASE q = p /\ K = {}
    <3>1. active_peer_opens'[p] \in {None, active_peer_opens[p]}
      BY <1>5, <2>4
    <3>2. p \notin Attempts' /\ p \in Active'
      BY <1>0
    <3>3. p \in Attempts => active_peer_opens'[p] = None
      BY <1>5, <2>4
    <3>4. active_peer_opens'[p] # k
      BY <2>1, <2>4, <3>1, <3>3, IdentityAssumption
    <3> QED BY <1>2, <2>4, <3>2, <3>4
  <2> QED BY <2>2, <2>3, <2>4
<1> QED BY <1>6, <1>7 DEF PeerIndexesMatchPipes

(* The two indexes follow the table through every step. *)
LEMMA IndexesStep ==
    ASSUME TableTypes, EntriesOK, DialsOK, PeerIndexesMatchPipes, TableStep
    PROVE  PeerIndexesMatchPipes'
<1>1. CASE UNCHANGED table
  BY <1>1 DEF table, PeerIndexesMatchPipes, Active, Attempts, Ends
<1>2. ASSUME NEW R \in SUBSET Active, NEW T \in SUBSET Attempts, Remove(R, T)
      PROVE  PeerIndexesMatchPipes'
  BY <1>2, IndexesAfterRemove
<1>3. ASSUME NEW p \in PipeIds, NEW entry \in PipeEntries, EntryOK(p, entry)
      PROVE  entry.dialer \notin Keys \/ entry.acceptor \notin Keys
  BY <1>3, OwnPipeIdFacts, IdentityAssumption DEF EntryOK
<1>4. ASSUME NEW p \in PipeIds, NEW entry \in PipeEntries, Admits(p, entry)
      PROVE  PeerIndexesMatchPipes'
  <2>1. {} \in SUBSET {p}
    OBVIOUS
  <2> QED BY <1>3, <1>4, <2>1, IndexesAfterInsert DEF Admits
<1>5. ASSUME NEW p \in PipeIds, NEW entry \in PipeEntries, Settles(p, entry)
      PROVE  PeerIndexesMatchPipes'
  <2>1. {p} \in SUBSET {p}
    OBVIOUS
  <2> QED BY <1>3, <1>5, <2>1, IndexesAfterInsert DEF Settles
<1>6. ASSUME Active' = Active, \A p \in Active : Ends(p)' = Ends(p),
             Attempts' = Attempts,
             \A p \in Attempts : remote_open_attempts'[p].key = remote_open_attempts[p].key,
             UNCHANGED <<peer_pipes, active_peer_opens>>
      PROVE  PeerIndexesMatchPipes'
  BY <1>6 DEF PeerIndexesMatchPipes
<1>7. ASSUME NEW p \in PipeIds, Promotes(p)
      PROVE  PeerIndexesMatchPipes'
  <2>1. /\ Active' = Active /\ Attempts' = Attempts
        /\ pipes'[p] = [pipes[p] EXCEPT !.phase = "Open"]
        /\ \A q \in Active : q # p => pipes'[q] = pipes[q]
        /\ remote_open_attempts' = remote_open_attempts
        /\ UNCHANGED <<peer_pipes, active_peer_opens>>
    BY <1>7, AfterPromote DEF Promotes, Promote
  <2>2. pipes[p] \in PipeEntries
    BY <1>7 DEF Promotes, TableTypes, Offered, Active
  <2>3. Ends(p)' = Ends(p)
    BY <2>1, <2>2 DEF Ends, PipeEntries
  <2> QED BY <1>6, <2>1, <2>3 DEF Ends
<1>8. ASSUME NEW p \in PipeIds, NEW e \in Endpoints, Finishes(p, e)
      PROVE  PeerIndexesMatchPipes'
  <2>1. /\ Active' = Active /\ Attempts' = Attempts
        /\ pipes'[p] = [pipes[p] EXCEPT !.finished = @ \cup {e}]
        /\ \A q \in Active : q # p => pipes'[q] = pipes[q]
        /\ remote_open_attempts' = remote_open_attempts
        /\ UNCHANGED <<peer_pipes, active_peer_opens>>
    BY <1>8, AfterFinish DEF Finishes
  <2>2. pipes[p] \in PipeEntries
    BY <1>8 DEF Finishes, TableTypes, Opened, Active
  <2>3. Ends(p)' = Ends(p)
    BY <2>1, <2>2 DEF Ends, PipeEntries
  <2> QED BY <1>6, <2>1, <2>3 DEF Ends
<1>9. ASSUME NEW p \in OwnPipeIds, NEW d \in Destinations, Begins(p, d)
      PROVE  PeerIndexesMatchPipes'
  <2>1. /\ Active' = Active /\ Attempts' = Attempts \cup {p} /\ p \notin Attempts
        /\ remote_open_attempts'[p] =
              [destination |-> d, phase |-> "Resolving", key |-> None]
        /\ \A q \in Attempts : q # p =>
              remote_open_attempts'[q] = remote_open_attempts[q]
        /\ UNCHANGED <<pipes, peer_pipes, active_peer_opens>>
    BY <1>9, AfterBegin DEF Begins
  <2>3. remote_open_attempts'[p].key = None
    BY <2>1
  <2>2. \A k \in Keys : k # None
    BY IdentityAssumption
  <2> QED BY <2>1, <2>2, <2>3 DEF PeerIndexesMatchPipes, Ends
<1>10. ASSUME NEW p \in OwnPipeIds, Starts(p)
      PROVE  PeerIndexesMatchPipes'
  <2>1. /\ Active' = Active /\ Attempts' = Attempts
        /\ remote_open_attempts'[p] =
              [remote_open_attempts[p] EXCEPT !.phase = "StartingPeer"]
        /\ \A q \in Attempts : q # p =>
              remote_open_attempts'[q] = remote_open_attempts[q]
        /\ UNCHANGED <<pipes, peer_pipes, active_peer_opens>>
    BY <1>10, AfterStart DEF Starts
  <2>2. remote_open_attempts[p] \in RemoteOpenAttempts
    BY <1>10 DEF Starts, TableTypes, Attempts
  <2>3. remote_open_attempts'[p].key = remote_open_attempts[p].key
    BY <2>1, <2>2 DEF RemoteOpenAttempts
  <2> QED BY <1>6, <2>1, <2>3 DEF Ends
<1>11. ASSUME NEW p \in OwnPipeIds, NEW k \in Keys, Commits(p, k)
      PROVE  PeerIndexesMatchPipes'
  <2>1. /\ Active' = Active /\ Attempts' = Attempts /\ p \in Attempts
        /\ remote_open_attempts'[p] =
              [remote_open_attempts[p] EXCEPT !.phase = "AwaitingPeer", !.key = k]
        /\ \A q \in Attempts : q # p =>
              remote_open_attempts'[q] = remote_open_attempts[q]
        /\ UNCHANGED <<pipes, peer_pipes>>
        /\ active_peer_opens' = [active_peer_opens EXCEPT ![p] = k]
    BY <1>11, AfterCommit DEF Commits
  <2>2. remote_open_attempts[p] \in RemoteOpenAttempts /\ p \in PipeIds
    BY <1>11, OwnPipeIdFacts DEF Commits, TableTypes, Attempts
  <2>3. remote_open_attempts'[p].key = k
    BY <2>1, <2>2 DEF RemoteOpenAttempts
  <2>4. p \notin Active
    BY <2>1, StagesDisjoint
  <2>5. \A q \in PipeIds : q # p => active_peer_opens'[q] = active_peer_opens[q]
    BY <2>1 DEF TableTypes
  <2>6. active_peer_opens'[p] = k
    BY <2>1, <2>2 DEF TableTypes
  <2>7. ASSUME NEW j \in Keys, NEW q \in PipeIds
        PROVE  active_peer_opens'[q] = j <=>
                  \/ q \in Active' /\ j \in Ends(q)'
                  \/ q \in Attempts' /\ remote_open_attempts'[q].key = j
    <3>1. CASE q = p
      BY <2>1, <2>3, <2>4, <2>6, <3>1
    <3>2. CASE q # p
      BY <2>1, <2>5, <3>2 DEF PeerIndexesMatchPipes, Ends
    <3> QED BY <3>1, <3>2
  <2>8. ASSUME NEW j \in Keys, NEW q \in PipeIds
        PROVE  peer_pipes'[j] = q <=> q \in Active' /\ j \in Ends(q)'
    BY <2>1 DEF PeerIndexesMatchPipes, Ends
  <2> QED BY <2>7, <2>8 DEF PeerIndexesMatchPipes
<1> QED BY <1>1, <1>2, <1>4, <1>5, <1>7, <1>8, <1>9, <1>10, <1>11 DEF TableStep

-----------------------------------------------------------------------------
(***************************************************************************)
(* Streams and the Pipes and attempts that own them.                       *)
(***************************************************************************)

OwnedOK == AttemptsOK /\ KeyEndsOK /\ StreamsAreOwned

(* Peer ends and attempts may go but not come, and what the attempts that   *)
(* stay wait for stays.                                                    *)
OnlyReleases ==
    /\ \A p \in Active' \cap Active : Ends(p)' = Ends(p)
    /\ \A p \in Active' \ Active : Ends(p)' \cap Keys = {}
    /\ Attempts' \subseteq Attempts
    /\ \A p \in Attempts' :
          /\ remote_open_attempts'[p] = remote_open_attempts[p]
          /\ p \notin cancelling'
          /\ p \in resolving => p \in resolving'
          /\ opening'[p] = opening[p]

(* The streams of K end, and nothing that stays needs them. *)
EndsStreams(K) ==
    /\ \A k \in Keys \ K : streams'[k] = streams[k]
    /\ \A k \in K :
          /\ streams'[k].phase \in {"ended", "cancelled"}
          /\ streams'[k].pipe \notin Attempts' /\ streams[k].pipe \notin Attempts'
          /\ streams[k].phase \in {"incoming", "open"} => streams[k].pipe \notin Active'

(* Every stream that stays has an owner left. *)
EndsEnough(K) ==
    /\ \A p \in Active \ Active', k \in Keys : k \in Ends(p) => k \in K
    /\ \A k \in Keys \ K :
          streams[k].phase = "opening" /\ streams[k].pipe \notin Attempts' =>
              opening'[streams[k].pipe] = k

(* Pipes and attempts go with their streams. *)
LEMMA OwnedAfterRelease ==
    ASSUME OwnedOK, TableTypes, OnlyReleases, NEW K \in SUBSET Keys,
           EndsStreams(K), EndsEnough(K)
    PROVE  OwnedOK'
<1>1. ASSUME NEW p \in Attempts'
      PROVE  AttemptOK(p)'
  <2>1. /\ p \in Attempts /\ AttemptOK(p)
        /\ remote_open_attempts'[p] = remote_open_attempts[p]
        /\ p \notin cancelling'
        /\ p \in resolving => p \in resolving'
        /\ opening'[p] = opening[p]
    BY <1>1 DEF OnlyReleases, OwnedOK, AttemptsOK
  <2>2. Phase(p)' = Phase(p)
    BY <1>1, <2>1 DEF Phase
  <2>3. \A k \in Keys : streams'[k].pipe = p => streams[k].pipe = p /\ streams'[k] = streams[k]
    BY <1>1 DEF EndsStreams
  <2>4. \A k \in Keys : streams[k].pipe = p => streams'[k] = streams[k]
    BY <1>1 DEF EndsStreams
  <2>5. Phase(p) = "AwaitingPeer" => remote_open_attempts[p].key \in Keys
    BY <2>1 DEF Phase, TableTypes
  <2>6. Phase(p) = "AwaitingPeer" => streams'[remote_open_attempts'[p].key].pipe = p
    BY <2>1, <2>4, <2>5 DEF AttemptOK
  <2>7. \A k \in Keys : streams'[k].pipe = p => streams'[k].phase = "opening"
    BY <2>1, <2>3 DEF AttemptOK
  <2> QED BY <2>1, <2>2, <2>6, <2>7 DEF AttemptOK
<1>2. ASSUME NEW p \in Active', NEW k \in Keys, k \in Ends(p)'
      PROVE  streams'[k].phase \in {"incoming", "open"} /\ streams'[k].pipe = p
  <2>1. p \in Active /\ k \in Ends(p)
    BY <1>2 DEF OnlyReleases
  <2>2. streams[k].phase \in {"incoming", "open"} /\ streams[k].pipe = p
    BY <2>1 DEF OwnedOK, KeyEndsOK
  <2>3. k \notin K
    BY <1>2, <2>2 DEF EndsStreams
  <2> QED BY <2>2, <2>3 DEF EndsStreams
<1>3. ASSUME NEW k \in Keys, streams'[k].phase \in {"incoming", "open"}
      PROVE  (streams[k].pipe \in Active /\ k \in Ends(streams[k].pipe))'
  <2>1. streams'[k] = streams[k] /\ k \notin K
    BY <1>3 DEF EndsStreams
  <2>2. PICK p : p = streams[k].pipe
    OBVIOUS
  <2>3. p \in Active /\ k \in Ends(p)
    BY <1>3, <2>1, <2>2 DEF OwnedOK, StreamsAreOwned
  <2>4. p \in Active'
    BY <2>1, <2>3 DEF EndsEnough
  <2>5. k \in Ends(p)'
    BY <2>3, <2>4 DEF OnlyReleases
  <2> QED BY <2>1, <2>2, <2>4, <2>5 DEF Ends
<1>4. ASSUME NEW k \in Keys, streams'[k].phase = "opening"
      PROVE  LET p == streams'[k].pipe IN
             \/ p \in Attempts' /\ remote_open_attempts'[p].key = k
             \/ opening'[p] = k
  <2>1. streams'[k] = streams[k] /\ k \notin K
    BY <1>4 DEF EndsStreams
  <2>2. PICK p : p = streams[k].pipe
    OBVIOUS
  <2>3. \/ p \in Attempts /\ remote_open_attempts[p].key = k
        \/ opening[p] = k
    BY <1>4, <2>1, <2>2 DEF OwnedOK, StreamsAreOwned
  <2>4. CASE p \in Attempts'
    BY <2>1, <2>2, <2>3, <2>4 DEF OnlyReleases
  <2>5. CASE p \notin Attempts'
    BY <1>4, <2>1, <2>2, <2>5 DEF EndsEnough
  <2> QED BY <2>4, <2>5
<1>5. AttemptsOK'
  BY <1>1 DEF AttemptsOK
<1>6. KeyEndsOK'
  BY <1>2 DEF KeyEndsOK
<1>7. StreamsAreOwned'
  BY <1>3, <1>4 DEF StreamsAreOwned
<1> QED BY <1>5, <1>6, <1>7 DEF OwnedOK

(* FAILED, CLOSE or RESET is sent on the streams K of the Pipes R and the   *)
(* attempts T, and on no other.                                            *)
Releases(R, T, K) ==
    /\ \A k \in Keys \ K : streams'[k] = streams[k]
    /\ \A k \in K : /\ streams'[k].pipe = streams[k].pipe
                    /\ streams'[k].phase \in {"ended", "cancelled"}
                    /\ streams[k].pipe \in R \cup T
    /\ \A p \in R, k \in Keys : k \in Ends(p) => k \in K
    /\ \A k \in Keys \ K : streams[k].phase = "opening" =>
          /\ opening'[streams[k].pipe] = opening[streams[k].pipe]
          /\ streams[k].pipe \in T => opening[streams[k].pipe] = k
    /\ \A p \in Attempts \ T : /\ p \notin cancelling'
                               /\ p \in resolving => p \in resolving'
                               /\ opening'[p] = opening[p]

(* remove_pipe and take_remote_attempt. *)
LEMMA OwnedAfterRemove ==
    ASSUME OwnedOK, TableTypes, DialsOK,
           NEW R \in SUBSET Active, NEW T \in SUBSET Attempts, Remove(R, T),
           NEW K \in SUBSET Keys, Releases(R, T, K)
    PROVE  OwnedOK'
<1>1. /\ Active' = Active \ R /\ Attempts' = Attempts \ T
      /\ \A p \in Active' : pipes'[p] = pipes[p]
      /\ \A p \in Attempts' : remote_open_attempts'[p] = remote_open_attempts[p]
  BY AfterRemove
<1>2. \A p \in Attempts : p \notin Active
  BY StagesDisjoint
<1>3. OnlyReleases
  BY <1>1 DEF OnlyReleases, Ends, Releases
<1>4. EndsStreams(K)
  BY <1>1, <1>2 DEF EndsStreams, Releases
<1>5. ASSUME NEW k \in Keys \ K, streams[k].phase = "opening",
             streams[k].pipe \notin Attempts'
      PROVE  opening'[streams[k].pipe] = k
  <2>1. CASE streams[k].pipe \in Attempts
    BY <1>1, <1>5, <2>1 DEF Releases
  <2>2. CASE streams[k].pipe \notin Attempts
    BY <1>5, <2>2 DEF OwnedOK, StreamsAreOwned, Releases
  <2> QED BY <2>1, <2>2
<1>6. EndsEnough(K)
  BY <1>1, <1>5 DEF EndsEnough, Releases
<1> QED BY <1>3, <1>4, <1>6, OwnedAfterRelease

(* What EndStreams does to a stream. *)
LEMMA EndStreamsFacts ==
    ASSUME NEW K, streams' = EndStreams(K)
    PROVE  \A k \in Keys :
              /\ k \notin K => streams'[k] = streams[k]
              /\ k \in K => /\ streams'[k].pipe = streams[k].pipe
                            /\ streams'[k].phase \in {"ended", "cancelled"}
                            /\ streams'[k].phase = "cancelled" =>
                                  streams[k].phase \in {"opening", "cancelled"}
BY DEF EndStreams

(* A Pipe goes with the stream at its peer end. *)
LEMMA OwnedAfterDrop ==
    ASSUME OwnedOK, TableTypes, DialsOK,
           NEW p \in Active, Remove({p}, {}), streams' = EndStreams(Ends(p) \cap Keys),
           UNCHANGED <<resolving, opening, cancelling>>
    PROVE  OwnedOK'
<1> DEFINE K == Ends(p) \cap Keys
<1>1. {p} \in SUBSET Active /\ {} \in SUBSET Attempts /\ K \in SUBSET Keys
  OBVIOUS
<1>2. /\ \A k \in Keys \ K : streams'[k] = streams[k]
      /\ \A k \in K : /\ streams'[k].pipe = streams[k].pipe
                      /\ streams'[k].phase \in {"ended", "cancelled"}
  BY EndStreamsFacts
<1>3. \A k \in K : streams[k].pipe \in {p} \cup {}
  BY DEF OwnedOK, KeyEndsOK
<1>4. \A q \in {p}, k \in Keys : k \in Ends(q) => k \in K
  OBVIOUS
<1>5. \A q \in Attempts : q \notin cancelling'
  BY DEF OwnedOK, AttemptsOK, AttemptOK
<1> HIDE DEF K
<1>6. Releases({p}, {}, K)
  BY <1>2, <1>3, <1>4, <1>5 DEF Releases
<1> QED BY <1>1, <1>6, OwnedAfterRemove

(* An attempt goes with its stream, if it has one. *)
LEMMA OwnedAfterFailure ==
    ASSUME OwnedOK, TableTypes, DialsOK, NEW p \in Attempts,
           Remove({}, {p}), NEW K \in SUBSET Keys,
           \A k \in Keys \ K : streams'[k] = streams[k],
           \A k \in K : /\ streams'[k].pipe = streams[k].pipe
                        /\ streams'[k].phase \in {"ended", "cancelled"}
                        /\ streams[k].pipe = p,
           \A k \in Keys \ K : streams[k].phase = "opening" =>
              /\ opening'[streams[k].pipe] = opening[streams[k].pipe]
              /\ streams[k].pipe = p => opening[p] = k,
           \A q \in Attempts : q # p => /\ q \in resolving => q \in resolving'
                                        /\ opening'[q] = opening[q],
           \A q \in cancelling' : q \in cancelling \/ q = p
    PROVE  OwnedOK'
<1>1. {} \in SUBSET Active /\ {p} \in SUBSET Attempts
  OBVIOUS
<1>2. \A k \in K : streams[k].pipe \in {} \cup {p}
  OBVIOUS
<1>3. \A q \in Attempts \ {p} : /\ q \notin cancelling'
                                /\ q \in resolving => q \in resolving'
                                /\ opening'[q] = opening[q]
  BY DEF OwnedOK, AttemptsOK, AttemptOK
<1>4. \A k \in Keys \ K : streams[k].phase = "opening" =>
         /\ opening'[streams[k].pipe] = opening[streams[k].pipe]
         /\ streams[k].pipe \in {p} => opening[streams[k].pipe] = k
  OBVIOUS
<1>5. Releases({}, {p}, K)
  BY <1>2, <1>3, <1>4 DEF Releases
<1> QED BY <1>1, <1>5, OwnedAfterRemove

(* Steps that leave streams alone, and the peer ends of Pipes. *)
LEMMA OwnedUnchanged ==
    ASSUME OwnedOK, TableTypes, UNCHANGED <<streams, opening>>,
           Active \subseteq Active',
           \A p \in Active : Ends(p)' = Ends(p),
           \A p \in Active' \ Active : Ends(p)' \cap Keys = {},
           Attempts' \subseteq Attempts,
           \A p \in Attempts \ Attempts' : NoStream(p),
           \A p \in Attempts' : /\ remote_open_attempts'[p] = remote_open_attempts[p]
                                /\ p \in resolving => p \in resolving',
           cancelling' \subseteq cancelling
    PROVE  OwnedOK'
<1>1. \A p \in Attempts : p \notin cancelling'
  BY DEF OwnedOK, AttemptsOK, AttemptOK
<1>2. OnlyReleases
  BY <1>1 DEF OnlyReleases
<1>3. EndsStreams({})
  BY DEF EndsStreams
<1>4. EndsEnough({})
  BY DEF EndsEnough, OwnedOK, StreamsAreOwned, NoStream
<1>5. {} \in SUBSET Keys
  OBVIOUS
<1> QED BY <1>2, <1>3, <1>4, <1>5, OwnedAfterRelease

(* A peer's DIAL is accepted. *)
LEMMA OwnedAfterPromote ==
    ASSUME OwnedOK, TableTypes, EffectTypes, DialsOK, NEW p \in Offered, Promote(p),
           NEW x \in Keys, x = pipes[p].dialer,
           streams' = [streams EXCEPT ![x].phase = "open"],
           UNCHANGED <<resolving, opening, cancelling>>
    PROVE  OwnedOK'
<1>1. /\ Active' = Active /\ Attempts' = Attempts /\ p \in Active
      /\ pipes'[p] = [pipes[p] EXCEPT !.phase = "Open"]
      /\ \A q \in Active : q # p => pipes'[q] = pipes[q]
      /\ remote_open_attempts' = remote_open_attempts
  BY AfterPromote DEF Offered
<1>2. pipes[p] \in PipeEntries
  BY <1>1 DEF TableTypes, Active
<1>3. Ends(p)' = Ends(p)
  BY <1>1, <1>2 DEF Ends, PipeEntries
<1>4. \A q \in Active : Ends(q)' = Ends(q)
  BY <1>1, <1>3 DEF Ends
<1>5. streams[x].pipe = p /\ streams[x].phase \in {"incoming", "open"}
  BY <1>1 DEF OwnedOK, KeyEndsOK, Ends
<1>6. /\ \A k \in Keys : streams'[k].pipe = streams[k].pipe
      /\ \A k \in Keys : k # x => streams'[k] = streams[k]
      /\ streams'[x].phase = "open"
  BY DEF EffectTypes
<1>7. p \notin Attempts
  BY <1>1, StagesDisjoint
<1>8. AttemptsOK'
  <2> SUFFICES ASSUME NEW q \in Attempts PROVE AttemptOK(q)'
    BY <1>1 DEF AttemptsOK
  <2>1. AttemptOK(q) /\ Phase(q)' = Phase(q)
    BY <1>1 DEF OwnedOK, AttemptsOK, Phase
  <2>2. Phase(q) = "AwaitingPeer" => remote_open_attempts[q].key \in Keys
    BY DEF Phase, TableTypes
  <2> QED BY <1>1, <1>5, <1>6, <1>7, <2>1, <2>2 DEF AttemptOK
<1>9. KeyEndsOK'
  BY <1>1, <1>4, <1>5, <1>6 DEF OwnedOK, KeyEndsOK
<1>10. StreamsAreOwned'
  <2>1. ASSUME NEW k \in Keys, NEW q, q = streams[k].pipe
        PROVE  /\ streams'[k].phase \in {"incoming", "open"} =>
                     q \in Active' /\ k \in Ends(q)'
               /\ streams'[k].phase = "opening" =>
                     \/ q \in Attempts' /\ remote_open_attempts'[q].key = k
                     \/ opening'[q] = k
    <3>1. CASE k = x
      BY <1>1, <1>3, <1>5, <1>6, <2>1, <3>1 DEF Ends
    <3>2. CASE k # x
      BY <1>1, <1>4, <1>6, <2>1, <3>2 DEF OwnedOK, StreamsAreOwned
    <3> QED BY <3>1, <3>2
  <2> QED BY <1>6, <2>1 DEF StreamsAreOwned, Ends
<1> QED BY <1>8, <1>9, <1>10 DEF OwnedOK

(* A remote attempt begins, with nothing left of an earlier one. *)
LEMMA OwnedAfterBegin ==
    ASSUME OwnedOK, TableTypes, NEW p \in OwnPipeIds, NEW d \in Destinations,
           Begins(p, d), resolving' = resolving \cup {p},
           UNCHANGED <<opening, cancelling, streams>>,
           p \notin cancelling, NoStream(p)
    PROVE  OwnedOK'
<1>1. /\ Active' = Active /\ Attempts' = Attempts \cup {p} /\ p \notin Attempts
      /\ remote_open_attempts'[p] =
            [destination |-> d, phase |-> "Resolving", key |-> None]
      /\ \A q \in Attempts : q # p =>
            remote_open_attempts'[q] = remote_open_attempts[q]
      /\ pipes' = pipes
  BY AfterBegin DEF Begins
<1>2. AttemptOK(p)'
  <2>1. Phase(p)' = "Resolving"
    BY <1>1 DEF Phase
  <2> QED BY <2>1 DEF AttemptOK, NoStream
<1>3. ASSUME NEW q \in Attempts
      PROVE  AttemptOK(q)'
  <2>1. AttemptOK(q) /\ remote_open_attempts'[q] = remote_open_attempts[q]
    BY <1>1 DEF OwnedOK, AttemptsOK
  <2>2. Phase(q)' = Phase(q)
    BY <1>1, <2>1 DEF Phase
  <2> QED BY <2>1, <2>2 DEF AttemptOK
<1>4. AttemptsOK'
  BY <1>1, <1>2, <1>3 DEF AttemptsOK
<1>5. KeyEndsOK'
  BY <1>1 DEF OwnedOK, KeyEndsOK, Ends
<1>6. StreamsAreOwned'
  BY <1>1 DEF OwnedOK, StreamsAreOwned, Ends
<1> QED BY <1>4, <1>5, <1>6 DEF OwnedOK

(* An attempt asks for its OPEN. *)
LEMMA OwnedAfterStart ==
    ASSUME OwnedOK, TableTypes, EffectTypes, NEW p \in OwnPipeIds, Starts(p),
           opening[p] = None, opening' = [opening EXCEPT ![p] = "requested"],
           resolving' = resolving \ {p}, UNCHANGED <<cancelling, streams>>
    PROVE  OwnedOK'
<1>1. /\ Active' = Active /\ Attempts' = Attempts /\ p \in Attempts
      /\ remote_open_attempts'[p] =
            [remote_open_attempts[p] EXCEPT !.phase = "StartingPeer"]
      /\ \A q \in Attempts : q # p =>
            remote_open_attempts'[q] = remote_open_attempts[q]
      /\ pipes' = pipes
  BY AfterStart DEF Starts
<1>2. remote_open_attempts[p] \in RemoteOpenAttempts
  BY <1>1 DEF TableTypes, Attempts
<1>3. /\ remote_open_attempts'[p].phase = "StartingPeer"
      /\ remote_open_attempts'[p].key = remote_open_attempts[p].key
  BY <1>1, <1>2 DEF RemoteOpenAttempts
<1>4. /\ opening'[p] = "requested" /\ "requested" # None
      /\ \A q \in OwnPipeIds : q # p => opening'[q] = opening[q]
  BY NoneAssumption DEF EffectTypes
<1>5. AttemptOK(p)'
  <2>1. Phase(p)' = "StartingPeer" /\ AttemptOK(p)
    BY <1>1, <1>3 DEF Phase, OwnedOK, AttemptsOK
  <2> QED BY <1>4, <2>1 DEF AttemptOK
<1>6. ASSUME NEW q \in Attempts, q # p
      PROVE  AttemptOK(q)'
  <2>1. /\ AttemptOK(q) /\ remote_open_attempts'[q] = remote_open_attempts[q]
        /\ opening'[q] = opening[q]
    BY <1>1, <1>4, <1>6 DEF OwnedOK, AttemptsOK, Attempts
  <2>2. Phase(q)' = Phase(q)
    BY <1>1, <2>1 DEF Phase
  <2> QED BY <1>6, <2>1, <2>2 DEF AttemptOK
<1>7. AttemptsOK'
  BY <1>1, <1>5, <1>6 DEF AttemptsOK
<1>8. KeyEndsOK'
  BY <1>1 DEF OwnedOK, KeyEndsOK, Ends
<1>9. ASSUME NEW k \in Keys, NEW q, q = streams[k].pipe, streams[k].phase = "opening"
      PROVE  \/ q \in Attempts' /\ remote_open_attempts'[q].key = k
             \/ opening'[q] = k
  <2>1. q \in OwnPipeIds
    BY <1>9 DEF EffectTypes
  <2>2. \/ q \in Attempts /\ remote_open_attempts[q].key = k
        \/ opening[q] = k
    BY <1>9 DEF OwnedOK, StreamsAreOwned
  <2>3. k # None
    BY IdentityAssumption
  <2> QED BY <1>1, <1>3, <1>4, <2>1, <2>2, <2>3
<1>10. StreamsAreOwned'
  BY <1>1, <1>9 DEF OwnedOK, StreamsAreOwned, Ends
<1> QED BY <1>7, <1>8, <1>10 DEF OwnedOK

(* The transport commits OPEN on the new stream x. *)
LEMMA OwnedAfterOpen ==
    ASSUME OwnedOK, TableTypes, EffectTypes, NEW p \in OwnPipeIds, NEW x \in Keys,
           opening[p] = "requested", NoStream(p), streams[x].phase = "unused",
           opening' = [opening EXCEPT ![p] = x],
           streams' = [streams EXCEPT ![x] = [phase |-> "opening", pipe |-> p]],
           UNCHANGED <<table, resolving, cancelling>>
    PROVE  OwnedOK'
<1>1. /\ Active' = Active /\ Attempts' = Attempts /\ pipes' = pipes
      /\ remote_open_attempts' = remote_open_attempts
  BY DEF table, Active, Attempts
<1>2. /\ opening'[p] = x /\ x # None
      /\ \A q \in OwnPipeIds : q # p => opening'[q] = opening[q]
  BY IdentityAssumption DEF EffectTypes
<1>3. /\ streams'[x] = [phase |-> "opening", pipe |-> p]
      /\ \A k \in Keys : k # x => streams'[k] = streams[k]
      /\ streams[x].pipe = None
  BY DEF EffectTypes
<1>4. ASSUME NEW q \in Attempts
      PROVE  AttemptOK(q)'
  <2>1. AttemptOK(q) /\ Phase(q)' = Phase(q) /\ q \in OwnPipeIds /\ q # None
    BY <1>1, OwnPipeIdFacts, NoneAssumption DEF OwnedOK, AttemptsOK, Phase, Attempts
  <2>2. Phase(q) = "AwaitingPeer" => remote_open_attempts[q].key \in Keys
    BY DEF Phase, TableTypes
  <2>3. Phase(q) = "AwaitingPeer" =>
           /\ remote_open_attempts[q].key # x
           /\ streams'[remote_open_attempts[q].key].pipe = q
    BY <1>3, <2>1, <2>2 DEF AttemptOK
  <2>4. \A k \in Keys : streams'[k].pipe = q => streams'[k].phase = "opening"
    BY <1>3, <2>1 DEF AttemptOK
  <2>5. opening[q] # None => opening'[q] # None
    BY <1>2, <2>1
  <2> QED BY <1>1, <2>1, <2>3, <2>4, <2>5 DEF AttemptOK
<1>5. AttemptsOK'
  BY <1>1, <1>4 DEF AttemptsOK
<1>6. ASSUME NEW q \in Active, NEW k \in Keys, k \in Ends(q)
      PROVE  k # x /\ streams[k].phase \in {"incoming", "open"} /\ streams[k].pipe = q
  BY <1>6 DEF OwnedOK, KeyEndsOK
<1>7. KeyEndsOK'
  BY <1>1, <1>3, <1>6 DEF KeyEndsOK, Ends
<1>8. ASSUME NEW k \in Keys, NEW q, q = streams'[k].pipe
      PROVE  /\ streams'[k].phase \in {"incoming", "open"} => q \in Active /\ k \in Ends(q)
             /\ streams'[k].phase = "opening" =>
                   \/ q \in Attempts /\ remote_open_attempts[q].key = k
                   \/ opening'[q] = k
  <2>1. CASE k = x
    BY <1>2, <1>3, <1>8, <2>1
  <2>2. CASE k # x
    <3>1. streams'[k] = streams[k] /\ (streams[k].phase = "opening" => q \in OwnPipeIds)
      BY <1>3, <1>8, <2>2 DEF EffectTypes
    <3>2. opening[p] # k
      BY NoneAssumption
    <3> QED BY <1>2, <1>8, <3>1, <3>2 DEF OwnedOK, StreamsAreOwned
  <2> QED BY <2>1, <2>2
<1>9. StreamsAreOwned'
  BY <1>1, <1>8 DEF StreamsAreOwned, Ends
<1> QED BY <1>5, <1>7, <1>9 DEF OwnedOK

(* The reply names the stream x of the OPEN. *)
LEMMA OwnedAfterCommit ==
    ASSUME OwnedOK, TableTypes, EffectTypes, NEW p \in OwnPipeIds, NEW x \in Keys,
           Phase(p) = "StartingPeer", Commits(p, x), opening[p] = x,
           streams[x].pipe = p,
           opening' = [opening EXCEPT ![p] = None],
           UNCHANGED <<streams, resolving, cancelling>>
    PROVE  OwnedOK'
<1>1. /\ Active' = Active /\ Attempts' = Attempts /\ p \in Attempts
      /\ remote_open_attempts'[p] =
            [remote_open_attempts[p] EXCEPT !.phase = "AwaitingPeer", !.key = x]
      /\ \A q \in Attempts : q # p =>
            remote_open_attempts'[q] = remote_open_attempts[q]
      /\ pipes' = pipes
  BY AfterCommit DEF Commits
<1>2. remote_open_attempts[p] \in RemoteOpenAttempts
  BY <1>1 DEF TableTypes, Attempts
<1>3. /\ remote_open_attempts'[p].phase = "AwaitingPeer"
      /\ remote_open_attempts'[p].key = x
  BY <1>1, <1>2 DEF RemoteOpenAttempts
<1>4. \A q \in OwnPipeIds : q # p => opening'[q] = opening[q]
  BY DEF EffectTypes
<1>5. AttemptOK(p)'
  <2>1. Phase(p)' = "AwaitingPeer" /\ AttemptOK(p)
    BY <1>1, <1>3 DEF Phase, OwnedOK, AttemptsOK
  <2> QED BY <1>3, <2>1 DEF AttemptOK
<1>6. ASSUME NEW q \in Attempts, q # p
      PROVE  AttemptOK(q)'
  <2>1. /\ AttemptOK(q) /\ remote_open_attempts'[q] = remote_open_attempts[q]
        /\ opening'[q] = opening[q]
    BY <1>1, <1>4, <1>6 DEF OwnedOK, AttemptsOK, Attempts
  <2>2. Phase(q)' = Phase(q)
    BY <1>1, <2>1 DEF Phase
  <2> QED BY <2>1, <2>2 DEF AttemptOK
<1>7. AttemptsOK'
  BY <1>1, <1>5, <1>6 DEF AttemptsOK
<1>8. KeyEndsOK'
  BY <1>1 DEF OwnedOK, KeyEndsOK, Ends
<1>9. ASSUME NEW k \in Keys, NEW q, q = streams[k].pipe, streams[k].phase = "opening"
      PROVE  \/ q \in Attempts' /\ remote_open_attempts'[q].key = k
             \/ opening'[q] = k
  <2>1. q \in OwnPipeIds
    BY <1>9 DEF EffectTypes
  <2>2. \/ q \in Attempts /\ remote_open_attempts[q].key = k
        \/ opening[q] = k
    BY <1>9 DEF OwnedOK, StreamsAreOwned
  <2>3. CASE q # p
    BY <1>1, <1>4, <2>1, <2>2, <2>3
  <2>4. CASE q = p
    <3>1. remote_open_attempts[p].key \notin Keys
      BY <1>1 DEF TableTypes, Phase
    <3>2. k = x
      BY <2>2, <2>4, <3>1
    <3> QED BY <1>1, <1>3, <2>4, <3>2
  <2> QED BY <2>3, <2>4
<1>10. StreamsAreOwned'
  BY <1>1, <1>9 DEF OwnedOK, StreamsAreOwned, Ends
<1> QED BY <1>7, <1>8, <1>10 DEF OwnedOK

(* The stream x becomes the peer end of a new Pipe, whose attempt, if it    *)
(* had one, is taken.                                                      *)
LEMMA OwnedAfterInsert ==
    ASSUME OwnedOK, TableTypes, EffectTypes, NEW p \in PipeIds, p \notin Active,
           NEW entry \in PipeEntries, NEW T \in SUBSET {p}, Insert(p, entry, T),
           NEW x \in Keys,
           \A k \in Keys : k \in {entry.dialer, entry.acceptor} <=> k = x,
           streams[x].phase \notin {"incoming", "open"},
           streams[x].pipe \in {p, None},
           p \in T \/ p \notin OwnPipeIds,
           p \in OwnPipeIds => \A k \in Keys : streams[k].pipe = p => k = x,
           streams'[x].phase \in {"incoming", "open"}, streams'[x].pipe = p,
           \A k \in Keys : k # x => streams'[k] = streams[k],
           UNCHANGED <<resolving, opening, cancelling>>
    PROVE  OwnedOK'
<1>1. /\ Active' = Active \cup {p} /\ Attempts' = Attempts \ T
      /\ pipes'[p] = entry
      /\ \A q \in Active : q # p => pipes'[q] = pipes[q]
      /\ \A q \in Attempts' : remote_open_attempts'[q] = remote_open_attempts[q]
  BY AfterInsert
<1>2. /\ \A k \in Keys : k \in Ends(p)' <=> k = x
      /\ \A q \in Active : Ends(q)' = Ends(q)
  BY <1>1 DEF Ends
<1>3. p \notin Attempts' /\ p # None
  BY <1>1, NoneAssumption DEF Attempts
<1>4. ASSUME NEW q \in Attempts'
      PROVE  AttemptOK(q)'
  <2>1. /\ q \in Attempts /\ AttemptOK(q) /\ q # p /\ q # None
        /\ remote_open_attempts'[q] = remote_open_attempts[q]
    BY <1>1, <1>3, <1>4, OwnPipeIdFacts, NoneAssumption
       DEF OwnedOK, AttemptsOK, Attempts
  <2>2. Phase(q)' = Phase(q)
    BY <1>4, <2>1 DEF Phase
  <2>3. Phase(q) = "AwaitingPeer" => remote_open_attempts[q].key \in Keys
    BY <2>1 DEF Phase, TableTypes
  <2>4. \A k \in Keys : streams[k].pipe = q => streams'[k] = streams[k]
    BY <2>1
  <2>5. \A k \in Keys : streams'[k].pipe = q => streams'[k].phase = "opening"
    BY <2>1 DEF AttemptOK
  <2> QED BY <2>1, <2>2, <2>3, <2>4, <2>5 DEF AttemptOK
<1>5. AttemptsOK'
  BY <1>4 DEF AttemptsOK
<1>6. ASSUME NEW q \in Active, NEW k \in Keys, k \in Ends(q)
      PROVE  k # x /\ streams'[k].phase \in {"incoming", "open"} /\ streams'[k].pipe = q
  BY <1>6 DEF OwnedOK, KeyEndsOK
<1>7. KeyEndsOK'
  BY <1>1, <1>2, <1>6 DEF KeyEndsOK
<1>8. ASSUME NEW k \in Keys, NEW q, q = streams'[k].pipe
      PROVE  /\ streams'[k].phase \in {"incoming", "open"} => q \in Active' /\ k \in Ends(q)'
             /\ streams'[k].phase = "opening" =>
                   \/ q \in Attempts' /\ remote_open_attempts'[q].key = k
                   \/ opening'[q] = k
  <2>1. CASE k = x
    BY <1>1, <1>2, <1>8, <2>1
  <2>2. CASE k # x
    <3>1. /\ streams'[k] = streams[k]
          /\ streams[k].phase = "opening" => q \in OwnPipeIds
      BY <1>8, <2>2 DEF EffectTypes
    <3>2. streams[k].phase = "opening" => q # p
      BY <1>8, <2>2, <3>1
    <3> QED BY <1>1, <1>2, <1>8, <3>1, <3>2 DEF OwnedOK, StreamsAreOwned
  <2> QED BY <2>1, <2>2
<1>9. StreamsAreOwned'
  BY <1>8 DEF StreamsAreOwned, Ends
<1> QED BY <1>5, <1>7, <1>9 DEF OwnedOK

(* Steps that leave the table alone and end the streams of K. *)
LEMMA OwnedSameTable ==
    ASSUME OwnedOK, TableTypes, UNCHANGED table, NEW K \in SUBSET Keys, EndsStreams(K),
           cancelling' \subseteq cancelling,
           \A p \in Attempts : /\ p \in resolving => p \in resolving'
                               /\ opening'[p] = opening[p],
           \A k \in Keys \ K : streams[k].phase = "opening" =>
              opening'[streams[k].pipe] = opening[streams[k].pipe]
    PROVE  OwnedOK'
<1>1. /\ Active' = Active /\ Attempts' = Attempts /\ pipes' = pipes
      /\ remote_open_attempts' = remote_open_attempts
  BY DEF table, Active, Attempts
<1>2. \A p \in Attempts : p \notin cancelling'
  BY DEF OwnedOK, AttemptsOK, AttemptOK
<1>3. OnlyReleases
  BY <1>1, <1>2 DEF OnlyReleases, Ends
<1>4. EndsEnough(K)
  BY <1>1 DEF EndsEnough, OwnedOK, StreamsAreOwned
<1> QED BY <1>3, <1>4, OwnedAfterRelease

(* Steps that leave table, streams and the effects of attempts alone. *)
LEMMA OwnedSame ==
    ASSUME OwnedOK, TableTypes, UNCHANGED <<table, streams, opening>>,
           cancelling' \subseteq cancelling,
           \A p \in Attempts : p \in resolving => p \in resolving'
    PROVE  OwnedOK'
<1>1. EndsStreams({}) /\ {} \in SUBSET Keys
  BY DEF EndsStreams
<1>2. /\ \A p \in Attempts : /\ p \in resolving => p \in resolving'
                             /\ opening'[p] = opening[p]
      /\ \A k \in Keys \ {} : streams[k].phase = "opening" =>
            opening'[streams[k].pipe] = opening[streams[k].pipe]
      /\ UNCHANGED table
  OBVIOUS
<1> QED BY <1>1, <1>2, OwnedSameTable

(* remove_session: what a session leaves at peers is ended. *)
LEMMA OwnedAfterSessions ==
    ASSUME IInv, NEW S \in SUBSET sessions, RemoveSessions(S)
    PROVE  OwnedOK'
<1> DEFINE R == {p \in Active : Ends(p) \cap S # {}}
           F == {p \in R \cap Offered : pipes[p].dialer \notin S}
           T == {p \in Attempts : p.session \in S}
           A == {p \in T : remote_open_attempts[p].phase = "AwaitingPeer"}
           U == {pipes[p].dialer : p \in F}
           V == UNION {Ends(p) : p \in R \ F}
           W == {remote_open_attempts[p].key : p \in A}
           K == Keys \cap (U \cup V \cup W)
<1>0. /\ OwnedOK /\ TableTypes /\ DialsOK /\ EntriesOK /\ RegistryTypes
  BY DEF IInv, StreamsOK, OwnedOK, RegistryOK
<1>1. /\ Remove(R, T) /\ streams' = EndStreams(K)
      /\ UNCHANGED <<resolving, opening>>
      /\ cancelling' \subseteq cancelling \cup T
      /\ R \in SUBSET Active /\ T \in SUBSET Attempts /\ K \in SUBSET Keys
  <2>1. streams' = EndStreams(K)
    <3>1. streams' = EndStreams(Keys \cap ({pipes[p].dialer : p \in F}
                                   \cup (UNION {Ends(p) : p \in R \ F})
                                   \cup {remote_open_attempts[p].key : p \in A}))
      BY DEF RemoveSessions
    <3> HIDE DEF R, F, T, A
    <3> QED BY <3>1, Zenon
  <2>2. K \in SUBSET Keys
    <3> HIDE DEF U, V, W
    <3> QED OBVIOUS
  <2> HIDE DEF K, U, V, W
  <2>3. /\ Remove(R, T) /\ UNCHANGED <<resolving, opening>>
        /\ cancelling' \subseteq cancelling \cup T
        /\ R \in SUBSET Active /\ T \in SUBSET Attempts
    BY DEF RemoveSessions
  <2> QED BY <2>1, <2>2, <2>3
<1>2. ASSUME NEW k \in K
      PROVE  streams[k].pipe \in R \cup T
  <2>1. ASSUME NEW p \in R, k \in Ends(p)
        PROVE  streams[k].pipe \in R
    BY <1>0, <2>1 DEF OwnedOK, KeyEndsOK
  <2>2. ASSUME NEW p \in A, k = remote_open_attempts[p].key
        PROVE  streams[k].pipe \in T
    BY <1>0, <2>2 DEF OwnedOK, AttemptsOK, AttemptOK, Phase
  <2>3. \A p \in F : pipes[p].dialer \in Ends(p) /\ p \in R
    BY DEF Ends
  <2>4. \/ \E p \in F : k = pipes[p].dialer
        \/ \E p \in R \ F : k \in Ends(p)
        \/ \E p \in A : k = remote_open_attempts[p].key
    <3> HIDE DEF R, F, T, A
    <3>1. k \in U \/ k \in V \/ k \in W
      <4> HIDE DEF U, V, W
      <4> QED OBVIOUS
    <3> QED BY <3>1, Zenon
  <2> HIDE DEF R, F, T, A, K
  <2> QED BY <2>1, <2>2, <2>3, <2>4
<1>3. ASSUME NEW p \in R, NEW k \in Keys, k \in Ends(p)
      PROVE  k \in K
  <2>1. CASE p \in F
    BY <1>0, <1>3, <2>1, OneKeyEnd
  <2>2. CASE p \notin F
    BY <1>3, <2>2
  <2> QED BY <2>1, <2>2
<1>4. ASSUME NEW k \in Keys \ K, streams[k].phase = "opening", streams[k].pipe \in T
      PROVE  opening[streams[k].pipe] = k
  <2>1. PICK p : p = streams[k].pipe
    OBVIOUS
  <2>2. p \in T /\ p \in Attempts
    BY <1>4, <2>1
  <2>3. remote_open_attempts[p].key # k
    <3>1. remote_open_attempts[p].key = k => p \in A
      BY <1>0, <1>4, <2>2 DEF TableTypes
    <3>2. \A q \in A : remote_open_attempts[q].key \in Keys =>
                           remote_open_attempts[q].key \in K
      <4> HIDE DEF R, F, T, A
      <4>1. \A q \in A : remote_open_attempts[q].key \in W
        OBVIOUS
      <4> HIDE DEF U, V, W
      <4> QED BY <4>1
    <3> HIDE DEF R, F, T, A, K
    <3> QED BY <1>4, <3>1, <3>2
  <2> QED BY <1>0, <1>4, <2>1, <2>2, <2>3 DEF OwnedOK, StreamsAreOwned
<1>5. \A p \in Attempts : p \notin cancelling
  BY <1>0 DEF OwnedOK, AttemptsOK, AttemptOK
<1> HIDE DEF R, F, T, A, K
<1>6. /\ \A k \in Keys \ K : streams'[k] = streams[k]
      /\ \A k \in K : /\ streams'[k].pipe = streams[k].pipe
                      /\ streams'[k].phase \in {"ended", "cancelled"}
  BY <1>1, EndStreamsFacts
<1>7. Releases(R, T, K)
  BY <1>1, <1>2, <1>3, <1>4, <1>5, <1>6 DEF Releases
<1> QED BY <1>0, <1>1, <1>7, OwnedAfterRemove

(* cancel_pending_binding: peers whose OPEN was pending get FAILED. *)
LEMMA OwnedAfterUnpublish ==
    ASSUME IInv, NEW s \in Sessions, NEW b \in Bindings, Unpublish(s, b)
    PROVE  OwnedOK'
<1> DEFINE R == {p \in Offered : pipes[p].binding_id = b}
           K == ({pipes[p].dialer : p \in R} \cup {e[1] : e \in {<<s, p>> : p \in R}}) \cap Keys
<1>0. /\ OwnedOK /\ TableTypes /\ DialsOK /\ EntriesOK /\ RegistryTypes
  BY DEF IInv, StreamsOK, OwnedOK, RegistryOK
<1>1. /\ Remove(R, {}) /\ streams' = EndStreams(K)
      /\ UNCHANGED <<resolving, opening, cancelling>>
      /\ R \in SUBSET Active /\ {} \in SUBSET Attempts /\ K \in SUBSET Keys
  BY DEF Unpublish, CancelPendingBinding, Notify, effects, Offered
<1>2. ASSUME NEW k \in K
      PROVE  streams[k].pipe \in R \cup {}
  <2>1. PICK p \in R : k = pipes[p].dialer
    BY IdentityAssumption
  <2>2. p \in Active /\ k \in Ends(p)
    BY <2>1 DEF Offered, Ends
  <2> QED BY <1>0, <2>1, <2>2 DEF OwnedOK, KeyEndsOK
<1>3. ASSUME NEW p \in R, NEW k \in Keys, k \in Ends(p)
      PROVE  k \in K
  <2>1. p \in Offered /\ p \in Active
    BY DEF Offered
  <2> QED BY <1>0, <1>3, <2>1, OneKeyEnd
<1>5. \A p \in Attempts : p \notin cancelling
  BY <1>0 DEF OwnedOK, AttemptsOK, AttemptOK
<1> HIDE DEF R, K
<1>6. /\ \A k \in Keys \ K : streams'[k] = streams[k]
      /\ \A k \in K : /\ streams'[k].pipe = streams[k].pipe
                      /\ streams'[k].phase \in {"ended", "cancelled"}
  BY <1>1, EndStreamsFacts
<1>7. Releases(R, {}, K)
  BY <1>1, <1>2, <1>3, <1>5, <1>6 DEF Releases
<1> QED BY <1>0, <1>1, <1>7, OwnedAfterRemove

(* peer_transport_lost_stream: what the streams of K belonged to goes. *)
LEMMA OwnedAfterLoss ==
    ASSUME IInv, NEW K \in SUBSET Keys, TransportLost(K)
    PROVE  OwnedOK'
<1> DEFINE R == {p \in Active : Ends(p) \cap K # {}}
           T == {p \in Attempts : \E k \in K :
                    streams[k] = [phase |-> "opening", pipe |-> p]}
<1>0. /\ OwnedOK /\ TableTypes /\ DialsOK /\ EntriesOK /\ RegistryTypes
      /\ EffectsOK /\ EffectTypes
  BY DEF IInv, StreamsOK, OwnedOK, RegistryOK
<1>1. /\ Remove(R, T)
      /\ streams' = [k \in Keys |->
            IF k \in K THEN [phase |-> "ended", pipe |-> streams[k].pipe]
            ELSE streams[k]]
      /\ UNCHANGED <<resolving, opening, cancelling>>
      /\ R \in SUBSET Active /\ T \in SUBSET Attempts
      /\ \A k \in K : streams[k].phase \notin {"unused", "ended"}
  BY DEF TransportLost, effects
<1>2. \A p \in R, k \in Keys : k \in Ends(p) => k \in K
  BY <1>0, OneKeyEnd
<1>3. /\ \A k \in Keys \ K : streams'[k] = streams[k]
      /\ \A k \in K : /\ streams'[k].pipe = streams[k].pipe
                      /\ streams'[k].phase \in {"ended", "cancelled"}
  BY <1>1
<1>4. ASSUME NEW k \in Keys \ K, streams[k].phase = "opening", streams[k].pipe \in T
      PROVE  opening[streams[k].pipe] = k
  <2>1. PICK p : p = streams[k].pipe
    OBVIOUS
  <2>2. PICK j \in K : streams[j] = [phase |-> "opening", pipe |-> p]
    BY <1>4, <2>1
  <2>3. streams[j].pipe = p /\ p \in OwnPipeIds
    BY <1>4, <2>1, <2>2 DEF Attempts
  <2> QED BY <1>0, <1>4, <2>1, <2>3 DEF EffectsOK
<1>5. \A p \in Attempts : p \notin cancelling
  BY <1>0 DEF OwnedOK, AttemptsOK, AttemptOK
<1>6. ASSUME NEW k \in K
      PROVE  /\ streams[k].pipe \notin Attempts \ T
             /\ streams[k].phase \in {"incoming", "open"} => streams[k].pipe \in R
  <2>1. streams[k].pipe \in Attempts => streams[k].phase = "opening"
    BY <1>0 DEF OwnedOK, AttemptsOK, AttemptOK
  <2>2. streams[k].phase = "opening" =>
           streams[k] = [phase |-> "opening", pipe |-> streams[k].pipe]
    BY <1>0 DEF EffectTypes
  <2>3. streams[k].phase \in {"incoming", "open"} =>
           streams[k].pipe \in Active /\ k \in Ends(streams[k].pipe)
    BY <1>0 DEF OwnedOK, StreamsAreOwned
  <2> QED BY <2>1, <2>2, <2>3
<1> HIDE DEF R, T
<1>7. /\ Active' = Active \ R /\ Attempts' = Attempts \ T
      /\ \A p \in Active' : pipes'[p] = pipes[p]
      /\ \A p \in Attempts' : remote_open_attempts'[p] = remote_open_attempts[p]
  BY <1>0, <1>1, AfterRemove
<1>8. OnlyReleases
  BY <1>1, <1>5, <1>7 DEF OnlyReleases, Ends
<1>9. EndsStreams(K)
  BY <1>3, <1>6, <1>7 DEF EndsStreams
<1>10. ASSUME NEW k \in Keys \ K, streams[k].phase = "opening",
             streams[k].pipe \notin Attempts'
      PROVE  opening'[streams[k].pipe] = k
  <2>1. CASE streams[k].pipe \in Attempts
    BY <1>1, <1>4, <1>7, <1>10, <2>1
  <2>2. CASE streams[k].pipe \notin Attempts
    BY <1>0, <1>1, <1>10, <2>2 DEF OwnedOK, StreamsAreOwned
  <2> QED BY <2>1, <2>2
<1>11. EndsEnough(K)
  BY <1>2, <1>7, <1>10 DEF EndsEnough
<1> QED BY <1>0, <1>8, <1>9, <1>11, OwnedAfterRelease

(* The frames that end a Pipe reach the stream at its peer end. *)
LEMMA NotifyEnds ==
    ASSUME NEW p, NEW P, NEW told, Notify(P, told),
           {pipes[q].dialer : q \in P} \cup {e[1] : e \in told} = Ends(p)
    PROVE  streams' = EndStreams(Ends(p) \cap Keys)
<1>1. streams' = EndStreams(({pipes[q].dialer : q \in P}
                               \cup {e[1] : e \in told}) \cap Keys)
  BY DEF Notify
<1> QED BY <1>1

(* Whom each way to end a Pipe tells. *)
LEMMA ToldEnds ==
    ASSUME NEW p
    PROVE  /\ {pipes[q].dialer : q \in {p} \cap Offered}
                \cup {e[1] : e \in {<<x, p>> : x \in Ends(p)}} = Ends(p)
           /\ {pipes[q].dialer : q \in {}}
                \cup {e[1] : e \in {<<x, p>> : x \in Ends(p)}} = Ends(p)
           /\ {pipes[q].dialer : q \in {p}}
                \cup {e[1] : e \in {<<pipes[p].acceptor, p>>}} = Ends(p)
           /\ \A x \in Ends(p) :
                {pipes[q].dialer : q \in {}}
                  \cup {e[1] : e \in {<<x, p>>, <<Counterpart(p, x), p>>}} = Ends(p)
<1>1. {e[1] : e \in {<<x, p>> : x \in Ends(p)}} = Ends(p)
  <2> DEFINE pairs == {<<x, p>> : x \in Ends(p)}
  <2>1. \A e \in pairs : e[1] \in Ends(p)
    OBVIOUS
  <2>2. \A x \in Ends(p) : <<x, p>> \in pairs /\ <<x, p>>[1] = x
    OBVIOUS
  <2> HIDE DEF pairs
  <2>3. \A x \in Ends(p) : x \in {e[1] : e \in pairs}
    BY <2>2
  <2>4. {e[1] : e \in pairs} = Ends(p)
    BY <2>1, <2>3
  <2> QED BY <2>4 DEF pairs
<1>2. {pipes[q].dialer : q \in {p} \cap Offered} \subseteq Ends(p)
  BY DEF Ends
<1>3. {pipes[q].dialer : q \in {}} = {}
  OBVIOUS
<1>4. {pipes[q].dialer : q \in {p}} = {pipes[p].dialer}
  OBVIOUS
<1>5. {e[1] : e \in {<<pipes[p].acceptor, p>>}} = {pipes[p].acceptor}
  OBVIOUS
<1>6. ASSUME NEW x \in Ends(p)
      PROVE  {e[1] : e \in {<<x, p>>, <<Counterpart(p, x), p>>}} = Ends(p)
  <2>1. {e[1] : e \in {<<x, p>>, <<Counterpart(p, x), p>>}} = {x, Counterpart(p, x)}
    OBVIOUS
  <2> QED BY <2>1 DEF Ends, Counterpart
<1> QED BY <1>1, <1>2, <1>3, <1>4, <1>5, <1>6 DEF Ends

(* Steps that end one Pipe. *)
LEMMA OwnedAfterEnd ==
    ASSUME IInv, NEW p \in Active, Remove({p}, {}),
           UNCHANGED <<resolving, opening, cancelling>>,
           \/ Notify({p} \cap Offered, {<<x, p>> : x \in Ends(p)})
           \/ Notify({}, {<<x, p>> : x \in Ends(p)})
           \/ Notify({p}, {<<pipes[p].acceptor, p>>})
           \/ \E x \in Ends(p) : Notify({}, {<<x, p>>, <<Counterpart(p, x), p>>})
    PROVE  OwnedOK'
<1>1. streams' = EndStreams(Ends(p) \cap Keys)
  <2>1. CASE Notify({p} \cap Offered, {<<x, p>> : x \in Ends(p)})
    BY <2>1, ToldEnds, NotifyEnds
  <2>2. CASE Notify({}, {<<x, p>> : x \in Ends(p)})
    BY <2>2, ToldEnds, NotifyEnds
  <2>3. CASE Notify({p}, {<<pipes[p].acceptor, p>>})
    BY <2>3, ToldEnds, NotifyEnds
  <2>4. ASSUME NEW x \in Ends(p), Notify({}, {<<x, p>>, <<Counterpart(p, x), p>>})
        PROVE  streams' = EndStreams(Ends(p) \cap Keys)
    BY <2>4, ToldEnds, NotifyEnds
  <2> QED BY <2>1, <2>2, <2>3, <2>4
<1>2. OwnedOK /\ TableTypes /\ DialsOK
  BY DEF IInv, StreamsOK, OwnedOK
<1> QED BY <1>1, <1>2, OwnedAfterDrop

(* The frames of sessions and the events of open streams. *)
LEMMA OwnedAfterFrames ==
    ASSUME IInv, NEW p \in PipeIds,
           \/ \E s \in Sessions : \/ Cancel(s, p)
                                  \/ OfferDelivered(s, p)
                                  \/ OfferDeliveryRejected(s, p)
                                  \/ OfferAccepted(s, p)
                                  \/ OfferRejected(s, p)
                                  \/ MisplacedData(s, p)
           \/ \E e \in Endpoints : RelayFin(e, p) \/ RelayEnd(e, p)
    PROVE  OwnedOK'
<1>0. OwnedOK /\ TableTypes /\ DialsOK /\ EffectTypes /\ EntriesOK
  BY DEF IInv, StreamsOK, OwnedOK
<1>1. CASE UNCHANGED <<table, streams, resolving, opening, cancelling>>
  BY <1>0, <1>1, OwnedSame
<1>2. ASSUME p \in Active, ProtocolReset(p),
             UNCHANGED <<resolving, opening, cancelling>>
      PROVE  OwnedOK'
  BY <1>2, OwnedAfterEnd DEF ProtocolReset
<1>3. ASSUME NEW s, p \in Offered, pipes[p].acceptor = s, Remove({p}, {}),
             Notify({p}, {<<s, p>>}), UNCHANGED <<resolving, opening, cancelling>>
      PROVE  OwnedOK'
  BY <1>3, OwnedAfterEnd DEF Offered
<1>4. ASSUME NEW s \in Sessions, Cancel(s, p)
      PROVE  OwnedOK'
  <2>1. CASE /\ p \in Active /\ Remove({p}, {})
             /\ Notify({p} \cap Offered, {<<e, p>> : e \in Ends(p)})
             /\ UNCHANGED <<resolving, opening, cancelling>>
    BY <2>1, OwnedAfterEnd
  <2>2. CASE p \in Attempts /\ CancelRemoteAttempt(p) /\ UNCHANGED <<resolving, opening>>
    <3> DEFINE K == {remote_open_attempts[p].key} \cap Keys
    <3>1. /\ Remove({}, {p}) /\ K \in SUBSET Keys
          /\ streams' = EndStreams({remote_open_attempts[p].key})
          /\ \A q \in cancelling' : q \in cancelling \/ q = p
      BY <2>2 DEF CancelRemoteAttempt
    <3>2. AttemptOK(p) /\ p \in Attempts
      BY <1>0, <2>2 DEF OwnedOK, AttemptsOK
    <3>3. /\ \A k \in Keys \ K : streams'[k] = streams[k]
          /\ \A k \in K : /\ streams'[k].pipe = streams[k].pipe
                          /\ streams'[k].phase \in {"ended", "cancelled"}
      BY <3>1, EndStreamsFacts
    <3>4. \A k \in K : streams[k].pipe = p
      BY <1>0, <3>2 DEF AttemptOK, Phase, TableTypes
    <3>5. \A k \in Keys \ K : streams[k].phase = "opening" =>
             /\ opening'[streams[k].pipe] = opening[streams[k].pipe]
             /\ streams[k].pipe = p => opening[p] = k
      BY <1>0, <2>2 DEF OwnedOK, StreamsAreOwned
    <3>6. \A q \in Attempts : q # p => /\ q \in resolving => q \in resolving'
                                       /\ opening'[q] = opening[q]
      BY <2>2
    <3> HIDE DEF K
    <3> QED BY <1>0, <3>1, <3>2, <3>3, <3>4, <3>5, <3>6, OwnedAfterFailure
  <2> QED BY <1>4, <2>1, <2>2 DEF Cancel
<1>5. ASSUME NEW s \in Sessions,
             OfferDelivered(s, p) \/ OfferDeliveryRejected(s, p) \/ OfferRejected(s, p)
                \/ MisplacedData(s, p)
      PROVE  OwnedOK'
  <2>1. CASE OfferDelivered(s, p)
    BY <1>1, <2>1 DEF OfferDelivered, ledger
  <2>2. CASE OfferDeliveryRejected(s, p)
    BY <1>1, <1>3, <2>2 DEF OfferDeliveryRejected, ledger
  <2>3. CASE OfferRejected(s, p)
    BY <1>2, <1>3, <2>3 DEF OfferRejected, OnPipe, effects
  <2>4. CASE MisplacedData(s, p)
    BY <1>2, <2>4 DEF MisplacedData, OnPipe, effects
  <2> QED BY <1>5, <2>1, <2>2, <2>3, <2>4
<1>6. ASSUME NEW s \in Sessions, OfferAccepted(s, p)
      PROVE  OwnedOK'
  <2>1. CASE p \in Opened /\ ProtocolReset(p)
    BY <1>2, <1>6, <2>1 DEF OfferAccepted, OnPipe, effects
  <2>2. CASE p \in Offered /\ Remove({p}, {}) /\ Notify({p}, {<<s, p>>})
    BY <1>3, <1>6, <2>2 DEF OfferAccepted, effects
  <2>3. CASE p \in Offered /\ Promote(p) /\ UNCHANGED streams
    <3>1. /\ Active' = Active /\ Attempts' = Attempts
          /\ \A q \in Active : Ends(q)' = Ends(q)
      <4>1. \A r \in PipeEntries : LET r2 == [r EXCEPT !.phase = "Open"] IN
               r2.dialer = r.dialer /\ r2.acceptor = r.acceptor
        BY DEF PipeEntries
      <4>2. p \in PipeIds /\ pipes[p] \in PipeEntries
        BY <1>0, <2>3 DEF TableTypes, Offered, Opened, Active
      <4>3. /\ Active' = Active /\ Attempts' = Attempts
            /\ pipes'[p] = [pipes[p] EXCEPT !.phase = "Open"]
            /\ \A q \in Active : q # p => pipes'[q] = pipes[q]
        BY <1>0, <2>3, AfterPromote
      <4>4. pipes'[p].dialer = pipes[p].dialer /\ pipes'[p].acceptor = pipes[p].acceptor
        BY <4>1, <4>2, <4>3
      <4> QED BY <4>3, <4>4 DEF Ends
    <3>2. UNCHANGED <<remote_open_attempts, resolving, opening, cancelling>>
      BY <1>6, <2>3 DEF Promote, OfferAccepted, effects
    <3> QED BY <1>0, <2>3, <3>1, <3>2, OwnedUnchanged
  <2>4. CASE /\ p \in Offered /\ Promote(p) /\ pipes[p].dialer \in Keys
             /\ streams' = [streams EXCEPT ![pipes[p].dialer].phase = "open"]
    <3>1. UNCHANGED <<resolving, opening, cancelling>>
      BY <1>6 DEF OfferAccepted, effects
    <3>2. PICK x \in Keys : x = pipes[p].dialer
      BY <2>4
    <3>3. streams' = [streams EXCEPT ![x].phase = "open"]
      BY <2>4, <3>2
    <3> QED BY <1>0, <2>4, <3>1, <3>2, <3>3, OwnedAfterPromote
  <2> QED BY <1>6, <2>1, <2>2, <2>3, <2>4 DEF OfferAccepted, TellOpened
<1>7. ASSUME NEW e \in Endpoints, RelayFin(e, p)
      PROVE  OwnedOK'
  <2>1. CASE p \in Offered /\ ProtocolReset(p)
    BY <1>2, <1>7, <2>1 DEF RelayFin, Offered, effects
  <2>2. CASE /\ p \in Opened /\ Remove({p}, {})
             /\ Notify({}, {<<x, p>> : x \in Ends(p)})
    BY <1>7, <2>2, OwnedAfterEnd DEF RelayFin, Opened, effects
  <2>3. CASE /\ p \in Opened
             /\ pipes' = [pipes EXCEPT ![p].finished = @ \cup {e}]
             /\ UNCHANGED <<peer_pipes, active_peer_opens, remote_open_attempts,
                            pending_offer_count, live_pipe_count,
                            originated_pipe_count, ledger>>
    <3>1. Finishes(p, e)
      BY <1>7, <2>3 DEF Finishes
    <3>2. /\ Active' = Active /\ Attempts' = Attempts
          /\ \A q \in Active : Ends(q)' = Ends(q)
      <4>1. \A r \in PipeEntries : LET r2 == [r EXCEPT !.finished = @ \cup {e}] IN
               r2.dialer = r.dialer /\ r2.acceptor = r.acceptor
        BY DEF PipeEntries
      <4>2. p \in PipeIds /\ pipes[p] \in PipeEntries
        BY <1>0, <2>3 DEF TableTypes, Offered, Opened, Active
      <4> QED BY <1>0, <2>3, <3>1, <4>1, <4>2, AfterFinish DEF Ends
    <3>3. UNCHANGED <<streams, remote_open_attempts, resolving, opening, cancelling>>
      BY <1>7, <2>3 DEF RelayFin, effects, ledger
    <3> QED BY <1>0, <3>2, <3>3, OwnedUnchanged
  <2> QED BY <1>7, <2>1, <2>2, <2>3 DEF RelayFin
<1>8. ASSUME NEW e \in Endpoints, RelayEnd(e, p)
      PROVE  OwnedOK'
  <2>1. CASE p \in Offered /\ ProtocolReset(p)
    BY <1>2, <1>8, <2>1 DEF RelayEnd, Offered, effects
  <2>2. CASE /\ p \in Opened /\ Remove({p}, {})
             /\ Notify({}, {<<e, p>>, <<Counterpart(p, e), p>>})
    <3>1. e \in Ends(p)
      BY <1>8 DEF RelayEnd, Sends, OnPipe, IInv, StreamsOK, PeerIndexesMatchPipes
    <3> QED BY <1>8, <2>2, <3>1, OwnedAfterEnd DEF RelayEnd, Opened, effects
  <2> QED BY <1>8, <2>1, <2>2 DEF RelayEnd
<1> QED BY <1>4, <1>5, <1>6, <1>7, <1>8

(* An OFFER to a session of ours has no peer end, so streams stay. *)
LEMMA OwnedAfterOffer ==
    ASSUME IInv, NEW p \in OwnPipeIds, p \notin Active, NEW b \in Bindings,
           by_id[b] # None, by_id[b].session # p.session, p.session \in sessions,
           NEW T \in SUBSET {p}, OfferLocal(p, b, T), p \in Attempts => NoStream(p),
           \A q \in Attempts : q # p /\ q \in resolving => q \in resolving',
           p \in Attempts => p \in T,
           UNCHANGED <<opening, cancelling>>
    PROVE  OwnedOK'
<1> DEFINE entry == [dialer |-> p.session, acceptor |-> by_id[b].session,
                     binding_id |-> b, phase |-> "Offered", finished |-> {}]
<1>0. OwnedOK /\ TableTypes /\ RegistryOK /\ AdmissionOK
  BY DEF IInv, StreamsOK, OwnedOK
<1>1. entry \in PipeEntries /\ EntryOK(p, entry)
  BY <1>0, LocalEntryOK
<1>2. {entry.dialer, entry.acceptor} \cap Keys = {}
  BY <1>0, IdentityAssumption DEF RegistryOK, AdmissionOK
<1>3. Insert(p, entry, T) /\ UNCHANGED streams
  BY DEF OfferLocal
<1>4. p \in PipeIds
  BY DEF OwnPipeIds, PipeIds
<1> HIDE DEF entry
<1>5. /\ Active' = Active \cup {p} /\ Attempts' = Attempts \ T
      /\ pipes'[p] = entry
      /\ \A q \in Active : q # p => pipes'[q] = pipes[q]
      /\ \A q \in Attempts' : remote_open_attempts'[q] = remote_open_attempts[q]
  BY <1>0, <1>1, <1>3, <1>4, AfterInsert
<1>6. /\ \A q \in Active : Ends(q)' = Ends(q)
      /\ \A q \in Active' \ Active : Ends(q)' \cap Keys = {}
  BY <1>2, <1>5 DEF Ends
<1>7. /\ Active \subseteq Active' /\ Attempts' \subseteq Attempts
      /\ \A q \in Attempts \ Attempts' : NoStream(q)
      /\ \A q \in Attempts' : /\ remote_open_attempts'[q] = remote_open_attempts[q]
                              /\ q \in resolving => q \in resolving'
      /\ cancelling' \subseteq cancelling
  BY <1>5
<1> QED BY <1>0, <1>3, <1>6, <1>7, OwnedUnchanged

(* DIAL. *)
LEMMA OwnedAfterDial ==
    ASSUME IInv, NEW s \in Sessions, Dial(s)
    PROVE  OwnedOK'
<1>0. /\ OwnedOK /\ TableTypes /\ DialsOK /\ AdmissionOK /\ RegistryOK /\ EffectsOK
  BY DEF IInv, StreamsOK, OwnedOK
<1>1. PICK p, d : p = PipeId(s, authorizing[s].conn) /\ d = authorizing[s].destination
  OBVIOUS
<1>2. /\ p \in OwnPipeIds /\ p \in PipeIds /\ p.session = s /\ s \in sessions
      /\ BeingAuthorized(p) /\ d \in Destinations
  BY <1>0, <1>1, DialFacts DEF Dial
<1>3. p \notin Active /\ p \notin Attempts
  BY <1>0, <1>2 DEF DialsOK, DialOK
<1>4. CASE UNCHANGED <<table, effects, streams>>
  BY <1>0, <1>4, OwnedSame DEF effects
<1>5. CASE /\ Eligible(d, s) # <<>> /\ OfferLocal(p, Selected(d, s), {})
           /\ UNCHANGED <<resolving, opening, cancelling>>
  <2>1. PICK b : b = Selected(d, s)
    OBVIOUS
  <2>2. b \in Bindings /\ by_id[b] # None /\ by_id[b].session # s
    BY <1>0, <1>2, <1>5, <2>1, SelectedIsBound DEF RegistryOK
  <2>3. OfferLocal(p, b, {}) /\ {} \in SUBSET {p}
    BY <1>5, <2>1
  <2> QED BY <1>2, <1>3, <1>5, <2>2, <2>3, OwnedAfterOffer
<1>6. CASE /\ ~DialRefused(s, d) /\ Eligible(d, s) = <<>>
           /\ remote_open_attempts' = [remote_open_attempts EXCEPT ![p] =
                 [destination |-> d, phase |-> "Resolving", key |-> None]]
           /\ resolving' = resolving \cup {p}
           /\ UNCHANGED <<pipes, peer_pipes, active_peer_opens,
                          pending_offer_count, live_pipe_count,
                          originated_pipe_count, opening, cancelling, streams>>
  <2>1. Begins(p, d)
    <3>1. Cardinality(Attempts) \in Nat
      BY FS_CardinalityType DEF IInv, CountsOK
    <3> QED BY <1>2, <1>3, <1>6, <3>1, LimitsAssumption DEF Begins, DialRefused
  <2>2. Fresh(p)
    BY <1>0, <1>2 DEF Fresh, AdmissionOK
  <2>3. p \notin cancelling /\ NoStream(p)
    BY <1>0, <1>2, <2>2 DEF EffectsOK
  <2> QED BY <1>0, <1>2, <1>6, <2>1, <2>3, OwnedAfterBegin
<1> QED BY <1>1, <1>4, <1>5, <1>6 DEF Dial, ledger

(* route_resolved and route_failed. *)
LEMMA OwnedAfterRoute ==
    ASSUME IInv, NEW p \in OwnPipeIds, RouteResolved(p)
    PROVE  OwnedOK'
<1>0. /\ OwnedOK /\ TableTypes /\ DialsOK /\ EffectTypes /\ EffectsOK /\ EntriesOK
  BY DEF IInv, StreamsOK, OwnedOK
<1>1. /\ p \in resolving /\ resolving' = resolving \ {p} /\ UNCHANGED cancelling
      /\ opening[p] = None /\ NoStream(p)
  BY <1>0 DEF RouteResolved, EffectsOK
<1>2. CASE Phase(p) = "None" /\ UNCHANGED <<table, opening, streams>>
  <2>1. p \notin Attempts
    BY <1>0, <1>2, NoneAssumption DEF Phase, TableTypes, Attempts, RemoteOpenAttempts
  <2> QED BY <1>0, <1>1, <1>2, <2>1, OwnedSame
<1>3. ASSUME NEW s \in Sessions \ {p.session}, NEW b \in Bindings,
             Phase(p) = "Resolving", OfferLocal(p, b, {p}), UNCHANGED opening,
             Exact(b, s, remote_open_attempts[p].destination)
      PROVE  OwnedOK'
  <2>1. p \in Attempts /\ p.session \in sessions
    BY <1>0, <1>3 DEF Phase, EntriesOK
  <2>2. p \notin Active
    BY <1>0, <2>1 DEF DialsOK, DialOK
  <2>3. by_id[b] # None /\ by_id[b].session # p.session
    <3>1. remote_open_attempts[p].destination \in Destinations
      BY <1>0, <2>1, NoneAssumption DEF TableTypes, Attempts, RemoteOpenAttempts
    <3> QED BY <1>3, <3>1, NoneAssumption DEF Exact, Registered
  <2>4. {p} \in SUBSET {p}
    OBVIOUS
  <2> QED BY <1>1, <1>3, <2>1, <2>2, <2>3, <2>4, OwnedAfterOffer
<1>4. CASE /\ Phase(p) = "Resolving"
           /\ remote_open_attempts' = [remote_open_attempts EXCEPT
                                          ![p].phase = "StartingPeer"]
           /\ opening' = [opening EXCEPT ![p] = "requested"]
           /\ UNCHANGED <<pipes, peer_pipes, active_peer_opens,
                          pending_offer_count, live_pipe_count,
                          originated_pipe_count, streams>>
  <2>1. Starts(p)
    BY <1>4 DEF Starts, Phase
  <2> QED BY <1>0, <1>1, <1>4, <2>1, OwnedAfterStart
<1>5. CASE Phase(p) = "Resolving" /\ FailAttempts({p}) /\ UNCHANGED <<opening, streams>>
  <2>1. p \in Attempts /\ Remove({}, {p}) /\ {} \in SUBSET Keys
    BY <1>5 DEF Phase, FailAttempts
  <2>2. /\ \A k \in Keys \ {} : streams'[k] = streams[k]
        /\ \A k \in Keys \ {} : streams[k].phase = "opening" =>
              /\ opening'[streams[k].pipe] = opening[streams[k].pipe]
              /\ streams[k].pipe = p => opening[p] = k
        /\ \A q \in Attempts : q # p => /\ q \in resolving => q \in resolving'
                                        /\ opening'[q] = opening[q]
        /\ \A q \in cancelling' : q \in cancelling \/ q = p
    BY <1>1, <1>5 DEF NoStream
  <2> QED BY <1>0, <2>1, <2>2, OwnedAfterFailure
<1> QED BY <1>2, <1>3, <1>4, <1>5 DEF RouteResolved, ledger

(* An attempt that is not there has no phase. *)
LEMMA NoPhase ==
    ASSUME TableTypes, NEW p \in OwnPipeIds
    PROVE  Phase(p) = "None" <=> p \notin Attempts
BY NoneAssumption DEF Phase, TableTypes, Attempts, RemoteOpenAttempts

(* The reply to an OPEN of ours, and its cancellation. *)
LEMMA OwnedAfterReply ==
    ASSUME IInv, NEW p \in OwnPipeIds,
           \/ \E k \in Keys : OpenCommits(p, k)
           \/ PeerOpenCommitted(p)
           \/ PeerOpenCommitFailed(p)
           \/ CancelPeerOpen(p)
    PROVE  OwnedOK'
<1>0. /\ OwnedOK /\ TableTypes /\ DialsOK /\ EffectTypes /\ EffectsOK
      /\ PeerIndexesMatchPipes /\ p \in PipeIds
  BY DEF IInv, StreamsOK, OwnedOK, OwnPipeIds, PipeIds
<1>1. ASSUME NEW k \in Keys, OpenCommits(p, k)
      PROVE  OwnedOK'
  <2>1. NoStream(p)
    BY <1>0, <1>1 DEF OpenCommits, EffectsOK
  <2> QED BY <1>0, <1>1, <2>1, OwnedAfterOpen DEF OpenCommits
<1>2. ASSUME PeerOpenCommitted(p)
      PROVE  OwnedOK'
  <2>1. PICK x \in Keys : x = opening[p]
    BY <1>2 DEF PeerOpenCommitted
  <2>2. /\ streams[x].pipe = p
        /\ \A k \in Keys : streams[k].pipe = p => k = x
        /\ opening' = [opening EXCEPT ![p] = None]
        /\ UNCHANGED <<resolving, cancelling>>
    BY <1>0, <1>2, <2>1 DEF EffectsOK, PeerOpenCommitted
  <2>3. \A q \in OwnPipeIds : q # p => opening'[q] = opening[q]
    BY <1>0, <2>2 DEF EffectTypes
  <2>4. CASE Phase(p) = "StartingPeer"
    <3>1. p \in Attempts
      BY <2>4 DEF Phase
    <3>2. Commits(p, x) /\ UNCHANGED streams
      BY <1>2, <2>1, <2>4, <3>1 DEF PeerOpenCommitted, Commits
    <3> QED BY <1>0, <2>1, <2>2, <2>4, <3>2, OwnedAfterCommit
  <2>5. CASE Phase(p) = "None"
    <3>1. p \notin Attempts /\ UNCHANGED table
      BY <1>0, <1>2, <2>5, NoPhase DEF PeerOpenCommitted
    <3>2. active_peer_opens[p] = x <=> p \in Active /\ x \in Ends(p)
      BY <1>0, <3>1 DEF PeerIndexesMatchPipes
    <3>3. \A q \in Attempts : q \in OwnPipeIds /\ q # p
      BY <3>1 DEF Attempts
    <3>4. Attempts' = Attempts /\ Active' = Active
      BY <3>1 DEF Attempts, Active, table
    <3>5. \A q \in Attempts : /\ q \in resolving => q \in resolving'
                              /\ opening'[q] = opening[q]
      BY <2>2, <2>3, <3>3
    <3>6. \A k \in Keys : streams[k].phase = "opening" => streams[k].pipe \in OwnPipeIds
      BY <1>0 DEF EffectTypes
    <3>7. CASE active_peer_opens[p] = x /\ UNCHANGED streams
      <4>1. streams[x].phase \in {"incoming", "open"}
        BY <1>0, <3>2, <3>7 DEF OwnedOK, KeyEndsOK
      <4>2. EndsStreams({}) /\ {} \in SUBSET Keys
        BY <3>7 DEF EndsStreams
      <4>3. \A k \in Keys \ {} : streams[k].phase = "opening" =>
               opening'[streams[k].pipe] = opening[streams[k].pipe]
        BY <2>2, <2>3, <3>6, <4>1
      <4> QED BY <1>0, <2>2, <3>1, <3>5, <4>2, <4>3, OwnedSameTable
    <3>8. CASE active_peer_opens[p] # x /\ streams' = EndStreams({x})
      <4>1. streams[x].phase \in {"incoming", "open"} => p \notin Active
        BY <1>0, <2>2, <3>2, <3>8 DEF OwnedOK, StreamsAreOwned
      <4>2. EndsStreams({x}) /\ {x} \in SUBSET Keys
        BY <2>2, <3>1, <3>4, <3>8, <4>1, EndStreamsFacts DEF EndsStreams
      <4>3. \A k \in Keys \ {x} : streams[k].phase = "opening" =>
               opening'[streams[k].pipe] = opening[streams[k].pipe]
        BY <2>2, <2>3, <3>6
      <4> QED BY <1>0, <2>2, <3>1, <3>5, <4>2, <4>3, OwnedSameTable
    <3> QED BY <1>2, <2>1, <2>5, <3>7, <3>8 DEF PeerOpenCommitted
  <2> QED BY <1>2, <2>4, <2>5 DEF PeerOpenCommitted
<1>3. ASSUME PeerOpenCommitFailed(p)
      PROVE  OwnedOK'
  <2>1. /\ NoStream(p) /\ opening' = [opening EXCEPT ![p] = None]
        /\ UNCHANGED <<streams, resolving, cancelling>>
    BY <1>0, <1>3 DEF PeerOpenCommitFailed, EffectsOK
  <2>2. /\ \A q \in OwnPipeIds : q # p => opening'[q] = opening[q]
        /\ \A k \in Keys \ {} : streams[k].phase = "opening" =>
              streams[k].pipe \in OwnPipeIds /\ streams[k].pipe # p
    BY <1>0, <2>1 DEF EffectTypes, NoStream
  <2>3. {} \in SUBSET Keys /\ EndsStreams({})
    BY <2>1 DEF EndsStreams
  <2>4. CASE Phase(p) = "StartingPeer" /\ FailAttempts({p})
    <3>1. p \in Attempts /\ Remove({}, {p})
      BY <2>4 DEF Phase, FailAttempts
    <3>2. /\ \A k \in Keys \ {} : streams'[k] = streams[k]
          /\ \A k \in Keys \ {} : streams[k].phase = "opening" =>
                /\ opening'[streams[k].pipe] = opening[streams[k].pipe]
                /\ streams[k].pipe = p => opening[p] = k
          /\ \A q \in Attempts : q # p => /\ q \in resolving => q \in resolving'
                                          /\ opening'[q] = opening[q]
          /\ \A q \in cancelling' : q \in cancelling \/ q = p
      BY <2>1, <2>2 DEF Attempts
    <3> QED BY <1>0, <2>3, <3>1, <3>2, OwnedAfterFailure
  <2>5. CASE Phase(p) = "None" /\ UNCHANGED table
    <3>1. p \notin Attempts
      BY <1>0, <2>5, NoPhase
    <3>2. \A q \in Attempts : /\ q \in resolving => q \in resolving'
                              /\ opening'[q] = opening[q]
      BY <2>1, <2>2, <3>1 DEF Attempts
    <3>3. \A k \in Keys \ {} : streams[k].phase = "opening" =>
             opening'[streams[k].pipe] = opening[streams[k].pipe]
      BY <2>2
    <3> QED BY <1>0, <2>1, <2>3, <2>5, <3>2, <3>3, OwnedSameTable
  <2> QED BY <1>3, <2>4, <2>5 DEF PeerOpenCommitFailed
<1>4. ASSUME CancelPeerOpen(p)
      PROVE  OwnedOK'
  <2>1. /\ UNCHANGED <<table, resolving, opening>> /\ cancelling' \subseteq cancelling
        /\ p \in cancelling
    BY <1>4 DEF CancelPeerOpen
  <2>2. CASE UNCHANGED streams
    BY <1>0, <2>1, <2>2, OwnedSame
  <2>3. CASE streams' = EndStreams({k \in Keys :
                            streams[k] = [phase |-> "opening", pipe |-> p]})
    <3> DEFINE K == {k \in Keys : streams[k] = [phase |-> "opening", pipe |-> p]}
    <3>1. \A k \in K : streams[k].phase = "opening" /\ streams[k].pipe = p
      OBVIOUS
    <3>2. p \notin Attempts /\ Attempts' = Attempts /\ K \in SUBSET Keys
      BY <1>0, <2>1 DEF OwnedOK, AttemptsOK, AttemptOK, Attempts, table
    <3> HIDE DEF K
    <3>3. streams' = EndStreams(K)
      BY <2>3 DEF K
    <3>4. EndsStreams(K)
      BY <3>1, <3>2, <3>3, EndStreamsFacts DEF EndsStreams
    <3> QED BY <1>0, <2>1, <3>2, <3>4, OwnedSameTable
  <2> QED BY <1>4, <2>2, <2>3 DEF CancelPeerOpen
<1> QED BY <1>1, <1>2, <1>3, <1>4

(* The answers of peers, and their own OPENs. *)
LEMMA OwnedAfterPeer ==
    ASSUME IInv, NEW x \in Keys,
           \/ PeerOpened(x) \/ PeerOpenFailed(x) \/ PeerReset(x)
           \/ \E p \in PeerPipeIds, s \in Sessions, b \in Bindings,
                 d \in Destinations : ReceivePeerOpen(x, p, s, b, d)
    PROVE  OwnedOK'
<1>0. /\ OwnedOK /\ TableTypes /\ DialsOK /\ EffectTypes /\ EffectsOK
      /\ PeerIndexesMatchPipes /\ EntriesOK
  BY DEF IInv, StreamsOK, OwnedOK
<1>1. PICK p : p = streams[x].pipe
  OBVIOUS
<1>2. ASSUME p \notin Attempts, UNCHANGED <<table, resolving, opening, cancelling>>,
             streams' = [streams EXCEPT ![x].phase = "ended"],
             streams[x].phase \in {"opening", "cancelled"}
      PROVE  OwnedOK'
  <2>1. /\ streams'[x].pipe = p /\ streams'[x].phase = "ended"
        /\ \A k \in Keys : k # x => streams'[k] = streams[k]
    BY <1>0, <1>1, <1>2 DEF EffectTypes
  <2>2. EndsStreams({x}) /\ {x} \in SUBSET Keys
    BY <1>1, <1>2, <2>1 DEF EndsStreams, Attempts, table
  <2> QED BY <1>0, <1>2, <2>2, OwnedSameTable
<1>3. ASSUME p \in Attempts, FailAttempts({p}), UNCHANGED <<resolving, opening, cancelling>>,
             streams' = [streams EXCEPT ![x].phase = "ended"]
      PROVE  OwnedOK'
  <2>1. /\ streams'[x].pipe = p /\ streams'[x].phase = "ended"
        /\ \A k \in Keys : k # x => streams'[k] = streams[k]
    BY <1>0, <1>1, <1>3 DEF EffectTypes
  <2>2. \A k \in Keys : streams[k].pipe = p => k = x
    BY <1>0, <1>1, <1>3 DEF EffectsOK, Attempts
  <2>3. /\ \A k \in Keys \ {x} : streams'[k] = streams[k]
        /\ \A k \in {x} : /\ streams'[k].pipe = streams[k].pipe
                          /\ streams'[k].phase \in {"ended", "cancelled"}
                          /\ streams[k].pipe = p
        /\ \A k \in Keys \ {x} : streams[k].phase = "opening" =>
              /\ opening'[streams[k].pipe] = opening[streams[k].pipe]
              /\ streams[k].pipe = p => opening[p] = k
        /\ \A q \in Attempts : q # p => /\ q \in resolving => q \in resolving'
                                        /\ opening'[q] = opening[q]
        /\ \A q \in cancelling' : q \in cancelling \/ q = p
    BY <1>1, <1>3, <2>1, <2>2
  <2>4. Remove({}, {p}) /\ {x} \in SUBSET Keys
    BY <1>3 DEF FailAttempts
  <2> QED BY <1>0, <1>3, <2>3, <2>4, OwnedAfterFailure
<1>4. ASSUME PeerOpened(x)
      PROVE  OwnedOK'
  <2> DEFINE entry == [dialer |-> p.session, acceptor |-> x, binding_id |-> None,
                       phase |-> "Open", finished |-> {}]
  <2>1. /\ streams[x].phase \in {"opening", "cancelled"}
        /\ UNCHANGED <<resolving, opening, cancelling>>
    BY <1>4 DEF PeerOpened, effects
  <2>2. CASE /\ p \in Attempts /\ Insert(p, entry, {p})
             /\ streams' = [streams EXCEPT ![x].phase = "open"]
    <3>1. p \in OwnPipeIds /\ p \in PipeIds /\ p \notin Active
      BY <1>0, <2>2 DEF Attempts, OwnPipeIds, PipeIds, DialsOK, DialOK
    <3>2. p.session \in Sessions /\ p.session \notin Keys
      BY <3>1, IdentityAssumption DEF OwnPipeIds
    <3>3. entry \in PipeEntries
      BY <3>2 DEF PipeEntries, Endpoints
    <3>4. \A k \in Keys : k \in {entry.dialer, entry.acceptor} <=> k = x
      BY <3>2
    <3>5. /\ streams'[x].pipe = p /\ streams'[x].phase = "open"
          /\ \A k \in Keys : k # x => streams'[k] = streams[k]
      BY <1>0, <1>1, <2>2 DEF EffectTypes
    <3>6. \A k \in Keys : streams[k].pipe = p => k = x
      BY <1>0, <1>1, <3>1 DEF EffectsOK
    <3>7. {p} \in SUBSET {p}
      OBVIOUS
    <3> HIDE DEF entry
    <3> QED BY <1>0, <1>1, <2>1, <2>2, <3>1, <3>3, <3>4, <3>5, <3>6, <3>7,
               OwnedAfterInsert
  <2>3. CASE p \notin Attempts /\ UNCHANGED table
             /\ streams' = [streams EXCEPT ![x].phase = "ended"]
    BY <1>2, <2>1, <2>3
  <2>4. CASE p \in Attempts /\ FailAttempts({p})
             /\ streams' = [streams EXCEPT ![x].phase = "ended"]
    BY <1>3, <2>1, <2>4
  <2> QED BY <1>1, <1>4, <2>2, <2>3, <2>4 DEF PeerOpened
<1>5. ASSUME PeerOpenFailed(x)
      PROVE  OwnedOK'
  BY <1>1, <1>2, <1>3, <1>5 DEF PeerOpenFailed, effects
<1>6. ASSUME PeerReset(x)
      PROVE  OwnedOK'
  <2>1. p \in Active /\ x \in Ends(p) /\ p \in PipeIds
    BY <1>0, <1>1, <1>6 DEF PeerReset, OwnedOK, StreamsAreOwned, Active
  <2>2. peer_pipes[x] = p
    BY <1>0, <2>1 DEF PeerIndexesMatchPipes
  <2> QED BY <1>6, <2>1, <2>2, OwnedAfterEnd DEF PeerReset, effects
<1>7. ASSUME NEW r \in PeerPipeIds, NEW s \in Sessions, NEW b \in Bindings,
             NEW d \in Destinations, ReceivePeerOpen(x, r, s, b, d)
      PROVE  OwnedOK'
  <2> DEFINE entry == [dialer |-> x, acceptor |-> s, binding_id |-> b,
                       phase |-> "Offered", finished |-> {}]
  <2>1. /\ streams[x].phase = "unused" /\ p = None
        /\ UNCHANGED <<resolving, opening, cancelling>>
        /\ r \in PipeIds /\ r \notin OwnPipeIds /\ r \notin Attempts
    BY <1>0, <1>1, <1>7, IdentityAssumption
       DEF ReceivePeerOpen, EffectTypes, PipeIds, PeerPipeIds, OwnPipeIds, Attempts
  <2>2. CASE /\ UNCHANGED table
             /\ streams' = [streams EXCEPT ![x] = [phase |-> "ended", pipe |-> r]]
    <3>1. /\ streams'[x].phase = "ended" /\ streams'[x].pipe = r
          /\ \A k \in Keys : k # x => streams'[k] = streams[k]
      BY <1>0, <2>2 DEF EffectTypes
    <3>2. None \notin Attempts /\ Attempts' = Attempts
      BY <2>2, NoneAssumption DEF Attempts, table, OwnPipeIds, PipeIds
    <3>3. EndsStreams({x}) /\ {x} \in SUBSET Keys
      BY <1>1, <2>1, <3>1, <3>2 DEF EndsStreams
    <3> QED BY <1>0, <2>1, <2>2, <3>3, OwnedSameTable
  <2>3. CASE /\ Insert(r, entry, {}) /\ active_peer_opens[r] = None
             /\ streams' = [streams EXCEPT ![x] = [phase |-> "incoming", pipe |-> r]]
    <3>1. /\ streams'[x].pipe = r /\ streams'[x].phase = "incoming"
          /\ \A k \in Keys : k # x => streams'[k] = streams[k]
      BY <1>0, <2>3 DEF EffectTypes
    <3>2. r \notin Active
      <4>1. SUFFICES ASSUME r \in Active PROVE FALSE
        OBVIOUS
      <4>2. pipes[r].dialer \in Keys
        BY <1>0, <2>1, <4>1 DEF EntriesOK, EntryOK
      <4>3. active_peer_opens[r] = pipes[r].dialer
        BY <1>0, <2>1, <4>1, <4>2 DEF PeerIndexesMatchPipes, Ends
      <4> QED BY <2>3, <4>2, <4>3, IdentityAssumption
    <3>3. /\ entry \in PipeEntries /\ {} \in SUBSET {r}
          /\ \A k \in Keys : k \in {entry.dialer, entry.acceptor} <=> k = x
      BY IdentityAssumption DEF PipeEntries, Endpoints
    <3>4. /\ streams[x].phase \notin {"incoming", "open"}
          /\ streams[x].pipe \in {r, None}
          /\ r \in {} \/ r \notin OwnPipeIds
          /\ r \in OwnPipeIds => \A k \in Keys : streams[k].pipe = r => k = x
          /\ streams'[x].phase \in {"incoming", "open"}
          /\ r \in PipeIds
      BY <1>1, <2>1, <3>1
    <3> HIDE DEF entry
    <3> QED BY <1>0, <2>1, <2>3, <3>1, <3>2, <3>3, <3>4, OwnedAfterInsert
  <2> QED BY <1>7, <2>2, <2>3 DEF ReceivePeerOpen
<1> QED BY <1>4, <1>5, <1>6, <1>7

(* Every step keeps an owner for every stream, and a stream or an effect    *)
(* for every attempt.                                                      *)
LEMMA OwnedStep ==
    ASSUME IInv, Next
    PROVE  OwnedOK'
<1>0. OwnedOK /\ TableTypes /\ RegistryTypes /\ EntriesOK
  BY DEF IInv, StreamsOK, OwnedOK, RegistryOK
<1>1. CASE UNCHANGED <<table, streams, resolving, opening, cancelling>>
  BY <1>0, <1>1, OwnedSame
<1>2. ASSUME NEW s \in Sessions,
             \/ AddSession(s) \/ AuthorizationFailed(s) \/ Publish(s)
             \/ \E d \in Destinations : PreparePublish(s, d)
             \/ \E c \in ConnIds, d \in Destinations : PrepareDial(s, c, d)
      PROVE  OwnedOK'
  BY <1>1, <1>2 DEF AddSession, AuthorizationFailed, Publish, PreparePublish,
                    PrepareDial, effects, ledger
<1>3. CASE BeginDraining
  BY <1>1, <1>3 DEF BeginDraining, effects, ledger
<1> QED BY <1>0, <1>2, <1>3, StepCases, OwnedAfterSessions, OwnedAfterUnpublish,
           OwnedAfterLoss, OwnedAfterFrames, OwnedAfterDial, OwnedAfterRoute,
           OwnedAfterReply, OwnedAfterPeer, Zenon

-----------------------------------------------------------------------------
(***************************************************************************)
(* The effects of an OPEN of our own.                                      *)
(***************************************************************************)

(* Streams keep the Pipe they were opened for. *)
StreamsKept ==
    /\ streams' \in [Keys -> [phase : StreamPhases, pipe : PipeIds \cup {None}]]
    /\ \A k \in Keys :
          /\ streams'[k].pipe = streams[k].pipe
          /\ streams'[k].phase = "unused" => streams[k].phase = "unused"
          /\ streams'[k].phase \in {"opening", "cancelled"} =>
                streams[k].phase \in {"opening", "cancelled"}

(* The stream k is opened for the Pipe p. *)
StreamOpened(k, p, phase) ==
    /\ streams[k].phase = "unused"
    /\ streams' = [streams EXCEPT ![k] = [phase |-> phase, pipe |-> p]]

(* Ending streams keeps their Pipes. *)
LEMMA KeptAfterEnd ==
    ASSUME EffectTypes, NEW K, streams' = EndStreams(K)
    PROVE  StreamsKept
BY DEF EffectTypes, EndStreams, StreamsKept, StreamPhases

(* So does an answer on one stream. *)
LEMMA KeptAfterPhase ==
    ASSUME EffectTypes, NEW k \in Keys, NEW phase \in {"open", "ended"},
           streams' = [streams EXCEPT ![k].phase = phase]
    PROVE  StreamsKept
BY DEF EffectTypes, StreamsKept, StreamPhases

(* And so does no step at all. *)
LEMMA KeptUnchanged ==
    ASSUME EffectTypes, UNCHANGED streams
    PROVE  StreamsKept
BY DEF EffectTypes, StreamsKept

(* Every action but the two that open a stream keeps them. *)
LEMMA StreamCases ==
    ASSUME IInv, Next
    PROVE  \/ StreamsKept
           \/ \E p \in OwnPipeIds, k \in Keys : OpenCommits(p, k)
           \/ \E k \in Keys, p \in PeerPipeIds, phase \in {"ended", "incoming"} :
                 StreamOpened(k, p, phase)
<1>0. EffectTypes /\ RegistryTypes /\ EntriesOK
  BY DEF IInv, RegistryOK
<1>1. ASSUME UNCHANGED streams
      PROVE  StreamsKept
  BY <1>0, <1>1, KeptUnchanged
<1>2. ASSUME NEW K, streams' = EndStreams(K)
      PROVE  StreamsKept
  BY <1>0, <1>2, KeptAfterEnd
<1>3. ASSUME NEW P, NEW told, Notify(P, told)
      PROVE  StreamsKept
  BY <1>2, <1>3 DEF Notify
<1>4. ASSUME NEW k \in Keys,
             \/ streams' = [streams EXCEPT ![k].phase = "open"]
             \/ streams' = [streams EXCEPT ![k].phase = "ended"]
      PROVE  StreamsKept
  BY <1>0, <1>4, KeptAfterPhase
<1>5. ASSUME NEW S, RemoveSessions(S)
      PROVE  StreamsKept
  BY <1>2, <1>5 DEF RemoveSessions
<1>6. ASSUME NEW s \in Sessions,
             \/ AddSession(s) \/ AuthorizationFailed(s) \/ Publish(s) \/ Dial(s)
             \/ \E d \in Destinations : PreparePublish(s, d)
             \/ \E c \in ConnIds, d \in Destinations : PrepareDial(s, c, d)
             \/ \E b \in Bindings : Unpublish(s, b)
      PROVE  StreamsKept
  BY <1>1, <1>3, <1>6
     DEF AddSession, AuthorizationFailed, Publish, Dial, PreparePublish, PrepareDial,
         Unpublish, CancelPendingBinding, OfferLocal, ledger
<1>7. ASSUME NEW s \in Sessions, NEW p \in PipeIds,
             \/ Cancel(s, p) \/ OfferDelivered(s, p) \/ OfferDeliveryRejected(s, p)
             \/ OfferAccepted(s, p) \/ OfferRejected(s, p) \/ MisplacedData(s, p)
      PROVE  StreamsKept
  <2>1. ASSUME TellOpened(p)
        PROVE  StreamsKept
    BY <1>1, <1>4, <2>1 DEF TellOpened
  <2> QED BY <1>1, <1>2, <1>3, <1>7, <2>1
     DEF Cancel, CancelRemoteAttempt, OfferDelivered, OfferDeliveryRejected,
         OfferAccepted, OfferRejected, MisplacedData, ProtocolReset, ledger
<1>8. ASSUME NEW e \in Endpoints, NEW p \in PipeIds, RelayFin(e, p) \/ RelayEnd(e, p)
      PROVE  StreamsKept
  BY <1>1, <1>3, <1>8 DEF RelayFin, RelayEnd, ProtocolReset, ledger
<1>9. ASSUME NEW p \in OwnPipeIds,
             \/ RouteResolved(p) \/ PeerOpenCommitted(p)
             \/ PeerOpenCommitFailed(p) \/ CancelPeerOpen(p)
      PROVE  StreamsKept
  BY <1>1, <1>2, <1>9 DEF RouteResolved, PeerOpenCommitted, PeerOpenCommitFailed,
                          CancelPeerOpen, OfferLocal, ledger
<1>10. ASSUME NEW k \in Keys, PeerOpened(k) \/ PeerOpenFailed(k) \/ PeerReset(k)
       PROVE  StreamsKept
  BY <1>3, <1>4, <1>10 DEF PeerOpened, PeerOpenFailed, PeerReset
<1>11. ASSUME NEW k \in Keys, NEW p \in PeerPipeIds, NEW s \in Sessions,
              NEW b \in Bindings, NEW d \in Destinations,
              ReceivePeerOpen(k, p, s, b, d)
       PROVE  \E phase \in {"ended", "incoming"} : StreamOpened(k, p, phase)
  BY <1>11 DEF ReceivePeerOpen, StreamOpened
<1>12. ASSUME NEW K \in SUBSET Keys, TransportLost(K)
       PROVE  StreamsKept
  BY <1>0, <1>12 DEF TransportLost, EffectTypes, StreamsKept, StreamPhases
<1>13. CASE BeginDraining
  BY <1>1, <1>13 DEF BeginDraining, ledger
<1> QED BY <1>0, <1>5, <1>6, <1>7, <1>8, <1>9, <1>10, <1>11, <1>12, <1>13,
           StepCases, Zenon

(* A DIAL whose remote OPEN can no longer begin stays so. *)
LEMMA FreshShrinks ==
    ASSUME IInv, Next, NEW p \in OwnPipeIds, Fresh(p)'
    PROVE  Fresh(p)
<1>0. /\ AdmissionOK /\ DialsOK /\ RegistryTypes /\ EntriesOK
      /\ p.session \in Sessions /\ p.conn \in ConnIds
  BY DEF IInv, RegistryOK, OwnPipeIds
<1>1. ASSUME ended \subseteq ended', authorizing'[p.session] \in {authorizing[p.session], None},
             dials'[p] = "unused" => dials[p] = "unused" \/ p.session \in ended'
      PROVE  Fresh(p)
  BY <1>1 DEF Fresh, BeingAuthorized, Authorizing
<1>2. ASSUME NEW P, dials' = Answered(P)
      PROVE  dials'[p] = "unused" => dials[p] = "unused"
  BY <1>2 DEF Answered
<1>3. ASSUME UNCHANGED <<ended, authorizing>>,
             UNCHANGED dials \/ \E P : dials' = Answered(P)
      PROVE  Fresh(p)
  BY <1>1, <1>2, <1>3
<1>4. ASSUME NEW S \in SUBSET sessions, RemoveSessions(S)
      PROVE  Fresh(p)
  <2>1. /\ ended' = ended \cup S
        /\ authorizing'[p.session] \in {authorizing[p.session], None}
        /\ p.session \notin S => \E P : dials'[p] = Answered(P)[p]
    BY <1>0, <1>4 DEF RemoveSessions
  <2>2. p.session \notin S => (dials'[p] = "unused" => dials[p] = "unused")
    BY <2>1 DEF Answered
  <2> QED BY <1>1, <2>1, <2>2
<1>5. ASSUME NEW s \in Sessions,
             \/ AddSession(s) \/ AuthorizationFailed(s) \/ Publish(s) \/ Dial(s)
             \/ \E d \in Destinations : PreparePublish(s, d)
             \/ \E b \in Bindings : Unpublish(s, b)
      PROVE  Fresh(p)
  <2>1. CASE AddSession(s) \/ \E b \in Bindings : Unpublish(s, b)
    BY <1>3, <2>1 DEF AddSession, Unpublish, CancelPendingBinding, Notify, ledger,
                      admission
  <2>2. CASE AuthorizationFailed(s) \/ Publish(s) \/ Dial(s)
    <3>1. /\ UNCHANGED ended
          /\ authorizing'[p.session] \in {authorizing[p.session], None}
      BY <1>0, <2>2 DEF AuthorizationFailed, Publish, Dial, AdmissionOK
    <3>2. UNCHANGED dials \/ \E P : dials' = Answered(P)
      BY <2>2 DEF AuthorizationFailed, Publish, Dial, OfferLocal, ledger
    <3> QED BY <1>1, <1>2, <3>1, <3>2
  <2>3. ASSUME NEW d \in Destinations, PreparePublish(s, d)
        PROVE  Fresh(p)
    <3>1. UNCHANGED <<ended, dials>>
      BY <2>3 DEF PreparePublish, ledger
    <3>2. BeingAuthorized(p)' => BeingAuthorized(p)
      <4>1. /\ authorizing'[s].kind = "Publish"
            /\ p.session # s => authorizing'[p.session] = authorizing[p.session]
        BY <1>0, <2>3 DEF PreparePublish, AdmissionOK
      <4> QED BY <4>1 DEF BeingAuthorized, Authorizing
    <3> QED BY <3>1, <3>2 DEF Fresh
  <2> QED BY <1>5, <2>1, <2>2, <2>3
<1>6. ASSUME NEW s \in Sessions, NEW c \in ConnIds, NEW d \in Destinations,
             PrepareDial(s, c, d)
      PROVE  Fresh(p)
  <2>1. CASE p = PipeId(s, c)
    <3>1. p.session = s /\ p.conn = c /\ c > highest_connection_id[s]
          /\ UNCHANGED ended
      BY <1>6, <2>1 DEF PipeId, PrepareDial
    <3>2. ~(c <= highest_connection_id[s])
      <4>1. c \in Nat /\ highest_connection_id[s] \in Nat
        <5>1. \A n \in ConnIds \cup {0} : n \in Nat
          BY IdentityAssumption
        <5> QED BY <1>0, <5>1 DEF AdmissionOK
      <4> QED BY <3>1, <4>1
    <3>3. dials[p] = "unused"
      BY <1>0, <3>1, <3>2 DEF DialsOK, DialOK
    <3> QED BY <3>1, <3>3 DEF Fresh
  <2>2. CASE p # PipeId(s, c)
    <3>1. dials'[p] = dials[p] /\ UNCHANGED ended
      BY <1>0, <1>6, <2>2 DEF PrepareDial, DialsOK
    <3>2. BeingAuthorized(p)' => BeingAuthorized(p)
      <4>1. p.session = s => p.conn # c
        BY <2>2 DEF PipeId, OwnPipeIds
      <4>2. /\ p.session # s => authorizing'[p.session] = authorizing[p.session]
            /\ authorizing'[s] = authorizing[s] \/ authorizing'[s].conn = c
        BY <1>0, <1>6 DEF PrepareDial, AdmissionOK
      <4> QED BY <4>1, <4>2 DEF BeingAuthorized, Authorizing
    <3> QED BY <3>1, <3>2 DEF Fresh
  <2> QED BY <2>1, <2>2
<1>7. ASSUME PipesOnly, UNCHANGED dials \/ \E P : dials' = Answered(P)
      PROVE  Fresh(p)
  BY <1>3, <1>7 DEF PipesOnly, admission
<1>8. ASSUME NEW s \in Sessions, NEW r \in PipeIds,
             \/ Cancel(s, r) \/ OfferDelivered(s, r) \/ OfferDeliveryRejected(s, r)
             \/ OfferAccepted(s, r) \/ OfferRejected(s, r) \/ MisplacedData(s, r)
      PROVE  Fresh(p)
  BY <1>7, <1>8
     DEF Cancel, CancelRemoteAttempt, OfferDelivered, OfferDeliveryRejected, TellOpened,
         OfferAccepted, OfferRejected, MisplacedData, ProtocolReset, Notify, ledger
<1>9. ASSUME NEW e \in Endpoints, NEW r \in PipeIds, RelayFin(e, r) \/ RelayEnd(e, r)
      PROVE  Fresh(p)
  BY <1>7, <1>9 DEF RelayFin, RelayEnd, ProtocolReset, Notify, ledger
<1>10. ASSUME NEW r \in OwnPipeIds,
              \/ RouteResolved(r) \/ PeerOpenCommitted(r) \/ PeerOpenCommitFailed(r)
              \/ CancelPeerOpen(r) \/ \E k \in Keys : OpenCommits(r, k)
       PROVE  Fresh(p)
  BY <1>7, <1>10 DEF RouteResolved, PeerOpenCommitted, PeerOpenCommitFailed,
                     CancelPeerOpen, OpenCommits, OfferLocal, FailAttempts, ledger
<1>11. ASSUME NEW k \in Keys,
              \/ PeerOpened(k) \/ PeerOpenFailed(k) \/ PeerReset(k)
              \/ \E r \in PeerPipeIds, s \in Sessions, b \in Bindings,
                    d \in Destinations : ReceivePeerOpen(k, r, s, b, d)
       PROVE  Fresh(p)
  BY <1>7, <1>11 DEF PeerOpened, PeerOpenFailed, PeerReset, ReceivePeerOpen,
                     FailAttempts, Notify
<1>12. ASSUME NEW K \in SUBSET Keys, TransportLost(K)
       PROVE  Fresh(p)
  BY <1>7, <1>12 DEF TransportLost
<1>13. CASE BeginDraining
  BY <1>3, <1>13 DEF BeginDraining, admission, ledger
<1> QED BY <1>0, <1>4, <1>5, <1>6, <1>8, <1>9, <1>10, <1>11, <1>12, <1>13,
           StepCases, Zenon

(* Effects end; a CancelPeerOpen that begins is for an OPEN that began. *)
EffectsShrink ==
    /\ resolving' \subseteq resolving
    /\ \A p \in OwnPipeIds : opening'[p] \in {opening[p], None}
    /\ opening' \in [OwnPipeIds -> Keys \cup {"requested", None}]
    /\ cancelling' \subseteq OwnPipeIds
    /\ \A p \in cancelling' : p \in cancelling \/ ~Fresh(p)'

(* A DIAL asks for a route. *)
AsksRoute(p) ==
    /\ Fresh(p)
    /\ ~Fresh(p)'
    /\ resolving' = resolving \cup {p}
    /\ UNCHANGED <<opening, cancelling, streams>>

(* A route answer asks for an OPEN. *)
AsksOpen(p) ==
    /\ p \in resolving
    /\ resolving' = resolving \ {p}
    /\ opening' = [opening EXCEPT ![p] = "requested"]
    /\ UNCHANGED <<cancelling, streams>>

(* What a step can do to the effects in flight. *)
LEMMA EffectCases ==
    ASSUME IInv, Next
    PROVE  \/ EffectsShrink
           \/ \E p \in OwnPipeIds : AsksRoute(p) \/ AsksOpen(p)
           \/ \E p \in OwnPipeIds, k \in Keys : OpenCommits(p, k)
<1>0. EffectTypes /\ RegistryTypes /\ EntriesOK /\ AdmissionOK /\ DialsOK
  BY DEF IInv, RegistryOK
<1>1. ASSUME UNCHANGED <<resolving, opening, cancelling>>
      PROVE  EffectsShrink
  BY <1>0, <1>1 DEF EffectsShrink, EffectTypes
<1>2. ASSUME NEW S \in SUBSET sessions, RemoveSessions(S)
      PROVE  EffectsShrink
  <2>1. /\ UNCHANGED <<resolving, opening>> /\ ended' = ended \cup S
        /\ \A p \in cancelling' : \/ p \in cancelling
                                  \/ p \in OwnPipeIds /\ p.session \in S
    BY <1>2 DEF RemoveSessions, Attempts
  <2> QED BY <1>0, <2>1 DEF EffectsShrink, EffectTypes, Fresh
<1>3. ASSUME NEW s \in Sessions,
             \/ AddSession(s) \/ AuthorizationFailed(s) \/ Publish(s)
             \/ \E d \in Destinations : PreparePublish(s, d)
             \/ \E c \in ConnIds, d \in Destinations : PrepareDial(s, c, d)
             \/ \E b \in Bindings : Unpublish(s, b)
      PROVE  EffectsShrink
  BY <1>1, <1>3 DEF AddSession, AuthorizationFailed, Publish, PreparePublish,
                    PrepareDial, Unpublish, effects
<1>4. ASSUME NEW s \in Sessions, Dial(s)
      PROVE  EffectsShrink \/ \E p \in OwnPipeIds : AsksRoute(p)
  <2>1. PICK p : p = PipeId(s, authorizing[s].conn)
    OBVIOUS
  <2>2. CASE UNCHANGED <<resolving, opening, cancelling>>
    BY <1>1, <2>2
  <2>3. CASE /\ resolving' = resolving \cup {p}
             /\ UNCHANGED <<opening, cancelling, ledger>>
    <3>1. p \in OwnPipeIds /\ p.session = s /\ s \in sessions /\ BeingAuthorized(p)
      BY <1>0, <1>4, <2>1, DialFacts DEF Dial
    <3>2. Fresh(p)
      BY <1>0, <3>1 DEF Fresh, AdmissionOK
    <3>3. dials[p] = "waiting"
      BY <1>0, <3>1 DEF DialsOK, DialOK
    <3>4. authorizing'[s] = None
      BY <1>0, <1>4 DEF Dial, AdmissionOK
    <3>5. ~Fresh(p)'
      BY <2>3, <3>1, <3>3, <3>4 DEF Fresh, BeingAuthorized, Authorizing, ledger
    <3> QED BY <2>3, <3>1, <3>2, <3>5 DEF AsksRoute, ledger
  <2> QED BY <1>4, <2>1, <2>2, <2>3 DEF Dial, effects
<1>5. ASSUME NEW s \in Sessions, NEW p \in PipeIds, Cancel(s, p)
      PROVE  EffectsShrink
  <2>1. CASE UNCHANGED <<resolving, opening, cancelling>>
    BY <1>1, <2>1
  <2>2. CASE p \in Attempts /\ CancelRemoteAttempt(p)
    <3>1. p \in OwnPipeIds /\ ~BeingAuthorized(p) /\ UNCHANGED authorizing
      BY <1>0, <1>5, <2>2 DEF Attempts, DialsOK, DialOK, Cancel, PipesOnly, admission
    <3>2. dials'[p] # "unused"
      BY <2>2, <3>1 DEF CancelRemoteAttempt, Answered
    <3>3. ~Fresh(p)'
      BY <3>1, <3>2 DEF Fresh, BeingAuthorized, Authorizing
    <3> QED BY <1>0, <1>5, <2>2, <3>1, <3>3
            DEF Cancel, CancelRemoteAttempt, EffectsShrink, EffectTypes
  <2> QED BY <1>5, <2>1, <2>2 DEF Cancel
<1>6. ASSUME NEW s \in Sessions, NEW p \in PipeIds,
             \/ OfferDelivered(s, p) \/ OfferDeliveryRejected(s, p)
             \/ OfferAccepted(s, p) \/ OfferRejected(s, p) \/ MisplacedData(s, p)
      PROVE  EffectsShrink
  BY <1>1, <1>6 DEF OfferDelivered, OfferDeliveryRejected, OfferAccepted,
                    OfferRejected, MisplacedData, effects
<1>7. ASSUME NEW e \in Endpoints, NEW p \in PipeIds, RelayFin(e, p) \/ RelayEnd(e, p)
      PROVE  EffectsShrink
  BY <1>1, <1>7 DEF RelayFin, RelayEnd, effects
<1>8. ASSUME NEW p \in OwnPipeIds, RouteResolved(p)
      PROVE  EffectsShrink \/ AsksOpen(p)
  <2>1. CASE UNCHANGED opening
    BY <1>0, <1>8, <2>1 DEF RouteResolved, EffectsShrink, EffectTypes
  <2>2. CASE opening' = [opening EXCEPT ![p] = "requested"] /\ UNCHANGED ledger
    BY <1>8, <2>2 DEF RouteResolved, AsksOpen, ledger
  <2> QED BY <1>8, <2>1, <2>2 DEF RouteResolved
<1>9. ASSUME NEW p \in OwnPipeIds, PeerOpenCommitted(p) \/ PeerOpenCommitFailed(p)
      PROVE  EffectsShrink
  <2>1. opening' = [opening EXCEPT ![p] = None] /\ UNCHANGED <<resolving, cancelling>>
    BY <1>9 DEF PeerOpenCommitted, PeerOpenCommitFailed
  <2> QED BY <1>0, <2>1 DEF EffectsShrink, EffectTypes
<1>10. ASSUME NEW p \in OwnPipeIds, CancelPeerOpen(p)
       PROVE  EffectsShrink
  BY <1>0, <1>10 DEF CancelPeerOpen, EffectsShrink, EffectTypes
<1>11. ASSUME NEW k \in Keys,
              \/ PeerOpened(k) \/ PeerOpenFailed(k) \/ PeerReset(k)
              \/ \E r \in PeerPipeIds, s \in Sessions, b \in Bindings,
                    d \in Destinations : ReceivePeerOpen(k, r, s, b, d)
       PROVE  EffectsShrink
  BY <1>1, <1>11 DEF PeerOpened, PeerOpenFailed, PeerReset, ReceivePeerOpen, effects
<1>12. ASSUME NEW K \in SUBSET Keys, TransportLost(K)
       PROVE  EffectsShrink
  BY <1>1, <1>12 DEF TransportLost, effects
<1>13. CASE BeginDraining
  BY <1>1, <1>13 DEF BeginDraining, effects
<1> QED BY <1>0, <1>2, <1>3, <1>4, <1>5, <1>6, <1>7, <1>8, <1>9, <1>10, <1>11,
           <1>12, <1>13, StepCases, Zenon

(* The effects of each OPEN follow each other, on one stream. *)
LEMMA EffectsStep ==
    ASSUME IInv, Next
    PROVE  EffectsOK'
<1>0. EffectsOK /\ EffectTypes
  BY DEF IInv, StreamsOK
<1>1. \A p \in OwnPipeIds : Fresh(p)' => Fresh(p)
  BY FreshShrinks
<1>2. None \notin Keys /\ None # "requested" /\ None \notin OwnPipeIds
  BY IdentityAssumption, NoneAssumption DEF OwnPipeIds, PipeIds
<1>3. ASSUME StreamsKept
      PROVE  /\ \A p \in OwnPipeIds : NoStream(p)' <=> NoStream(p)
             /\ \A j, k \in Keys :
                   streams'[j].pipe \in OwnPipeIds /\ streams'[j].pipe = streams'[k].pipe
                     => j = k
             /\ \A k \in Keys : streams'[k].pipe = streams[k].pipe
  BY <1>0, <1>3 DEF StreamsKept, NoStream, EffectsOK
<1>4. ASSUME NEW x \in Keys, NEW r \in PeerPipeIds, NEW phase, StreamOpened(x, r, phase)
      PROVE  /\ \A p \in OwnPipeIds : NoStream(p)' <=> NoStream(p)
             /\ \A j, k \in Keys :
                   streams'[j].pipe \in OwnPipeIds /\ streams'[j].pipe = streams'[k].pipe
                     => j = k
             /\ \A k \in Keys : k # x => streams'[k].pipe = streams[k].pipe
             /\ streams[x].pipe = None
  <2>1. r \notin OwnPipeIds
    BY IdentityAssumption DEF PeerPipeIds, OwnPipeIds
  <2>2. /\ streams'[x].pipe = r /\ streams[x].pipe = None
        /\ \A k \in Keys : k # x => streams'[k] = streams[k]
    BY <1>0, <1>4 DEF StreamOpened, EffectTypes
  <2> QED BY <1>0, <1>2, <2>1, <2>2 DEF NoStream, EffectsOK
<1>5. ASSUME \/ StreamsKept
             \/ \E x \in Keys, r \in PeerPipeIds, phase \in {"ended", "incoming"} :
                   StreamOpened(x, r, phase)
      PROVE  /\ \A p \in OwnPipeIds : NoStream(p)' <=> NoStream(p)
             /\ \A j, k \in Keys :
                   streams'[j].pipe \in OwnPipeIds /\ streams'[j].pipe = streams'[k].pipe
                     => j = k
             /\ \A k \in Keys : streams[k].pipe \in OwnPipeIds =>
                                    streams'[k].pipe = streams[k].pipe
  BY <1>2, <1>3, <1>4, <1>5
<1>6. ASSUME EffectsShrink,
             \/ StreamsKept
             \/ \E x \in Keys, r \in PeerPipeIds, phase \in {"ended", "incoming"} :
                   StreamOpened(x, r, phase)
      PROVE  EffectsOK'
  <2>1. ASSUME NEW p \in OwnPipeIds
        PROVE  /\ Fresh(p)' => /\ p \notin resolving'
                               /\ opening'[p] = None
                               /\ p \notin cancelling'
                               /\ NoStream(p)'
               /\ p \in resolving' => opening'[p] = None /\ NoStream(p)'
               /\ opening'[p] = "requested" => NoStream(p)'
               /\ opening'[p] \in Keys => streams'[opening'[p]].pipe = p
    BY <1>0, <1>1, <1>2, <1>5, <1>6 DEF EffectsOK, EffectsShrink
  <2> QED BY <1>5, <1>6, <2>1 DEF EffectsOK
<1>7. ASSUME UNCHANGED streams
      PROVE  \A p \in OwnPipeIds : NoStream(p)' <=> NoStream(p)
  BY <1>7 DEF NoStream
<1>8. ASSUME NEW q \in OwnPipeIds, AsksRoute(q)
      PROVE  EffectsOK'
  <2>1. ASSUME NEW p \in OwnPipeIds
        PROVE  /\ Fresh(p)' => /\ p \notin resolving'
                               /\ opening'[p] = None
                               /\ p \notin cancelling'
                               /\ NoStream(p)'
               /\ p \in resolving' => opening'[p] = None /\ NoStream(p)'
               /\ opening'[p] = "requested" => NoStream(p)'
               /\ opening'[p] \in Keys => streams'[opening'[p]].pipe = p
    BY <1>0, <1>1, <1>7, <1>8 DEF EffectsOK, AsksRoute
  <2> QED BY <1>0, <1>8, <2>1 DEF EffectsOK, AsksRoute
<1>9. ASSUME NEW q \in OwnPipeIds, AsksOpen(q)
      PROVE  EffectsOK'
  <2>0. /\ opening'[q] = "requested" /\ NoStream(q) /\ opening[q] = None
        /\ \A p \in OwnPipeIds : p # q => opening'[p] = opening[p]
        /\ "requested" \notin Keys
    BY <1>0, <1>9, NoneAssumption DEF EffectsOK, EffectTypes, AsksOpen
  <2>1. ASSUME NEW p \in OwnPipeIds
        PROVE  /\ Fresh(p)' => /\ p \notin resolving'
                               /\ opening'[p] = None
                               /\ p \notin cancelling'
                               /\ NoStream(p)'
               /\ p \in resolving' => opening'[p] = None /\ NoStream(p)'
               /\ opening'[p] = "requested" => NoStream(p)'
               /\ opening'[p] \in Keys => streams'[opening'[p]].pipe = p
    BY <1>0, <1>1, <1>7, <1>9, <2>0 DEF EffectsOK, AsksOpen
  <2> QED BY <1>0, <1>9, <2>1 DEF EffectsOK, AsksOpen
<1>10. ASSUME NEW q \in OwnPipeIds, NEW x \in Keys, OpenCommits(q, x)
       PROVE  EffectsOK'
  <2>0. /\ opening[q] = "requested" /\ opening'[q] = x /\ NoStream(q)
        /\ \A p \in OwnPipeIds : p # q => opening'[p] = opening[p]
        /\ streams'[x].pipe = q /\ streams[x].pipe = None
        /\ \A k \in Keys : k # x => streams'[k] = streams[k]
        /\ UNCHANGED <<resolving, cancelling>>
        /\ "requested" \notin Keys
    BY <1>0, <1>10, NoneAssumption DEF EffectsOK, EffectTypes, OpenCommits
  <2>1. \A p \in OwnPipeIds : p # q /\ NoStream(p) => NoStream(p)'
    BY <2>0 DEF NoStream
  <2>2. ASSUME NEW p \in OwnPipeIds
        PROVE  /\ Fresh(p)' => /\ p \notin resolving'
                               /\ opening'[p] = None
                               /\ p \notin cancelling'
                               /\ NoStream(p)'
               /\ p \in resolving' => opening'[p] = None /\ NoStream(p)'
               /\ opening'[p] = "requested" => NoStream(p)'
               /\ opening'[p] \in Keys => streams'[opening'[p]].pipe = p
    <3>1. CASE p = q
      BY <1>0, <1>1, <1>2, <2>0, <3>1 DEF EffectsOK
    <3>2. CASE p # q
      BY <1>0, <1>1, <1>2, <2>0, <2>1, <3>2 DEF EffectsOK
    <3> QED BY <3>1, <3>2
  <2>3. \A j, k \in Keys :
           streams'[j].pipe \in OwnPipeIds /\ streams'[j].pipe = streams'[k].pipe
             => j = k
    BY <1>0, <2>0 DEF EffectsOK, NoStream
  <2> QED BY <2>2, <2>3 DEF EffectsOK
<1> QED BY <1>6, <1>8, <1>9, <1>10, EffectCases, StreamCases, Zenon

(* OFFERs are sent to sessions of this Gateway. *)
LEMMA UndeliveredStep ==
    ASSUME IInv, Next
    PROVE  undelivered' \subseteq Sessions \X PipeIds
<1>0. /\ undelivered \subseteq Sessions \X PipeIds
      /\ RegistryTypes /\ EntriesOK /\ AdmissionOK /\ TableTypes
  BY DEF IInv, RegistryOK, EffectTypes
<1>1. ASSUME undelivered' \subseteq undelivered
      PROVE  undelivered' \subseteq Sessions \X PipeIds
  BY <1>0, <1>1
<1>2. ASSUME NEW s \in Sessions, NEW p \in PipeIds,
             undelivered' = undelivered \cup {<<s, p>>}
      PROVE  undelivered' \subseteq Sessions \X PipeIds
  BY <1>0, <1>2
<1>3. ASSUME NEW S, RemoveSessions(S)
      PROVE  undelivered' \subseteq Sessions \X PipeIds
  BY <1>1, <1>3 DEF RemoveSessions
<1>4. ASSUME NEW s \in Sessions,
             \/ AddSession(s) \/ AuthorizationFailed(s) \/ Publish(s)
             \/ \E d \in Destinations : PreparePublish(s, d)
             \/ \E c \in ConnIds, d \in Destinations : PrepareDial(s, c, d)
             \/ \E b \in Bindings : Unpublish(s, b)
      PROVE  undelivered' \subseteq Sessions \X PipeIds
  BY <1>1, <1>4 DEF AddSession, AuthorizationFailed, Publish, PreparePublish,
                    PrepareDial, Unpublish, effects
<1>5. ASSUME NEW p \in PipeIds, NEW b \in Bindings, NEW T, by_id[b] # None,
             OfferLocal(p, b, T)
      PROVE  undelivered' \subseteq Sessions \X PipeIds
  <2>1. by_id[b].session \in Sessions
    BY <1>0, <1>5 DEF RegistryTypes, Registered
  <2> QED BY <1>2, <1>5, <2>1 DEF OfferLocal
<1>6. ASSUME NEW s \in Sessions, Dial(s)
      PROVE  undelivered' \subseteq Sessions \X PipeIds
  <2> DEFINE d == authorizing[s].destination
             p == PipeId(s, authorizing[s].conn)
  <2>1. p \in PipeIds /\ d \in Destinations
    BY <1>0, <1>6, DialFacts DEF Dial
  <2> HIDE DEF p, d
  <2>2. ASSUME Eligible(d, s) # <<>>
        PROVE  Selected(d, s) \in Bindings /\ by_id[Selected(d, s)] # None
    BY <1>0, <2>1, <2>2, SelectedIsBound
  <2> QED BY <1>1, <1>5, <1>6, <2>1, <2>2 DEF Dial, effects, p, d
<1>7. ASSUME NEW s \in Sessions, NEW p \in PipeIds,
             \/ Cancel(s, p) \/ OfferDelivered(s, p) \/ OfferDeliveryRejected(s, p)
             \/ OfferAccepted(s, p) \/ OfferRejected(s, p) \/ MisplacedData(s, p)
      PROVE  undelivered' \subseteq Sessions \X PipeIds
  BY <1>1, <1>7 DEF Cancel, OfferDelivered, OfferDeliveryRejected, OfferAccepted,
                    OfferRejected, MisplacedData, effects
<1>8. ASSUME NEW e \in Endpoints, NEW p \in PipeIds, RelayFin(e, p) \/ RelayEnd(e, p)
      PROVE  undelivered' \subseteq Sessions \X PipeIds
  BY <1>1, <1>8 DEF RelayFin, RelayEnd, effects
<1>9. ASSUME NEW p \in OwnPipeIds, RouteResolved(p)
      PROVE  undelivered' \subseteq Sessions \X PipeIds
  <2>1. ASSUME NEW s \in Sessions, NEW b \in Bindings, Phase(p) = "Resolving",
               Exact(b, s, remote_open_attempts[p].destination), OfferLocal(p, b, {p})
        PROVE  undelivered' \subseteq Sessions \X PipeIds
    <3>1. p \in Attempts /\ p \in PipeIds
      BY <2>1 DEF Phase, OwnPipeIds, PipeIds
    <3>2. remote_open_attempts[p].destination \in Destinations
      BY <1>0, <3>1 DEF TableTypes, Attempts, RemoteOpenAttempts
    <3>3. by_id[b] # None
      BY <2>1, <3>2, NoneAssumption DEF Exact, Registered
    <3> QED BY <1>5, <2>1, <3>1, <3>3
  <2> QED BY <1>1, <1>9, <2>1 DEF RouteResolved
<1>10. ASSUME NEW p \in OwnPipeIds,
              \/ PeerOpenCommitted(p) \/ PeerOpenCommitFailed(p) \/ CancelPeerOpen(p)
              \/ \E k \in Keys : OpenCommits(p, k)
       PROVE  undelivered' \subseteq Sessions \X PipeIds
  BY <1>1, <1>10 DEF PeerOpenCommitted, PeerOpenCommitFailed, CancelPeerOpen, OpenCommits
<1>11. ASSUME NEW k \in Keys, PeerOpened(k) \/ PeerOpenFailed(k) \/ PeerReset(k)
       PROVE  undelivered' \subseteq Sessions \X PipeIds
  BY <1>1, <1>11 DEF PeerOpened, PeerOpenFailed, PeerReset, effects
<1>12. ASSUME NEW k \in Keys, NEW r \in PeerPipeIds, NEW s \in Sessions,
              NEW b \in Bindings, NEW d \in Destinations,
              ReceivePeerOpen(k, r, s, b, d)
       PROVE  undelivered' \subseteq Sessions \X PipeIds
  <2>1. r \in PipeIds
    BY DEF PeerPipeIds, PipeIds
  <2> QED BY <1>1, <1>2, <1>12, <2>1 DEF ReceivePeerOpen
<1>13. ASSUME NEW K \in SUBSET Keys, TransportLost(K)
       PROVE  undelivered' \subseteq Sessions \X PipeIds
  BY <1>1, <1>13 DEF TransportLost, effects
<1>14. CASE BeginDraining
  BY <1>1, <1>14 DEF BeginDraining, effects
<1> QED BY <1>0, <1>3, <1>4, <1>6, <1>7, <1>8, <1>9, <1>10, <1>11, <1>12, <1>13,
           <1>14, StepCases, Zenon

(* The effects and streams keep their types. *)
LEMMA EffectTypesStep ==
    ASSUME IInv, Next
    PROVE  EffectTypes'
<1>0. EffectTypes /\ EffectsOK
  BY DEF IInv, StreamsOK
<1>1. /\ resolving' \subseteq OwnPipeIds
      /\ opening' \in [OwnPipeIds -> Keys \cup {"requested", None}]
      /\ cancelling' \subseteq OwnPipeIds
  BY <1>0, EffectCases DEF EffectTypes, EffectsShrink, AsksRoute, AsksOpen, OpenCommits
<1>2. /\ streams' \in [Keys -> [phase : StreamPhases, pipe : PipeIds \cup {None}]]
      /\ \A k \in Keys :
            /\ streams'[k].phase = "unused" => streams'[k].pipe = None
            /\ streams'[k].phase \in {"opening", "cancelled"} =>
                  streams'[k].pipe \in OwnPipeIds
  <2>1. CASE StreamsKept
    BY <1>0, <2>1 DEF EffectTypes, StreamsKept
  <2>2. ASSUME NEW x \in Keys, NEW r \in PipeIds, NEW phase \in {"opening", "ended", "incoming"},
               streams' = [streams EXCEPT ![x] = [phase |-> phase, pipe |-> r]],
               phase = "opening" => r \in OwnPipeIds
        PROVE  /\ streams' \in [Keys -> [phase : StreamPhases, pipe : PipeIds \cup {None}]]
               /\ \A k \in Keys :
                     /\ streams'[k].phase = "unused" => streams'[k].pipe = None
                     /\ streams'[k].phase \in {"opening", "cancelled"} =>
                           streams'[k].pipe \in OwnPipeIds
    BY <1>0, <2>2 DEF EffectTypes, StreamPhases
  <2>3. OwnPipeIds \subseteq PipeIds /\ PeerPipeIds \subseteq PipeIds
    BY DEF OwnPipeIds, PeerPipeIds, PipeIds
  <2> QED BY <2>1, <2>2, <2>3, StreamCases DEF OpenCommits, StreamOpened
<1>3. undelivered' \subseteq Sessions \X PipeIds
  BY UndeliveredStep
<1> QED BY <1>1, <1>2, <1>3 DEF EffectTypes

-----------------------------------------------------------------------------
(***************************************************************************)
(* The inductive invariant.                                                *)
(***************************************************************************)
LEMMA InitIInv ==
    ASSUME Init
    PROVE  IInv
<1> USE DEF Init
<1>0. /\ \A b \in Bindings : by_id[b] = None
      /\ \A p \in PipeIds : pipes[p] = None
      /\ \A p \in OwnPipeIds : remote_open_attempts[p] = None
      /\ \A k \in Keys : peer_pipes[k] = None
      /\ \A p \in PipeIds : active_peer_opens[p] = None
  OBVIOUS
<1>1. Active = {} /\ Attempts = {} /\ Offered = {} /\ Opened = {} /\ Bound = {}
  BY <1>0 DEF Active, Attempts, Offered, Opened, Bound
<1>2. AdmissionOK
  BY DEF AdmissionOK
<1>3. RegistryOK
  <2>1. RegistryTypes
    BY LimitsAssumption DEF RegistryTypes
  <2>2. SessionIndexOK /\ OneBindingEach /\ PublicationMatchesRegistry
    BY DEF SessionIndexOK, OneBindingEach, PublicationMatchesRegistry
  <2>3. DestinationIndexOK
    <3>1. ASSUME NEW b \in Bindings, NEW d \in Destinations
          PROVE  Times(by_destination[d], b) = 0
      <4>1. by_destination[d] = <<>> /\ by_destination[d] \in Seq(Bindings)
        OBVIOUS
      <4>2. 1 .. Len(by_destination[d]) = {}
        BY <4>1
      <4> QED BY <4>1, <4>2, TimesIsPositive
    <3> QED BY <1>0, <3>1 DEF DestinationIndexOK
  <2> QED BY <1>0, <2>1, <2>2, <2>3 DEF RegistryOK
<1>4. TableTypes
  BY <1>1 DEF TableTypes
<1>5. EntriesOK
  BY <1>1 DEF EntriesOK
<1>6. HeldOK
  BY <1>1 DEF HeldOK, Knows
<1>7. DialsOK
  <2>1. ASSUME NEW p \in OwnPipeIds
        PROVE  ~BeingAuthorized(p)
    <3>1. authorizing[p.session] = None
      BY DEF OwnPipeIds
    <3> QED BY <3>1 DEF BeingAuthorized, Authorizing
  <2> QED BY <1>1, <2>1 DEF DialsOK, DialOK
<1>8. EffectTypes
  BY DEF EffectTypes, StreamPhases
<1>9. StreamsOK
  <2>0. None \notin PipeIds /\ None \notin Keys /\ None \notin OwnPipeIds
        /\ None # "requested"
    BY NoneAssumption, IdentityAssumption DEF PipeIds, OwnPipeIds
  <2>1. EffectsOK
    BY <2>0 DEF EffectsOK, NoStream
  <2>2. AttemptsOK /\ KeyEndsOK
    BY <1>1 DEF AttemptsOK, KeyEndsOK
  <2>3. StreamsAreOwned
    BY DEF StreamsAreOwned
  <2>4. PeerIndexesMatchPipes
    BY <1>0, <1>1, <2>0 DEF PeerIndexesMatchPipes
  <2> QED BY <2>1, <2>2, <2>3, <2>4 DEF StreamsOK
<1>10. CountsOK
  <2>1. IsFiniteSet({}) /\ Cardinality({}) = 0
    BY FS_EmptySet
  <2>2. {p \in Opened : pipes[p].dialer \in Sessions} = {}
    BY <1>1
  <2>3. CountersMatchPipes
    BY <1>1, <2>1, <2>2 DEF CountersMatchPipes
  <2>4. BindingCount = 0
    BY <1>1, <2>1 DEF BindingCount, Bound
  <2>5. LimitsHold
    BY <1>1, <2>1, <2>4, LimitsAssumption DEF LimitsHold
  <2> QED BY <1>1, <2>1, <2>3, <2>5 DEF CountsOK
<1> QED BY <1>2, <1>3, <1>4, <1>5, <1>6, <1>7, <1>8, <1>9, <1>10 DEF IInv

(* Every action keeps the invariant. *)
LEMMA NextIInv ==
    ASSUME IInv, Next
    PROVE  IInv'
<1>1. /\ AdmissionOK /\ RegistryOK /\ RegistryTypes /\ EntriesOK /\ TableTypes
      /\ DialsOK /\ PeerIndexesMatchPipes
  BY DEF IInv, RegistryOK, StreamsOK
<1>2. AdmissionOK' /\ RegistryOK'
  BY <1>1, AdmissionStep, RegistryStep
<1>3. TableTypes' /\ PeerIndexesMatchPipes'
  BY <1>1, TableCases, TableTypesStep, IndexesStep
<1>4. EntriesOK' /\ HeldOK' /\ DialsOK' /\ EffectTypes' /\ CountsOK'
  BY EntriesStep, HeldStep, DialsStep, EffectTypesStep, CountsStep
<1>5. StreamsOK'
  BY <1>3, EffectsStep, OwnedStep DEF StreamsOK, OwnedOK
<1> QED BY <1>2, <1>3, <1>4, <1>5 DEF IInv

(* And so does a stuttering step. *)
LEMMA StutterIInv ==
    ASSUME IInv, UNCHANGED vars
    PROVE  IInv'
<1> USE DEF IInv, vars, admission, registry, table, effects, ledger
<1>1. AdmissionOK'
  BY DEF AdmissionOK
<1>2. RegistryOK'
  BY DEF RegistryOK, RegistryTypes, SessionIndexOK, DestinationIndexOK, OneBindingEach,
         PublicationMatchesRegistry
<1>3. TableTypes'
  BY DEF TableTypes, Attempts
<1>4. EntriesOK'
  BY DEF EntriesOK, EntryOK, Active, Attempts
<1>5. HeldOK'
  BY DEF HeldOK, Knows, Active
<1>6. DialsOK'
  BY DEF DialsOK, DialOK, BeingAuthorized, Authorizing, Attempts, Offered, Opened, Active
<1>7. EffectTypes'
  BY DEF EffectTypes
<1>8. StreamsOK'
  <2>1. EffectsOK'
    BY DEF StreamsOK, EffectsOK, Fresh, NoStream, BeingAuthorized, Authorizing
  <2>2. AttemptsOK'
    BY DEF StreamsOK, AttemptsOK, AttemptOK, Phase, Attempts
  <2>3. KeyEndsOK' /\ StreamsAreOwned'
    BY DEF StreamsOK, KeyEndsOK, StreamsAreOwned, Ends, Active, Attempts
  <2>4. PeerIndexesMatchPipes'
    BY DEF StreamsOK, PeerIndexesMatchPipes, Ends, Active, Attempts
  <2> QED BY <2>1, <2>2, <2>3, <2>4 DEF StreamsOK
<1>9. CountsOK'
  BY DEF CountsOK, CountersMatchPipes, LimitsHold, Bound, BindingCount, Offered,
         Opened, Active, Attempts
<1> QED BY <1>1, <1>2, <1>3, <1>4, <1>5, <1>6, <1>7, <1>8, <1>9

(* The registry, the Pipe table, the attempts, the effects and the streams  *)
(* of a Gateway fit together in every state the handlers of state.rs       *)
(* reach, for any number of sessions, Pipes and peers and any limits.      *)
THEOREM Inductive == Spec => []IInv
<1>1. Init => IInv
  BY InitIInv
<1>2. IInv /\ [Next]_vars => IInv'
  BY NextIInv, StutterIInv
<1> QED BY <1>1, <1>2, PTL DEF Spec

-----------------------------------------------------------------------------
(***************************************************************************)
(* What the runs check, for every value of the constants.                  *)
(***************************************************************************)

(* The invariant implies what the runs check, one by one: the types, *)
LEMMA IInvTypes ==
    ASSUME IInv
    PROVE  TypeOK
<1>1. {pending_offer_count, live_pipe_count, originated_pipe_count} \subseteq Nat
  <2>1. IsFiniteSet(Offered) /\ IsFiniteSet(Opened)
        /\ IsFiniteSet({p \in Opened : pipes[p].dialer \in Sessions})
    <3>1. IsFiniteSet(Active)
      BY DEF IInv, CountsOK
    <3> QED BY <3>1, FS_Subset DEF Offered, Opened
  <2>2. /\ Cardinality(Offered) \in Nat /\ Cardinality(Opened) \in Nat
        /\ Cardinality({p \in Opened : pipes[p].dialer \in Sessions}) \in Nat
    BY <2>1, FS_CardinalityType
  <2> QED BY <2>2 DEF IInv, CountsOK, CountersMatchPipes
<1>2. dials \in [OwnPipeIds -> {"unused", "waiting", "answered", "repeated"}]
  BY DEF IInv, DialsOK
<1> QED BY <1>1, <1>2 DEF IInv, TypeOK, AdmissionOK, RegistryOK, RegistryTypes,
                          TableTypes, HeldOK, EffectTypes

(* the indexes of the registry, *)
LEMMA IInvRegistry ==
    ASSUME IInv
    PROVE  RegistryIndexesAgree
<1>0. RegistryTypes /\ SessionIndexOK /\ DestinationIndexOK /\ OneBindingEach
  BY DEF IInv, RegistryOK
<1>1. ASSUME NEW s \in Sessions, NEW d \in Destinations
      PROVE  Cardinality(BindingsOf(s, d)) <= 1
  <2>1. ASSUME NEW b \in BindingsOf(s, d), NEW c \in BindingsOf(s, d)
        PROVE  b = c
    <3>1. /\ b \in Bindings /\ c \in Bindings
          /\ by_id[b] \in Registered /\ by_id[c] \in Registered
          /\ by_id[b].session = s /\ by_id[c].session = s
          /\ by_id[b].destination = d /\ by_id[c].destination = d
          /\ by_id[b] # None
      BY <1>0 DEF BindingsOf, RegistryTypes, SessionIndexOK
    <3>2. by_id[b] = by_id[c]
      BY <3>1 DEF Registered
    <3> QED BY <1>0, <3>1, <3>2 DEF OneBindingEach
  <2>2. CASE BindingsOf(s, d) = {}
    BY <2>2, FS_EmptySet
  <2>3. CASE BindingsOf(s, d) # {}
    <3>1. PICK b : b \in BindingsOf(s, d)
      BY <2>3
    <3>2. BindingsOf(s, d) = {b}
      BY <2>1, <3>1
    <3> QED BY <3>2, FS_Singleton
  <2> QED BY <2>2, <2>3
<1>2. \A b \in Bindings, d \in Destinations :
         Cardinality({i \in 1 .. Len(by_destination[d]) : by_destination[d][i] = b})
           = IF by_id[b] # None /\ by_id[b].destination = d THEN 1 ELSE 0
  BY <1>0 DEF DestinationIndexOK, Times
<1> QED BY <1>0, <1>1, <1>2 DEF RegistryIndexesAgree, SessionIndexOK

(* the books of the Pipe table, *)
LEMMA IInvBooks ==
    ASSUME IInv
    PROVE  PipeBooksAgree
<1>1. AttemptsHaveEffects
  <2>1. ASSUME NEW p \in Attempts, Phase(p) = "AwaitingPeer"
        PROVE  streams[remote_open_attempts[p].key] = [phase |-> "opening", pipe |-> p]
    <3>1. PICK k : k = remote_open_attempts[p].key
      OBVIOUS
    <3>2. k \in Keys
      BY <2>1, <3>1 DEF IInv, TableTypes, Phase
    <3>3. streams[k].pipe = p /\ streams[k].phase = "opening"
      BY <2>1, <3>1, <3>2 DEF IInv, StreamsOK, AttemptsOK, AttemptOK
    <3>4. streams[k] \in [phase : StreamPhases, pipe : PipeIds \cup {None}]
      BY <3>2 DEF IInv, EffectTypes
    <3> QED BY <3>1, <3>3, <3>4
  <2>2. \A p \in Attempts : /\ Phase(p) = "Resolving" => p \in resolving
                            /\ Phase(p) = "StartingPeer" => opening[p] # None
    BY DEF IInv, StreamsOK, AttemptsOK, AttemptOK
  <2> QED BY <2>1, <2>2 DEF AttemptsHaveEffects
<1> QED BY <1>1, IInvTypes DEF IInv, StreamsOK, CountsOK, PipeBooksAgree

(* that nothing refers to an ended session, *)
LEMMA IInvLive ==
    ASSUME IInv
    PROVE  EndpointsAreLive
<1>1. \A p \in Active : EntryOK(p, pipes[p])
  BY DEF IInv, EntriesOK
<1>2. \A p \in Active : /\ Ends(p) \cap Sessions \subseteq sessions
                        /\ pipes[p].dialer # pipes[p].acceptor
  BY <1>1 DEF EntryOK, Ends
<1>3. \A p \in Offered : LET b == pipes[p].binding_id IN
         by_id[b] # None /\ by_id[b].session = pipes[p].acceptor
  BY <1>1 DEF EntryOK, Offered
<1> QED BY <1>2, <1>3 DEF EndpointsAreLive, IInv, EntriesOK, RegistryOK

(* that a waiting DIAL is in one stage, *)
LEMMA IInvOneAnswer ==
    ASSUME IInv
    PROVE  OneAnswerPerDial
<1>1. ASSUME NEW p \in OwnPipeIds
      PROVE  LET stages == {i \in 1 .. 3 : \/ i = 1 /\ BeingAuthorized(p)
                                           \/ i = 2 /\ p \in Attempts
                                           \/ i = 3 /\ p \in Offered} IN
             /\ dials[p] # "repeated"
             /\ Cardinality(stages) = IF dials[p] = "waiting" THEN 1 ELSE 0
  <2> DEFINE stages == {i \in 1 .. 3 : \/ i = 1 /\ BeingAuthorized(p)
                                       \/ i = 2 /\ p \in Attempts
                                       \/ i = 3 /\ p \in Offered}
  <2>1. DialOK(p) /\ Offered \subseteq Active
    BY DEF IInv, DialsOK, Offered
  <2>2. Cardinality(stages) = IF dials[p] = "waiting" THEN 1 ELSE 0
    <3>1. CASE dials[p] # "waiting"
      <4>1. stages = {}
        BY <2>1, <3>1 DEF DialOK
      <4> HIDE DEF stages
      <4> QED BY <3>1, <4>1, FS_EmptySet
    <3>2. CASE dials[p] = "waiting"
      <4>1. PICK i \in 1 .. 3 : stages = {i}
        <5>1. CASE BeingAuthorized(p)
          <6>1. stages = {1}
            BY <2>1, <5>1 DEF DialOK
          <6> QED BY <6>1
        <5>2. CASE p \in Attempts
          <6>1. stages = {2}
            BY <2>1, <5>2 DEF DialOK
          <6> QED BY <6>1
        <5>3. CASE p \in Offered
          <6>1. stages = {3}
            BY <2>1, <5>3 DEF DialOK
          <6> QED BY <6>1
        <5> QED BY <2>1, <3>2, <5>1, <5>2, <5>3 DEF DialOK
      <4> HIDE DEF stages
      <4> QED BY <3>2, <4>1, FS_Singleton
    <3> QED BY <3>1, <3>2
  <2>3. dials[p] # "repeated"
    BY <2>1 DEF DialOK
  <2> QED BY <2>2, <2>3
<1> QED BY <1>1 DEF OneAnswerPerDial

(* and that sessions know the Pipes they are an end of. *)
LEMMA IInvTold ==
    ASSUME IInv
    PROVE  EndpointsAreTold
<1> DEFINE told == {h \in Sessions \X Active :
                       \/ pipes[h[2]].acceptor = h[1]
                       \/ h[2] \in Opened /\ pipes[h[2]].dialer = h[1]}
<1>0. HeldOK /\ Active \subseteq PipeIds
  BY DEF IInv, Active
<1>1. ASSUME NEW s \in Sessions, NEW p \in PipeIds
      PROVE  <<s, p>> \in held <=> <<s, p>> \in told
  BY <1>0 DEF HeldOK, Knows, Opened
<1>2. held \subseteq Sessions \X PipeIds /\ told \subseteq Sessions \X PipeIds
  BY <1>0 DEF HeldOK
<1> HIDE DEF told
<1>3. held = told
  BY <1>1, <1>2
<1> QED BY <1>3 DEF EndpointsAreTold, told

(* A DIAL that was answered is not asked again: its connection id is used. *)
LEMMA AnsweredStays ==
    ASSUME IInv, Next, NEW p \in OwnPipeIds, dials[p] = "answered"
    PROVE  dials'[p] # "waiting"
<1>0. /\ AdmissionOK /\ DialsOK /\ RegistryTypes /\ EntriesOK
      /\ p.session \in Sessions /\ p.conn \in ConnIds
  BY DEF IInv, RegistryOK, OwnPipeIds
<1>1. ASSUME UNCHANGED dials \/ \E P : dials' = Answered(P)
      PROVE  dials'[p] # "waiting"
  BY <1>1 DEF Answered
<1>2. ASSUME NEW S \in SUBSET sessions, RemoveSessions(S)
      PROVE  dials'[p] # "waiting"
  <2>1. dials'[p] = "unused" \/ \E P : dials'[p] = Answered(P)[p]
    BY <1>2 DEF RemoveSessions
  <2> QED BY <2>1 DEF Answered
<1>3. ASSUME NEW s \in Sessions,
             \/ AddSession(s) \/ AuthorizationFailed(s) \/ Publish(s) \/ Dial(s)
             \/ \E d \in Destinations : PreparePublish(s, d)
             \/ \E b \in Bindings : Unpublish(s, b)
      PROVE  dials'[p] # "waiting"
  BY <1>1, <1>3 DEF AddSession, AuthorizationFailed, Publish, Dial, PreparePublish,
                    Unpublish, CancelPendingBinding, Notify, OfferLocal, ledger
<1>4. ASSUME NEW s \in Sessions, NEW c \in ConnIds, NEW d \in Destinations,
             PrepareDial(s, c, d)
      PROVE  dials'[p] # "waiting"
  <2>1. p # PipeId(s, c)
    <3>1. p.conn <= highest_connection_id[p.session] /\ c > highest_connection_id[s]
      BY <1>0, <1>4 DEF DialsOK, DialOK, PrepareDial
    <3>2. c \in Nat /\ highest_connection_id[s] \in Nat
      <4>1. \A n \in ConnIds \cup {0} : n \in Nat
        BY IdentityAssumption
      <4> QED BY <1>0, <4>1 DEF AdmissionOK
    <3>3. p = PipeId(s, c) => p.session = s /\ p.conn = c
      BY DEF PipeId
    <3> QED BY <3>1, <3>2, <3>3
  <2> QED BY <1>0, <1>4, <2>1 DEF PrepareDial, DialsOK
<1>5. ASSUME NEW s \in Sessions, NEW r \in PipeIds,
             \/ Cancel(s, r) \/ OfferDelivered(s, r) \/ OfferDeliveryRejected(s, r)
             \/ OfferAccepted(s, r) \/ OfferRejected(s, r) \/ MisplacedData(s, r)
      PROVE  dials'[p] # "waiting"
  BY <1>1, <1>5
     DEF Cancel, CancelRemoteAttempt, OfferDelivered, OfferDeliveryRejected, TellOpened,
         OfferAccepted, OfferRejected, MisplacedData, ProtocolReset, Notify, ledger
<1>6. ASSUME NEW e \in Endpoints, NEW r \in PipeIds, RelayFin(e, r) \/ RelayEnd(e, r)
      PROVE  dials'[p] # "waiting"
  BY <1>1, <1>6 DEF RelayFin, RelayEnd, ProtocolReset, Notify, ledger
<1>7. ASSUME NEW r \in OwnPipeIds,
             \/ RouteResolved(r) \/ PeerOpenCommitted(r) \/ PeerOpenCommitFailed(r)
             \/ CancelPeerOpen(r) \/ \E k \in Keys : OpenCommits(r, k)
      PROVE  dials'[p] # "waiting"
  BY <1>1, <1>7 DEF RouteResolved, PeerOpenCommitted, PeerOpenCommitFailed,
                    CancelPeerOpen, OpenCommits, OfferLocal, FailAttempts, ledger
<1>8. ASSUME NEW k \in Keys,
             \/ PeerOpened(k) \/ PeerOpenFailed(k) \/ PeerReset(k)
             \/ \E r \in PeerPipeIds, s \in Sessions, b \in Bindings,
                   d \in Destinations : ReceivePeerOpen(k, r, s, b, d)
      PROVE  dials'[p] # "waiting"
  BY <1>1, <1>8 DEF PeerOpened, PeerOpenFailed, PeerReset, ReceivePeerOpen,
                    FailAttempts, Notify
<1>9. ASSUME NEW K \in SUBSET Keys, TransportLost(K)
      PROVE  dials'[p] # "waiting"
  BY <1>1, <1>9 DEF TransportLost
<1>10. CASE BeginDraining
  BY <1>1, <1>10 DEF BeginDraining, ledger
<1> QED BY <1>0, <1>2, <1>3, <1>4, <1>5, <1>6, <1>7, <1>8, <1>9, <1>10,
           StepCases, Zenon

(* A Pipe that was no attempt is new only as an OFFER. *)
LEMMA NewPipesAreOffers ==
    ASSUME IInv, Next, NEW p \in OwnPipeIds, p \notin Active, p \notin Attempts
    PROVE  p \in Active' => p \in Offered'
<1>0. TableTypes /\ TableStep
  BY TableCases DEF IInv
<1>1. CASE UNCHANGED table
  BY <1>1 DEF table, Active
<1>2. ASSUME NEW R \in SUBSET Active, NEW T \in SUBSET Attempts, Remove(R, T)
      PROVE  p \in Active' => p \in Offered'
  BY <1>0, <1>2, AfterRemove
<1>3. ASSUME NEW q \in PipeIds, NEW entry \in PipeEntries, Admits(q, entry)
      PROVE  p \in Active' => p \in Offered'
  <2>1. /\ Active' = Active \cup {q} /\ pipes'[q] = entry /\ entry.phase = "Offered"
    BY <1>0, <1>3, AfterInsert DEF Admits
  <2> QED BY <2>1 DEF Offered
<1>4. ASSUME NEW q \in PipeIds, NEW entry \in PipeEntries, Settles(q, entry)
      PROVE  p \in Active' => p \in Offered'
  <2>1. Active' = Active \cup {q} /\ q \in Attempts
    BY <1>0, <1>4, AfterInsert DEF Settles
  <2> QED BY <2>1
<1>5. ASSUME NEW q \in PipeIds, Promotes(q)
      PROVE  p \in Active' => p \in Offered'
  BY <1>0, <1>5, AfterPromote DEF Promotes
<1>6. ASSUME NEW q \in PipeIds, NEW e \in Endpoints, Finishes(q, e)
      PROVE  p \in Active' => p \in Offered'
  <2>1. Active' = Active
    BY <1>0, <1>6, AfterFinish DEF Finishes
  <2> QED BY <2>1
<1>7. ASSUME UNCHANGED pipes
      PROVE  p \in Active' => p \in Offered'
  BY <1>7 DEF Active
<1> QED BY <1>0, <1>1, <1>2, <1>3, <1>4, <1>5, <1>6, <1>7
        DEF TableStep, Begins, Starts, Commits

(* An answered DIAL whose Pipe is gone starts nothing. *)
LEMMA StaysEnded ==
    ASSUME IInv, Next, NEW p \in OwnPipeIds,
           dials[p] \in {"answered", "repeated"}, p \notin Active
    PROVE  p \notin Active' \cup Attempts'
<1>1. DialOK(p) /\ DialsOK'
  BY DialsStep DEF IInv, DialsOK
<1>2. dials[p] = "answered" /\ p \notin Attempts
  BY <1>1 DEF DialOK
<1>3. dials'[p] # "waiting"
  BY <1>2, AnsweredStays
<1>4. p \notin Offered' /\ p \notin Attempts'
  BY <1>1, <1>3 DEF DialsOK, DialOK
<1> QED BY <1>2, <1>4, NewPipesAreOffers

(* A Gateway that drains takes on no work. *)
LEMMA DrainShrinks ==
    ASSUME IInv, Next, draining
    PROVE  pending_offer_count' + live_pipe_count' + Cardinality(Attempts')
             <= pending_offer_count + live_pipe_count + Cardinality(Attempts)
<1>1. Pending' <= Pending
  BY TableCases, TableCountsStep DEF IInv, CountsOK, LimitsHold, TableCountsOK
<1>2. CountersMatchPipes /\ CountersMatchPipes'
  BY CountsStep DEF IInv, CountsOK
<1> QED BY <1>1, <1>2 DEF CountersMatchPipes, Pending

(* The three indexes of LocalRegistry (registry.rs) agree, and a session    *)
(* holds at most one binding per Destination, whatever sessions publish,   *)
(* withdraw and leave behind.                                              *)
THEOREM RegistryIsConsistent == Spec => []RegistryIndexesAgree
<1>1. IInv => RegistryIndexesAgree
  BY IInvRegistry
<1> QED BY <1>1, Inductive, PTL

(* The counters, peer indexes, streams, effects and limits of state.rs      *)
(* agree with the Pipe table through late, lost and refused effects.       *)
THEOREM BooksAreConsistent == Spec => []PipeBooksAgree
<1>1. IInv => PipeBooksAgree
  BY IInvBooks
<1> QED BY <1>1, Inductive, PTL

(* No Pipe, attempt, binding or OFFER outlives the sessions it refers to    *)
(* (remove_session).                                                       *)
THEOREM NothingDangles == Spec => []EndpointsAreLive
<1>1. IInv => EndpointsAreLive
  BY IInvLive
<1> QED BY <1>1, Inductive, PTL

(* However the answers of routing, peers and acceptors interleave with      *)
(* CANCEL and session loss, a DIAL is answered at most once, and while it  *)
(* waits exactly one stage is responsible for it.                          *)
THEOREM DialsAreAnsweredOnce == Spec => []OneAnswerPerDial
<1>1. IInv => OneAnswerPerDial
  BY IInvOneAnswer
<1> QED BY <1>1, Inductive, PTL

(* A session is told the end of exactly the Pipes it was told of: no path   *)
(* of state.rs drops a Pipe silently or reports an end twice.              *)
THEOREM EndsAreReported == Spec => []EndpointsAreTold
<1>1. IInv => EndpointsAreTold
  BY IInvTold
<1> QED BY <1>1, Inductive, PTL

(* Every change of a session's bindings reaches routing with it, and        *)
(* draining withdraws them all (registration_publication).                 *)
THEOREM RoutingIsTold == Spec => []PublicationMatchesRegistry
<1>1. IInv => PublicationMatchesRegistry
  BY DEF IInv, RegistryOK
<1> QED BY <1>1, Inductive, PTL

(* No late route answer, OPEN reply, OPENED or peer OPEN brings back a DIAL *)
(* that was answered and ended, or adds work to a Gateway that drains.     *)
THEOREM LateResultsReviveNothing == Spec => NothingRevives
<1>1. IInv /\ [Next]_vars =>
         [\A p \in OwnPipeIds :
             dials[p] \in {"answered", "repeated"} /\ p \notin Active =>
                 p \notin Active' \cup Attempts']_vars
  BY StaysEnded
<1>2. IInv /\ [Next]_vars =>
         [draining => pending_offer_count' + live_pipe_count' + Cardinality(Attempts')
                        <= pending_offer_count + live_pipe_count
                           + Cardinality(Attempts)]_vars
  BY DrainShrinks
<1> QED BY <1>1, <1>2, Inductive, PTL
        DEF Spec, NothingRevives, EndedDialsStayEnded, DrainOnlyShrinks

=============================================================================
