----------------------- MODULE RouteTableShardProofs -----------------------
(***************************************************************************)
(* The indexes of a RouteTable shard stay coherent for every set of        *)
(* Gateways, sessions, bindings, destinations and leases, every TTL and    *)
(* every bound of the model.                                               *)
(*                                                                         *)
(* Every request is a purge followed by dropping a registration, adding    *)
(* one or both, so the invariant is stated on values (R the registrations, *)
(* D the destination index, L the active leases, E the expiry index) and   *)
(* one lemma per part says that dropping keys, or adding one, keeps it.    *)
(***************************************************************************)
EXTENDS RouteTableShard, FiniteSetTheorems, TLAPS

Held(R) == {k \in Keys : R[k] # None}

RegistrationsOK(R) ==
    /\ R \in [Keys -> Registrations \cup {None}]
    /\ \A k \in Held(R) :
          /\ k.shard = ThisShard
          /\ \A p \in R[k].bindings :
                /\ p.identity.gateway = k.gateway
                /\ p.identity.session = k.session
                /\ Authority[p.destination] = ThisShard
          /\ (R[k].revision = 0) <=> (R[k].bindings = {})

DestinationsOK(R, D) ==
    /\ DOMAIN D \subseteq Destinations
    /\ D \in [DOMAIN D -> SUBSET Projections]
    /\ \A d \in DOMAIN D, p \in Projections :
          p \in D[d] <=> p.destination = d /\ \E k \in Held(R) : p \in R[k].bindings
    /\ \A k \in Held(R) : \A p \in R[k].bindings : p.destination \in DOMAIN D
    /\ \A d \in DOMAIN D : D[d] # {}

LeasesOK(R, L) ==
    /\ L = {R[k].lease : k \in Held(R)}
    /\ \A k, l \in Held(R) : R[k].lease = R[l].lease => k = l

ExpiryOK(R, E) ==
    /\ DOMAIN E \subseteq Nat
    /\ E \in [DOMAIN E -> SUBSET ExpiryKeys]
    /\ \A t \in DOMAIN E, e \in ExpiryKeys :
          e \in E[t] <=> /\ R[e.key] # None
                         /\ R[e.key].lease = e.lease
                         /\ R[e.key].deadline = t
    /\ \A k \in Held(R) : R[k].deadline \in DOMAIN E
    /\ \A t \in DOMAIN E : E[t] # {}

(***************************************************************************)
(* The registrations left when those of the keys in K are dropped.         *)
(***************************************************************************)
Without(R, K) == [k \in Keys |-> IF k \in K THEN None ELSE R[k]]

BindingsOf(R, K) == UNION {R[k].bindings : k \in K}

-----------------------------------------------------------------------------
(* Keys and identities are records: equal fields make equal values. *)
LEMMA KeysAreRecords ==
    ASSUME NEW k \in Keys, NEW l \in Keys,
           k.gateway = l.gateway, k.session = l.session, k.shard = l.shard
    PROVE  k = l
BY DEF Keys

(* Dropping keys leaves well-formed registrations. *)
LEMMA DropRegistrations ==
    ASSUME NEW R, NEW K, RegistrationsOK(R)
    PROVE  /\ RegistrationsOK(Without(R, K))
           /\ Held(Without(R, K)) = Held(R) \ K
BY NoneAssumption DEF RegistrationsOK, Without, Held

(* Adding one registration leaves well-formed registrations. *)
LEMMA AddRegistration ==
    ASSUME NEW R, RegistrationsOK(R), NEW key \in Keys, NEW r \in Registrations,
           key.shard = ThisShard,
           \A p \in r.bindings : /\ p.identity.gateway = key.gateway
                                 /\ p.identity.session = key.session
                                 /\ Authority[p.destination] = ThisShard,
           (r.revision = 0) <=> (r.bindings = {})
    PROVE  /\ RegistrationsOK([R EXCEPT ![key] = r])
           /\ Held([R EXCEPT ![key] = r]) = Held(R) \cup {key}
BY NoneAssumption DEF RegistrationsOK, Held

-----------------------------------------------------------------------------
(* Taking the bindings of dropped registrations out of the destination     *)
(* index leaves exactly those of the others: scopes keep them apart.       *)
LEMMA DropDestinations ==
    ASSUME NEW R, NEW D, NEW K \in SUBSET Held(R),
           RegistrationsOK(R), DestinationsOK(R, D)
    PROVE  DestinationsOK(Without(R, K), RemoveBindings(D, BindingsOf(R, K)))
<1> DEFINE B == BindingsOf(R, K)
           rest == [d \in DOMAIN D |->
                      {q \in D[d] : \A p \in B : p.destination = d => p.identity # q.identity}]
           keep == {e \in DOMAIN D : rest[e] # {} \/ \A p \in B : p.destination # e}
           D2 == RemoveBindings(D, B)
<1>1. D2 = [d \in keep |-> rest[d]]
  BY DEF RemoveBindings
<1>2. DOMAIN D2 = keep /\ \A d \in keep : D2[d] = rest[d]
  BY <1>1
<1>3. ASSUME NEW d \in DOMAIN D, NEW q \in D[d]
      PROVE  q \in rest[d] <=> \E k \in Held(R) \ K : q \in R[k].bindings
  <2>1. q \in Projections /\ q.destination = d
    BY <1>3 DEF DestinationsOK
  <2>2. PICK k \in Held(R) : q \in R[k].bindings
    BY <1>3, <2>1 DEF DestinationsOK
  <2>3. \A l \in Held(R) : q \in R[l].bindings => l = k
    BY <2>2, KeysAreRecords DEF RegistrationsOK, Held
  <2>4. \A l \in K : \A p \in R[l].bindings : p.identity = q.identity => l = k
    BY <2>2, KeysAreRecords DEF RegistrationsOK, Held
  <2>5. CASE k \in K
    <3>1. q \in B
      BY <2>2, <2>5 DEF BindingsOf
    <3>2. q \notin rest[d]
      BY <2>1, <3>1
    <3> QED BY <2>3, <2>5, <3>2
  <2>6. CASE k \notin K
    <3>1. \A p \in B : p.identity # q.identity
      BY <2>4, <2>6 DEF BindingsOf
    <3> QED BY <2>2, <2>6, <3>1
  <2> QED BY <2>5, <2>6
<1>4. \A d \in DOMAIN D : rest[d] \subseteq D[d]
  OBVIOUS
<1>5. \A d \in keep : rest[d] # {}
  <2> TAKE d \in keep
  <2>1. CASE \A p \in B : p.destination # d
    BY <2>1 DEF DestinationsOK
  <2> QED BY <2>1
<1>6. Held(Without(R, K)) = Held(R) \ K /\ \A k \in Held(R) \ K : Without(R, K)[k] = R[k]
  BY DropRegistrations DEF Without, Held
<1>7. \A k \in Held(R) \ K : \A p \in R[k].bindings : p.destination \in keep
  <2> TAKE k \in Held(R) \ K
  <2> TAKE p \in R[k].bindings
  <2>1. p \in Projections
    BY DEF RegistrationsOK, Held, Registrations
  <2>2. p.destination \in DOMAIN D /\ p \in D[p.destination]
    BY <2>1 DEF DestinationsOK
  <2>3. p \in rest[p.destination]
    BY <1>3, <2>2
  <2> QED BY <2>2, <2>3
<1> HIDE DEF rest, keep, B
<1>8. DOMAIN D2 \subseteq Destinations /\ keep \subseteq DOMAIN D
  BY <1>2 DEF DestinationsOK, keep
<1>9. D2 \in [DOMAIN D2 -> SUBSET Projections]
  BY <1>1, <1>2, <1>4, <1>8 DEF DestinationsOK
<1>10. ASSUME NEW d \in keep, NEW p \in Projections
       PROVE  p \in rest[d] <=> p.destination = d /\ \E k \in Held(R) \ K : p \in R[k].bindings
  <2>1. CASE p \in D[d]
    BY <1>3, <1>8, <1>10, <2>1 DEF DestinationsOK
  <2>2. CASE p \notin D[d]
    BY <1>4, <1>8, <1>10, <2>2 DEF DestinationsOK
  <2> QED BY <2>1, <2>2
<1> QED BY <1>2, <1>5, <1>6, <1>7, <1>8, <1>9, <1>10 DEF DestinationsOK, B

(* Inserting the bindings of one more registration indexes just them. *)
LEMMA AddDestinations ==
    ASSUME NEW R, NEW D, NEW key \in Keys, NEW r \in Registrations,
           RegistrationsOK(R), DestinationsOK(R, D), R[key] = None,
           key.shard = ThisShard,
           \A p \in r.bindings : /\ p.identity.gateway = key.gateway
                                 /\ p.identity.session = key.session
    PROVE  DestinationsOK([R EXCEPT ![key] = r], InsertBindings(D, r.bindings))
<1> DEFINE S == r.bindings
           R2 == [R EXCEPT ![key] = r]
           D2 == InsertBindings(D, S)
           at(d) == {p \in S : p.destination = d}
           kept(d) == IF d \in DOMAIN D
                      THEN {q \in D[d] : \A p \in at(d) : p.identity # q.identity}
                      ELSE {}
           all == DOMAIN D \cup {p.destination : p \in S}
<1>1. D2 = [d \in all |-> kept(d) \cup at(d)]
  BY DEF InsertBindings
<1>2. DOMAIN D2 = all /\ \A d \in all : D2[d] = kept(d) \cup at(d)
  BY <1>1
<1>3. S \subseteq Projections
  BY DEF Registrations
<1>4. \A d \in DOMAIN D : kept(d) = D[d]
  <2>1. ASSUME NEW d \in DOMAIN D, NEW q \in D[d], NEW p \in S
        PROVE  p.identity # q.identity
    <3>1. PICK k \in Held(R) : q \in R[k].bindings
      BY <2>1 DEF DestinationsOK
    <3> QED BY <2>1, <3>1, KeysAreRecords DEF RegistrationsOK, Held
  <2> QED BY <2>1
<1>5. Held(R2) = Held(R) \cup {key} /\ R2[key] = r /\ \A k \in Held(R) : R2[k] = R[k]
  BY NoneAssumption DEF RegistrationsOK, Held
<1> HIDE DEF kept
<1>6. all \subseteq Destinations
  BY <1>3 DEF DestinationsOK, Projections
<1>7. \A d \in all : kept(d) \subseteq Projections
  BY <1>4 DEF DestinationsOK, kept
<1>8. D2 \in [DOMAIN D2 -> SUBSET Projections]
  BY <1>1, <1>3, <1>7
<1>9. ASSUME NEW d \in all, NEW p \in Projections
      PROVE  p \in D2[d] <=> p.destination = d /\ \E k \in Held(R2) : p \in R2[k].bindings
  <2>1. p \in D2[d] <=> p \in kept(d) \/ (p \in S /\ p.destination = d)
    BY <1>2, <1>9
  <2>2. CASE d \in DOMAIN D
    <3>1. p \in kept(d) <=> p.destination = d /\ \E k \in Held(R) : p \in R[k].bindings
      BY <1>4, <2>2 DEF DestinationsOK
    <3> HIDE DEF D2, R2
    <3> QED BY <1>5, <2>1, <3>1
  <2>3. CASE d \notin DOMAIN D
    <3>1. kept(d) = {}
      BY <2>3 DEF kept
    <3>2. \A k \in Held(R) : p \in R[k].bindings => p.destination # d
      BY <2>3 DEF DestinationsOK
    <3> QED BY <1>5, <2>1, <3>1, <3>2
  <2> QED BY <2>2, <2>3
<1>10. \A d \in all : D2[d] # {}
  BY <1>2, <1>4 DEF DestinationsOK
<1>11. \A k \in Held(R2) : \A p \in R2[k].bindings : p.destination \in all
  BY <1>5 DEF DestinationsOK
<1> HIDE DEF D2, R2, all
<1> QED BY <1>2, <1>6, <1>8, <1>9, <1>10, <1>11 DEF DestinationsOK, D2, R2

-----------------------------------------------------------------------------
(* Dropping keys ends just their leases. *)
LEMMA DropLeases ==
    ASSUME NEW R, NEW L, NEW K \in SUBSET Held(R),
           RegistrationsOK(R), LeasesOK(R, L)
    PROVE  LeasesOK(Without(R, K), L \ {R[k].lease : k \in K})
<1>1. Held(Without(R, K)) = Held(R) \ K /\ \A k \in Held(R) \ K : Without(R, K)[k] = R[k]
  BY DropRegistrations DEF Without, Held
<1>2. {R[k].lease : k \in Held(R) \ K} = {R[k].lease : k \in Held(R)} \ {R[k].lease : k \in K}
  BY DEF LeasesOK
<1> QED BY <1>1, <1>2 DEF LeasesOK

(* Adding a registration under a lease that is not active keeps leases apart. *)
LEMMA AddLease ==
    ASSUME NEW R, NEW L, NEW key \in Keys, NEW r \in Registrations,
           RegistrationsOK(R), LeasesOK(R, L), R[key] = None, r.lease \notin L
    PROVE  LeasesOK([R EXCEPT ![key] = r], L \cup {r.lease})
<1> DEFINE R2 == [R EXCEPT ![key] = r]
<1>1. Held(R2) = Held(R) \cup {key} /\ R2[key] = r /\ \A k \in Held(R) : R2[k] = R[k]
  BY NoneAssumption DEF RegistrationsOK, Held
<1> HIDE DEF R2
<1>2. {R2[k].lease : k \in Held(R2)} = {R[k].lease : k \in Held(R)} \cup {r.lease}
  BY <1>1
<1>3. \A k \in Held(R) : R[k].lease \in L
  BY DEF LeasesOK
<1>4. \A k, l \in Held(R2) : R2[k].lease = R2[l].lease => k = l
  BY <1>1, <1>3 DEF LeasesOK
<1> QED BY <1>2, <1>4 DEF LeasesOK, R2

(* Replacing a registration by one with the same lease changes no lease. *)
LEMMA SameLeases ==
    ASSUME NEW R, NEW L, NEW key \in Keys, NEW r \in Registrations,
           RegistrationsOK(R), LeasesOK(R, L), R[key] # None, r.lease = R[key].lease
    PROVE  LeasesOK([R EXCEPT ![key] = r], L)
<1> DEFINE R2 == [R EXCEPT ![key] = r]
<1>1. Held(R2) = Held(R) /\ \A k \in Held(R) : R2[k].lease = R[k].lease
  BY NoneAssumption DEF RegistrationsOK, Held
<1> HIDE DEF R2
<1>2. {R2[k].lease : k \in Held(R2)} = {R[k].lease : k \in Held(R)}
  BY <1>1
<1> QED BY <1>1, <1>2 DEF LeasesOK, R2

-----------------------------------------------------------------------------
(* Popping every bucket that is due leaves a record for every registration *)
(* that is not.                                                            *)
LEMMA PurgeExpiry ==
    ASSUME NEW R, NEW E, NEW T \in SUBSET DOMAIN E,
           RegistrationsOK(R), ExpiryOK(R, E)
    PROVE  ExpiryOK(Without(R, {k \in Held(R) : R[k].deadline \in T}),
                    [t \in DOMAIN E \ T |-> E[t]])
<1> DEFINE K == {k \in Held(R) : R[k].deadline \in T}
           R2 == Without(R, K)
<1>1. Held(R2) = Held(R) \ K /\ \A k \in Held(R) \ K : R2[k] = R[k]
  BY DropRegistrations DEF Without, Held
<1>2. \A k \in Keys : R2[k] # None <=> k \in Held(R) \ K
  BY DEF Without, Held
<1> HIDE DEF R2
<1>3. ASSUME NEW t \in DOMAIN E \ T, NEW e \in ExpiryKeys
      PROVE  e \in E[t] <=> /\ R2[e.key] # None
                            /\ R2[e.key].lease = e.lease
                            /\ R2[e.key].deadline = t
  <2>1. e.key \in Keys
    BY DEF ExpiryKeys
  <2>2. CASE e.key \in Held(R) \ K
    BY <1>1, <1>2, <2>1, <2>2 DEF ExpiryOK, Held
  <2>3. CASE e.key \notin Held(R) \ K
    BY <1>2, <2>1, <2>3 DEF ExpiryOK, Held
  <2> QED BY <2>2, <2>3
<1>4. \A k \in Held(R2) : R2[k].deadline \in DOMAIN E \ T
  BY <1>1 DEF ExpiryOK
<1> QED BY <1>3, <1>4 DEF ExpiryOK, R2

(* Removing the record of a dropped registration leaves the others'. *)
LEMMA DropExpiry ==
    ASSUME NEW R, NEW E, NEW key \in Held(R),
           RegistrationsOK(R), ExpiryOK(R, E)
    PROVE  /\ ExpiryOK(Without(R, {key}),
                       RemoveExpiry(E, key, R[key].lease, R[key].deadline))
           /\ HasExpiry(E, key, R[key].lease, R[key].deadline)
<1> DEFINE dl == R[key].deadline
           rec == [key |-> key, lease |-> R[key].lease]
           rest(t) == IF t = dl THEN E[t] \ {rec} ELSE E[t]
           keep == {u \in DOMAIN E : u = dl => rest(u) # {}}
           E2 == RemoveExpiry(E, key, R[key].lease, dl)
           R2 == Without(R, {key})
<1>0. key \in Keys /\ R[key] \in Registrations /\ rec \in ExpiryKeys
  BY DEF Held, RegistrationsOK, Registrations, ExpiryKeys
<1>1. E2 = [t \in keep |-> rest(t)]
  BY DEF RemoveExpiry
<1>2. DOMAIN E2 = keep /\ \A t \in keep : E2[t] = rest(t)
  BY <1>1
<1>3. Held(R2) = Held(R) \ {key} /\ \A k \in Held(R) \ {key} : R2[k] = R[k]
  BY DropRegistrations DEF Without, Held
<1>4. \A k \in Keys : R2[k] # None <=> k \in Held(R) \ {key}
  BY DEF Without, Held
<1>5. HasExpiry(E, key, R[key].lease, dl)
  BY <1>0 DEF ExpiryOK, HasExpiry, Held
<1>6. \A e \in ExpiryKeys : e.key = key /\ e.lease = R[key].lease <=> e = rec
  BY <1>0 DEF ExpiryKeys
<1> HIDE DEF R2, E2, rec
<1>7. ASSUME NEW t \in keep, NEW e \in ExpiryKeys
      PROVE  e \in rest(t) <=> /\ R2[e.key] # None
                               /\ R2[e.key].lease = e.lease
                               /\ R2[e.key].deadline = t
  <2>1. e.key \in Keys
    BY DEF ExpiryKeys
  <2>2. e \in E[t] <=> /\ R[e.key] # None
                       /\ R[e.key].lease = e.lease
                       /\ R[e.key].deadline = t
    BY DEF ExpiryOK
  <2>3. CASE e.key = key
    <3>1. e \in E[t] => t = dl /\ e = rec
      BY <1>6, <2>2, <2>3
    <3> QED BY <1>4, <2>1, <2>3, <3>1
  <2>4. CASE e.key # key
    <3>1. e # rec
      BY <2>4 DEF rec
    <3>2. e \in rest(t) <=> e \in E[t]
      BY <3>1
    <3> QED BY <1>3, <1>4, <2>1, <2>2, <2>4, <3>2 DEF Held
  <2> QED BY <2>3, <2>4
<1>8. \A t \in keep : rest(t) # {} /\ rest(t) \subseteq ExpiryKeys
  BY DEF ExpiryOK
<1>9. ASSUME NEW k \in Held(R2)
      PROVE  R2[k].deadline \in keep
  <2>1. k \in Held(R) /\ k # key /\ R2[k] = R[k] /\ k \in Keys
    BY <1>3 DEF Held
  <2>2. R[k] \in Registrations
    BY <2>1 DEF Held, RegistrationsOK
  <2> DEFINE other == [key |-> k, lease |-> R[k].lease]
  <2>3. other \in ExpiryKeys
    BY <2>1, <2>2 DEF ExpiryKeys, Registrations
  <2>4. R[k].deadline \in DOMAIN E /\ other \in E[R[k].deadline]
    BY <2>1, <2>3 DEF ExpiryOK, Held
  <2>5. other # rec
    BY <2>1 DEF rec
  <2> QED BY <2>1, <2>4, <2>5
<1>10. keep \subseteq Nat
  BY DEF ExpiryOK
<1>11. E2 \in [DOMAIN E2 -> SUBSET ExpiryKeys]
  BY <1>1, <1>2, <1>8
<1> HIDE DEF keep, rest
<1>12. ExpiryOK(R2, E2)
  BY <1>2, <1>7, <1>8, <1>9, <1>10, <1>11 DEF ExpiryOK
<1> QED BY <1>5, <1>12 DEF R2, E2

(* Inserting the record of an added registration gives it exactly one. *)
LEMMA AddExpiry ==
    ASSUME NEW R, NEW E, NEW key \in Keys, NEW r \in Registrations,
           RegistrationsOK(R), ExpiryOK(R, E), R[key] = None
    PROVE  /\ ExpiryOK([R EXCEPT ![key] = r], InsertExpiry(E, key, r.lease, r.deadline))
           /\ ~ HasExpiry(E, key, r.lease, r.deadline)
<1> DEFINE rec == [key |-> key, lease |-> r.lease]
           E2 == InsertExpiry(E, key, r.lease, r.deadline)
           R2 == [R EXCEPT ![key] = r]
           old(t) == IF t \in DOMAIN E THEN E[t] ELSE {}
           new(t) == IF t = r.deadline THEN {rec} ELSE {}
           all == DOMAIN E \cup {r.deadline}
<1>0. rec \in ExpiryKeys /\ r.deadline \in Nat
  BY DEF Registrations, ExpiryKeys
<1>1. E2 = [t \in all |-> old(t) \cup new(t)]
  BY DEF InsertExpiry
<1>2. DOMAIN E2 = all /\ \A t \in all : E2[t] = old(t) \cup new(t)
  BY <1>1
<1>3. R2[key] = r /\ \A k \in Keys : k # key => R2[k] = R[k]
  BY DEF RegistrationsOK
<1>4. r # None /\ Held(R2) = Held(R) \cup {key}
  BY NoneAssumption DEF RegistrationsOK, Held
<1>5. \A e \in ExpiryKeys : e.key = key /\ e.lease = r.lease <=> e = rec
  BY <1>0 DEF ExpiryKeys
<1>6. rec.key = key /\ rec.lease = r.lease
  OBVIOUS
<1> HIDE DEF R2, E2, rec
<1>7. ~ HasExpiry(E, key, r.lease, r.deadline)
  BY <1>0, <1>6 DEF HasExpiry, ExpiryOK, rec
<1>8. ASSUME NEW t \in all, NEW e \in ExpiryKeys
      PROVE  e \in old(t) \cup new(t) <=> /\ R2[e.key] # None
                                          /\ R2[e.key].lease = e.lease
                                          /\ R2[e.key].deadline = t
  <2>1. e.key \in Keys
    BY DEF ExpiryKeys
  <2>2. e \in old(t) <=> /\ R[e.key] # None
                         /\ R[e.key].lease = e.lease
                         /\ R[e.key].deadline = t
    <3>1. CASE t \in DOMAIN E
      BY <3>1 DEF ExpiryOK
    <3>2. CASE t \notin DOMAIN E
      BY <2>1, <3>2 DEF ExpiryOK, Held
    <3> QED BY <3>1, <3>2
  <2>3. CASE e.key = key
    <3>1. e \notin old(t)
      BY <2>2, <2>3
    <3>2. e \in new(t) <=> t = r.deadline /\ e.lease = r.lease
      BY <1>5, <2>3
    <3> QED BY <1>3, <1>4, <2>3, <3>1, <3>2
  <2>4. CASE e.key # key
    <3>1. e \notin new(t)
      BY <1>6, <2>4
    <3> QED BY <1>3, <2>1, <2>2, <2>4, <3>1
  <2> QED BY <2>3, <2>4
<1>9. all \subseteq Nat
  BY <1>0 DEF ExpiryOK
<1>10. \A t \in all : old(t) \cup new(t) # {} /\ old(t) \cup new(t) \subseteq ExpiryKeys
  BY <1>0 DEF ExpiryOK
<1>11. E2 \in [DOMAIN E2 -> SUBSET ExpiryKeys]
  BY <1>1, <1>2, <1>10
<1>12. \A k \in Held(R2) : R2[k].deadline \in all
  BY <1>3, <1>4 DEF ExpiryOK, Held
<1> HIDE DEF old, new, all
<1>13. ExpiryOK(R2, E2)
  BY <1>2, <1>8, <1>9, <1>10, <1>11, <1>12 DEF ExpiryOK
<1> QED BY <1>7, <1>13 DEF R2, E2

(* Replacing a registration by one with the same lease and deadline needs  *)
(* no change of the records.                                               *)
LEMMA SameExpiry ==
    ASSUME NEW R, NEW E, NEW key \in Held(R), NEW r \in Registrations,
           RegistrationsOK(R), ExpiryOK(R, E),
           r.lease = R[key].lease, r.deadline = R[key].deadline
    PROVE  ExpiryOK([R EXCEPT ![key] = r], E)
<1> DEFINE R2 == [R EXCEPT ![key] = r]
<1>1. Held(R2) = Held(R)
  BY NoneAssumption DEF RegistrationsOK, Held
<1>2. \A k \in Keys : /\ (R2[k] # None) <=> (R[k] # None)
                      /\ R2[k] # None => R2[k].lease = R[k].lease /\ R2[k].deadline = R[k].deadline
  BY NoneAssumption DEF RegistrationsOK, Held
<1> HIDE DEF R2
<1>3. \A e \in ExpiryKeys : e.key \in Keys
  BY DEF ExpiryKeys
<1>4. \A k \in Held(R2) : R2[k].deadline \in DOMAIN E
  BY <1>1, <1>2 DEF ExpiryOK, Held
<1>5. \A t \in DOMAIN E, e \in ExpiryKeys :
          e \in E[t] <=> /\ R2[e.key] # None
                         /\ R2[e.key].lease = e.lease
                         /\ R2[e.key].deadline = t
  BY <1>2, <1>3 DEF ExpiryOK
<1> QED BY <1>4, <1>5 DEF ExpiryOK, R2

(* Replacing a registration by one with the same bindings needs no change  *)
(* of the destination index.                                               *)
LEMMA SameDestinations ==
    ASSUME NEW R, NEW D, NEW key \in Held(R), NEW r \in Registrations,
           RegistrationsOK(R), DestinationsOK(R, D), r.bindings = R[key].bindings
    PROVE  DestinationsOK([R EXCEPT ![key] = r], D)
<1> DEFINE R2 == [R EXCEPT ![key] = r]
<1>1. Held(R2) = Held(R) /\ \A k \in Held(R) : R2[k].bindings = R[k].bindings
  BY NoneAssumption DEF RegistrationsOK, Held
<1> HIDE DEF R2
<1>2. DestinationsOK(R2, D)
  BY <1>1 DEF DestinationsOK
<1> QED BY <1>2 DEF R2

-----------------------------------------------------------------------------
(***************************************************************************)
(* The cached sizes.                                                       *)
(***************************************************************************)
BoundPairs(R, K) == UNION {{k} \X R[k].bindings : k \in K}

RecordPairs(E, T) == UNION {{t} \X E[t] : t \in T}

BindingCountOK(R, n) ==
    /\ \A k \in Held(R) : IsFiniteSet(R[k].bindings)
    /\ IsFiniteSet(BoundPairs(R, Held(R)))
    /\ n = Cardinality(BoundPairs(R, Held(R)))

RecordCountOK(E, n) ==
    /\ IsFiniteSet(RecordPairs(E, DOMAIN E))
    /\ n = Cardinality(RecordPairs(E, DOMAIN E))

(* Subtracting the bindings of dropped registrations keeps the count exact. *)
LEMMA DropBindingCount ==
    ASSUME NEW R, NEW K \in SUBSET Held(R), NEW n,
           RegistrationsOK(R), BindingCountOK(R, n)
    PROVE  BindingCountOK(Without(R, K), n - BoundCount(R, K))
<1> DEFINE R2 == Without(R, K)
           A == BoundPairs(R, Held(R))
           B == BoundPairs(R, K)
<1>1. Held(R2) = Held(R) \ K /\ \A k \in Held(R) \ K : R2[k] = R[k]
  BY DropRegistrations DEF Without, Held
<1> HIDE DEF R2
<1>2. BoundPairs(R2, Held(R2)) = A \ B
  BY <1>1 DEF BoundPairs
<1>3. A \cap B = B
  BY DEF BoundPairs
<1>4. IsFiniteSet(A \ B) /\ Cardinality(A \ B) = Cardinality(A) - Cardinality(B)
  BY <1>3, FS_Difference DEF BindingCountOK
<1>5. BoundCount(R, K) = Cardinality(B)
  BY DEF BoundCount, BoundPairs
<1> QED BY <1>1, <1>2, <1>4, <1>5 DEF BindingCountOK, R2

(* The count of one registration is the size of its binding set. *)
LEMMA OneBindingCount ==
    ASSUME NEW R, NEW key \in Held(R), NEW n, BindingCountOK(R, n)
    PROVE  BoundCount(R, {key}) = Cardinality(R[key].bindings)
<1> DEFINE B == R[key].bindings
<1>1. UNION {{k} \X R[k].bindings : k \in {key}} = {key} \X B
  OBVIOUS
<1>2. IsFiniteSet(B) /\ Cardinality(B) \in Nat
  BY FS_CardinalityType DEF BindingCountOK
<1>3. IsFiniteSet({key}) /\ Cardinality({key}) = 1
  BY FS_Singleton
<1> HIDE DEF B
<1>4. Cardinality({key} \X B) = 1 * Cardinality(B)
  BY <1>2, <1>3, FS_Product
<1>5. Cardinality({key} \X B) = Cardinality(B)
  BY <1>2, <1>4
<1> QED BY <1>1, <1>5 DEF BoundCount, B

(* Adding the size of a new registration's binding set keeps it exact. *)
LEMMA AddBindingCount ==
    ASSUME NEW R, NEW key \in Keys, NEW r \in Registrations, NEW n,
           RegistrationsOK(R), BindingCountOK(R, n), R[key] = None,
           IsFiniteSet(r.bindings)
    PROVE  BindingCountOK([R EXCEPT ![key] = r], n + Cardinality(r.bindings))
<1> DEFINE R2 == [R EXCEPT ![key] = r]
           A == BoundPairs(R, Held(R))
           B == {key} \X r.bindings
<1>1. Held(R2) = Held(R) \cup {key} /\ R2[key] = r /\ \A k \in Held(R) : R2[k] = R[k]
  BY NoneAssumption DEF RegistrationsOK, Held
<1> HIDE DEF R2
<1>2. BoundPairs(R2, Held(R2)) = A \cup B
  BY <1>1 DEF BoundPairs
<1>3. A \cap B = {}
  <2>1. key \notin Held(R)
    BY DEF Held
  <2> QED BY <2>1 DEF BoundPairs
<1>4. IsFiniteSet({key}) /\ Cardinality({key}) = 1
  BY FS_Singleton
<1>5. Cardinality(r.bindings) \in Nat
  BY FS_CardinalityType
<1>6. IsFiniteSet(B) /\ Cardinality(B) = 1 * Cardinality(r.bindings)
  BY <1>4, FS_Product
<1>7. IsFiniteSet(A) /\ Cardinality(A) \in Nat
  BY FS_CardinalityType DEF BindingCountOK
<1> HIDE DEF A, B
<1>8. IsFiniteSet(A \cup B) /\ Cardinality(A \cup B) = Cardinality(A) + Cardinality(B) - Cardinality(A \cap B)
  BY <1>6, <1>7, FS_Union
<1>9. Cardinality(A \cap B) = 0
  BY <1>3, FS_EmptySet
<1>10. Cardinality(A \cup B) = n + Cardinality(r.bindings)
  BY <1>5, <1>6, <1>7, <1>8, <1>9 DEF BindingCountOK, A
<1> QED BY <1>1, <1>2, <1>8, <1>10 DEF BindingCountOK, R2

(* Replacing a registration by one with the same bindings leaves the count. *)
LEMMA SameBindingCount ==
    ASSUME NEW R, NEW key \in Held(R), NEW r \in Registrations, NEW n,
           RegistrationsOK(R), BindingCountOK(R, n), r.bindings = R[key].bindings
    PROVE  BindingCountOK([R EXCEPT ![key] = r], n)
<1> DEFINE R2 == [R EXCEPT ![key] = r]
<1>1. Held(R2) = Held(R) /\ \A k \in Held(R) : R2[k].bindings = R[k].bindings
  BY NoneAssumption DEF RegistrationsOK, Held
<1> HIDE DEF R2
<1>2. BoundPairs(R2, Held(R2)) = BoundPairs(R, Held(R))
  BY <1>1 DEF BoundPairs
<1> QED BY <1>1, <1>2 DEF BindingCountOK, R2

(* Popping buckets subtracts the records they hold. *)
LEMMA PurgeRecordCount ==
    ASSUME NEW E, NEW T \in SUBSET DOMAIN E, NEW n, RecordCountOK(E, n)
    PROVE  RecordCountOK([t \in DOMAIN E \ T |-> E[t]], n - RecordCount(E, T))
<1> DEFINE E2 == [t \in DOMAIN E \ T |-> E[t]]
           A == RecordPairs(E, DOMAIN E)
           B == RecordPairs(E, T)
<1>1. DOMAIN E2 = DOMAIN E \ T /\ \A t \in DOMAIN E \ T : E2[t] = E[t]
  OBVIOUS
<1> HIDE DEF E2
<1>2. RecordPairs(E2, DOMAIN E2) = A \ B
  BY <1>1 DEF RecordPairs
<1>3. A \cap B = B
  BY DEF RecordPairs
<1>4. IsFiniteSet(A \ B) /\ Cardinality(A \ B) = Cardinality(A) - Cardinality(B)
  BY <1>3, FS_Difference DEF RecordCountOK
<1>5. RecordCount(E, T) = Cardinality(B)
  BY DEF RecordCount, RecordPairs
<1> QED BY <1>2, <1>4, <1>5 DEF RecordCountOK, E2

(* Removing a record that is there subtracts one. *)
LEMMA DropRecordCount ==
    ASSUME NEW E, NEW key, NEW lease, NEW dl, NEW n,
           RecordCountOK(E, n), HasExpiry(E, key, lease, dl)
    PROVE  RecordCountOK(RemoveExpiry(E, key, lease, dl), n - 1)
<1> DEFINE rec == [key |-> key, lease |-> lease]
           rest(t) == IF t = dl THEN E[t] \ {rec} ELSE E[t]
           keep == {u \in DOMAIN E : u = dl => rest(u) # {}}
           E2 == RemoveExpiry(E, key, lease, dl)
           A == RecordPairs(E, DOMAIN E)
<1>1. DOMAIN E2 = keep /\ \A t \in keep : E2[t] = rest(t)
  BY DEF RemoveExpiry
<1>2. dl \in DOMAIN E /\ rec \in E[dl]
  BY DEF HasExpiry
<1> HIDE DEF E2, rec
<1>3. RecordPairs(E2, DOMAIN E2) = A \ {<<dl, rec>>}
  <2>1. \A t \in keep : E2[t] \subseteq E[t] /\ (t = dl => rec \notin E2[t])
    BY <1>1
  <2>2. RecordPairs(E2, DOMAIN E2) \subseteq A \ {<<dl, rec>>}
    BY <1>1, <2>1 DEF RecordPairs
  <2>3. \A t \in DOMAIN E : \A e \in E[t] :
            <<t, e>> # <<dl, rec>> => t \in keep /\ e \in E2[t]
    BY <1>1
  <2>4. A \ {<<dl, rec>>} \subseteq RecordPairs(E2, DOMAIN E2)
    BY <1>1, <2>3 DEF RecordPairs
  <2> QED BY <2>2, <2>4
<1>4. <<dl, rec>> \in A
  BY <1>2 DEF RecordPairs
<1>5. IsFiniteSet(A \ {<<dl, rec>>}) /\ Cardinality(A \ {<<dl, rec>>}) = Cardinality(A) - 1
  BY <1>4, FS_RemoveElement DEF RecordCountOK
<1> QED BY <1>3, <1>5 DEF RecordCountOK, E2

(* Inserting a record that is not there adds one. *)
LEMMA AddRecordCount ==
    ASSUME NEW E, NEW key, NEW lease, NEW dl, NEW n,
           RecordCountOK(E, n), ~ HasExpiry(E, key, lease, dl)
    PROVE  RecordCountOK(InsertExpiry(E, key, lease, dl), n + 1)
<1> DEFINE rec == [key |-> key, lease |-> lease]
           old(t) == IF t \in DOMAIN E THEN E[t] ELSE {}
           new(t) == IF t = dl THEN {rec} ELSE {}
           all == DOMAIN E \cup {dl}
           E2 == InsertExpiry(E, key, lease, dl)
           A == RecordPairs(E, DOMAIN E)
<1>1. DOMAIN E2 = all /\ \A t \in all : E2[t] = old(t) \cup new(t)
  BY DEF InsertExpiry
<1>2. ~ (dl \in DOMAIN E /\ rec \in E[dl])
  BY DEF HasExpiry
<1> HIDE DEF E2, rec
<1>3. RecordPairs(E2, DOMAIN E2) = A \cup {<<dl, rec>>}
  BY <1>1 DEF RecordPairs
<1>4. <<dl, rec>> \notin A
  BY <1>2 DEF RecordPairs
<1>5. IsFiniteSet(A \cup {<<dl, rec>>}) /\ Cardinality(A \cup {<<dl, rec>>}) = Cardinality(A) + 1
  BY <1>4, FS_AddElement DEF RecordCountOK
<1> QED BY <1>3, <1>5 DEF RecordCountOK, E2

-----------------------------------------------------------------------------
(***************************************************************************)
(* The inductive invariant, and what the three building blocks of a        *)
(* request do to it.                                                       *)
(***************************************************************************)
Coherent(R, D, L, E, b, n) ==
    /\ RegistrationsOK(R)
    /\ DestinationsOK(R, D)
    /\ LeasesOK(R, L)
    /\ ExpiryOK(R, E)
    /\ BindingCountOK(R, b)
    /\ RecordCountOK(E, n)

IInv ==
    /\ now \in Nat
    /\ reply \in Replies
    /\ Coherent(registration_index, destination_index, active_lease_ids,
                expiry_index, binding_count, expiry_record_count)

LiveCoherent ==
    Coherent(LiveRegistrations, LiveDestinations, LiveLeases,
             LiveExpiry, LiveBindingCount, LiveRecordCount)

(* The records that are due are those of the registrations that are due.   *)
LEMMA DueKeysAreTheExpired ==
    ASSUME IInv
    PROVE  /\ DueKeys = {k \in Held(registration_index) : registration_index[k].deadline <= now}
           /\ DueKeys = {k \in Held(registration_index) : registration_index[k].deadline \in DueTimes}
<1> USE DEF IInv, Coherent
<1>1. \A k \in Held(registration_index) :
        /\ registration_index[k].deadline \in DOMAIN expiry_index
        /\ registration_index[k] \in Registrations
        /\ k \in Keys
        /\ [key |-> k, lease |-> registration_index[k].lease] \in ExpiryKeys
  BY DEF ExpiryOK, RegistrationsOK, Held, ExpiryKeys, Registrations
<1>2. \A k \in Held(registration_index) :
        [key |-> k, lease |-> registration_index[k].lease]
           \in expiry_index[registration_index[k].deadline]
  BY <1>1 DEF ExpiryOK, Held
<1>3. \A k \in Held(registration_index) :
        (registration_index[k].deadline <= now) <=> (registration_index[k].deadline \in DueTimes)
  BY <1>1 DEF DueTimes
<1>4. DueKeys = {k \in Held(registration_index) : registration_index[k].deadline <= now}
  BY <1>2, <1>3 DEF DueKeys, Held
<1> QED BY <1>3, <1>4

(* expire_due keeps the indexes coherent. *)
LEMMA PurgeCoherent ==
    ASSUME IInv
    PROVE  LiveCoherent
<1> USE DEF IInv, Coherent
<1>1. DueKeys \in SUBSET Held(registration_index)
  BY DueKeysAreTheExpired
<1>2. LiveRegistrations = Without(registration_index, DueKeys)
  BY DEF LiveRegistrations, Without
<1>3. RegistrationsOK(LiveRegistrations)
  BY <1>2, DropRegistrations
<1>4. DestinationsOK(LiveRegistrations, LiveDestinations)
  BY <1>1, <1>2, DropDestinations DEF LiveDestinations, BindingsOf
<1>5. LeasesOK(LiveRegistrations, LiveLeases)
  BY <1>1, <1>2, DropLeases DEF LiveLeases
<1>6. ExpiryOK(LiveRegistrations, LiveExpiry)
  <2>1. DueTimes \in SUBSET DOMAIN expiry_index
    BY DEF DueTimes
  <2> QED BY <1>2, <2>1, DueKeysAreTheExpired, PurgeExpiry DEF LiveExpiry
<1>7. BindingCountOK(LiveRegistrations, LiveBindingCount)
  BY <1>1, <1>2, DropBindingCount DEF LiveBindingCount
<1>8. RecordCountOK(LiveExpiry, LiveRecordCount)
  <2>1. DueTimes \in SUBSET DOMAIN expiry_index
    BY DEF DueTimes
  <2> QED BY <2>1, PurgeRecordCount DEF LiveExpiry, LiveRecordCount
<1> QED BY <1>3, <1>4, <1>5, <1>6, <1>7, <1>8 DEF LiveCoherent

(* After the purge only registrations with time left remain. *)
LEMMA LiveMeansUnexpired ==
    ASSUME IInv
    PROVE  \A k \in Keys :
              /\ (LiveRegistrations[k] # None) <=> Unexpired(k)
              /\ Unexpired(k) => LiveRegistrations[k] = registration_index[k]
<1>1. \A k \in Held(registration_index) : registration_index[k].deadline \in Nat
  BY DEF IInv, Coherent, RegistrationsOK, Held, Registrations
<1> QED BY <1>1, DueKeysAreTheExpired DEF LiveRegistrations, Unexpired, Held, IInv

(* remove_registration keeps the indexes coherent. *)
LEMMA DropCoherent ==
    ASSUME NEW R, NEW D, NEW L, NEW E, NEW b, NEW n, NEW key \in Held(R),
           Coherent(R, D, L, E, b, n)
    PROVE  Coherent(Without(R, {key}), RemoveBindings(D, R[key].bindings), L \ {R[key].lease},
                    RemoveExpiry(E, key, R[key].lease, R[key].deadline),
                    b - Cardinality(R[key].bindings), n - 1)
<1> USE DEF Coherent
<1>1. {key} \in SUBSET Held(R)
  OBVIOUS
<1>2. RegistrationsOK(Without(R, {key}))
  BY DropRegistrations
<1>3. DestinationsOK(Without(R, {key}), RemoveBindings(D, R[key].bindings))
  <2>1. BindingsOf(R, {key}) = R[key].bindings
    BY DEF BindingsOf
  <2> QED BY <1>1, <2>1, DropDestinations
<1>4. LeasesOK(Without(R, {key}), L \ {R[key].lease})
  <2>1. {R[k].lease : k \in {key}} = {R[key].lease}
    OBVIOUS
  <2> QED BY <1>1, <2>1, DropLeases
<1>5. BindingCountOK(Without(R, {key}), b - Cardinality(R[key].bindings))
  BY <1>1, DropBindingCount, OneBindingCount
<1>6. /\ ExpiryOK(Without(R, {key}), RemoveExpiry(E, key, R[key].lease, R[key].deadline))
      /\ RecordCountOK(RemoveExpiry(E, key, R[key].lease, R[key].deadline), n - 1)
  BY DropExpiry, DropRecordCount
<1> QED BY <1>2, <1>3, <1>4, <1>5, <1>6

(* Inserting a registration and indexing it keeps the indexes coherent. *)
LEMMA AddCoherent ==
    ASSUME NEW R, NEW D, NEW L, NEW E, NEW b, NEW n, Coherent(R, D, L, E, b, n),
           NEW key \in Keys, NEW r \in Registrations, R[key] = None,
           key.shard = ThisShard, r.lease \notin L, r.revision = 0, r.bindings = {}
    PROVE  Coherent([R EXCEPT ![key] = r], D, L \cup {r.lease},
                    InsertExpiry(E, key, r.lease, r.deadline), b, n + 1)
<1> USE DEF Coherent
<1>1. RegistrationsOK([R EXCEPT ![key] = r])
  BY AddRegistration
<1>2. DestinationsOK([R EXCEPT ![key] = r], D)
  <2> DEFINE R2 == [R EXCEPT ![key] = r]
  <2>1. Held(R2) = Held(R) \cup {key} /\ R2[key] = r /\ \A k \in Held(R) : R2[k] = R[k]
    BY NoneAssumption DEF RegistrationsOK, Held
  <2> HIDE DEF R2
  <2>2. DestinationsOK(R2, D)
    BY <2>1 DEF DestinationsOK
  <2> QED BY <2>2 DEF R2
<1>3. LeasesOK([R EXCEPT ![key] = r], L \cup {r.lease})
  BY AddLease
<1>4. BindingCountOK([R EXCEPT ![key] = r], b)
  <2>1. IsFiniteSet(r.bindings) /\ Cardinality(r.bindings) = 0
    BY FS_EmptySet
  <2>2. b \in Nat
    BY FS_CardinalityType DEF BindingCountOK
  <2>3. BindingCountOK([R EXCEPT ![key] = r], b + Cardinality(r.bindings))
    BY <2>1, AddBindingCount
  <2> QED BY <2>1, <2>2, <2>3
<1>5. /\ ExpiryOK([R EXCEPT ![key] = r], InsertExpiry(E, key, r.lease, r.deadline))
      /\ RecordCountOK(InsertExpiry(E, key, r.lease, r.deadline), n + 1)
  BY AddExpiry, AddRecordCount
<1> QED BY <1>1, <1>2, <1>3, <1>4, <1>5

(* Replacing the bindings of a registration keeps the indexes coherent. *)
LEMMA InstallCoherent ==
    ASSUME NEW R, NEW D, NEW L, NEW E, NEW b, NEW n, Coherent(R, D, L, E, b, n),
           NEW key \in Held(R), NEW r \in Registrations,
           r.lease = R[key].lease, r.deadline = R[key].deadline,
           r.revision # 0, r.bindings # {}, IsFiniteSet(r.bindings), InScope(key, r.bindings)
    PROVE  Coherent([R EXCEPT ![key] = r],
                    InsertBindings(RemoveBindings(D, R[key].bindings), r.bindings), L, E,
                    b - Cardinality(R[key].bindings) + Cardinality(r.bindings), n)
<1> DEFINE R1 == Without(R, {key})
           D1 == RemoveBindings(D, R[key].bindings)
           b1 == b - Cardinality(R[key].bindings)
<1>1. /\ key \in Keys /\ R[key] # None /\ key.shard = ThisShard
      /\ RegistrationsOK(R) /\ LeasesOK(R, L) /\ ExpiryOK(R, E) /\ RecordCountOK(E, n)
      /\ \A p \in r.bindings : /\ p.identity.gateway = key.gateway
                               /\ p.identity.session = key.session
                               /\ Authority[p.destination] = ThisShard
  BY DEF Coherent, Held, RegistrationsOK, InScope
<1>2. RegistrationsOK(R1) /\ DestinationsOK(R1, D1) /\ BindingCountOK(R1, b1)
  BY DropCoherent DEF Coherent
<1>3. R1[key] = None /\ [R1 EXCEPT ![key] = r] = [R EXCEPT ![key] = r]
  BY <1>1 DEF Without, RegistrationsOK
<1> HIDE DEF R1, D1, b1
<1>4. RegistrationsOK([R EXCEPT ![key] = r])
  BY <1>1, AddRegistration
<1>5. DestinationsOK([R EXCEPT ![key] = r], InsertBindings(D1, r.bindings))
  BY <1>1, <1>2, <1>3, AddDestinations
<1>6. BindingCountOK([R EXCEPT ![key] = r], b1 + Cardinality(r.bindings))
  BY <1>1, <1>2, <1>3, AddBindingCount
<1>7. LeasesOK([R EXCEPT ![key] = r], L)
  BY <1>1, SameLeases
<1>8. ExpiryOK([R EXCEPT ![key] = r], E)
  BY <1>1, SameExpiry
<1> QED BY <1>1, <1>4, <1>5, <1>6, <1>7, <1>8 DEF Coherent, D1, b1

(* Moving the deadline of a registration keeps the indexes coherent. *)
LEMMA RenewCoherent ==
    ASSUME NEW R, NEW D, NEW L, NEW E, NEW b, NEW n, Coherent(R, D, L, E, b, n),
           NEW key \in Held(R), NEW r \in Registrations,
           r.lease = R[key].lease, r.revision = R[key].revision,
           r.bindings = R[key].bindings
    PROVE  LET freed == RemoveExpiry(E, key, R[key].lease, R[key].deadline)
           IN  /\ HasExpiry(E, key, R[key].lease, R[key].deadline)
               /\ ~ HasExpiry(freed, key, r.lease, r.deadline)
               /\ Coherent([R EXCEPT ![key] = r], D, L,
                           InsertExpiry(freed, key, r.lease, r.deadline), b, n)
<1> DEFINE R1 == Without(R, {key})
           E1 == RemoveExpiry(E, key, R[key].lease, R[key].deadline)
<1>1. /\ key \in Keys /\ R[key] # None /\ key.shard = ThisShard
      /\ RegistrationsOK(R) /\ LeasesOK(R, L) /\ DestinationsOK(R, D) /\ BindingCountOK(R, b)
      /\ ExpiryOK(R, E)
      /\ \A p \in r.bindings : /\ p.identity.gateway = key.gateway
                               /\ p.identity.session = key.session
                               /\ Authority[p.destination] = ThisShard
      /\ (r.revision = 0) <=> (r.bindings = {})
  BY DEF Coherent, Held, RegistrationsOK
<1>2. RegistrationsOK(R1) /\ ExpiryOK(R1, E1) /\ RecordCountOK(E1, n - 1)
  BY DropCoherent DEF Coherent
<1>3. R1[key] = None /\ [R1 EXCEPT ![key] = r] = [R EXCEPT ![key] = r]
  BY <1>1 DEF Without, RegistrationsOK
<1>4. HasExpiry(E, key, R[key].lease, R[key].deadline)
  BY <1>1, DropExpiry
<1>5. n \in Nat
  BY FS_CardinalityType DEF Coherent, RecordCountOK
<1> HIDE DEF R1, E1
<1>6. /\ ~ HasExpiry(E1, key, r.lease, r.deadline)
      /\ ExpiryOK([R EXCEPT ![key] = r], InsertExpiry(E1, key, r.lease, r.deadline))
  BY <1>1, <1>2, <1>3, AddExpiry
<1>7. RecordCountOK(InsertExpiry(E1, key, r.lease, r.deadline), n)
  <2>1. RecordCountOK(InsertExpiry(E1, key, r.lease, r.deadline), (n - 1) + 1)
    BY <1>2, <1>6, AddRecordCount
  <2> QED BY <1>5, <2>1
<1>8. RegistrationsOK([R EXCEPT ![key] = r])
  BY <1>1, AddRegistration
<1>9. DestinationsOK([R EXCEPT ![key] = r], D) /\ BindingCountOK([R EXCEPT ![key] = r], b)
  BY <1>1, SameDestinations, SameBindingCount
<1>10. LeasesOK([R EXCEPT ![key] = r], L)
  BY <1>1, SameLeases
<1> QED BY <1>4, <1>6, <1>7, <1>8, <1>9, <1>10 DEF Coherent, E1

-----------------------------------------------------------------------------
(***************************************************************************)
(* Every step keeps the invariant.                                         *)
(***************************************************************************)

(* What the shard answers is a reply. *)
LEMMA RepliesAreTyped ==
    /\ NoReply \in Replies /\ Done \in Replies
    /\ \A code \in ErrorCodes : Error(code) \in Replies
    /\ \A lease \in LeaseIds, revision \in Nat, expires_in \in Nat :
          Ack(lease, revision, expires_in) \in Replies
    /\ \A r \in Registrations, time \in Nat : AckOf(r, time) \in Replies
    /\ \A S \in SUBSET Projections : BindingSet(S) \in Replies
    /\ \A gateway, generation, key : Verdict(gateway, generation, key) \in ErrorCodes \cup {"Ok"}
<1>1. NoReply \in Replies /\ Done \in Replies
  BY DEF NoReply, Done, Replies
<1>2. \A code \in ErrorCodes : Error(code) \in Replies
  BY DEF Error, Replies
<1>3. \A lease \in LeaseIds, revision \in Nat, expires_in \in Nat :
          Ack(lease, revision, expires_in) \in Replies
  BY DEF Ack, Replies
<1>4. \A r \in Registrations, time \in Nat : AckOf(r, time) \in Replies
  BY <1>3 DEF AckOf, Registrations
<1>5. \A S \in SUBSET Projections : BindingSet(S) \in Replies
  BY DEF BindingSet, Replies
<1>6. \A gateway, generation, key : Verdict(gateway, generation, key) \in ErrorCodes \cup {"Ok"}
  BY DEF Verdict, ErrorCodes
<1> QED BY <1>1, <1>2, <1>3, <1>4, <1>5, <1>6

(* A new shard is coherent. *)
LEMMA EmptyCoherent ==
    Coherent([k \in Keys |-> None], [d \in {} |-> {}], {}, [t \in {} |-> {}], 0, 0)
<1> DEFINE R == [k \in Keys |-> None]
           E == [t \in {} |-> {}]
<1>1. Held(R) = {}
  BY DEF Held
<1>2. BoundPairs(R, Held(R)) = {} /\ RecordPairs(E, DOMAIN E) = {}
  BY <1>1 DEF BoundPairs, RecordPairs
<1>3. BindingCountOK(R, 0) /\ RecordCountOK(E, 0)
  BY <1>1, <1>2, FS_EmptySet DEF BindingCountOK, RecordCountOK
<1>4. RegistrationsOK(R) /\ DestinationsOK(R, [d \in {} |-> {}]) /\ LeasesOK(R, {})
  BY <1>1 DEF RegistrationsOK, DestinationsOK, LeasesOK
<1>5. ExpiryOK(R, E)
  BY <1>1 DEF ExpiryOK
<1> QED BY <1>3, <1>4, <1>5 DEF Coherent

(* The empty shard satisfies the invariant. *)
LEMMA InitEstablishesIInv == Init => IInv
BY EmptyCoherent, RepliesAreTyped DEF Init, IInv

(* A step that only purges keeps the invariant. *)
LEMMA OnlyExpireKeepsIInv ==
    ASSUME IInv, OnlyExpire, now' = now, reply' \in Replies
    PROVE  IInv'
<1>1. LiveCoherent
  BY PurgeCoherent
<1> QED BY <1>1 DEF OnlyExpire, LiveCoherent, IInv

(* What the purge leaves is typed and has time left. *)
LEMMA LiveRegistrationsAreTyped ==
    ASSUME IInv, NEW key \in Keys, LiveRegistrations[key] # None
    PROVE  /\ key \in Held(LiveRegistrations)
           /\ LiveRegistrations[key] \in Registrations
           /\ LiveRegistrations[key].deadline - now \in Nat
<1>1. key \in Held(LiveRegistrations) /\ LiveRegistrations[key] \in Registrations
  BY PurgeCoherent DEF LiveCoherent, Coherent, RegistrationsOK, Held
<1>2. LiveRegistrations[key].deadline > now
  BY LiveMeansUnexpired DEF Unexpired
<1> QED BY <1>1, <1>2 DEF Registrations, IInv

(* register keeps the invariant. *)
LEMMA RegisterKeepsIInv ==
    ASSUME IInv, NEW key \in Keys, Register(key)
    PROVE  IInv'
<1>1. LiveCoherent /\ now' = now /\ key.shard = ThisShard
  BY PurgeCoherent DEF Register
<1>2. CASE RegisterExisting(key)
  <2>1. reply' \in Replies
    BY <1>2, LiveRegistrationsAreTyped, RepliesAreTyped DEF RegisterExisting, IInv
  <2> QED BY <1>1, <1>2, <2>1, OnlyExpireKeepsIInv DEF RegisterExisting
<1>3. CASE RegisterNew(key)
  <2>1. PICK lease \in LeaseIds \ LiveLeases :
          /\ registration_index' = [LiveRegistrations EXCEPT ![key] =
                [lease |-> lease, revision |-> 0,
                 deadline |-> now + LeaseTtl, bindings |-> {}]]
          /\ active_lease_ids' = LiveLeases \cup {lease}
          /\ expiry_index' = InsertExpiry(LiveExpiry, key, lease, now + LeaseTtl)
          /\ expiry_record_count' = LiveRecordCount +
                (IF HasExpiry(LiveExpiry, key, lease, now + LeaseTtl) THEN 0 ELSE 1)
          /\ reply' = Ack(lease, 0, LeaseTtl)
    BY <1>3 DEF RegisterNew
  <2> DEFINE r == [lease |-> lease, revision |-> 0,
                   deadline |-> now + LeaseTtl, bindings |-> {}]
  <2>2. r \in Registrations /\ LiveRegistrations[key] = None
    BY <1>3, LeaseTtlAssumption DEF Registrations, RegisterNew, IInv
  <2>3. r.lease = lease /\ r.revision = 0 /\ r.deadline = now + LeaseTtl /\ r.bindings = {}
    OBVIOUS
  <2> HIDE DEF r
  <2>4. Coherent([LiveRegistrations EXCEPT ![key] = r], LiveDestinations,
                 LiveLeases \cup {lease},
                 InsertExpiry(LiveExpiry, key, lease, now + LeaseTtl),
                 LiveBindingCount, LiveRecordCount + 1)
    BY <1>1, <2>2, <2>3, AddCoherent DEF LiveCoherent
  <2>5. ~ HasExpiry(LiveExpiry, key, lease, now + LeaseTtl)
    BY <1>1, <2>2, <2>3, AddExpiry DEF LiveCoherent, Coherent
  <2>6. reply' \in Replies
    BY <2>1, RepliesAreTyped, LeaseTtlAssumption
  <2>7. destination_index' = LiveDestinations /\ binding_count' = LiveBindingCount
    BY <1>3 DEF RegisterNew
  <2> QED BY <1>1, <2>1, <2>4, <2>5, <2>6, <2>7 DEF IInv, r
<1> QED BY <1>2, <1>3 DEF Register

(* update keeps the invariant. *)
LEMMA UpdateKeepsIInv ==
    ASSUME IInv, NEW key \in Keys, NEW lease \in LeaseIds, NEW revision \in 1 .. MaxRevision,
           NEW S \in SnapshotInputs, Update(key, lease, revision, S)
    PROVE  IInv'
<1>1. LiveCoherent /\ now' = now /\ revision \in Nat /\ revision # 0
  BY PurgeCoherent DEF Update
<1>2. CASE /\ OnlyExpire
           /\ \/ reply' = Error("InvalidArgument")
              \/ reply' = Error("FailedPrecondition")
              \/ IsCurrent(key, lease) /\ reply' = AckOf(LiveRegistrations[key], now)
  <2>1. IsCurrent(key, lease) => AckOf(LiveRegistrations[key], now) \in Replies
    BY LiveRegistrationsAreTyped, RepliesAreTyped DEF IsCurrent, IInv
  <2>2. Error("InvalidArgument") \in Replies /\ Error("FailedPrecondition") \in Replies
    BY RepliesAreTyped DEF ErrorCodes
  <2>3. reply' \in Replies
    BY <1>2, <2>1, <2>2
  <2> QED BY <1>1, <1>2, <2>3, OnlyExpireKeepsIInv
<1>3. CASE /\ IsBindingSnapshot(S) /\ InScope(key, S) /\ IsCurrent(key, lease)
           /\ UpdateInstall(key, lease, revision, S)
  <2> DEFINE old == LiveRegistrations[key]
             r == [lease |-> lease, revision |-> revision,
                   deadline |-> old.deadline, bindings |-> S]
  <2>1. /\ key \in Held(LiveRegistrations) /\ old \in Registrations
        /\ old.deadline - now \in Nat /\ old.lease = lease
    BY <1>3, LiveRegistrationsAreTyped DEF IsCurrent
  <2>2. S # {} /\ InScope(key, S) /\ S \subseteq Projections /\ IsFiniteSet(S)
    BY <1>3, InputAssumption DEF IsBindingSnapshot
  <2>3. /\ r \in Registrations /\ r.lease = old.lease /\ r.deadline = old.deadline
        /\ r.revision = revision /\ r.bindings = S
    BY <1>1, <2>1, <2>2 DEF Registrations
  <2>4. /\ registration_index' = [LiveRegistrations EXCEPT ![key] = r]
        /\ binding_count' = LiveBindingCount - Cardinality(old.bindings) + Cardinality(S)
        /\ destination_index' = InsertBindings(RemoveBindings(LiveDestinations, old.bindings), S)
        /\ active_lease_ids' = LiveLeases
        /\ expiry_index' = LiveExpiry
        /\ expiry_record_count' = LiveRecordCount
        /\ reply' = Ack(lease, revision, old.deadline - now)
    BY <1>3 DEF UpdateInstall
  <2> HIDE DEF r
  <2>5. Coherent([LiveRegistrations EXCEPT ![key] = r],
                 InsertBindings(RemoveBindings(LiveDestinations, old.bindings), r.bindings),
                 LiveLeases, LiveExpiry,
                 LiveBindingCount - Cardinality(old.bindings) + Cardinality(r.bindings),
                 LiveRecordCount)
    BY <1>1, <2>1, <2>2, <2>3, InstallCoherent DEF LiveCoherent
  <2>6. reply' \in Replies
    BY <1>1, <2>1, <2>4, RepliesAreTyped
  <2> HIDE DEF old
  <2> QED BY <1>1, <2>3, <2>4, <2>5, <2>6 DEF IInv
<1> QED BY <1>2, <1>3 DEF Update

(* keep_alive keeps the invariant. *)
LEMMA KeepAliveKeepsIInv ==
    ASSUME IInv, NEW key \in Keys, NEW lease \in LeaseIds, KeepAlive(key, lease)
    PROVE  IInv'
<1>1. LiveCoherent /\ now' = now
  BY PurgeCoherent DEF KeepAlive
<1>2. CASE /\ ~ IsCurrent(key, lease)
           /\ OnlyExpire
           /\ reply' = Error("FailedPrecondition")
  <2>1. reply' \in Replies
    BY <1>2, RepliesAreTyped DEF ErrorCodes
  <2> QED BY <1>1, <1>2, <2>1, OnlyExpireKeepsIInv
<1>3. CASE IsCurrent(key, lease) /\ Renew(key, lease)
  <2> DEFINE old == LiveRegistrations[key]
             r == [old EXCEPT !.deadline = now + LeaseTtl]
             freed == RemoveExpiry(LiveExpiry, key, lease, old.deadline)
  <2>1. key \in Held(LiveRegistrations) /\ old \in Registrations /\ old.lease = lease
    BY <1>3, LiveRegistrationsAreTyped DEF IsCurrent
  <2>2. /\ r \in Registrations /\ r.lease = old.lease /\ r.deadline = now + LeaseTtl
        /\ r.revision = old.revision /\ r.bindings = old.bindings
    BY <2>1, LeaseTtlAssumption DEF Registrations, IInv
  <2>3. /\ registration_index' = [LiveRegistrations EXCEPT ![key] = r]
        /\ expiry_index' = InsertExpiry(freed, key, lease, now + LeaseTtl)
        /\ expiry_record_count' =
              LiveRecordCount
              - (IF HasExpiry(LiveExpiry, key, lease, old.deadline) THEN 1 ELSE 0)
              + (IF HasExpiry(freed, key, lease, now + LeaseTtl) THEN 0 ELSE 1)
        /\ destination_index' = LiveDestinations
        /\ active_lease_ids' = LiveLeases
        /\ binding_count' = LiveBindingCount
        /\ reply' = Ack(lease, old.revision, LeaseTtl)
    BY <1>3 DEF Renew
  <2> HIDE DEF r
  <2>4. /\ HasExpiry(LiveExpiry, key, lease, old.deadline)
        /\ ~ HasExpiry(freed, key, lease, now + LeaseTtl)
        /\ Coherent([LiveRegistrations EXCEPT ![key] = r], LiveDestinations, LiveLeases,
                    InsertExpiry(freed, key, lease, now + LeaseTtl),
                    LiveBindingCount, LiveRecordCount)
    BY <1>1, <2>1, <2>2, RenewCoherent DEF LiveCoherent
  <2>5. LiveRecordCount \in Nat
    BY <1>1, FS_CardinalityType DEF LiveCoherent, Coherent, RecordCountOK
  <2>6. reply' \in Replies
    BY <2>1, <2>3, RepliesAreTyped, LeaseTtlAssumption DEF Registrations
  <2> HIDE DEF freed, old
  <2>7. expiry_record_count' = LiveRecordCount
    BY <2>3, <2>4, <2>5
  <2> QED BY <1>1, <2>3, <2>4, <2>6, <2>7 DEF IInv
<1> QED BY <1>2, <1>3 DEF KeepAlive

(* deregister keeps the invariant. *)
LEMMA DeregisterKeepsIInv ==
    ASSUME IInv, NEW key \in Keys, NEW lease \in LeaseIds, Deregister(key, lease)
    PROVE  IInv'
<1>1. LiveCoherent /\ now' = now
  BY PurgeCoherent DEF Deregister
<1>2. CASE /\ ~ IsCurrent(key, lease)
           /\ OnlyExpire
           /\ reply' = IF LiveRegistrations[key] = None
                       THEN Done ELSE Error("FailedPrecondition")
  <2>1. reply' \in Replies
    BY <1>2, RepliesAreTyped DEF ErrorCodes
  <2> QED BY <1>1, <1>2, <2>1, OnlyExpireKeepsIInv
<1>3. CASE IsCurrent(key, lease) /\ RemoveRegistration(key)
  <2> DEFINE old == LiveRegistrations[key]
  <2>1. key \in Held(LiveRegistrations)
    BY <1>3, LiveRegistrationsAreTyped DEF IsCurrent
  <2>2. [LiveRegistrations EXCEPT ![key] = None] = Without(LiveRegistrations, {key})
    BY <1>1 DEF Without, LiveCoherent, Coherent, RegistrationsOK
  <2>3. HasExpiry(LiveExpiry, key, old.lease, old.deadline)
    BY <1>1, <2>1, DropExpiry DEF LiveCoherent, Coherent
  <2>4. Coherent(Without(LiveRegistrations, {key}),
                 RemoveBindings(LiveDestinations, old.bindings), LiveLeases \ {old.lease},
                 RemoveExpiry(LiveExpiry, key, old.lease, old.deadline),
                 LiveBindingCount - Cardinality(old.bindings), LiveRecordCount - 1)
    BY <1>1, <2>1, DropCoherent DEF LiveCoherent
  <2>5. reply' \in Replies
    BY <1>3, RepliesAreTyped DEF RemoveRegistration
  <2> QED BY <1>1, <1>3, <2>2, <2>3, <2>4, <2>5 DEF RemoveRegistration, IInv
<1> QED BY <1>2, <1>3 DEF Deregister

(* resolve keeps the invariant. *)
LEMMA ResolveKeepsIInv ==
    ASSUME IInv, NEW generation \in Generations, NEW destination \in Destinations,
           Resolve(generation, destination)
    PROVE  IInv'
<1>1. \A d \in DOMAIN LiveDestinations : LiveDestinations[d] \in SUBSET Projections
  BY PurgeCoherent DEF LiveCoherent, Coherent, DestinationsOK
<1>2. /\ Error("FailedPrecondition") \in Replies /\ Error("InvalidArgument") \in Replies
      /\ Error("NotFound") \in Replies
      /\ \A d \in DOMAIN LiveDestinations : BindingSet(LiveDestinations[d]) \in Replies
  BY <1>1, RepliesAreTyped DEF ErrorCodes
<1>3. reply' \in Replies
  BY <1>2 DEF Resolve
<1> QED BY <1>3, OnlyExpireKeepsIInv DEF Resolve

(* Every step keeps the invariant. *)
LEMMA StepKeepsIInv == IInv /\ [Next]_vars => IInv'
<1> SUFFICES ASSUME IInv, [Next]_vars
             PROVE  IInv'
  OBVIOUS
<1>1. CASE Tick
  BY <1>1 DEF Tick, IInv, indexes
<1>2. CASE ExpireTimer
  BY <1>2, OnlyExpireKeepsIInv DEF ExpireTimer, IInv
<1>3. CASE Restart
  BY <1>3, EmptyCoherent, RepliesAreTyped DEF Restart, IInv
<1>4. ASSUME NEW gateway \in Gateways, NEW generation \in Generations, NEW key \in Keys,
             Reject(gateway, generation, key)
      PROVE  IInv'
  <2>1. reply' \in Replies
    BY <1>4, RepliesAreTyped DEF Reject
  <2> QED BY <1>4, <2>1, OnlyExpireKeepsIInv DEF Reject
<1>5. ASSUME NEW key \in Keys, Register(key)
      PROVE  IInv'
  BY <1>5, RegisterKeepsIInv
<1>6. ASSUME NEW key \in Keys, NEW lease \in LeaseIds, KeepAlive(key, lease)
      PROVE  IInv'
  BY <1>6, KeepAliveKeepsIInv
<1>7. ASSUME NEW key \in Keys, NEW lease \in LeaseIds, Deregister(key, lease)
      PROVE  IInv'
  BY <1>7, DeregisterKeepsIInv
<1>8. ASSUME NEW key \in Keys, NEW lease \in LeaseIds, NEW revision \in 1 .. MaxRevision,
             NEW S \in SnapshotInputs, Update(key, lease, revision, S)
      PROVE  IInv'
  BY <1>8, UpdateKeepsIInv
<1>9. ASSUME NEW generation \in Generations, NEW destination \in Destinations,
             Resolve(generation, destination)
      PROVE  IInv'
  BY <1>9, ResolveKeepsIInv
<1>10. CASE UNCHANGED vars
  BY <1>10 DEF vars, indexes, IInv
<1> QED BY <1>1, <1>2, <1>3, <1>4, <1>5, <1>6, <1>7, <1>8, <1>9, <1>10 DEF Next

-----------------------------------------------------------------------------
(***************************************************************************)
(* The invariants of the shard, for every instance.                        *)
(***************************************************************************)

(* What the invariant says of the properties that the runs check. *)
LEMMA IInvImpliesInvariants ==
    IInv => /\ TypeOK
            /\ DestinationsMirrorRegistrations
            /\ OneExpiryRecordPerLease
            /\ LeasesAreUnique
            /\ BindingsStayInScope
            /\ CountersMatchIndexes
<1> SUFFICES ASSUME IInv
             PROVE  /\ TypeOK
                    /\ DestinationsMirrorRegistrations
                    /\ OneExpiryRecordPerLease
                    /\ LeasesAreUnique
                    /\ BindingsStayInScope
                    /\ CountersMatchIndexes
  OBVIOUS
<1> USE DEF IInv, Coherent
<1>1. active_lease_ids \subseteq LeaseIds
  BY DEF LeasesOK, RegistrationsOK, Held, Registrations
<1>2. binding_count \in Nat /\ expiry_record_count \in Nat
  BY FS_CardinalityType DEF BindingCountOK, RecordCountOK
<1>3. TypeOK
  BY <1>1, <1>2 DEF TypeOK, RegistrationsOK, DestinationsOK, ExpiryOK
<1>4. DestinationsMirrorRegistrations
  BY DEF DestinationsMirrorRegistrations, DestinationsOK, Held
<1>5. OneExpiryRecordPerLease
  BY DEF OneExpiryRecordPerLease, ExpiryOK, Held
<1>6. LeasesAreUnique
  BY DEF LeasesAreUnique, LeasesOK, Held
<1>7. BindingsStayInScope
  BY DEF BindingsStayInScope, RegistrationsOK, Held
<1>8. CountersMatchIndexes
  BY DEF CountersMatchIndexes, BindingCountOK, RecordCountOK, BoundCount, RecordCount,
         BoundPairs, RecordPairs, Held
<1> QED BY <1>3, <1>4, <1>5, <1>6, <1>7, <1>8

(* The invariant holds in every reachable state of the shard. *)
LEMMA SpecKeepsIInv == Spec => []IInv
BY InitEstablishesIInv, StepKeepsIInv, PTL DEF Spec

(* The shard's state is well typed; its usize counters never underflow.    *)
THEOREM TypeCorrect == Spec => []TypeOK
BY SpecKeepsIInv, IInvImpliesInvariants, PTL

(* The destination index is the inverse of the registrations.              *)
THEOREM DestinationIndexIsExact == Spec => []DestinationsMirrorRegistrations
BY SpecKeepsIInv, IInvImpliesInvariants, PTL

(* Each lease has exactly one expiry record, at its current deadline.      *)
THEOREM ExpiryIndexIsExact == Spec => []OneExpiryRecordPerLease
BY SpecKeepsIInv, IInvImpliesInvariants, PTL

(* No lease is shared, and the active leases are those in use.             *)
THEOREM LeasesStayUnique == Spec => []LeasesAreUnique
BY SpecKeepsIInv, IInvImpliesInvariants, PTL

(* Registrations bind only their own identities and this shard's destinations. *)
THEOREM ScopesAreKept == Spec => []BindingsStayInScope
BY SpecKeepsIInv, IInvImpliesInvariants, PTL

(* The sizes behind stats() are exact.                                     *)
THEOREM CountersAreExact == Spec => []CountersMatchIndexes
BY SpecKeepsIInv, IInvImpliesInvariants, PTL

(* All indexes and counters of the shard agree.                            *)
THEOREM IndexesStayInStep == Spec => []IndexesAgree
<1>1. IInv => IndexesAgree
  BY IInvImpliesInvariants DEF IndexesAgree
<1> QED BY <1>1, SpecKeepsIInv, PTL

-----------------------------------------------------------------------------
(***************************************************************************)
(* What clients see.                                                       *)
(***************************************************************************)

(* The index a Resolve reads holds exactly the bindings with time left.    *)
LEMMA LiveIndexIsExact ==
    ASSUME IInv, NEW d \in Destinations
    PROVE  LET live == {p \in UNION {registration_index[k].bindings :
                                        k \in {l \in Keys : Unexpired(l)}} :
                          p.destination = d}
           IN  /\ (live # {}) <=> (d \in DOMAIN LiveDestinations)
               /\ d \in DOMAIN LiveDestinations =>
                     LiveDestinations[d] = live /\ LiveDestinations[d] # {}
<1> DEFINE live == {p \in UNION {registration_index[k].bindings :
                                    k \in {l \in Keys : Unexpired(l)}} :
                      p.destination = d}
<1>1. RegistrationsOK(LiveRegistrations) /\ DestinationsOK(LiveRegistrations, LiveDestinations)
  BY PurgeCoherent DEF LiveCoherent, Coherent
<1>2. \A k \in Keys :
        /\ k \in Held(LiveRegistrations) <=> Unexpired(k)
        /\ Unexpired(k) => LiveRegistrations[k] = registration_index[k]
  BY LiveMeansUnexpired DEF Held
<1>3. \A p : p \in live <=> /\ p.destination = d
                            /\ \E k \in Held(LiveRegistrations) : p \in LiveRegistrations[k].bindings
  BY <1>2 DEF Held
<1>4. live \subseteq Projections
  BY <1>1, <1>3 DEF RegistrationsOK, Registrations, Held
<1> HIDE DEF live
<1>5. CASE d \in DOMAIN LiveDestinations
  <2>1. LiveDestinations[d] = live
    BY <1>1, <1>3, <1>4, <1>5 DEF DestinationsOK
  <2> QED BY <1>1, <1>5, <2>1 DEF DestinationsOK, live
<1>6. CASE d \notin DOMAIN LiveDestinations
  <2>1. live = {}
    BY <1>1, <1>3, <1>6 DEF DestinationsOK
  <2> QED BY <1>6, <2>1 DEF live
<1> QED BY <1>5, <1>6

(* A Resolve answers with every binding whose lease has time left, and     *)
(* with no other, whatever the shard has yet to purge.                     *)
THEOREM ResolveIsExact == Spec => ResolveAnswersLiveBindings
<1> DEFINE live(d) == {p \in UNION {registration_index[k].bindings :
                                       k \in {l \in Keys : Unexpired(l)}} :
                         p.destination = d}
           Exact == \A d \in Destinations :
              Resolve(Generation, d) /\ Authority[d] = ThisShard =>
                 reply' = IF live(d) = {} THEN Error("NotFound") ELSE BindingSet(live(d))
<1>1. ASSUME IInv
      PROVE  Exact
  <2> SUFFICES ASSUME NEW d \in Destinations, Resolve(Generation, d), Authority[d] = ThisShard
               PROVE  reply' = IF live(d) = {} THEN Error("NotFound") ELSE BindingSet(live(d))
    OBVIOUS
  <2>1. /\ (live(d) # {}) <=> (d \in DOMAIN LiveDestinations)
        /\ d \in DOMAIN LiveDestinations =>
              LiveDestinations[d] = live(d) /\ LiveDestinations[d] # {}
    BY <1>1, LiveIndexIsExact
  <2> HIDE DEF live
  <2>2. reply' = IF d \in DOMAIN LiveDestinations /\ LiveDestinations[d] # {}
                 THEN BindingSet(LiveDestinations[d]) ELSE Error("NotFound")
    BY DEF Resolve
  <2> QED BY <2>1, <2>2
<1>2. IInv => [Exact]_vars
  BY <1>1
<1> QED BY <1>2, SpecKeepsIInv, PTL DEF ResolveAnswersLiveBindings

-----------------------------------------------------------------------------
(***************************************************************************)
(* No deadline lies further ahead than one TTL, so a renewal never moves   *)
(* one back.                                                               *)
(***************************************************************************)
DeadlinesWithinTtl ==
    \A k \in Keys : registration_index[k] # None =>
        registration_index[k].deadline <= now + LeaseTtl

(* What a request does to the registrations: it leaves the unexpired ones  *)
(* alone, adds one, renews one, replaces the bindings of one with a higher *)
(* revision, or removes one.                                               *)
LEMMA RegistrationSteps ==
    ASSUME IInv, Next, registration_index' # registration_index
    PROVE  \/ registration_index' = LiveRegistrations
           \/ registration_index' = [k \in Keys |-> None]
           \/ \E key \in Keys, r \in Registrations :
                 /\ registration_index' = [LiveRegistrations EXCEPT ![key] = r]
                 /\ \/ /\ LiveRegistrations[key] = None
                       /\ r.deadline = now + LeaseTtl
                    \/ /\ LiveRegistrations[key] # None
                       /\ r.lease = LiveRegistrations[key].lease
                       /\ r.revision = LiveRegistrations[key].revision
                       /\ r.bindings = LiveRegistrations[key].bindings
                       /\ r.deadline = now + LeaseTtl
                    \/ /\ LiveRegistrations[key] # None
                       /\ r.lease = LiveRegistrations[key].lease
                       /\ r.revision > LiveRegistrations[key].revision
                       /\ r.deadline = LiveRegistrations[key].deadline
           \/ \E key \in Keys : registration_index' = [LiveRegistrations EXCEPT ![key] = None]
<1> DEFINE Changed ==
           \/ registration_index' = LiveRegistrations
           \/ registration_index' = [k \in Keys |-> None]
           \/ \E key \in Keys, r \in Registrations :
                 /\ registration_index' = [LiveRegistrations EXCEPT ![key] = r]
                 /\ \/ /\ LiveRegistrations[key] = None
                       /\ r.deadline = now + LeaseTtl
                    \/ /\ LiveRegistrations[key] # None
                       /\ r.lease = LiveRegistrations[key].lease
                       /\ r.revision = LiveRegistrations[key].revision
                       /\ r.bindings = LiveRegistrations[key].bindings
                       /\ r.deadline = now + LeaseTtl
                    \/ /\ LiveRegistrations[key] # None
                       /\ r.lease = LiveRegistrations[key].lease
                       /\ r.revision > LiveRegistrations[key].revision
                       /\ r.deadline = LiveRegistrations[key].deadline
           \/ \E key \in Keys : registration_index' = [LiveRegistrations EXCEPT ![key] = None]
<1>1. CASE OnlyExpire
  BY <1>1 DEF OnlyExpire
<1>2. CASE Restart
  BY <1>2 DEF Restart
<1>3. ASSUME NEW key \in Keys, RegisterNew(key)
      PROVE  Changed
  <2>1. PICK lease \in LeaseIds :
          registration_index' = [LiveRegistrations EXCEPT ![key] =
                [lease |-> lease, revision |-> 0,
                 deadline |-> now + LeaseTtl, bindings |-> {}]]
    BY <1>3 DEF RegisterNew
  <2> DEFINE r == [lease |-> lease, revision |-> 0,
                   deadline |-> now + LeaseTtl, bindings |-> {}]
  <2>2. r \in Registrations /\ r.deadline = now + LeaseTtl
    BY LeaseTtlAssumption DEF Registrations, IInv
  <2>3. LiveRegistrations[key] = None
    BY <1>3 DEF RegisterNew
  <2> QED BY <2>1, <2>2, <2>3
<1>4. ASSUME NEW key \in Keys, NEW lease \in LeaseIds, IsCurrent(key, lease), Renew(key, lease)
      PROVE  Changed
  <2> DEFINE old == LiveRegistrations[key]
             r == [old EXCEPT !.deadline = now + LeaseTtl]
  <2>1. old \in Registrations /\ old # None
    BY <1>4, LiveRegistrationsAreTyped DEF IsCurrent
  <2>2. /\ r \in Registrations /\ r.lease = old.lease /\ r.deadline = now + LeaseTtl
        /\ r.revision = old.revision /\ r.bindings = old.bindings
    BY <2>1, LeaseTtlAssumption DEF Registrations, IInv
  <2>3. registration_index' = [LiveRegistrations EXCEPT ![key] = r]
    BY <1>4 DEF Renew
  <2> HIDE DEF r
  <2> QED BY <2>1, <2>2, <2>3
<1>5. ASSUME NEW key \in Keys, NEW lease \in LeaseIds, NEW revision \in 1 .. MaxRevision,
             NEW S \in SnapshotInputs, IsCurrent(key, lease),
             Installs(LiveRegistrations[key], revision, S),
             UpdateInstall(key, lease, revision, S)
      PROVE  Changed
  <2> DEFINE old == LiveRegistrations[key]
             r == [lease |-> lease, revision |-> revision,
                   deadline |-> old.deadline, bindings |-> S]
  <2>1. old \in Registrations /\ old # None /\ old.lease = lease
    BY <1>5, LiveRegistrationsAreTyped DEF IsCurrent
  <2>2. revision \in Nat /\ revision > old.revision
    BY <1>5, <2>1 DEF Installs, Advances, Registrations
  <2>3. r \in Registrations /\ r.lease = old.lease /\ r.revision > old.revision /\ r.deadline = old.deadline
    BY <2>1, <2>2, InputAssumption DEF Registrations
  <2>4. registration_index' = [LiveRegistrations EXCEPT ![key] = r]
    BY <1>5 DEF UpdateInstall
  <2> HIDE DEF r
  <2> QED BY <2>1, <2>3, <2>4
<1>6. ASSUME NEW key \in Keys, RemoveRegistration(key)
      PROVE  Changed
  BY <1>6 DEF RemoveRegistration
<1> HIDE DEF Changed
<1>7. ASSUME NEW key \in Keys, Register(key)
      PROVE  Changed
  <2>1. CASE RegisterExisting(key)
    BY <1>1, <2>1 DEF RegisterExisting, Changed
  <2> QED BY <1>3, <1>7, <2>1 DEF Register
<1>8. ASSUME NEW key \in Keys, NEW lease \in LeaseIds,
             KeepAlive(key, lease) \/ Deregister(key, lease)
      PROVE  Changed
  BY <1>1, <1>4, <1>6, <1>8 DEF KeepAlive, Deregister, Changed
<1>9. ASSUME NEW key \in Keys, NEW lease \in LeaseIds, NEW revision \in 1 .. MaxRevision,
             NEW S \in SnapshotInputs, Update(key, lease, revision, S)
      PROVE  Changed
  BY <1>1, <1>5, <1>9 DEF Update, Changed
<1>10. ASSUME ExpireTimer
       PROVE  Changed
  BY <1>1, <1>10 DEF ExpireTimer, Changed
<1>11. ASSUME NEW gateway, NEW generation, NEW key, Reject(gateway, generation, key)
       PROVE  Changed
  BY <1>1, <1>11 DEF Reject, Changed
<1>12. ASSUME NEW generation, NEW destination, Resolve(generation, destination)
       PROVE  Changed
  BY <1>1, <1>12 DEF Resolve, Changed
<1>13. ~ Tick
  BY DEF Tick, indexes
<1>14. Changed
  BY <1>2, <1>7, <1>8, <1>9, <1>10, <1>11, <1>12, <1>13 DEF Next, Changed
<1> QED BY <1>14 DEF Changed

(* A step that changes a registration does not let time pass. *)
LEMMA OnlyTickMovesTime ==
    ASSUME [Next]_vars, registration_index' # registration_index
    PROVE  Next /\ now' = now
<1>1. Next /\ ~ Tick
  BY DEF vars, indexes, Tick
<1> QED BY <1>1 DEF Next, ExpireTimer, Restart, Reject, Register, KeepAlive, Deregister,
                    Update, Resolve

(* No deadline lies further ahead than the lease time, in every reachable state. *)
LEMMA DeadlinesStayWithinTtl == Spec => []DeadlinesWithinTtl
<1>1. Init => DeadlinesWithinTtl
  BY DEF Init, DeadlinesWithinTtl
<1>2. ASSUME IInv, DeadlinesWithinTtl, [Next]_vars
      PROVE  DeadlinesWithinTtl'
  <2>1. \A k \in Keys : registration_index[k] # None => registration_index[k].deadline \in Nat
    BY <1>2 DEF IInv, Coherent, RegistrationsOK, Registrations
  <2>2. CASE registration_index' = registration_index
    <3>1. now \in Nat /\ now' \in Nat /\ (now' = now \/ now' = now + 1)
      BY <1>2, StepKeepsIInv DEF IInv, Next, Tick, ExpireTimer, Restart, Reject, Register,
                                 KeepAlive, Deregister, Update, Resolve, vars
    <3> QED BY <1>2, <2>1, <2>2, <3>1, LeaseTtlAssumption DEF DeadlinesWithinTtl
  <2>3. CASE registration_index' # registration_index
    <3>1. Next /\ now' = now
      BY <1>2, <2>3, OnlyTickMovesTime
    <3>2. LiveRegistrations \in [Keys -> Registrations \cup {None}]
      BY <1>2, PurgeCoherent DEF LiveCoherent, Coherent, RegistrationsOK
    <3>3. \A k \in Keys : LiveRegistrations[k] # None =>
              LiveRegistrations[k].deadline <= now + LeaseTtl
      BY <1>2, LiveMeansUnexpired DEF DeadlinesWithinTtl, Unexpired
    <3>4. now + LeaseTtl <= now + LeaseTtl
      BY <1>2, LeaseTtlAssumption DEF IInv
    <3> HIDE DEF LiveRegistrations
    <3> QED BY <1>2, <2>3, <3>1, <3>2, <3>3, <3>4, RegistrationSteps DEF DeadlinesWithinTtl
  <2> QED BY <2>2, <2>3
<1> QED BY <1>1, <1>2, SpecKeepsIInv, PTL DEF Spec

(* While a lease lasts its bindings change only with a higher revision and *)
(* its deadline never moves back.                                          *)
THEOREM LeasesMoveForward == Spec => LeaseOnlyMovesForward
<1> DEFINE Forward == \A k \in Keys :
          SameLease(k) /\ Unexpired(k) =>
             /\ registration_index'[k].revision >= registration_index[k].revision
             /\ registration_index'[k].deadline >= registration_index[k].deadline
             /\ registration_index'[k].bindings # registration_index[k].bindings =>
                   registration_index'[k].revision > registration_index[k].revision
<1>1. ASSUME IInv, DeadlinesWithinTtl, [Next]_vars, registration_index' # registration_index
      PROVE  Forward
  <2> SUFFICES ASSUME NEW k \in Keys, SameLease(k), Unexpired(k)
               PROVE  /\ registration_index'[k].revision >= registration_index[k].revision
                      /\ registration_index'[k].deadline >= registration_index[k].deadline
                      /\ registration_index'[k].bindings # registration_index[k].bindings =>
                            registration_index'[k].revision > registration_index[k].revision
    OBVIOUS
  <2>1. Next
    BY <1>1, OnlyTickMovesTime
  <2>2. LiveRegistrations \in [Keys -> Registrations \cup {None}]
    BY <1>1, PurgeCoherent DEF LiveCoherent, Coherent, RegistrationsOK
  <2>3. LiveRegistrations[k] = registration_index[k] /\ registration_index[k] # None
    BY <1>1, LiveMeansUnexpired DEF Unexpired
  <2>4. registration_index'[k] # None
    BY DEF SameLease
  <2>5. /\ registration_index[k].deadline \in Nat /\ registration_index[k].revision \in Nat
        /\ registration_index[k].deadline <= now + LeaseTtl /\ now + LeaseTtl \in Nat
    BY <1>1, <2>2, <2>3, LeaseTtlAssumption DEF Registrations, DeadlinesWithinTtl, IInv
  <2> HIDE DEF LiveRegistrations
  <2>6. CASE registration_index'[k] = registration_index[k]
    BY <2>5, <2>6
  <2>7. CASE registration_index'[k] # registration_index[k]
    <3>1. PICK r \in Registrations :
             /\ registration_index'[k] = r
             /\ \/ /\ r.revision = registration_index[k].revision
                   /\ r.bindings = registration_index[k].bindings
                   /\ r.deadline = now + LeaseTtl
                \/ /\ r.revision > registration_index[k].revision
                   /\ r.deadline = registration_index[k].deadline
      BY <1>1, <2>1, <2>2, <2>3, <2>4, <2>7, RegistrationSteps
    <3> QED BY <2>5, <3>1 DEF Registrations
  <2> QED BY <2>6, <2>7
<1>2. ASSUME IInv, registration_index' = registration_index
      PROVE  Forward
  BY <1>2 DEF IInv, Coherent, RegistrationsOK, Registrations, Unexpired
<1>3. IInv /\ DeadlinesWithinTtl /\ [Next]_vars => [Forward]_vars
  BY <1>1, <1>2
<1> QED BY <1>3, SpecKeepsIInv, DeadlinesStayWithinTtl, PTL DEF Spec, LeaseOnlyMovesForward

-----------------------------------------------------------------------------
(***************************************************************************)
(* The shard implements the RouteTable contract.  The abstract table is    *)
(* what the purge would leave.                                             *)
(***************************************************************************)
Table == [k \in Keys |-> IF Unexpired(k) THEN registration_index[k] ELSE None]

(* That table is the live registrations. *)
LEMMA TableIsLive ==
    ASSUME IInv
    PROVE  Table = LiveRegistrations
BY LiveMeansUnexpired DEF Table, LiveRegistrations

(* A step in no time whose registrations all have time left shows them as  *)
(* the new table.                                                          *)
LEMMA NextTable ==
    ASSUME now' = now, NEW X, registration_index' = X,
           \A k \in Keys : X[k] # None => X[k].deadline > now,
           X \in [Keys -> Registrations \cup {None}]
    PROVE  Table' = X
<1>1. \A k \in Keys : Unexpired(k)' <=> X[k] # None
  BY DEF Unexpired
<1> QED BY <1>1 DEF Table

(* A step that only purges shows the same table. *)
LEMMA OnlyExpireKeepsTable ==
    ASSUME IInv, OnlyExpire, now' = now
    PROVE  Table' = Table
<1>1. LiveRegistrations \in [Keys -> Registrations \cup {None}]
  BY PurgeCoherent DEF LiveCoherent, Coherent, RegistrationsOK
<1>2. \A k \in Keys : LiveRegistrations[k] # None => LiveRegistrations[k].deadline > now
  BY LiveMeansUnexpired DEF Unexpired
<1>3. Table' = LiveRegistrations
  BY <1>1, <1>2, NextTable DEF OnlyExpire
<1> QED BY <1>3, TableIsLive

(* A step that sets one registration with time left shows just that change. *)
LEMMA SetKeepsRestOfTable ==
    ASSUME IInv, now' = now, NEW key \in Keys, NEW r \in Registrations \cup {None},
           r # None => r.deadline > now,
           registration_index' = [LiveRegistrations EXCEPT ![key] = r]
    PROVE  Table' = [Table EXCEPT ![key] = r]
<1>1. LiveRegistrations \in [Keys -> Registrations \cup {None}]
  BY PurgeCoherent DEF LiveCoherent, Coherent, RegistrationsOK
<1>2. \A k \in Keys : LiveRegistrations[k] # None => LiveRegistrations[k].deadline > now
  BY LiveMeansUnexpired DEF Unexpired
<1> DEFINE X == [LiveRegistrations EXCEPT ![key] = r]
<1> HIDE DEF LiveRegistrations
<1>3. X \in [Keys -> Registrations \cup {None}] /\ \A k \in Keys : X[k] # None => X[k].deadline > now
  BY <1>1, <1>2
<1> HIDE DEF X
<1>4. Table' = X
  BY <1>3, NextTable DEF X
<1> QED BY <1>4, TableIsLive DEF X

(* The contract is instantiated with the shard's own constants, so its     *)
(* vocabulary is the shard's.                                              *)
LEMMA SameVocabulary ==
    /\ Contract!Keys = Keys
    /\ Contract!NoReply = NoReply
    /\ Contract!Done = Done
    /\ \A code : Contract!Error(code) = Error(code)
    /\ \A S : Contract!BindingSet(S) = BindingSet(S)
    /\ \A lease, revision, left :
          Contract!Ack(lease, revision, left) = Ack(lease, revision, left)
    /\ \A r, t : Contract!AckOf(r, t) = AckOf(r, t)
    /\ \A g, n, k : Contract!Verdict(g, n, k) = Verdict(g, n, k)
    /\ \A S : Contract!IsBindingSnapshot(S) <=> IsBindingSnapshot(S)
    /\ \A k, S : Contract!InScope(k, S) <=> InScope(k, S)
    /\ \A r, n, S : Contract!Repeats(r, n, S) <=> Repeats(r, n, S)
    /\ \A r, n, S : Contract!Installs(r, n, S) <=> Installs(r, n, S)
BY DEF Contract!Keys, Keys, Contract!NoReply, NoReply, Contract!Done, Done,
       Contract!Error, Error, Contract!BindingSet, BindingSet, Contract!Ack, Ack,
       Contract!AckOf, AckOf, Contract!Verdict, Verdict,
       Contract!IsBindingSnapshot, IsBindingSnapshot, Contract!InScope, InScope,
       Contract!Repeats, Repeats, Contract!Installs, Installs,
       Contract!Advances, Advances, Contract!KeepsIdentities, KeepsIdentities

(* register is a Register of the contract. *)
LEMMA RegisterImplements ==
    ASSUME IInv, NEW key \in Keys, Register(key)
    PROVE  Contract!TableRegister(key)
<1>1. Table = LiveRegistrations /\ now' = now /\ key.shard = ThisShard
  BY TableIsLive DEF Register
<1>2. CASE RegisterExisting(key)
  <2>1. Table' = Table
    BY <1>1, <1>2, OnlyExpireKeepsTable DEF RegisterExisting
  <2>2. Table[key] # None /\ reply' = AckOf(Table[key], now)
    BY <1>1, <1>2 DEF RegisterExisting
  <2> QED BY <1>1, <2>1, <2>2, SameVocabulary DEF Contract!TableRegister, Table
<1>3. CASE RegisterNew(key)
  <2>1. PICK lease \in LeaseIds \ LiveLeases :
          /\ registration_index' = [LiveRegistrations EXCEPT ![key] =
                [lease |-> lease, revision |-> 0,
                 deadline |-> now + LeaseTtl, bindings |-> {}]]
          /\ reply' = Ack(lease, 0, LeaseTtl)
    BY <1>3 DEF RegisterNew
  <2> DEFINE r == [lease |-> lease, revision |-> 0,
                   deadline |-> now + LeaseTtl, bindings |-> {}]
  <2>2. r \in Registrations /\ r.deadline > now
    BY LeaseTtlAssumption DEF Registrations, IInv
  <2>3. Table' = [Table EXCEPT ![key] = r]
    BY <1>1, <2>1, <2>2, SetKeepsRestOfTable
  <2>4. \A k \in Keys : Table[k] # None => Table[k].lease # lease
    <3>1. LeasesOK(LiveRegistrations, LiveLeases)
      BY PurgeCoherent DEF LiveCoherent, Coherent
    <3> QED BY <1>1, <2>1, <3>1 DEF LeasesOK, Held
  <2>5. Table[key] = None
    BY <1>1, <1>3 DEF RegisterNew
  <2> QED BY <1>1, <2>1, <2>3, <2>4, <2>5, SameVocabulary DEF Contract!TableRegister, Table
<1> QED BY <1>2, <1>3 DEF Register

(* update is an Update of the contract. *)
LEMMA UpdateImplements ==
    ASSUME IInv, NEW key \in Keys, NEW lease \in LeaseIds, NEW revision \in 1 .. MaxRevision,
           NEW S \in SnapshotInputs, Update(key, lease, revision, S)
    PROVE  Contract!TableUpdate(key, lease, revision, S)
<1> DEFINE valid == IsBindingSnapshot(S) /\ InScope(key, S)
           r == LiveRegistrations[key]
<1>1. /\ Table = LiveRegistrations /\ now' = now /\ key.shard = ThisShard
      /\ IsCurrent(key, lease) <=> Contract!HoldsLease(key, lease)
  BY TableIsLive DEF Update, IsCurrent, Contract!HoldsLease, Table
<1>2. OnlyExpire => Table' = Table
  BY <1>1, OnlyExpireKeepsTable
<1> HIDE DEF valid
<1>3. CASE ~ valid /\ OnlyExpire /\ reply' = Error("InvalidArgument")
  BY <1>1, <1>2, <1>3, SameVocabulary DEF Contract!TableUpdate, valid, Table
<1>4. CASE /\ valid
           /\ ~ (/\ IsCurrent(key, lease)
                 /\ Repeats(r, revision, S) \/ Installs(r, revision, S))
           /\ OnlyExpire
           /\ reply' = Error("FailedPrecondition")
  BY <1>1, <1>2, <1>4, SameVocabulary DEF Contract!TableUpdate, valid, Table
<1>5. CASE /\ valid /\ IsCurrent(key, lease) /\ Repeats(r, revision, S)
           /\ OnlyExpire
           /\ reply' = AckOf(r, now)
  BY <1>1, <1>2, <1>5, SameVocabulary DEF Contract!TableUpdate, valid, Table
<1>6. CASE /\ valid /\ IsCurrent(key, lease) /\ Installs(r, revision, S)
           /\ UpdateInstall(key, lease, revision, S)
  <2> DEFINE new == [lease |-> lease, revision |-> revision,
                     deadline |-> r.deadline, bindings |-> S]
  <2>1. r \in Registrations /\ r.deadline > now
    BY <1>6, LiveRegistrationsAreTyped, LiveMeansUnexpired DEF IsCurrent, Unexpired
  <2>2. new \in Registrations /\ new.deadline > now
    BY <2>1, InputAssumption DEF Registrations
  <2>3. Table' = [Table EXCEPT ![key] = new] /\ reply' = Ack(lease, revision, r.deadline - now)
    BY <1>1, <1>6, <2>2, SetKeepsRestOfTable DEF UpdateInstall
  <2> QED BY <1>1, <1>6, <2>3, SameVocabulary DEF Contract!TableUpdate, valid, Table
<1> QED BY <1>3, <1>4, <1>5, <1>6 DEF Update, valid

(* keep_alive is a KeepAlive of the contract. *)
LEMMA KeepAliveImplements ==
    ASSUME IInv, NEW key \in Keys, NEW lease \in LeaseIds, KeepAlive(key, lease)
    PROVE  Contract!TableKeepAlive(key, lease)
<1>1. /\ Table = LiveRegistrations /\ now' = now /\ key.shard = ThisShard
      /\ IsCurrent(key, lease) <=> Contract!HoldsLease(key, lease)
  BY TableIsLive DEF KeepAlive, IsCurrent, Contract!HoldsLease, Table
<1>2. CASE /\ ~ IsCurrent(key, lease)
           /\ OnlyExpire
           /\ reply' = Error("FailedPrecondition")
  BY <1>1, <1>2, OnlyExpireKeepsTable, SameVocabulary DEF Contract!TableKeepAlive, Table
<1>3. CASE IsCurrent(key, lease) /\ Renew(key, lease)
  <2> DEFINE old == LiveRegistrations[key]
             r == [old EXCEPT !.deadline = now + LeaseTtl]
  <2>1. old \in Registrations
    BY <1>3, LiveRegistrationsAreTyped DEF IsCurrent
  <2>2. r \in Registrations /\ r.deadline > now
    BY <2>1, LeaseTtlAssumption DEF Registrations, IInv
  <2>3. Table' = [Table EXCEPT ![key] = r] /\ reply' = Ack(lease, old.revision, LeaseTtl)
    BY <1>1, <1>3, <2>2, SetKeepsRestOfTable DEF Renew
  <2> QED BY <1>1, <1>3, <2>3, SameVocabulary DEF Contract!TableKeepAlive, Table
<1> QED BY <1>2, <1>3 DEF KeepAlive

(* deregister is a Deregister of the contract. *)
LEMMA DeregisterImplements ==
    ASSUME IInv, NEW key \in Keys, NEW lease \in LeaseIds, Deregister(key, lease)
    PROVE  Contract!TableDeregister(key, lease)
<1>1. /\ Table = LiveRegistrations /\ now' = now /\ key.shard = ThisShard
      /\ IsCurrent(key, lease) <=> Contract!HoldsLease(key, lease)
      /\ IsCurrent(key, lease) <=> Table[key] # None /\ Table[key].lease = lease
  BY TableIsLive DEF Deregister, IsCurrent, Contract!HoldsLease, Table
<1>2. CASE /\ ~ IsCurrent(key, lease)
           /\ OnlyExpire
           /\ reply' = IF LiveRegistrations[key] = None
                       THEN Done ELSE Error("FailedPrecondition")
  BY <1>1, <1>2, OnlyExpireKeepsTable, SameVocabulary DEF Contract!TableDeregister, Table
<1>3. CASE IsCurrent(key, lease) /\ RemoveRegistration(key)
  <2>1. Table' = [Table EXCEPT ![key] = None] /\ reply' = Done
    BY <1>1, <1>3, SetKeepsRestOfTable DEF RemoveRegistration
  <2> QED BY <1>1, <1>3, <2>1, SameVocabulary DEF Contract!TableDeregister, Table
<1> QED BY <1>2, <1>3 DEF Deregister

(* resolve is a Resolve of the contract. *)
LEMMA ResolveImplements ==
    ASSUME IInv, NEW generation \in Generations, NEW destination \in Destinations,
           Resolve(generation, destination)
    PROVE  Contract!TableResolve(generation, destination)
<1> DEFINE live == {p \in UNION {registration_index[k].bindings :
                                    k \in {l \in Keys : Unexpired(l)}} :
                      p.destination = destination}
<1>1. Table' = Table /\ now' = now
  BY OnlyExpireKeepsTable DEF Resolve
<1>2. Contract!LiveBindings(destination) = live
  <2>1. {l \in Keys : Table[l] # None} = {l \in Keys : Unexpired(l)}
    BY DEF Table, Unexpired
  <2>2. UNION {Table[k].bindings : k \in {l \in Keys : Table[l] # None}}
        = UNION {registration_index[k].bindings : k \in {l \in Keys : Unexpired(l)}}
    BY <2>1 DEF Table
  <2> QED BY <2>2, SameVocabulary DEF Contract!LiveBindings, Table
<1>3. /\ (live # {}) <=> (destination \in DOMAIN LiveDestinations)
      /\ destination \in DOMAIN LiveDestinations =>
            LiveDestinations[destination] = live /\ LiveDestinations[destination] # {}
  BY LiveIndexIsExact
<1> HIDE DEF live
<1> QED BY <1>1, <1>2, <1>3, SameVocabulary DEF Resolve, Contract!TableResolve, Table

(* Every behaviour of the shard is one the contract allows.                *)
THEOREM ShardImplementsContract == Spec => ImplementsContract
<1>1. Init => Contract!TableInit
  BY SameVocabulary DEF Init, Contract!TableInit, Unexpired
<1>2. ASSUME IInv, [Next]_vars
      PROVE  [Contract!TableNext]_(Contract!tableVars)
  <2>1. CASE Tick
    <3>1. \A k \in Keys : registration_index[k] # None => registration_index[k].deadline \in Nat
      BY <1>2 DEF IInv, Coherent, RegistrationsOK, Registrations
    <3>2. Contract!TableTick
      BY <1>2, <2>1, <3>1, SameVocabulary DEF Tick, indexes, Contract!TableTick, Unexpired, IInv
    <3> QED BY <3>2, SameVocabulary DEF Contract!TableNext
  <2>2. CASE ExpireTimer
    <3>1. Table' = Table /\ now' = now /\ reply' = reply
      BY <1>2, <2>2, OnlyExpireKeepsTable DEF ExpireTimer
    <3> QED BY <3>1 DEF Contract!tableVars, Table
  <2>3. CASE Restart
    <3>1. Contract!TableRestart
      BY <2>3, SameVocabulary DEF Restart, Contract!TableRestart, Unexpired
    <3> QED BY <3>1, SameVocabulary DEF Contract!TableNext
  <2>4. ASSUME NEW gateway \in Gateways, NEW generation \in Generations, NEW key \in Keys,
               Reject(gateway, generation, key)
        PROVE  Contract!TableNext
    <3>1. Table' = Table
      BY <1>2, <2>4, OnlyExpireKeepsTable DEF Reject
    <3>2. Contract!TableReject(gateway, generation, key)
      BY <2>4, <3>1, SameVocabulary DEF Reject, Contract!TableReject, Table
    <3> QED BY <3>2, SameVocabulary DEF Contract!TableNext
  <2>5. ASSUME NEW key \in Keys, Register(key)
        PROVE  Contract!TableNext
    BY <1>2, <2>5, RegisterImplements, SameVocabulary DEF Contract!TableNext
  <2>6. ASSUME NEW key \in Keys, NEW lease \in LeaseIds, KeepAlive(key, lease)
        PROVE  Contract!TableNext
    BY <1>2, <2>6, KeepAliveImplements, SameVocabulary DEF Contract!TableNext
  <2>7. ASSUME NEW key \in Keys, NEW lease \in LeaseIds, Deregister(key, lease)
        PROVE  Contract!TableNext
    BY <1>2, <2>7, DeregisterImplements, SameVocabulary DEF Contract!TableNext
  <2>8. ASSUME NEW key \in Keys, NEW lease \in LeaseIds, NEW revision \in 1 .. MaxRevision,
               NEW S \in SnapshotInputs, Update(key, lease, revision, S)
        PROVE  Contract!TableNext
    BY <1>2, <2>8, UpdateImplements, SameVocabulary DEF Contract!TableNext
  <2>9. ASSUME NEW generation \in Generations, NEW destination \in Destinations,
               Resolve(generation, destination)
        PROVE  Contract!TableNext
    BY <1>2, <2>9, ResolveImplements, SameVocabulary DEF Contract!TableNext
  <2>10. CASE UNCHANGED vars
    BY <2>10 DEF vars, indexes, Contract!tableVars, Unexpired
  <2> QED BY <1>2, <2>1, <2>2, <2>3, <2>4, <2>5, <2>6, <2>7, <2>8, <2>9, <2>10 DEF Next
<1> QED BY <1>1, <1>2, SpecKeepsIInv, PTL DEF Spec, ImplementsContract, Contract!TableSpec
=============================================================================
