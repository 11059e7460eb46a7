-------------------------- MODULE RouteTableTypes --------------------------
(***************************************************************************)
(* The vocabulary shared by the RouteTable specifications: registration    *)
(* keys, binding projections, snapshots, request validation and replies    *)
(* (crates/relaygate-route-table/src/{model,identity,directory}.rs and the *)
(* validate_* methods of shard.rs).                                        *)
(*                                                                         *)
(* A GatewayLocator is left out of a projection: it is fixed per Gateway   *)
(* and no operation looks it up.  A RegistrationRevision is a positive     *)
(* number, and 0 stands for the None of Option<RegistrationRevision>.      *)
(***************************************************************************)
EXTENDS Naturals

CONSTANTS
    Gateways,        \* GatewayIds
    Sessions,        \* RelaySessionIds
    Bindings,        \* BindingIds
    Destinations,    \* canonical Destinations
    Shards,          \* ShardIds of the ShardDirectory
    ThisShard,       \* the shard that is modelled
    Authority,       \* ShardDirectory::authority: sha256(destination) mod shards
    Generations,     \* ShardDirectoryGenerations a request may carry
    Generation,      \* the one this shard was configured with
    LeaseIds,        \* values LeaseId::new() can return
    LeaseTtl,        \* RouteTableConfig::lease_ttl
    None             \* absent registration or lease

ASSUME LeaseTtlAssumption == LeaseTtl \in Nat \ {0}

ASSUME DirectoryAssumption ==
    /\ ThisShard \in Shards
    /\ Generation \in Generations
    /\ Authority \in [Destinations -> Shards]

Keys == [gateway : Gateways, session : Sessions, shard : Shards]

Identities == [gateway : Gateways, session : Sessions, binding : Bindings]

Projections == [identity : Identities, destination : Destinations]

Registrations ==
    [lease : LeaseIds, revision : Nat, deadline : Nat,
     bindings : SUBSET Projections]

ASSUME NoneAssumption == None \notin Registrations /\ None \notin LeaseIds

(***************************************************************************)
(* BindingSnapshot::new: a non-empty set of projections in which neither   *)
(* an identity nor a (session, destination) scope occurs twice.            *)
(***************************************************************************)
IsBindingSnapshot(S) ==
    /\ S # {}
    /\ \A p, q \in S : p.identity = q.identity => p = q
    /\ \A p, q \in S :
          /\ p.identity.gateway = q.identity.gateway
          /\ p.identity.session = q.identity.session
          /\ p.destination = q.destination
          => p = q

(* Mutant of InScope: the destination's authority is not checked. *)
InScopeOfSession(key, S) ==
    \A p \in S : /\ p.identity.gateway = key.gateway
                 /\ p.identity.session = key.session

(***************************************************************************)
(* validate_snapshot: every binding belongs to the key's session, and its  *)
(* destination to this shard.                                              *)
(***************************************************************************)
InScope(key, S) ==
    \A p \in S : /\ p.identity.gateway = key.gateway
                 /\ p.identity.session = key.session
                 /\ Authority[p.destination] = ThisShard

(***************************************************************************)
(* The three checks every lease operation starts with, in their order:     *)
(* validate_authenticated_owner, validate_generation and                   *)
(* validate_registration_scope.                                            *)
(***************************************************************************)
Verdict(gateway, generation, key) ==
    IF gateway # key.gateway THEN "PermissionDenied"
    ELSE IF generation # Generation THEN "FailedPrecondition"
    ELSE IF key.shard # ThisShard THEN "InvalidArgument"
    ELSE "Ok"

(***************************************************************************)
(* What the shard answers: an acknowledgement, a BindingSet or an error.   *)
(***************************************************************************)
ErrorCodes ==
    {"InvalidArgument", "PermissionDenied", "NotFound", "FailedPrecondition"}

Replies ==
    [kind : {"None", "Done"}]
    \cup [kind : {"Error"}, code : ErrorCodes]
    \cup [kind : {"Ack"}, lease : LeaseIds, revision : Nat, expires_in : Nat]
    \cup [kind : {"BindingSet"}, bindings : SUBSET Projections]

NoReply == [kind |-> "None"]

Error(code) == [kind |-> "Error", code |-> code]

Done == [kind |-> "Done"]

Ack(lease, revision, expires_in) ==
    [kind |-> "Ack", lease |-> lease, revision |-> revision,
     expires_in |-> expires_in]

BindingSet(S) == [kind |-> "BindingSet", bindings |-> S]

(***************************************************************************)
(* The acknowledgement of an unchanged registration: its lease, revision   *)
(* and remaining time (saturating_duration_since).                         *)
(***************************************************************************)
AckOf(r, now) ==
    Ack(r.lease, r.revision, IF r.deadline > now THEN r.deadline - now ELSE 0)

(* Mutant of Advances: any revision but the current one is accepted. *)
AdvancesEitherWay(r, revision) ==
    IF r.revision = 0 THEN revision = 1 ELSE revision # r.revision

(***************************************************************************)
(* update() accepts this revision as the first one, or as a higher one.    *)
(***************************************************************************)
Advances(r, revision) ==
    IF r.revision = 0 THEN revision = 1 ELSE revision > r.revision

(***************************************************************************)
(* validate_current_binding_identity_stability: no identity that is        *)
(* already bound gets another destination.                                 *)
(***************************************************************************)
KeepsIdentities(r, S) ==
    \A p \in S, q \in r.bindings : p.identity = q.identity => p = q

(***************************************************************************)
(* update() acknowledges a repeated snapshot, installs a newer one, and    *)
(* refuses any other.                                                      *)
(***************************************************************************)
Repeats(r, revision, S) == revision = r.revision /\ S = r.bindings

Installs(r, revision, S) == Advances(r, revision) /\ KeepsIdentities(r, S)
=============================================================================
