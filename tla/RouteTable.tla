----------------------------- MODULE RouteTable -----------------------------
(***************************************************************************)
(* What one RouteTable shard promises (docs/spec/004-route-table-contract, *)
(* RT-003 .. RT-010), without the indexes it keeps: a table of leases that *)
(* vanish the moment their deadline is reached, and a Resolve that answers *)
(* from that table.  RouteTableShard implements it lazily: it holds        *)
(* expired registrations until a request or its timer purges them.         *)
(***************************************************************************)
EXTENDS RouteTableTypes

CONSTANTS
    MaxTime,        \* bound on the clock
    MaxRevision,    \* bound on the revisions requests carry
    SnapshotInputs  \* the binding sets Update requests carry

VARIABLES
    clock,   \* the shard's monotonic time
    table,   \* live registrations by key, None when there is none
    answer   \* the last reply sent

tableVars == <<clock, table, answer>>

TableInit ==
    /\ clock = 0
    /\ table = [k \in Keys |-> None]
    /\ answer = NoReply

(***************************************************************************)
(* Time passes, and every lease whose deadline is reached ends with it.    *)
(***************************************************************************)
TableTick ==
    /\ clock < MaxTime
    /\ clock' = clock + 1
    /\ table' = [k \in Keys |->
                    IF table[k] # None /\ table[k].deadline <= clock + 1
                    THEN None ELSE table[k]]
    /\ UNCHANGED answer

TableReject(gateway, generation, key) ==
    /\ Verdict(gateway, generation, key) # "Ok"
    /\ answer' = Error(Verdict(gateway, generation, key))
    /\ UNCHANGED <<clock, table>>

TableRegister(key) ==
    /\ key.shard = ThisShard
    /\ \/ /\ table[key] # None
          /\ answer' = AckOf(table[key], clock)
          /\ UNCHANGED table
       \/ /\ table[key] = None
          /\ \E lease \in LeaseIds :
                /\ \A k \in Keys : table[k] # None => table[k].lease # lease
                /\ table' = [table EXCEPT ![key] =
                      [lease |-> lease, revision |-> 0,
                       deadline |-> clock + LeaseTtl, bindings |-> {}]]
                /\ answer' = Ack(lease, 0, LeaseTtl)
    /\ UNCHANGED clock

HoldsLease(key, lease) == table[key] # None /\ table[key].lease = lease

TableUpdate(key, lease, revision, S) ==
    LET r     == table[key]
        valid == IsBindingSnapshot(S) /\ InScope(key, S)
    IN
    /\ key.shard = ThisShard
    /\ \/ /\ ~ valid
          /\ answer' = Error("InvalidArgument")
          /\ UNCHANGED table
       \/ /\ valid
          /\ ~ (/\ HoldsLease(key, lease)
                /\ Repeats(r, revision, S) \/ Installs(r, revision, S))
          /\ answer' = Error("FailedPrecondition")
          /\ UNCHANGED table
       \/ /\ valid /\ HoldsLease(key, lease) /\ Repeats(r, revision, S)
          /\ answer' = AckOf(r, clock)
          /\ UNCHANGED table
       \/ /\ valid /\ HoldsLease(key, lease) /\ Installs(r, revision, S)
          /\ table' = [table EXCEPT ![key] =
                [lease |-> lease, revision |-> revision,
                 deadline |-> r.deadline, bindings |-> S]]
          /\ answer' = Ack(lease, revision, r.deadline - clock)
    /\ UNCHANGED clock

TableKeepAlive(key, lease) ==
    /\ key.shard = ThisShard
    /\ \/ /\ ~ HoldsLease(key, lease)
          /\ answer' = Error("FailedPrecondition")
          /\ UNCHANGED table
       \/ /\ HoldsLease(key, lease)
          /\ table' = [table EXCEPT ![key] = [@ EXCEPT !.deadline = clock + LeaseTtl]]
          /\ answer' = Ack(lease, table[key].revision, LeaseTtl)
    /\ UNCHANGED clock

TableDeregister(key, lease) ==
    /\ key.shard = ThisShard
    /\ \/ /\ table[key] = None
          /\ answer' = Done
          /\ UNCHANGED table
       \/ /\ table[key] # None /\ table[key].lease # lease
          /\ answer' = Error("FailedPrecondition")
          /\ UNCHANGED table
       \/ /\ HoldsLease(key, lease)
          /\ table' = [table EXCEPT ![key] = None]
          /\ answer' = Done
    /\ UNCHANGED clock

(***************************************************************************)
(* The bindings a Resolve of this destination may return: all those of the *)
(* live leases, and no other (RT-009).                                     *)
(***************************************************************************)
LiveBindings(destination) ==
    {p \in UNION {table[k].bindings : k \in {l \in Keys : table[l] # None}} :
        p.destination = destination}

TableResolve(generation, destination) ==
    /\ \/ /\ generation # Generation
          /\ answer' = Error("FailedPrecondition")
       \/ /\ generation = Generation
          /\ Authority[destination] # ThisShard
          /\ answer' = Error("InvalidArgument")
       \/ /\ generation = Generation
          /\ Authority[destination] = ThisShard
          /\ answer' = IF LiveBindings(destination) = {} THEN Error("NotFound")
                       ELSE BindingSet(LiveBindings(destination))
    /\ UNCHANGED <<clock, table>>

(***************************************************************************)
(* A restarted shard starts empty (RT-010).                                *)
(***************************************************************************)
TableRestart ==
    /\ table' = [k \in Keys |-> None]
    /\ answer' = NoReply
    /\ UNCHANGED clock

TableNext ==
    \/ TableTick
    \/ TableRestart
    \/ \E gateway \in Gateways, generation \in Generations, key \in Keys :
          TableReject(gateway, generation, key)
    \/ \E key \in Keys : TableRegister(key)
    \/ \E key \in Keys, lease \in LeaseIds :
          \/ TableKeepAlive(key, lease)
          \/ TableDeregister(key, lease)
          \/ \E revision \in 1 .. MaxRevision, S \in SnapshotInputs :
                TableUpdate(key, lease, revision, S)
    \/ \E generation \in Generations, destination \in Destinations :
          TableResolve(generation, destination)

TableSpec == TableInit /\ [][TableNext]_tableVars
=============================================================================
