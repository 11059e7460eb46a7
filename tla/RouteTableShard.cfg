\* Two registrations, leases of two ticks, up to three ticks and two revisions.
CONSTANTS
    g1 = g1
    g2 = g2
    s1 = s1
    b1 = b1
    b2 = b2
    d1 = d1
    d2 = d2
    d3 = d3
    shard1 = shard1
    shard2 = shard2
    l1 = l1
    l2 = l2
    Gateways = {g1, g2}
    Sessions = {s1}
    Bindings = {b1, b2}
    Destinations = {d1, d2, d3}
    Shards = {shard1, shard2}
    ThisShard = shard1
    Authority <- MCAuthority
    Generations = {1, 2}
    Generation = 1
    LeaseIds = {l1, l2}
    LeaseTtl = 2
    None = None
    MaxTime = 3
    MaxRevision = 2
    SnapshotInputs <- MCSnapshotInputs
SPECIFICATION FairSpec
INVARIANTS
    IndexesAgree
PROPERTIES
    ResolveAnswersLiveBindings
    LeaseOnlyMovesForward
    ImplementsContract
    ExpiredRegistrationsArePurged
