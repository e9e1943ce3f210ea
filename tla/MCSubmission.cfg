SPECIFICATION Spec
CONSTANTS
    alice = alice
    bob = bob
    old = old
    new = new
    h = h
    None = None
    Jobs = {j1, j2}
    Hashes = {h}
    Versions = {old, new}
    Clients = {alice, bob}
    Calls <- MCCalls
SYMMETRY JobSymmetry
INVARIANTS
    TypeOK
    OneJobPerSpecification
    RefusedForDuplicate
    SnapshotRunsOwnCode
PROPERTY BuildIsOwn
CHECK_DEADLOCK FALSE
