SPECIFICATION Spec
CONSTANTS
    Members = {m1}
    Tasks = {t1, t2}
    HandRoles = {"Buyer", "Seller", "Suspended"}
    Null = Null
INVARIANTS ExclusiveTiers StoredTierAgrees
PROPERTY PruneOnlyGone
