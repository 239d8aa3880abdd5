SPECIFICATION GuildSpec
CONSTANTS
    Names = {"Seller", "Buyer", "Mention Raid", "internal", "audit-log"}
    Handlers = {h1, h2}
    MaxCopies = 2
    MaxEdits = 1
SYMMETRY Symmetry
INVARIANTS GuildInv SyncedIsComplete SyncedIsCached
PROPERTIES DuplicateNeedsRival
