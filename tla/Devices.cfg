SPECIFICATION Spec
CONSTANTS
    None = None
    Device = {1, 2, 3}
    Setups <- MCSetups
    PageLimit = 500
    MaxMinted = 4
    Kills = 1
INVARIANTS RootsAgree EpochAttested SignersListed
CHECK_DEADLOCK FALSE
