SPECIFICATION Spec
CONSTANTS
    None = None
    Device = {1, 2}
    Setups <- OpenSetups
    PageLimit = 500
    MaxMinted = 4
    Kills = 0
INVARIANT JoinResumable
CHECK_DEADLOCK FALSE
