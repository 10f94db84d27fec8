SPECIFICATION Spec
CONSTANTS
    Thread <- Users
    Target = 1
    MaxKey = 6
INVARIANTS KeysSaved EncryptedWhole KeysApart PoolUsable
CHECK_DEADLOCK FALSE
