\* Two channels, each entry changed up to twice, two power failures or losses of the store.
SPECIFICATION Spec
CONSTANTS
    Deployments = {"kv", "fat", "backup", "kvbackup"}
    Channels = {c1, c2}
    None = None
    Unreadable = Unreadable
    Emptied = Emptied
    Full = Full
    MaxVersion = 2
    MaxCrashes = 2
CHECK_DEADLOCK FALSE
INVARIANTS
    NoSilentRollback
    
