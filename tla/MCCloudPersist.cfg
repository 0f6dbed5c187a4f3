CONSTANTS
    channel = channel
    tracker = tracker
    client = client
    client2 = client2
    root = root
    follower = follower
    Keys = {channel, tracker}
    NodeKeys = {tracker}
    Contents = {c1, c2}
    NoContent = NoContent
    Clients = {client, client2}
    Root = root
    Follower = follower
    Writes <- MCWrites
    MaxVersion = 2
SYMMETRY NameSymmetry
SPECIFICATION Spec
INVARIANTS
    AnsweredOrPutFailed
    ConflictsOnlyAfterFailure
    MemoryIsOnServer
