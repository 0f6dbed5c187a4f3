CONSTANTS
    Clients = {lightningd, channeld}
    Lightningd = lightningd
    Follower = follower
    Channels = {c1, c2}
    Deployments <- EveryDeployment
    Nobody = Nobody
SPECIFICATION Spec
INVARIANTS
    OnlyMapAndTrackerCross
PROPERTY
    RequestsEnd
CHECK_DEADLOCK FALSE
