CONSTANTS
    Clients = {lightningd, channeld}
    Lightningd = lightningd
    Follower = follower
    Channels = {c1, c2}
    Deployments <- InPlaceCloud
    Nobody = Nobody
SPECIFICATION Spec
INVARIANTS
    NoCircularWait
CHECK_DEADLOCK FALSE
