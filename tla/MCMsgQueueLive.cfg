CONSTANTS
    ble = ble
    meter = meter
    loop = loop
    Producers = {ble, meter}
    Loop = loop
    Restarters = {loop}
    QueueSize = 1
    TornSizes <- MCTornSizes
    NoTask = NoTask
    NoDoc = NoDoc
    MaxDocs <- MCFewDocs
    MaxBoots = 1
SPECIFICATION FairSpec
PROPERTIES Drained
