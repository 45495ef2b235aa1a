CONSTANTS
    ble = ble
    meter = meter
    loop = loop
    Producers = {ble, meter}
    Loop = loop
    Restarters = {loop}
    QueueSize = 1
    TornSizes <- MCTornSizes
    NoTask = NoTask
    NoDoc = NoDoc
    MaxDocs <- MCMaxDocs
    MaxBoots = 1
SPECIFICATION Spec
INVARIANT RestartAlone
