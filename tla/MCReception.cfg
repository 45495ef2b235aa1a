CONSTANTS
    Units = {"filter", "receivers", "discovery", "serial", "table", "life"}
    Values <- MCValues
    struct_size = 2
    time_avoid_duplicate = 4
    Modulus = 16
    MaxGap = 5
    MaxTime = 15
    Built = {"Pilight", "RF", "RTL", "RF2"}
    Frequencies = {"433", "315"}
    RF_FREQUENCY = "433"
    ACTIVE_RECEIVER = "RF"
    ZradioCC1101 = TRUE
    Selectable = {"Pilight", "RF", "RTL", "RF2"}
    Remotes = {"exists"}
    Build = {"WiFi", "BT"}
    Keys = {"k1"}
    QueueSize = 2
    discovery_republish_on_reconnect = FALSE
    MaxOthers = 1
    MaxInputs = 1
    SENDER_SERIAL_HEARTBEAT = TRUE
    heartbeatTimeout = 3
    maxHeartbeatInterval = 5
    MaxGone = 6
    Macs = {"a", "b", "c"}
    Kinds = {"tracker", "connect", "unknown"}
    MaxBLEDevices = 1
    AwayTimer = 1
    ignoreWBlist = FALSE
    filterConnectable = TRUE
    MaxSeen = 4
    Intervals = {3}
    MinTimeBtwScan = 1
    TimeBtwRead = 2
    TimeBtwActive = 2
    AdaptiveBLEScan = TRUE
    HassPresence = FALSE
    EnableBT = TRUE
    MaxTasks = 1
    MaxKeys = 2
SPECIFICATION ReceptionSpec
INVARIANTS
    TypesOK  NoLoss  AllAnnounced LaunchIsDue SenderNotices
    OneEntryPerMac   
CHECK_DEADLOCK FALSE
