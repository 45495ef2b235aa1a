CONSTANTS
    Units = {"supervisor", "actuator", "led", "pwm", "strip", "sensor", "display", "console", "forms"}
    ZgatewaySERIAL = TRUE
    Ethernet = FALSE
    DeepSleep = TRUE
    WifiReconnectWatchDog = TRUE
    maxRetryWatchDog = 1
    MaxInputs = 2
    Protections = {"temperature"}
    Cores = 2
    Gpios = {"actuator", "other"}
    ActuatorGpio = "actuator"
    TriggerLevel = {}
    MaxSwitches = 3
    MaxBoots = 1
    LEDs = {0}
    LedOf <- OneLed
    Blufi = FALSE
    Written = {"BROKER_CONNECTED", "BROKER_DISCONNECTED", "ERROR", "SLEEPING"}
    MaxChanges = 3
    Channels = {"r", "g"}
    Leds = {"l1"}
    MaxValue = 2
    Fades = {0, 2}
    Colors = {"blue"}
    MaxFadeTime = 2
    Kinds = {"BME280", "HTU21", "AHTx0", "SHTC3", "LM75", "DHT", "TSL2561", "TEMT6000", "C37", "DS1820", "MQ2", "INA226", "ADC", "RN8209", "HCSR501", "GPIOKeyCode", "BH1750", "HCSR04", "GPIOInput", "Touch"}
    MaxLevel = 3
    Always = FALSE
    Threshold = 2
    DebounceDelay = 1
    TOUCH_MIN_DURATION = 2
    TOUCH_DEBOUNCE_TIME = 1
    TouchWrap = 5
    MaxTurns = 8
    QueueLength = 1
    MaxMessages = 3
    LOG_TO_OLED = FALSE
    JSON_TO_OLED = TRUE
    Tabs = {"a"}
    LastIndex = 3
    LOG_BUFFER_SIZE = 3
    Sizes = {1}
    OtherTasks = TRUE
    MaxLines = 5
    MaxPauses = 1
    Pages = {"wu", "wi", "mq", "cg", "lo", "bl", "la", "rf", "cl"}
    Texts = {"t1", "t2"}
    Options = {"t1"}
    First = "t1"
    Passwords = {"", "p"}
    MaxEdits = 1
SPECIFICATION PlatformSpec
INVARIANTS TypesOK ConnectedIsUnlocked  MessagesAccounted RequestKept
PROPERTIES GatewayServes EventuallyOff RequestCarriedOut NeverAway  
CHECK_DEADLOCK FALSE
