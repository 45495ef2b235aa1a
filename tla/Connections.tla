----------------------------- MODULE Connections -----------------------------
(***************************************************************************)
(* The broker connections of the gateway (main.cpp): the table of          *)
(* connection parameters, the commands that read, change, test and save an *)
(* entry (XtoSYS), the MQTT client set up from one entry (setupMQTT), its  *)
(* two callbacks, which decide what becomes of a change and rotate to the  *)
(* next valid entry when the broker stays away, the network watchdog of    *)
(* loop(), and the copy of the table in flash (saveConfig,                 *)
(* loadConfigFromFlash, the WiFi portal).                                  *)
(*                                                                         *)
(* All of it runs on the loop task: one turn sets the client up when asked *)
(* (pc = "setup"), serves the serial link and the web pages ("serve"),     *)
(* then runs the client ("client").  What can come in between is a power   *)
(* loss.  The parameters of an entry are one version number: 0 is what the *)
(* firmware was built with, every change makes a new one.                  *)
(*                                                                         *)
(* Left out: offline mode (no client runs), the stop of BLE processing     *)
(* when a connection is tested, BluFi commands (they arrive on a task of   *)
(* their own), and the fields of config.json the connections do not read.  *)
(***************************************************************************)
EXTENDS Integers

CONSTANTS
    CntSize,      \* cnt_parameters_array_size
    MaxRetry,     \* maxRetryWatchDog
    Good,         \* versions whose broker always accepts the gateway
    MaxVer,       \* bound: versions made
    MaxCommands,  \* bound: commands received
    MaxOutages    \* bound: power losses

ASSUME ConnectionsAssumption ==
    /\ CntSize \in Nat \ {0}
    /\ MaxRetry \in Nat
    /\ MaxVer \in Nat
    /\ Good \subseteq 0..MaxVer
    /\ MaxCommands \in Nat
    /\ MaxOutages \in Nat

Nothing == -1                       \* no version, no index
Default == 0                        \* CNT_DEFAULT_INDEX
Indices == 0..(CntSize - 1)
Ver     == 0..MaxVer
Entry   == [ver : Ver, valid : BOOLEAN]

\* What /config.json says of the connections; present is FALSE when there is no
\* file, or none that parses.
Image  == [present : BOOLEAN, entry : [Indices -> Ver \cup {Nothing}],
           index : Indices \cup {Nothing}]
NoFile == [present |-> FALSE, entry |-> [i \in Indices |-> Nothing],
           index |-> Nothing]

Backup   == [index : Indices, entry : Entry, save : BOOLEAN]
NoBackup == [index |-> Nothing]
Verdict   == [about : Ver, tried : Ver]
NoVerdict == [about |-> Nothing]

\* An XtoSYS command: topic, a new main topic, name or prefix; pass, a new
\* gateway password; index, the entry it names (CntSize: out of range); write,
\* it carries parameters for that entry; save_cnt and test_cnt.
Command == {c \in [topic : BOOLEAN, pass : BOOLEAN,
                   index : Indices \cup {Nothing, CntSize},
                   write : BOOLEAN, save : BOOLEAN, test : BOOLEAN] :
               c.write => c.index \in Indices}

VARIABLES
    cnt_parameters_array, cnt_index,
    cnt_parameters_backup,
    client,               \* the version the MQTT client was set up with
    connected,            \* mqtt->connected()
    mqttSetupPending,
    failure_number_mqtt, failure_number_ntwk,
    network,              \* WiFi or Ethernet is up
    flash,                \* /config.json
    pc,
    made,                 \* versions made so far
    commands, outages,    \* received, suffered so far
    proven,               \* history: versions a broker accepted, or the portal gave
    verdict,              \* history: what the callback that restarts judged
    misjudged             \* history: some verdict was about another version

vars == <<cnt_parameters_array, cnt_index, cnt_parameters_backup, client,
          connected, mqttSetupPending, failure_number_mqtt,
          failure_number_ntwk, network, flash, pc, made, commands, outages,
          proven, verdict, misjudged>>

history == <<proven, verdict, misjudged>>
bounds  == <<made, commands, outages>>
table   == <<cnt_parameters_array, cnt_index, cnt_parameters_backup>>

-----------------------------------------------------------------------------
(* Flash                                                                   *)

\* Mutant of Saved: cnt_index is written whether or not its entry is.
SavedAnyIndex(array, index) ==
    [present |-> TRUE,
     entry |-> [i \in Indices |-> IF array[i].valid THEN array[i].ver ELSE Nothing],
     index |-> index]

\* saveConfig: only valid entries are written, and the index of a valid one.
Saved(array, index) ==
    [present |-> TRUE,
     entry |-> [i \in Indices |-> IF array[i].valid THEN array[i].ver ELSE Nothing],
     index |-> IF array[index].valid THEN index ELSE Nothing]

\* The file is rewritten in place, entries first and the index after them: a
\* power loss leaves any prefix of it, or nothing that parses.
Torn(image) ==
    {NoFile} \cup
    {[image EXCEPT !.entry = [i \in Indices |-> IF i < n THEN image.entry[i]
                                                ELSE Nothing],
                   !.index = Nothing] : n \in 0..CntSize}

\* loadConfigFromFlash, over the table the firmware was built with: an entry 0
\* that the file does not hold is taken for valid.
Loaded(image) ==
    [i \in Indices |->
        IF image.entry[i] # Nothing
        THEN [ver |-> image.entry[i], valid |-> TRUE]
        ELSE [ver |-> 0, valid |-> image.present /\ i = Default]]

\* Mutant of LoadedIndex: a file without cnt_index is not allowed for.
LoadedIndexAsIs(image) == image.index

LoadedIndex(image) == IF image.index # Nothing THEN image.index ELSE Default

-----------------------------------------------------------------------------

Init ==
    /\ flash = NoFile
    /\ cnt_parameters_array = Loaded(NoFile)
    /\ cnt_index = Default
    /\ cnt_parameters_backup = NoBackup
    /\ client = Nothing
    /\ connected = FALSE
    /\ mqttSetupPending = TRUE
    /\ failure_number_mqtt = 0
    /\ failure_number_ntwk = 0
    /\ network = FALSE
    /\ pc = "boot"
    /\ made = 0
    /\ commands = 0
    /\ outages = 0
    /\ proven = {0}
    /\ verdict = NoVerdict
    /\ misjudged = FALSE

\* setup(): globals, then the file; the WiFi portal, when somebody fills it in,
\* gives entry 0 its parameters, takes them for valid and saves.
Boot(portal) ==
    LET fresh == [ver |-> made + 1, valid |-> TRUE]
        array == IF portal THEN [Loaded(flash) EXCEPT ![Default] = fresh]
                 ELSE Loaded(flash)
        index == IF portal THEN Default ELSE LoadedIndex(flash)
    IN  /\ pc = "boot"
        /\ portal => made < MaxVer
        /\ cnt_parameters_array' = array
        /\ cnt_index' = index
        /\ flash' = IF portal THEN Saved(array, index) ELSE flash
        /\ made' = IF portal THEN made + 1 ELSE made
        /\ proven' = IF portal THEN proven \cup {made + 1} ELSE proven
        /\ cnt_parameters_backup' = NoBackup
        /\ client' = Nothing
        /\ connected' = FALSE
        /\ mqttSetupPending' = TRUE
        /\ failure_number_mqtt' = 0
        /\ failure_number_ntwk' = 0
        /\ network' = TRUE
        /\ verdict' = NoVerdict
        /\ pc' = "setup"
        /\ UNCHANGED <<commands, outages, misjudged>>

\* The top of loop().
SetupMQTT ==
    /\ pc = "setup"
    /\ pc' = "serve"
    /\ IF mqttSetupPending
       THEN /\ client' = cnt_parameters_array[cnt_index].ver
            /\ connected' = FALSE
            /\ failure_number_mqtt' = 0
            /\ mqttSetupPending' = FALSE
       ELSE UNCHANGED <<client, connected, failure_number_mqtt, mqttSetupPending>>
    /\ UNCHANGED <<table, failure_number_ntwk, network, flash, bounds, history>>

-----------------------------------------------------------------------------
(* Commands                                                                *)

SavesTopic(c) == c.topic \/ c.pass
Attempts(c)   == c.save \/ c.test
Refused(c)    == c.index = CntSize         \* XtoSYS returns early

Fresh == [ver |-> made + 1, valid |-> FALSE]

\* Mutant of Written: the entry stays valid although its parameters changed.
WrittenStillValid(c) ==
    IF c.write
    THEN [cnt_parameters_array EXCEPT ![c.index] = [@ EXCEPT !.ver = Fresh.ver]]
    ELSE cnt_parameters_array

\* The table after the command: any changed parameter makes its entry invalid
\* (the OTA certificate does not, and is left out).
Written(c) ==
    IF c.write THEN [cnt_parameters_array EXCEPT ![c.index] = Fresh]
    ELSE cnt_parameters_array

\* A backup is taken whenever an entry is named, and forgotten again when the
\* command neither saves nor tests.
BackedUp(c) ==
    IF Refused(c) THEN cnt_parameters_backup
    ELSE IF ~Attempts(c) THEN NoBackup
    ELSE IF c.index = Nothing THEN cnt_parameters_backup
    ELSE [index |-> cnt_index, entry |-> cnt_parameters_array[c.index],
          save |-> c.save]

\* Mutant of AsksForSetup: a test alone does not set the client up again.
AsksForSetupOnSave(c) == SavesTopic(c) \/ (c.save /\ ~Refused(c))

AsksForSetup(c) == SavesTopic(c) \/ (Attempts(c) /\ ~Refused(c))

\* XtoSYS.  A new topic or password is saved before the connection part is read,
\* and a new password restarts the gateway at the end.
XtoSYS(c, next) ==
    /\ commands < MaxCommands
    /\ c.write => made < MaxVer
    /\ commands' = commands + 1
    /\ made' = IF c.write THEN made + 1 ELSE made
    /\ flash' = IF SavesTopic(c) THEN Saved(cnt_parameters_array, cnt_index) ELSE flash
    /\ mqttSetupPending' = (mqttSetupPending \/ AsksForSetup(c))
    /\ cnt_index' = IF c.index \in Indices THEN c.index ELSE cnt_index
    /\ cnt_parameters_array' = Written(c)
    /\ cnt_parameters_backup' = BackedUp(c)
    /\ pc' = IF c.pass /\ ~Refused(c) THEN "boot" ELSE next
    /\ UNCHANGED <<client, connected, failure_number_mqtt, failure_number_ntwk,
                   network, outages, history>>

\* SERIALtoX and WebUILoop, before the client runs.
ServeCommand(c) == pc = "serve" /\ XtoSYS(c, "serve")

\* Nothing (more) to serve; a turn with a network forgets the network failures.
Served ==
    /\ pc = "serve"
    /\ pc' = "client"
    /\ failure_number_ntwk' = IF network THEN 0 ELSE failure_number_ntwk
    /\ UNCHANGED <<table, client, connected, mqttSetupPending,
                   failure_number_mqtt, network, flash, bounds, history>>

-----------------------------------------------------------------------------
(* The client: mqtt->loop()                                                *)

\* The current entry, once a change to it has connected.
Confirmed == [cnt_parameters_array EXCEPT ![cnt_index].valid = TRUE]

\* connected_callback.
ConnectedCallback ==
    /\ connected' = TRUE
    /\ failure_number_mqtt' = 0
    /\ failure_number_ntwk' = 0
    /\ proven' = proven \cup {client}
    /\ IF cnt_parameters_backup # NoBackup
       THEN /\ cnt_parameters_array' = Confirmed
            /\ flash' = IF cnt_parameters_backup.save
                        THEN Saved(Confirmed, cnt_index) ELSE flash
            /\ cnt_parameters_backup' = NoBackup
            /\ verdict' = [about |-> Confirmed[cnt_index].ver, tried |-> client]
            /\ misjudged' = (misjudged \/ Confirmed[cnt_index].ver # client)
            /\ pc' = "boot"
       ELSE /\ pc' = "setup"
            /\ UNCHANGED <<cnt_parameters_array, cnt_parameters_backup,
                           flash, verdict, misjudged>>
    /\ UNCHANGED <<cnt_index, client, mqttSetupPending, network, bounds>>

HasValid == \E i \in Indices : cnt_parameters_array[i].valid

\* Mutant of NextValid: the search starts with the current entry.
NextValidFromCurrent(i) ==
    \E k \in 0..CntSize :
        /\ i = (cnt_index + k) % CntSize
        /\ cnt_parameters_array[i].valid
        /\ \A j \in 0..(k - 1) : ~cnt_parameters_array[(cnt_index + j) % CntSize].valid

\* i is the first valid entry after the current one, which comes last.
NextValid(i) ==
    \E k \in 1..CntSize :
        /\ i = (cnt_index + k) % CntSize
        /\ cnt_parameters_array[i].valid
        /\ \A j \in 1..(k - 1) : ~cnt_parameters_array[(cnt_index + j) % CntSize].valid

\* A change failed: its entry and the index are put back as they were.
Revert ==
    /\ cnt_parameters_array' =
          [cnt_parameters_array EXCEPT ![cnt_index] = cnt_parameters_backup.entry]
    /\ cnt_index' = cnt_parameters_backup.index
    /\ mqttSetupPending' = TRUE
    /\ cnt_parameters_backup' = NoBackup
    /\ verdict' = [about |-> cnt_parameters_array[cnt_index].ver, tried |-> client]
    /\ misjudged' = (misjudged \/ cnt_parameters_array[cnt_index].ver # client)
    /\ pc' = "boot"
    /\ UNCHANGED flash

\* The broker stayed away too long: switch to the next valid entry and restart.
Rotate ==
    /\ pc' = "boot"
    /\ IF HasValid
       THEN \E i \in Indices : /\ NextValid(i)
                               /\ cnt_index' = i
                               /\ flash' = Saved(cnt_parameters_array, i)
       ELSE UNCHANGED <<cnt_index, flash>>
    /\ UNCHANGED <<cnt_parameters_array, cnt_parameters_backup,
                   mqttSetupPending, verdict, misjudged>>

\* connection_failure_callback, the network being up.
FailureCallback ==
    /\ failure_number_mqtt' = failure_number_mqtt + 1
    /\ IF cnt_parameters_backup # NoBackup THEN Revert
       ELSE IF failure_number_mqtt + 1 > MaxRetry THEN Rotate
       ELSE pc' = "setup" /\ UNCHANGED <<table, flash, mqttSetupPending,
                                         verdict, misjudged>>
    /\ UNCHANGED <<client, connected, failure_number_ntwk, network, bounds, proven>>

\* A client that is not connected tries to connect at each turn.
Attempt(answers) ==
    /\ pc = "client" /\ network /\ ~connected
    /\ client \in Good => answers
    /\ IF answers THEN ConnectedCallback ELSE FailureCallback

Message(c) == pc = "client" /\ network /\ connected /\ XtoSYS(c, "setup")

ClientIdle ==
    /\ pc = "client" /\ network /\ connected
    /\ pc' = "setup"
    /\ UNCHANGED <<table, client, connected, mqttSetupPending,
                   failure_number_mqtt, failure_number_ntwk, network, flash,
                   bounds, history>>

\* loop() without a network: wifi_reconnect_bypass counts a failure unless it
\* got the network back before its last try.
NetworkDown(back, counted) ==
    /\ pc = "client" /\ ~network
    /\ ~back => counted
    /\ network' = back
    /\ failure_number_ntwk' = IF counted THEN failure_number_ntwk + 1
                              ELSE failure_number_ntwk
    /\ pc' = IF counted /\ failure_number_ntwk + 1 > MaxRetry THEN "boot" ELSE "setup"
    /\ UNCHANGED <<table, client, connected, mqttSetupPending,
                   failure_number_mqtt, flash, bounds, history>>

-----------------------------------------------------------------------------
(* The environment                                                         *)

NetworkLost ==
    /\ network /\ pc # "boot"
    /\ network' = FALSE
    /\ connected' = FALSE
    /\ UNCHANGED <<table, client, mqttSetupPending, failure_number_mqtt,
                   failure_number_ntwk, flash, pc, bounds, history>>

BrokerLost ==
    /\ connected /\ pc # "boot"
    /\ connected' = FALSE
    /\ UNCHANGED <<table, client, mqttSetupPending, failure_number_mqtt,
                   failure_number_ntwk, network, flash, pc, bounds, history>>

\* A power loss, possibly in the middle of the saveConfig of a command or of a
\* rotation, or of the one by which connected_callback keeps a change.
PowerLoss ==
    /\ outages < MaxOutages
    /\ outages' = outages + 1
    /\ pc # "boot"
    /\ pc' = "boot"
    /\ \/ UNCHANGED <<flash, proven, misjudged>>
       \/ /\ pc \in {"serve", "client"}
          /\ flash' \in Torn(Saved(cnt_parameters_array, cnt_index))
          /\ UNCHANGED <<proven, misjudged>>
       \/ /\ pc = "client" /\ network /\ ~connected
          /\ cnt_parameters_backup # NoBackup /\ cnt_parameters_backup.save
          /\ flash' \in Torn(Saved(Confirmed, cnt_index))
          /\ proven' = proven \cup {client}
          /\ misjudged' = (misjudged \/ Confirmed[cnt_index].ver # client)
    /\ UNCHANGED <<table, client, connected, mqttSetupPending,
                   failure_number_mqtt, failure_number_ntwk, network, made,
                   commands, verdict>>

-----------------------------------------------------------------------------

Turn == \/ \E portal \in BOOLEAN : Boot(portal)
        \/ SetupMQTT \/ Served \/ ClientIdle
        \/ \E answers \in BOOLEAN : Attempt(answers)
        \/ \E back, counted \in BOOLEAN : NetworkDown(back, counted)

Next == \/ Turn
        \/ \E c \in Command : ServeCommand(c) \/ Message(c)
        \/ NetworkLost \/ BrokerLost \/ PowerLoss

\* Fairness: loop() keeps turning.
Spec == Init /\ [][Next]_vars /\ WF_vars(Turn)

-----------------------------------------------------------------------------
(* Properties                                                              *)

TypeOK ==
    /\ cnt_parameters_array \in [Indices -> Entry]
    /\ cnt_index \in Indices
    /\ cnt_parameters_backup \in Backup \cup {NoBackup}
    /\ client \in Ver \cup {Nothing}
    /\ connected \in BOOLEAN
    /\ mqttSetupPending \in BOOLEAN
    /\ failure_number_mqtt \in 0..(MaxRetry + 1)
    /\ failure_number_ntwk \in 0..(MaxRetry + 1)
    /\ network \in BOOLEAN
    /\ flash \in Image
    /\ pc \in {"boot", "setup", "serve", "client"}
    /\ made \in 0..MaxVer
    /\ commands \in 0..MaxCommands
    /\ outages \in 0..MaxOutages
    /\ proven \subseteq Ver
    /\ verdict \in Verdict \cup {NoVerdict}
    /\ misjudged \in BOOLEAN

\* The flash never points at a connection it does not hold, not even after a
\* power loss in the middle of saveConfig: a boot cannot select an entry and
\* find the firmware's built-in parameters in it.
IndexIsBacked ==
    flash.index # Nothing => flash.entry[flash.index] # Nothing

\* A change that waits for its verdict is what the client is set up with, or
\* is about to be: it cannot be left waiting behind another client.
BackupFollowsClient ==
    cnt_parameters_backup # NoBackup /\ pc # "boot" =>
        mqttSetupPending \/ client = cnt_parameters_array[cnt_index].ver

\* What is in flash, and so survives a reboot, has connected once or comes from
\* the portal, unless a callback judged one connection by another.
SavedIsProven ==
    ~misjudged =>
        \A i \in Indices : flash.entry[i] # Nothing => flash.entry[i] \in proven

\* "this was the first attempt to connect to a new server" (main.cpp 1071 and
\* 1108): the attempt by which a callback confirms or reverts a change was made
\* with the changed parameters.  It need not be: see the run cnt_judged.
JudgesNewServer ==
    verdict # NoVerdict => verdict.tried = verdict.about

\* As long as some connection in flash has a broker that answers, retries and
\* rotation bring the gateway to a broker, again and again, whichever entry was
\* current, tested or edited when the brokers went away.
FindsABroker ==
    <>[]network /\ <>[](\E i \in Indices : flash.entry[i] \in Good)
        => []<>connected
=============================================================================
