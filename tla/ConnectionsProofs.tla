------------------------- MODULE ConnectionsProofs -------------------------
(***************************************************************************)
(* Proofs about Connections, for any number of connections, commands,      *)
(* versions and power losses.  TypeOK, IndexIsBacked and                   *)
(* BackupFollowsClient are inductive once the retry counters are known to  *)
(* restart the gateway at their limit and the client to exist whenever it  *)
(* runs.  SavedIsProven is not: what is in flash comes from the valid      *)
(* entries in memory, some of which come back from the backup of a change  *)
(* that failed, and all of which come from flash at boot.  Trust says that *)
(* all three hold proven parameters only.                                  *)
(***************************************************************************)
EXTENDS Connections, TLAPS

\* A counter past its limit restarts the gateway in the same step.
Counters == pc # "boot" => /\ failure_number_mqtt <= MaxRetry
                           /\ failure_number_ntwk <= MaxRetry

\* There is a client whenever one is run.
ClientSet == pc # "boot" => \/ client \in Ver
                            \/ pc = "setup" /\ mqttSetupPending

Trust ==
    /\ 0 \in proven
    /\ ~misjudged =>
          /\ \A i \in Indices : cnt_parameters_array[i].valid =>
                                    cnt_parameters_array[i].ver \in proven
          /\ cnt_parameters_backup # NoBackup /\ cnt_parameters_backup.entry.valid =>
                cnt_parameters_backup.entry.ver \in proven

TypeInv == TypeOK /\ Counters /\ ClientSet

-----------------------------------------------------------------------------
(* What the table becomes in flash, and back.                              *)

\* The default index is an index, and 0 a version.
LEMMA Defaults == /\ Default \in Indices /\ 0 \in Ver
                  /\ Nothing \notin Indices /\ Nothing \notin Ver
BY ConnectionsAssumption DEF Default, Indices, Ver, Nothing

LEMMA NoFileIsImage == NoFile \in Image /\ NoFile.index = Nothing
BY DEF NoFile, Image

\* Saving keeps valid entries only, and the index of one of them.
LEMMA SavedImage ==
    ASSUME NEW array \in [Indices -> Entry], NEW index \in Indices
    PROVE  /\ Saved(array, index) \in Image
           /\ Saved(array, index).index # Nothing =>
                 Saved(array, index).entry[Saved(array, index).index] # Nothing
           /\ \A i \in Indices : Saved(array, index).entry[i] # Nothing =>
                 array[i].valid /\ Saved(array, index).entry[i] = array[i].ver
<1>1. \A i \in Indices : array[i] \in Entry
  OBVIOUS
<1>2. \A i \in Indices : array[i].ver \in Ver /\ array[i].valid \in BOOLEAN
  BY <1>1 DEF Entry
<1> QED
  BY <1>2, Defaults DEF Saved, Image

\* What a torn file still holds is what was being saved, and no index.
LEMMA TornImage ==
    ASSUME NEW image \in Image, NEW torn \in Torn(image)
    PROVE  /\ torn \in Image
           /\ torn.index = Nothing
           /\ \A i \in Indices : torn.entry[i] # Nothing =>
                                    torn.entry[i] = image.entry[i]
<1>1. CASE torn = NoFile
  BY <1>1, NoFileIsImage DEF NoFile
<1>2. CASE \E n \in 0..CntSize :
              torn = [image EXCEPT !.entry = [i \in Indices |->
                                      IF i < n THEN image.entry[i] ELSE Nothing],
                                   !.index = Nothing]
  BY <1>2 DEF Image
<1> QED
  BY <1>1, <1>2 DEF Torn

\* A boot reads valid entries from the file, or the built-in entry 0.
LEMMA LoadedTable ==
    ASSUME NEW image \in Image
    PROVE  /\ Loaded(image) \in [Indices -> Entry]
           /\ LoadedIndex(image) \in Indices
           /\ \A i \in Indices : Loaded(image)[i].valid =>
                 \/ Loaded(image)[i].ver = 0
                 \/ image.entry[i] # Nothing /\ Loaded(image)[i].ver = image.entry[i]
<1>1. /\ \A i \in Indices : image.entry[i] \in Ver \cup {Nothing}
      /\ image.index \in Indices \cup {Nothing}
      /\ image.present \in BOOLEAN
  BY DEF Image
<1> QED
  BY <1>1, Defaults DEF Loaded, LoadedIndex, Entry

-----------------------------------------------------------------------------
(* Types                                                                   *)

\* What a step finds: the table, the index and the backup are of their types.
LEMMA Found ==
    ASSUME TypeOK
    PROVE  /\ cnt_parameters_array[cnt_index] \in Entry
           /\ cnt_parameters_array[cnt_index].ver \in Ver
           /\ Confirmed \in [Indices -> Entry]
           /\ Confirmed[cnt_index].ver = cnt_parameters_array[cnt_index].ver
           /\ \A i \in Indices : Confirmed[i].ver = cnt_parameters_array[i].ver
           /\ \A i \in Indices : i # cnt_index =>
                 Confirmed[i].valid = cnt_parameters_array[i].valid
           /\ cnt_parameters_backup # NoBackup =>
                 /\ cnt_parameters_backup \in Backup
                 /\ cnt_parameters_backup.index \in Indices
                 /\ cnt_parameters_backup.entry \in Entry
                 /\ cnt_parameters_backup.save \in BOOLEAN
<1>1. \A i \in Indices : /\ cnt_parameters_array[i] \in Entry
                         /\ cnt_parameters_array[i].ver \in Ver
                         /\ cnt_parameters_array[i].valid \in BOOLEAN
  BY DEF TypeOK, Entry
<1>2. cnt_index \in Indices
  BY DEF TypeOK
<1>3. \A i \in Indices : Confirmed[i] =
          IF i = cnt_index THEN [cnt_parameters_array[i] EXCEPT !.valid = TRUE]
          ELSE cnt_parameters_array[i]
  BY <1>2 DEF Confirmed, TypeOK
<1>4. \A i \in Indices : /\ Confirmed[i] \in Entry
                         /\ Confirmed[i].ver = cnt_parameters_array[i].ver
                         /\ i # cnt_index =>
                               Confirmed[i].valid = cnt_parameters_array[i].valid
  BY <1>1, <1>3 DEF Entry
<1>5. Confirmed \in [Indices -> Entry]
  BY <1>4 DEF Confirmed, TypeOK
<1>6. cnt_parameters_backup # NoBackup =>
          /\ cnt_parameters_backup \in Backup
          /\ cnt_parameters_backup.index \in Indices
          /\ cnt_parameters_backup.entry \in Entry
          /\ cnt_parameters_backup.save \in BOOLEAN
  BY DEF TypeOK, Backup
<1> QED
  BY <1>1, <1>2, <1>4, <1>5, <1>6

\* A command leaves a table of entries, an index, and a backup of one of them.
LEMMA CommandTypes ==
    ASSUME TypeInv, NEW c \in Command, NEW next, XtoSYS(c, next)
    PROVE  /\ cnt_parameters_array' \in [Indices -> Entry]
           /\ cnt_index' \in Indices
           /\ cnt_parameters_backup' \in Backup \cup {NoBackup}
           /\ flash' \in Image
           /\ made' \in 0..MaxVer
           /\ commands' \in 0..MaxCommands
           /\ mqttSetupPending' \in BOOLEAN
<1>1. /\ cnt_parameters_array \in [Indices -> Entry] /\ cnt_index \in Indices
      /\ cnt_parameters_backup \in Backup \cup {NoBackup} /\ flash \in Image
      /\ made \in 0..MaxVer /\ commands \in 0..MaxCommands
      /\ mqttSetupPending \in BOOLEAN
  BY DEF TypeInv, TypeOK
<1>2. /\ c.index \in Indices \cup {Nothing, CntSize}
      /\ c.write \in BOOLEAN /\ c.save \in BOOLEAN /\ c.test \in BOOLEAN
      /\ c.topic \in BOOLEAN /\ c.pass \in BOOLEAN
      /\ c.write => c.index \in Indices
  BY DEF Command
<1>3. c.write => Fresh \in Entry
  BY <1>1, ConnectionsAssumption DEF XtoSYS, Fresh, Entry, Ver
<1>4. cnt_parameters_array' \in [Indices -> Entry]
  BY <1>1, <1>2, <1>3 DEF XtoSYS, Written
<1>5. cnt_index' \in Indices
  BY <1>1 DEF XtoSYS
<1>6. cnt_parameters_backup' \in Backup \cup {NoBackup}
  <2>1. c.index \notin {Nothing, CntSize} =>
            /\ c.index \in Indices
            /\ cnt_parameters_array[c.index] \in Entry
    BY <1>1, <1>2
  <2>2. cnt_parameters_backup' = BackedUp(c)
    BY DEF XtoSYS
  <2> QED
    BY <1>1, <1>2, <2>1, <2>2 DEF BackedUp, Backup, Refused
<1>7. flash' \in Image
  BY <1>1, SavedImage DEF XtoSYS
<1>8. made' \in 0..MaxVer /\ commands' \in 0..MaxCommands
  BY <1>1, ConnectionsAssumption DEF XtoSYS
<1>9. mqttSetupPending' \in BOOLEAN
  BY DEF XtoSYS
<1> QED
  BY <1>4, <1>5, <1>6, <1>7, <1>8, <1>9

LEMMA TypeInit == Init => TypeInv
<1> SUFFICES ASSUME Init PROVE TypeInv
  OBVIOUS
<1>1. cnt_parameters_array \in [Indices -> Entry]
  BY NoFileIsImage, LoadedTable DEF Init
<1>2. /\ flash \in Image /\ cnt_index \in Indices
      /\ client \in Ver \cup {Nothing} /\ proven \subseteq Ver
  BY NoFileIsImage, Defaults DEF Init
<1>3. /\ connected \in BOOLEAN /\ mqttSetupPending \in BOOLEAN
      /\ network \in BOOLEAN /\ misjudged \in BOOLEAN
  BY DEF Init
<1>4. /\ failure_number_mqtt \in 0..(MaxRetry + 1)
      /\ failure_number_ntwk \in 0..(MaxRetry + 1)
      /\ made \in 0..MaxVer /\ commands \in 0..MaxCommands
      /\ outages \in 0..MaxOutages
  BY ConnectionsAssumption DEF Init
<1>5. /\ cnt_parameters_backup = NoBackup /\ verdict = NoVerdict /\ pc = "boot"
  BY DEF Init
<1>6. TypeOK
  BY <1>1, <1>2, <1>3, <1>4, <1>5 DEF TypeOK
<1> QED
  BY <1>5, <1>6 DEF TypeInv, Counters, ClientSet

\* The parts of TypeInv that a step of the client or of the loop changes.
LEMMA TypeStep == TypeInv /\ [Next]_vars => TypeInv'
<1> SUFFICES ASSUME TypeInv, [Next]_vars PROVE TypeInv'
  OBVIOUS
<1> USE ConnectionsAssumption
<1>a. TypeOK /\ Counters /\ ClientSet
  BY DEF TypeInv
<1>1. ASSUME NEW portal \in BOOLEAN, Boot(portal) PROVE TypeInv'
  <2>1. portal => [ver |-> made + 1, valid |-> TRUE] \in Entry /\ made + 1 \in Ver
    BY <1>1, <1>a DEF Boot, TypeOK, Entry, Ver
  <2>2. flash \in Image
    BY <1>a DEF TypeOK
  <2>3. cnt_parameters_array' \in [Indices -> Entry] /\ cnt_index' \in Indices
    BY <1>1, <2>1, <2>2, LoadedTable, Defaults DEF Boot
  <2>4. flash' \in Image
    <3>1. flash' = flash \/ flash' = Saved(cnt_parameters_array', cnt_index')
      BY <1>1 DEF Boot
    <3> QED BY <3>1, <2>2, <2>3, SavedImage
  <2>5. made' \in 0..MaxVer /\ proven' \subseteq Ver
    BY <1>1, <1>a, <2>1 DEF Boot, TypeOK
  <2>6. /\ cnt_parameters_backup' = NoBackup /\ client' = Nothing
        /\ connected' = FALSE /\ mqttSetupPending' = TRUE
        /\ failure_number_mqtt' = 0 /\ failure_number_ntwk' = 0
        /\ network' = TRUE /\ verdict' = NoVerdict /\ pc' = "setup"
        /\ UNCHANGED <<commands, outages, misjudged>>
    BY <1>1 DEF Boot
  <2>7. TypeOK'
    <3>1. /\ connected' \in BOOLEAN /\ mqttSetupPending' \in BOOLEAN
          /\ network' \in BOOLEAN
      BY <2>6
    <3>2. /\ failure_number_mqtt' \in 0..(MaxRetry + 1)
          /\ failure_number_ntwk' \in 0..(MaxRetry + 1)
          /\ client' \in Ver \cup {Nothing}
      BY <2>6
    <3>3. /\ cnt_parameters_backup' \in Backup \cup {NoBackup}
          /\ verdict' \in Verdict \cup {NoVerdict}
          /\ pc' \in {"boot", "setup", "serve", "client"}
      BY <2>6
    <3>4. UNCHANGED <<commands, outages, misjudged>>
      BY <2>6
    <3> QED
      BY <1>a, <2>3, <2>4, <2>5, <3>1, <3>2, <3>3, <3>4 DEF TypeOK
  <2> QED
    BY <2>6, <2>7 DEF TypeInv, Counters, ClientSet
<1>2. CASE SetupMQTT
  <2>1. /\ pc = "setup" /\ pc' = "serve"
        /\ UNCHANGED <<table, failure_number_ntwk, network, flash, bounds, history>>
    BY <1>2 DEF SetupMQTT
  <2>2. connected' \in BOOLEAN
    BY <1>2, <1>a DEF SetupMQTT, TypeOK
  <2>3. mqttSetupPending' \in BOOLEAN
    BY <1>2, <1>a DEF SetupMQTT, TypeOK
  <2>4. failure_number_mqtt' \in 0..MaxRetry
    <3>1. failure_number_mqtt' = 0 \/ failure_number_mqtt' = failure_number_mqtt
      BY <1>2 DEF SetupMQTT
    <3>2. failure_number_mqtt \in 0..MaxRetry
      BY <1>a, <2>1 DEF TypeOK, Counters
    <3> QED BY <3>1, <3>2
  <2>5. client' \in Ver
    <3>1. cnt_parameters_array[cnt_index].ver \in Ver
      BY <1>a, Found
    <3>2. \/ client' = cnt_parameters_array[cnt_index].ver
          \/ client' = client /\ ~mqttSetupPending
      BY <1>2 DEF SetupMQTT
    <3> QED BY <1>a, <2>1, <3>1, <3>2 DEF ClientSet
  <2>6. TypeOK'
    <3>1. /\ failure_number_mqtt' \in 0..(MaxRetry + 1)
          /\ client' \in Ver \cup {Nothing}
      BY <2>4, <2>5
    <3> QED
      BY <1>a, <2>1, <2>2, <2>3, <3>1 DEF TypeOK, table, bounds, history
  <2>7. failure_number_mqtt' <= MaxRetry /\ failure_number_ntwk' <= MaxRetry
    BY <1>a, <2>1, <2>4 DEF Counters
  <2> QED
    BY <2>5, <2>6, <2>7 DEF TypeInv, Counters, ClientSet
<1>3. CASE Served
  BY <1>3, <1>a DEF Served, TypeInv, TypeOK, Counters, ClientSet, table, bounds, history
<1>4. CASE ClientIdle
  BY <1>4, <1>a
     DEF ClientIdle, TypeInv, TypeOK, Counters, ClientSet, table, bounds, history
<1>5. ASSUME NEW c \in Command, ServeCommand(c) \/ Message(c) PROVE TypeInv'
  <2>1. PICK next \in {"serve", "setup"} : XtoSYS(c, next)
    BY <1>5 DEF ServeCommand, Message
  <2>2. pc \in {"serve", "client"} /\ pc' \in {"boot", "serve", "setup"}
    BY <1>5, <2>1 DEF ServeCommand, Message, XtoSYS
  <2>3. UNCHANGED <<client, connected, failure_number_mqtt, failure_number_ntwk,
                    network, outages, history>>
    BY <2>1 DEF XtoSYS
  <2> QED
    BY <1>a, <2>1, <2>2, <2>3, CommandTypes
       DEF TypeInv, TypeOK, Counters, ClientSet, history
<1>6. ASSUME NEW answers \in BOOLEAN, Attempt(answers) PROVE TypeInv'
  <2>1. /\ pc = "client" /\ client \in Ver
        /\ failure_number_mqtt \in 0..MaxRetry /\ failure_number_ntwk \in 0..MaxRetry
    BY <1>6, <1>a DEF Attempt, TypeOK, Counters, ClientSet
  <2>2. CASE ConnectedCallback
    <3>1. /\ cnt_parameters_array' \in [Indices -> Entry]
          /\ cnt_parameters_backup' \in Backup \cup {NoBackup}
          /\ flash' \in Image
          /\ verdict' \in Verdict \cup {NoVerdict}
      BY <2>1, <2>2, <1>a, Found, SavedImage DEF ConnectedCallback, TypeOK, Verdict
    <3>2. /\ connected' = TRUE /\ failure_number_mqtt' = 0 /\ failure_number_ntwk' = 0
          /\ proven' \subseteq Ver /\ misjudged' \in BOOLEAN /\ pc' \in {"boot", "setup"}
      BY <2>1, <2>2, <1>a DEF ConnectedCallback, TypeOK
    <3>3. UNCHANGED <<cnt_index, client, mqttSetupPending, network, bounds>>
      BY <2>2 DEF ConnectedCallback
    <3> QED
      BY <2>1, <3>1, <3>2, <3>3, <1>a DEF TypeInv, TypeOK, Counters, ClientSet, bounds
  <2>3. CASE FailureCallback
    <3>1. UNCHANGED <<client, connected, failure_number_ntwk, network, bounds, proven>>
      BY <2>3 DEF FailureCallback
    <3>2. failure_number_mqtt' \in 0..(MaxRetry + 1)
      BY <2>1, <2>3 DEF FailureCallback
    <3>3. CASE cnt_parameters_backup # NoBackup
      <4>1. Revert
        BY <2>3, <3>3 DEF FailureCallback
      <4>2. /\ cnt_parameters_array' \in [Indices -> Entry] /\ cnt_index' \in Indices
            /\ verdict' \in Verdict
        BY <2>1, <4>1, <3>3, <1>a, Found DEF Revert, TypeOK, Verdict
      <4>3. /\ cnt_parameters_backup' = NoBackup /\ mqttSetupPending' = TRUE
            /\ misjudged' \in BOOLEAN /\ pc' = "boot" /\ flash' = flash
        BY <4>1, <1>a DEF Revert, TypeOK
      <4> QED
        BY <3>1, <3>2, <4>2, <4>3, <1>a DEF TypeInv, TypeOK, Counters, ClientSet, bounds
    <3>4. CASE cnt_parameters_backup = NoBackup /\ failure_number_mqtt + 1 > MaxRetry
      <4>1. Rotate
        BY <2>3, <3>4 DEF FailureCallback
      <4>2. cnt_index' \in Indices /\ flash' \in Image
        BY <4>1, <1>a, SavedImage DEF Rotate, TypeOK
      <4>3. /\ pc' = "boot"
            /\ UNCHANGED <<cnt_parameters_array, cnt_parameters_backup,
                           mqttSetupPending, verdict, misjudged>>
        BY <4>1 DEF Rotate
      <4> QED
        BY <3>1, <3>2, <4>2, <4>3, <1>a DEF TypeInv, TypeOK, Counters, ClientSet, bounds
    <3>5. CASE cnt_parameters_backup = NoBackup /\ ~(failure_number_mqtt + 1 > MaxRetry)
      <4>1. /\ pc' = "setup" /\ failure_number_mqtt' <= MaxRetry
            /\ UNCHANGED <<table, flash, mqttSetupPending, verdict, misjudged>>
        BY <2>1, <2>3, <3>5 DEF FailureCallback
      <4> QED
        BY <2>1, <3>1, <3>2, <4>1, <1>a
           DEF TypeInv, TypeOK, Counters, ClientSet, bounds, table
    <3> QED
      BY <3>3, <3>4, <3>5
  <2> QED
    BY <1>6, <2>2, <2>3 DEF Attempt
<1>7. ASSUME NEW back \in BOOLEAN, NEW counted \in BOOLEAN, NetworkDown(back, counted)
      PROVE  TypeInv'
  <2>1. /\ failure_number_ntwk' \in 0..(MaxRetry + 1)
        /\ pc' \in {"boot", "setup"}
        /\ pc' # "boot" => failure_number_ntwk' <= MaxRetry
        /\ pc = "client" /\ network' \in BOOLEAN
    BY <1>7, <1>a DEF NetworkDown, TypeOK, Counters
  <2>2. UNCHANGED <<table, client, connected, mqttSetupPending,
                    failure_number_mqtt, flash, bounds, history>>
    BY <1>7 DEF NetworkDown
  <2> QED
    BY <2>1, <2>2, <1>a
       DEF TypeInv, TypeOK, Counters, ClientSet, table, bounds, history
<1>8. CASE NetworkLost
  BY <1>8, <1>a
     DEF NetworkLost, TypeInv, TypeOK, Counters, ClientSet, table, bounds, history
<1>9. CASE BrokerLost
  BY <1>9, <1>a
     DEF BrokerLost, TypeInv, TypeOK, Counters, ClientSet, table, bounds, history
<1>10. CASE PowerLoss
  <2>1. pc = "client" => client \in Ver
    BY <1>a DEF ClientSet, TypeOK
  <2>2. /\ Saved(cnt_parameters_array, cnt_index) \in Image
        /\ Saved(Confirmed, cnt_index) \in Image
    BY <1>a, Found, SavedImage DEF TypeOK
  <2>3. flash' \in Image /\ proven' \subseteq Ver /\ misjudged' \in BOOLEAN
    BY <1>10, <1>a, <2>1, <2>2, TornImage DEF PowerLoss, TypeOK
  <2>4. /\ outages' \in 0..MaxOutages /\ pc' = "boot"
        /\ UNCHANGED <<table, client, connected, mqttSetupPending,
                       failure_number_mqtt, failure_number_ntwk, network, made,
                       commands, verdict>>
    BY <1>10, <1>a DEF PowerLoss, TypeOK
  <2> QED
    BY <2>3, <2>4, <1>a DEF TypeInv, TypeOK, Counters, ClientSet, table
<1>11. CASE UNCHANGED vars
  BY <1>11, <1>a DEF vars, TypeInv, TypeOK, Counters, ClientSet
<1> QED
  BY <1>1, <1>2, <1>3, <1>4, <1>5, <1>6, <1>7, <1>8, <1>9, <1>10, <1>11
     DEF Next, Turn

\* Types hold in every state.
THEOREM TypeCorrect == Spec => []TypeOK
<1>1. TypeInv => TypeOK
  BY DEF TypeInv
<1> QED
  BY TypeInit, TypeStep, <1>1, PTL DEF Spec

LEMMA TypeInvHolds == Spec => []TypeInv
BY TypeInit, TypeStep, PTL DEF Spec

-----------------------------------------------------------------------------
(* The index in flash                                                      *)

\* Whatever is written to flash comes from saveConfig, whole or torn.
LEMMA FlashStep ==
    ASSUME TypeInv, [Next]_vars
    PROVE  \/ flash' = flash
           \/ \E array \in [Indices -> Entry], index \in Indices :
                 \/ flash' = Saved(array, index)
                 \/ flash' \in Torn(Saved(array, index))
<1> USE DEF TypeInv
<1>1. cnt_parameters_array \in [Indices -> Entry] /\ cnt_index \in Indices
  BY DEF TypeOK
<1>2. Confirmed \in [Indices -> Entry]
  BY Found
<1>3. cnt_parameters_array' \in [Indices -> Entry] /\ cnt_index' \in Indices
  BY TypeStep DEF TypeOK
<1>4. ASSUME NEW portal \in BOOLEAN, Boot(portal)
      PROVE  flash' = flash \/ flash' = Saved(cnt_parameters_array', cnt_index')
  BY <1>4 DEF Boot
<1>5. ASSUME NEW c \in Command, ServeCommand(c) \/ Message(c)
      PROVE  flash' = flash \/ flash' = Saved(cnt_parameters_array, cnt_index)
  BY <1>5 DEF ServeCommand, Message, XtoSYS
<1>6. ASSUME NEW answers \in BOOLEAN, Attempt(answers)
      PROVE  \/ flash' = flash \/ flash' = Saved(Confirmed, cnt_index)
             \/ \E i \in Indices : flash' = Saved(cnt_parameters_array, i)
  BY <1>6 DEF Attempt, ConnectedCallback, FailureCallback, Revert, Rotate
<1>7. CASE PowerLoss
  BY <1>1, <1>2, <1>7 DEF PowerLoss
<1>8. CASE \/ SetupMQTT \/ Served \/ ClientIdle \/ NetworkLost \/ BrokerLost
           \/ (\E back, counted \in BOOLEAN : NetworkDown(back, counted))
           \/ UNCHANGED vars
  BY <1>8 DEF SetupMQTT, Served, ClientIdle, NetworkLost, BrokerLost,
              NetworkDown, vars
<1> QED
  BY <1>1, <1>2, <1>3, <1>4, <1>5, <1>6, <1>7, <1>8 DEF Next, Turn

\* Neither a rotation, nor a portal, nor a power loss in the middle of saveConfig
\* leaves a cnt_index in flash without the entry it points at.
THEOREM IndexBacked == Spec => []IndexIsBacked
<1>1. Init => IndexIsBacked
  BY NoFileIsImage DEF Init, IndexIsBacked
<1>2. TypeInv /\ IndexIsBacked /\ [Next]_vars => IndexIsBacked'
  <2> SUFFICES ASSUME TypeInv, IndexIsBacked, [Next]_vars PROVE IndexIsBacked'
    OBVIOUS
  <2>1. CASE flash' = flash
    BY <2>1 DEF IndexIsBacked
  <2>2. ASSUME NEW array \in [Indices -> Entry], NEW index \in Indices,
               \/ flash' = Saved(array, index)
               \/ flash' \in Torn(Saved(array, index))
        PROVE  IndexIsBacked'
    BY <2>2, SavedImage, TornImage DEF IndexIsBacked
  <2> QED
    BY <2>1, <2>2, FlashStep
<1> QED
  BY <1>1, <1>2, TypeInvHolds, PTL DEF Spec

-----------------------------------------------------------------------------
(* The change that waits for its verdict                                   *)

\* A tested change cannot be left waiting behind a client set up from another.
THEOREM BackupFollowed == Spec => []BackupFollowsClient
<1>1. Init => BackupFollowsClient
  BY DEF Init, BackupFollowsClient
<1>2. TypeInv /\ BackupFollowsClient /\ [Next]_vars => BackupFollowsClient'
  <2> SUFFICES ASSUME TypeInv, BackupFollowsClient, [Next]_vars,
                      cnt_parameters_backup' # NoBackup, pc' # "boot"
               PROVE  \/ mqttSetupPending'
                      \/ client' = cnt_parameters_array'[cnt_index'].ver
    BY DEF BackupFollowsClient
  <2> DEFINE Goal == \/ mqttSetupPending'
                     \/ client' = cnt_parameters_array'[cnt_index'].ver
             Before == cnt_parameters_backup # NoBackup /\ pc # "boot" =>
                          \/ mqttSetupPending
                          \/ client = cnt_parameters_array[cnt_index].ver
  <2>a. Before
    BY DEF BackupFollowsClient
  <2>1. ASSUME NEW portal \in BOOLEAN, Boot(portal) PROVE Goal
    BY <2>1 DEF Boot
  <2>2. CASE SetupMQTT
    <3>1. CASE mqttSetupPending
      BY <2>2, <3>1 DEF SetupMQTT, table
    <3>2. CASE ~mqttSetupPending
      BY <2>2, <2>a, <3>2 DEF SetupMQTT, table
    <3> QED BY <3>1, <3>2
  <2>3. ASSUME NEW c \in Command, ServeCommand(c) \/ Message(c) PROVE Goal
    <3>1. PICK next \in {"serve", "setup"} : XtoSYS(c, next)
      BY <2>3 DEF ServeCommand, Message
    <3>2. pc # "boot" /\ c.index \in Indices \cup {Nothing, CntSize}
      BY <2>3 DEF ServeCommand, Message, Command
    <3>3. CASE AsksForSetup(c)
      BY <3>1, <3>3 DEF XtoSYS
    <3>4. CASE ~AsksForSetup(c)
      <4>1. Refused(c) \/ ~Attempts(c)
        BY <3>4 DEF AsksForSetup
      <4>2. cnt_parameters_backup' = IF Refused(c) THEN cnt_parameters_backup
                                     ELSE NoBackup
        BY <3>1, <4>1 DEF XtoSYS, BackedUp
      <4>3. Refused(c) /\ cnt_parameters_backup # NoBackup
        BY <4>2
      <4>4. c.index \notin Indices
        BY <4>3, ConnectionsAssumption DEF Refused, Indices
      <4>5. ~c.write
        BY <4>4 DEF Command
      <4>6. UNCHANGED <<cnt_parameters_array, cnt_index, client>>
        BY <3>1, <4>4, <4>5 DEF XtoSYS, Written
      <4>7. mqttSetupPending => mqttSetupPending'
        BY <3>1 DEF XtoSYS
      <4> QED
        BY <2>a, <3>2, <4>3, <4>6, <4>7
    <3> QED BY <3>3, <3>4
  <2>4. ASSUME NEW answers \in BOOLEAN, Attempt(answers) PROVE Goal
    BY <2>4, <2>a
       DEF Attempt, ConnectedCallback, FailureCallback, Revert, Rotate, table
  <2>5. CASE PowerLoss
    BY <2>5 DEF PowerLoss
  <2>6. CASE \/ Served \/ ClientIdle \/ NetworkLost \/ BrokerLost
             \/ (\E back, counted \in BOOLEAN : NetworkDown(back, counted))
             \/ UNCHANGED vars
    <3>1. UNCHANGED <<table, client, mqttSetupPending>>
      BY <2>6 DEF Served, ClientIdle, NetworkLost, BrokerLost, NetworkDown, table, vars
    <3>2. pc # "boot"
      BY <2>6 DEF Served, ClientIdle, NetworkLost, BrokerLost, NetworkDown, vars
    <3> QED
      BY <2>a, <3>1, <3>2 DEF table
  <2> QED
    BY <2>1, <2>2, <2>3, <2>4, <2>5, <2>6 DEF Next, Turn
<1> QED
  BY <1>1, <1>2, TypeInvHolds, PTL DEF Spec

-----------------------------------------------------------------------------
(* What survives a reboot has proved itself                                *)

\* All that a table marks valid is proven.
Trusted(array, known) ==
    \A i \in Indices : array[i].valid => array[i].ver \in known

\* Saving a trusted table, torn or not, puts proven parameters in flash only.
LEMMA SavedTrusted ==
    ASSUME NEW array \in [Indices -> Entry], NEW index \in Indices,
           NEW known, Trusted(array, known), NEW image,
           image = Saved(array, index) \/ image \in Torn(Saved(array, index))
    PROVE  \A i \in Indices : image.entry[i] # Nothing => image.entry[i] \in known
<1>1. \A i \in Indices : Saved(array, index).entry[i] # Nothing =>
                            Saved(array, index).entry[i] \in known
  BY SavedImage DEF Trusted
<1> QED
  BY <1>1, SavedImage, TornImage

\* An entry that is confirmed is trusted when the client was set up from it.
LEMMA ConfirmedTrusted ==
    ASSUME TypeOK, Trusted(cnt_parameters_array, proven),
           Confirmed[cnt_index].ver = client
    PROVE  Trusted(Confirmed, proven \cup {client})
<1> SUFFICES ASSUME NEW i \in Indices, Confirmed[i].valid
             PROVE  Confirmed[i].ver \in proven \cup {client}
  BY DEF Trusted
<1>1. CASE i = cnt_index
  BY <1>1
<1>2. CASE i # cnt_index
  BY <1>2, Found DEF Trusted
<1> QED BY <1>1, <1>2

TrustInv == Trust /\ SavedIsProven

LEMMA TrustInit == Init => TrustInv
<1> SUFFICES ASSUME Init PROVE TrustInv
  OBVIOUS
<1>1. \A i \in Indices : ~cnt_parameters_array[i].valid
  BY DEF Init, Loaded, NoFile
<1>2. 0 \in proven /\ cnt_parameters_backup = NoBackup
  BY DEF Init
<1>3. \A i \in Indices : flash.entry[i] = Nothing
  BY DEF Init, NoFile
<1> QED
  BY <1>1, <1>2, <1>3 DEF TrustInv, Trust, SavedIsProven

LEMMA TrustStep == TypeInv /\ TrustInv /\ [Next]_vars => TrustInv'
<1> SUFFICES ASSUME TypeInv, TrustInv, [Next]_vars PROVE TrustInv'
  OBVIOUS
<1> DEFINE BackupTrusted ==
              cnt_parameters_backup # NoBackup /\ cnt_parameters_backup.entry.valid =>
                  cnt_parameters_backup.entry.ver \in proven
           FlashTrusted == \A i \in Indices : flash.entry[i] # Nothing =>
                                                 flash.entry[i] \in proven
           Goal == ~misjudged' =>
                      /\ Trusted(cnt_parameters_array', proven')
                      /\ BackupTrusted'
                      /\ FlashTrusted'
<1>a. ~misjudged => /\ Trusted(cnt_parameters_array, proven)
                    /\ BackupTrusted
                    /\ FlashTrusted
  BY DEF TrustInv, Trust, SavedIsProven, Trusted
<1>b. /\ cnt_parameters_array \in [Indices -> Entry] /\ cnt_index \in Indices
      /\ flash \in Image /\ TypeOK
  BY DEF TypeInv, TypeOK
<1>c. cnt_parameters_array' \in [Indices -> Entry] /\ cnt_index' \in Indices
  BY TypeStep DEF TypeInv, TypeOK
<1>d. Confirmed \in [Indices -> Entry]
  BY <1>b, Found
<1>e. 0 \in proven
  BY DEF TrustInv, Trust
<1>1. ASSUME NEW portal \in BOOLEAN, Boot(portal) PROVE Goal /\ proven \subseteq proven'
  <2>1. proven' = (IF portal THEN proven \cup {made + 1} ELSE proven)
        /\ misjudged' = misjudged /\ cnt_parameters_backup' = NoBackup
    BY <1>1 DEF Boot
  <2> SUFFICES ASSUME ~misjudged
               PROVE  Trusted(cnt_parameters_array', proven') /\ FlashTrusted'
    BY <2>1
  <2>2. \A i \in Indices : Loaded(flash)[i].valid => Loaded(flash)[i].ver \in proven
    BY <1>a, <1>b, <1>e, LoadedTable
  <2>3. Loaded(flash) \in [Indices -> Entry]
    BY <1>b, LoadedTable
  <2>4. \A i \in Indices :
           \/ cnt_parameters_array'[i] = Loaded(flash)[i]
           \/ portal /\ cnt_parameters_array'[i] = [ver |-> made + 1, valid |-> TRUE]
    BY <1>1, <2>3 DEF Boot
  <2>5. Trusted(cnt_parameters_array', proven')
    BY <2>1, <2>2, <2>4 DEF Trusted
  <2>6. flash' = flash \/ flash' = Saved(cnt_parameters_array', cnt_index')
    BY <1>1 DEF Boot
  <2>7. FlashTrusted'
    <3>1. CASE flash' = flash
      BY <3>1, <1>a, <2>1
    <3>2. CASE flash' = Saved(cnt_parameters_array', cnt_index')
      BY <3>2, <1>c, <2>5, SavedTrusted
    <3> QED BY <2>6, <3>1, <3>2
  <2> QED BY <2>5, <2>7
<1>2. ASSUME NEW c \in Command, ServeCommand(c) \/ Message(c)
      PROVE  Goal /\ proven \subseteq proven'
  <2>1. PICK next \in {"serve", "setup"} : XtoSYS(c, next)
    BY <1>2 DEF ServeCommand, Message
  <2>2. proven' = proven /\ misjudged' = misjudged
    BY <2>1 DEF XtoSYS, history
  <2> SUFFICES ASSUME ~misjudged PROVE Goal
    BY <2>2
  <2>3. Trusted(cnt_parameters_array', proven)
    <3>1. \A i \in Indices :
             \/ cnt_parameters_array'[i] = cnt_parameters_array[i]
             \/ ~cnt_parameters_array'[i].valid
      BY <2>1, <1>b DEF XtoSYS, Written, Fresh
    <3> QED BY <3>1, <1>a DEF Trusted
  <2>4. BackupTrusted'
    <3>1. \/ cnt_parameters_backup' = cnt_parameters_backup
          \/ cnt_parameters_backup' = NoBackup
          \/ /\ c.index \in Indices
             /\ cnt_parameters_backup' = [index |-> cnt_index,
                     entry |-> cnt_parameters_array[c.index], save |-> c.save]
      BY <2>1 DEF XtoSYS, BackedUp, Refused, Command
    <3> QED BY <3>1, <1>a, <2>2 DEF Trusted
  <2>5. FlashTrusted'
    <3>1. flash' = flash \/ flash' = Saved(cnt_parameters_array, cnt_index)
      BY <2>1 DEF XtoSYS
    <3> QED BY <3>1, <1>a, <1>b, <2>2, SavedTrusted
  <2> QED BY <2>2, <2>3, <2>4, <2>5
<1>3. ASSUME NEW answers \in BOOLEAN, Attempt(answers)
      PROVE  Goal /\ proven \subseteq proven'
  <2>1. CASE ConnectedCallback
    <3>1. proven' = proven \cup {client}
      BY <2>1 DEF ConnectedCallback
    <3> SUFFICES ASSUME ~misjudged' PROVE Goal
      BY <3>1
    <3>2. CASE cnt_parameters_backup # NoBackup
      <4>1. /\ cnt_parameters_array' = Confirmed /\ cnt_parameters_backup' = NoBackup
            /\ flash' = flash \/ flash' = Saved(Confirmed, cnt_index)
            /\ ~misjudged /\ Confirmed[cnt_index].ver = client
        BY <2>1, <3>2 DEF ConnectedCallback
      <4>2. Trusted(Confirmed, proven')
        BY <1>a, <1>b, <3>1, <4>1, ConfirmedTrusted
      <4>3. FlashTrusted'
        <5>1. CASE flash' = flash
          BY <5>1, <1>a, <3>1, <4>1
        <5>2. CASE flash' = Saved(Confirmed, cnt_index)
          BY <5>2, <1>b, <1>d, <4>2, SavedTrusted
        <5> QED BY <4>1, <5>1, <5>2
      <4> QED BY <4>1, <4>2, <4>3
    <3>3. CASE cnt_parameters_backup = NoBackup
      <4>1. UNCHANGED <<cnt_parameters_array, cnt_parameters_backup, flash, misjudged>>
        BY <2>1, <3>3 DEF ConnectedCallback
      <4> QED BY <1>a, <3>1, <4>1 DEF Trusted
    <3> QED BY <3>2, <3>3
  <2>2. CASE FailureCallback
    <3>1. proven' = proven
      BY <2>2 DEF FailureCallback
    <3> SUFFICES ASSUME ~misjudged' PROVE Goal
      BY <3>1
    <3>2. CASE cnt_parameters_backup # NoBackup
      <4>1. Revert
        BY <2>2, <3>2 DEF FailureCallback
      <4>2. /\ ~misjudged /\ flash' = flash /\ cnt_parameters_backup' = NoBackup
            /\ cnt_parameters_array' = [cnt_parameters_array EXCEPT
                                          ![cnt_index] = cnt_parameters_backup.entry]
        BY <4>1 DEF Revert
      <4>3. Trusted(cnt_parameters_array', proven)
        BY <1>a, <1>b, <3>2, <4>2 DEF Trusted
      <4> QED BY <1>a, <3>1, <4>2, <4>3
    <3>3. CASE cnt_parameters_backup = NoBackup
      <4>1. /\ UNCHANGED <<cnt_parameters_array, cnt_parameters_backup, misjudged>>
            /\ \/ flash' = flash
               \/ \E i \in Indices : flash' = Saved(cnt_parameters_array, i)
        BY <2>2, <3>3 DEF FailureCallback, Rotate, table
      <4>2. Trusted(cnt_parameters_array, proven)
        BY <1>a, <4>1
      <4>3. FlashTrusted'
        <5>1. CASE flash' = flash
          BY <5>1, <1>a, <3>1, <4>1
        <5>2. ASSUME NEW i \in Indices, flash' = Saved(cnt_parameters_array, i)
              PROVE  FlashTrusted'
          BY <5>2, <1>b, <3>1, <4>2, SavedTrusted
        <5> QED BY <4>1, <5>1, <5>2
      <4> QED BY <1>a, <3>1, <4>1, <4>2, <4>3
    <3> QED BY <3>2, <3>3
  <2> QED BY <1>3, <2>1, <2>2 DEF Attempt
<1>4. ASSUME PowerLoss PROVE Goal /\ proven \subseteq proven'
  <2>1. UNCHANGED <<cnt_parameters_array, cnt_parameters_backup>>
    BY <1>4 DEF PowerLoss, table
  <2>2. CASE UNCHANGED <<flash, proven, misjudged>>
    BY <1>a, <2>1, <2>2 DEF Trusted
  <2>3. CASE /\ flash' \in Torn(Saved(cnt_parameters_array, cnt_index))
             /\ UNCHANGED <<proven, misjudged>>
    BY <1>a, <1>b, <2>1, <2>3, SavedTrusted
  <2>4. CASE /\ flash' \in Torn(Saved(Confirmed, cnt_index))
             /\ proven' = proven \cup {client}
             /\ misjudged' = (misjudged \/ Confirmed[cnt_index].ver # client)
    <3> SUFFICES ASSUME ~misjudged' PROVE Goal /\ proven \subseteq proven'
      BY <2>4
    <3>1. ~misjudged /\ Confirmed[cnt_index].ver = client
      BY <2>4
    <3>2. Trusted(Confirmed, proven')
      BY <1>a, <1>b, <2>4, <3>1, ConfirmedTrusted
    <3>3. FlashTrusted'
      BY <1>b, <1>d, <2>4, <3>2, SavedTrusted
    <3> QED BY <1>a, <2>1, <2>4, <3>1, <3>3 DEF Trusted
  <2> QED BY <1>4, <2>2, <2>3, <2>4 DEF PowerLoss
<1>5. ASSUME \/ SetupMQTT \/ Served \/ ClientIdle \/ NetworkLost \/ BrokerLost
             \/ (\E back, counted \in BOOLEAN : NetworkDown(back, counted))
             \/ UNCHANGED vars
      PROVE  Goal /\ proven \subseteq proven'
  <2>1. UNCHANGED <<cnt_parameters_array, cnt_parameters_backup, flash, proven, misjudged>>
    BY <1>5 DEF SetupMQTT, Served, ClientIdle, NetworkLost, BrokerLost, NetworkDown,
                table, history, vars
  <2> QED BY <1>a, <2>1 DEF Trusted
<1>6. Goal /\ proven \subseteq proven'
  <2> HIDE DEF Goal
  <2> QED BY <1>1, <1>2, <1>3, <1>4, <1>5 DEF Next, Turn
<1> QED
  BY <1>e, <1>6 DEF TrustInv, Trust, SavedIsProven, Trusted

\* What the flash holds, and a reboot brings back, has connected once or comes
\* from the portal, unless a callback judged one connection by another.
THEOREM FlashProven == Spec => []SavedIsProven
<1>1. TrustInv => SavedIsProven
  BY DEF TrustInv
<1> QED
  BY TrustInit, TrustStep, TypeInvHolds, <1>1, PTL DEF Spec
=============================================================================
