----------------------------- MODULE MCPlatform -----------------------------
(***************************************************************************)
(* A small instance of Platform: a single LED shows every state.           *)
(***************************************************************************)
EXTENDS Platform

OneLed == [s \in {"WAITING_ONBOARDING", "ONBOARDING", "NTWK_CONNECTED", "BROKER_CONNECTED",
                  "NTWK_DISCONNECTED", "BROKER_DISCONNECTED", "OFFLINE",
                  "LOCAL_OTA_IN_PROGRESS", "REMOTE_OTA_IN_PROGRESS", "SLEEPING",
                  "PROCESSING", "ERROR"} |-> 0]
=============================================================================
