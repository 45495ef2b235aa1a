---------------------------- MODULE MCBleActions ----------------------------
(* Small instances of BleActions: one device connected to regularly, one    *)
(* or more connected to for commands only.                                  *)
EXTENDS BleActions, TLC

CONSTANTS sensor, lock

MCDevices == {sensor, lock}
MCRegular == {sensor}
=============================================================================
