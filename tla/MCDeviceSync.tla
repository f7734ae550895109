---------------------------- MODULE MCDeviceSync ----------------------------
(***************************************************************************)
(* A small instance of DeviceSync for TLC: two sessions of one device.     *)
(* The ledger is as long as there are idempotency keys.                    *)
(***************************************************************************)
EXTENDS DeviceSync

CONSTANTS p1, p2, d1

(* The names of keys do not matter: they are used in order. *)
KeysInOrder == \A i \in DOMAIN feed : feed[i].key = i

SameDevice == [p \in {p1, p2} |-> d1]
=============================================================================
