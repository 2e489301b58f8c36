---------------------------- MODULE MCBusGateway ----------------------------
(***************************************************************************)
(* Small instances of BusGateway: two receivers that share a queue, so that *)
(* one takes over the other's message after its lock expired, and two or   *)
(* three sends, so that an alert is sent again with other bytes after the  *)
(* window.                                                                 *)
(***************************************************************************)
EXTENDS BusGateway, TLC

CONSTANTS r1, r2, a1, a2, b1, b2, north, stranger, none

MCConfigOf == [r \in Receivers |-> north]
=============================================================================
