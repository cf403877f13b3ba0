---------------------------- MODULE MCFraudRules ----------------------------
(***************************************************************************)
(* FraudRules in units of ten minutes, with purchases of one address and   *)
(* user around midnight, one of them with a quantity below zero and one    *)
(* large and without capacity, transfers of one ticket, and scans of it at *)
(* two places and at none.                                                 *)
(***************************************************************************)
EXTENDS FraudRules

CONSTANTS ip1, u1, e1, k1, hall, gate

Purchase(at, qty, capacity) ==
  [type |-> "purchase", ip |-> ip1, user |-> u1, event |-> e1, at |-> at,
   qty |-> qty, capacity |-> capacity]

Transfer == [type |-> "transfer", ticket |-> k1]

Scan(at, location) == [type |-> "scan", ticket |-> k1, at |-> at, location |-> location]

MCEventKinds ==
  {Purchase(142, -1, 10), Purchase(143, 200000, NoCapacity), Purchase(144, 2, 10), Transfer,
   Scan(140, hall), Scan(141, NoLocation), Scan(142, gate), Scan(145, hall)}
=============================================================================
