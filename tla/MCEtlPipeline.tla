--------------------------- MODULE MCEtlPipeline ---------------------------
(***************************************************************************)
(* EtlPipeline with the scheduler's process and a second one, two runs     *)
(* and two sales of one event: plain, dated too far ahead, refunded, or    *)
(* with a discount that is more than the price.                            *)
(***************************************************************************)
EXTENDS EtlPipeline

CONSTANTS e1, d1, d2

MCSaleKinds ==
    {[event |-> e1, day |-> d1, quantity |-> 1, amount |-> 10],
     [event |-> e1, day |-> d1, quantity |-> -2, amount |-> -20],
     [event |-> e1, day |-> d1, quantity |-> 1, amount |-> -15],
     [event |-> e1, day |-> d2, quantity |-> 1, amount |-> 10]}

=============================================================================
