--------------------------- MODULE MCDailyReports ---------------------------
(***************************************************************************)
(* DailyReports with two requests at once for one day, of every event or   *)
(* of one, while one event is sold, refunded and loaded.                   *)
(***************************************************************************)
EXTENDS DailyReports

CONSTANTS e1, d1, d2

MCSaleKinds ==
    {[event |-> e1, day |-> d1, quantity |-> 1, amount |-> 10],
     [event |-> e1, day |-> d1, quantity |-> -2, amount |-> -20],
     [event |-> e1, day |-> d1, quantity |-> 1, amount |-> -15]}

MCAsks ==
    {[day |-> d1, event |-> "all", fmt |-> "csv"],
     [day |-> d1, event |-> "e1", fmt |-> "csv"]}

=============================================================================
