---------------------------- MODULE SalesTables ----------------------------
(***************************************************************************)
(* What the ETL job promises the readers of its tables                     *)
(* event_sales_summary and daily_ticket_sales: whatever runs overlap, fail *)
(* or crash, the two tables change in one step, each valid row that is     *)
(* written is the aggregate of one set of sales, and it replaces the row   *)
(* that was there.                                                         *)
(*                                                                         *)
(* A row is represented by the sales it counts.  EtlPipeline implements    *)
(* this specification; DailyReports reads the tables under it.             *)
(***************************************************************************)
EXTENDS Integers, Sequences

CONSTANTS
  Events,  \* event ids
  Days,    \* sale dates
  Future,  \* the dates more than a day ahead, as one of Days
  TotalOf(_, _, _) \* TotalOf(s, S, field): what those sales of s that S names add up to

VARIABLES
  sales,    \* the sales ever made, in order
  summary,  \* summary[e]: the sales counted in the row of event e
  daily     \* daily[<<e, d>>]: those counted in the row of event e and day d

tableVars == <<sales, summary, daily>>

Init ==
  /\ sales = << >>
  /\ summary = [e \in Events |-> {}]
  /\ daily = [k \in Events \X Days |-> {}]

Sell ==
  /\ Len(sales') = Len(sales) + 1
  /\ \A i \in DOMAIN sales : sales'[i] = sales[i]
  /\ UNCHANGED <<summary, daily>>

EventSales(S, e) == {i \in S : sales[i].event = e}

DailySales(S, k) == {i \in S : sales[i].event = k[1] /\ sales[i].day = k[2]}

\* The rows that validate_rows lets through.
ValidEventRow(S, e) ==
  /\ EventSales(S, e) # {}
  /\ TotalOf(sales, EventSales(S, e), "quantity") >= 0
  /\ TotalOf(sales, EventSales(S, e), "amount") >= 0

ValidDailyRow(S, k) == DailySales(S, k) # {} /\ k[2] # Future

Load(S) ==
  /\ summary' = [e \in Events |->
                   IF ValidEventRow(S, e) THEN EventSales(S, e) ELSE summary[e]]
  /\ daily' = [k \in Events \X Days |->
                 IF ValidDailyRow(S, k) THEN DailySales(S, k) ELSE daily[k]]
  /\ UNCHANGED sales

Next == Sell \/ \E S \in SUBSET DOMAIN sales : Load(S)

Spec == Init /\ [][Next]_tableVars
=============================================================================
