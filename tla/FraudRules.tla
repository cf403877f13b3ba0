----------------------------- MODULE FraudRules -----------------------------
(***************************************************************************)
(* The fraud rules: check_fraud_rules and determine_severity (fraud.py),   *)
(* which POST /check-fraud and POST /check-fraud/batch call, and the two   *)
(* rules that have modules of their own, velocity_rule.py and              *)
(* bulk_purchase_rule.py.  A state is the list of ticket events of one     *)
(* check; lists grow one event at a time, so that every list up to a       *)
(* length is judged.  Time is in units of which the windows are multiples. *)
(***************************************************************************)
EXTENDS Integers, Sequences, FiniteSetsExt

CONSTANTS
  EventKinds,    \* the ticket events: see Purchase, Transfer, Scan
  NoLocation,    \* the location of a scan that has none
  NoCapacity,    \* the capacity of a purchase that gives none
  DefaultCapacity,  \* what fraud.py takes it to be: 1000000
  IpWindow,      \* ten minutes
  TravelWindow,  \* thirty minutes
  DayLength,
  MaxPerIp,      \* purchases allowed to one address within IpWindow
  MaxPerDay,     \* purchases allowed to one user in a day
  MaxEvents      \* bound: events of a list

ASSUME FraudAssumption ==
  /\ {IpWindow, TravelWindow, MaxPerIp, MaxPerDay, MaxEvents, DefaultCapacity} \subseteq Nat
  /\ DayLength \in Nat \ {0}

ASSUME EventKindsAssumption ==
  \A kind \in EventKinds :
    /\ kind.type \in {"purchase", "scan"} => kind.at \in Int
    /\ kind.type = "purchase" => kind.qty \in Int /\ kind.capacity \in Int \cup {NoCapacity}

VARIABLE events

Of(type) == {i \in DOMAIN events : events[i].type = type}

\* Of(type), where the events have the same value in a field as event i.
Like(i, field) == {j \in Of(events[i].type) : events[j][field] = events[i][field]}

\* Rule 1: a window opens at a purchase and counts the address's purchases in it.
WithinAfter(i, window) ==
  {j \in Like(i, "ip") : events[j].at - events[i].at \in 0..window}

TooManyPurchases == \E i \in Of("purchase") : Cardinality(WithinAfter(i, IpWindow)) > MaxPerIp

\* Rule 2.
DuplicateTransfer == \E i \in Of("transfer") : Cardinality(Like(i, "ticket")) > 1

\* Rule 3.
Day(i) == events[i].at \div DayLength

ExcessivePurchases ==
  \E i \in Of("purchase") :
    Cardinality({j \in Like(i, "user") : Day(j) = Day(i)}) > MaxPerDay

\* Rule 4: list.sort() is stable.
Before(i, j) == events[i].at < events[j].at \/ (events[i].at = events[j].at /\ i < j)

\* Mutated: the scans are compared in the order they are listed in.
ConsecutiveAsListed(i, j) ==
  j \in Like(i, "ticket") /\ i < j /\ \A k \in Like(i, "ticket") : ~(i < k /\ k < j)

Consecutive(i, j) ==
  j \in Like(i, "ticket") /\ Before(i, j)
  /\ \A k \in Like(i, "ticket") : ~(Before(i, k) /\ Before(k, j))

InTime(i, j) == events[j].at - events[i].at <= TravelWindow

ImpossibleTravel ==
  \E i, j \in Of("scan") :
    Consecutive(i, j) /\ InTime(i, j) /\ events[i].location # events[j].location

\* event.get("capacity", default): the two modules have different defaults.
CapacityAt(i, default) ==
  IF events[i].capacity = NoCapacity THEN default ELSE events[i].capacity

\* Rule 5: a fifth of the capacity, in one purchase.
IsBulk(i) ==
  LET capacity == CapacityAt(i, DefaultCapacity)
  IN capacity > 0 /\ 5 * events[i].qty >= capacity

BulkAllocation == \E i \in Of("purchase") : IsBulk(i)

\* check_fraud_rules.
Triggered ==
  {rule \in {"too_many_purchases_same_ip", "duplicate_ticket_transfer",
             "excessive_purchases_user_day", "impossible_travel_scan",
             "bulk_allocation_purchase"} :
     CASE rule = "too_many_purchases_same_ip"   -> TooManyPurchases
       [] rule = "duplicate_ticket_transfer"    -> DuplicateTransfer
       [] rule = "excessive_purchases_user_day" -> ExcessivePurchases
       [] rule = "impossible_travel_scan"       -> ImpossibleTravel
       [] rule = "bulk_allocation_purchase"     -> BulkAllocation}

HighRules == {"too_many_purchases_same_ip", "excessive_purchases_user_day",
              "impossible_travel_scan", "bulk_allocation_purchase"}

MediumRules == {"duplicate_ticket_transfer"}

\* determine_severity.
Severity(rules) ==
  CASE rules = {}                -> "none"
    [] rules \cap HighRules # {} -> "high"
    [] OTHER                     -> IF rules \cap MediumRules # {} THEN "medium" ELSE "low"

\* check_fraud_batch, for one of its items.
BatchResult == [triggered |-> Triggered, severity |-> Severity(Triggered)]

-----------------------------------------------------------------------------
(* The rules that have modules of their own.                               *)

\* check_velocity_impossible_locations: as rule 4, but both scans must be located.
Velocity ==
  \E i, j \in Of("scan") :
    /\ Consecutive(i, j) /\ InTime(i, j)
    /\ NoLocation \notin {events[i].location, events[j].location}
    /\ events[i].location # events[j].location

\* check_bulk_purchase: the capacity of an event is the last one given, none is 0, ...
CapacityOf(e) ==
  LET given == {i \in Of("purchase") : events[i].event = e /\ CapacityAt(i, 0) > 0}
  IN IF given = {} THEN 0 ELSE events[Max(given)].capacity

\* ... and a user's purchases of the event are added up.
BoughtBy(u, e) ==
  MapThenSumSet(LAMBDA i : events[i].qty,
                {i \in Of("purchase") : events[i].user = u /\ events[i].event = e})

BulkPurchase ==
  \E i \in Of("purchase") :
    LET e == events[i].event
    IN CapacityOf(e) > 0 /\ 5 * BoughtBy(events[i].user, e) >= CapacityOf(e)

-----------------------------------------------------------------------------

FraudInit == events = << >>

\* check_fraud: a list that is checked next has one event more.
CheckOneMore(kind) == Len(events) < MaxEvents /\ events' = Append(events, kind)

FraudNext == \E kind \in EventKinds : CheckOneMore(kind)

FraudSpec == FraudInit /\ [][FraudNext]_events

-----------------------------------------------------------------------------
(* Properties.                                                             *)

\* Some interval as long as the window holds too many purchases of an address:
\* nothing is lost by opening windows only at purchases.
IpRuleIsExact ==
  TooManyPurchases <=>
    \E s \in {events[i].at - d : i \in Of("purchase"), d \in 0..IpWindow} :
      \E i \in Of("purchase") :
        Cardinality({j \in Like(i, "ip") : events[j].at - s \in 0..IpWindow}) > MaxPerIp

FarScans(S) ==
  \E i, j \in S : /\ events[i].ticket = events[j].ticket
                  /\ events[i].location # events[j].location
                  /\ events[j].at - events[i].at \in 0..TravelWindow

\* Any two scans of a ticket at different places within the window are found,
\* whatever lies between them and in whatever order they are listed, although
\* only neighbours are compared.
TravelRuleIsExact == ImpossibleTravel <=> FarScans(Of("scan"))

Located == {i \in Of("scan") : events[i].location # NoLocation}

\* velocity_rule.py never flags more than that, nor less when every scan has a
\* place: one without hides the scans on either side of it from each other.
VelocityRuleAgrees ==
  /\ Velocity => FarScans(Located)
  /\ (Located = Of("scan") /\ ImpossibleTravel) => Velocity

Given == {i \in Of("purchase") : events[i].capacity # NoCapacity}

OneCapacity ==
  \A i, j \in Given :
    events[i].event = events[j].event => events[i].capacity = events[j].capacity

\* No purchase takes another one back.
NoReturns == \A i \in Of("purchase") : events[i].qty >= 0

\* bulk_purchase_rule.py flags what rule 5 finds at a purchase that gives the capacity,
\* and more, unless quantities below zero, which nothing rejects, lower the sum it adds
\* up.  A purchase without capacity is bulk to rule 5 when it is large enough, and to
\* this module only when another purchase of its event gives one.
BulkRuleAgrees ==
  (OneCapacity /\ NoReturns /\ \E i \in Given : IsBulk(i)) => BulkPurchase

\* A batch calls a list harmless only when no rule holds, and less than high
\* only when tickets were transferred twice and nothing else happened.
SeverityIsExact ==
  /\ BatchResult.severity = "none" <=>
       ~(TooManyPurchases \/ DuplicateTransfer \/ ExcessivePurchases
           \/ FarScans(Of("scan")) \/ BulkAllocation)
  /\ BatchResult.severity = "medium" <=> Triggered = {"duplicate_ticket_transfer"}
  /\ BatchResult.severity # "low"

\* The rules find what they say in every list of events, in whatever order it
\* is, and the modules that state two of them a second time agree with them.
RulesAreExact ==
  /\ IpRuleIsExact
  /\ TravelRuleIsExact
  /\ VelocityRuleAgrees
  /\ BulkRuleAgrees
  /\ SeverityIsExact
=============================================================================
