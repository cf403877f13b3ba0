---------------------------- MODULE RevenueRules ----------------------------
(***************************************************************************)
(* How revenue_sharing_service.py splits the revenue of an event: a pure   *)
(* algorithm over amounts.  The code computes with floats; here an amount  *)
(* is an integer number of hundred-thousandths of a cent.  Fees are whole  *)
(* thousandths of a cent, so they and their shares in percent are exact.   *)
(***************************************************************************)
EXTENDS Integers, Sequences, FiniteSets, SequencesExt

CONSTANTS
  ProcessingRate,  \* processing_fee_rate, in thousandths
  FixedFee,        \* processing_fixed_fee, in cents
  PlatformFee,     \* default_platform_fee, in percent
  OrganizerShare,  \* default_organizer_share
  VenueFee,        \* default_venue_fee
  MaxPercentage,   \* maximum_payout_percentage
  Supported        \* SUPPORTED_CURRENCIES

ASSUME RatesAssumption ==
  {ProcessingRate, FixedFee, PlatformFee, OrganizerShare, VenueFee, MaxPercentage} \subseteq Nat

Cent == 100000

Magnitude(x) == IF x < 0 THEN -x ELSE x

Smaller(x, y) == IF x < y THEN x ELSE y

Total(q) == FoldLeft(LAMBDA sum, x : sum + x, 0, q)

\* round(x, 2): to the nearest cent, to the even one half way.
RoundToCent(x) ==
  LET cents == x \div Cent
      rest == 2 * (x % Cent)
      up == rest > Cent \/ (rest = Cent /\ cents % 2 = 1)
  IN Cent * (cents + IF up THEN 1 ELSE 0)

-----------------------------------------------------------------------------
(* Inputs: sales and extra fees in cents, whole tickets, a currency and    *)
(* the rates that the service had (none when it failed), whether fees are  *)
(* deducted, and custom rules.                                             *)

\* A stakeholder's percentage is whole; a bound of 0 is none, one below 0 is a bound.
\* A rule knows the roles it lists and those whose name occurs in its own.

DefaultStakeholders ==
  <<[id |-> "organizer", role |-> "organizer", percentage |-> OrganizerShare, min |-> 0, max |-> 0],
    [id |-> "platform", role |-> "platform", percentage |-> PlatformFee, min |-> 0, max |-> 0],
    [id |-> "venue", role |-> "venue", percentage |-> VenueFee, min |-> 0, max |-> 0]>>

DefaultRules ==
  <<[applies |-> {}, named |-> {"platform"}, priority |-> 1, percentage |-> PlatformFee],
    [applies |-> {}, named |-> {"organizer"}, priority |-> 2, percentage |-> OrganizerShare],
    [applies |-> {}, named |-> {"venue"}, priority |-> 3, percentage |-> VenueFee]>>

\* `input_data.custom_rules or self._get_default_rules()`.
Rules(input) == IF input.rules = << >> THEN DefaultRules ELSE input.rules

Percentages(rules) == Total([i \in DOMAIN rules |-> rules[i].percentage])

Valid(input) ==
  /\ input.sales > 0
  /\ input.tickets > 0
  /\ input.sales >= 100 * input.tickets
  /\ Percentages(input.rules) <= MaxPercentage

\* get_exchange_rate("USD", currency) in hundredths, 0 when it raises.  The rates that the
\* service answers are for a dollar, so that of the dollar itself is 100.
Rate(input) ==
  IF input.currency = "USD" THEN 100
  ELSE IF {"USD", input.currency} \subseteq Supported \cap DOMAIN input.rates
  THEN (100 * input.rates[input.currency]) \div input.rates["USD"]
  ELSE 0

\* The guard in calculate_revenue_shares; the exchange rate is needed for the fees.
Calculable(input) == Percentages(Rules(input)) <= 100 /\ Rate(input) # 0

Fees(input) ==
  LET processing == input.sales * ProcessingRate * (Cent \div 1000)
                      + input.tickets * FixedFee * Rate(input) * (Cent \div 100)
      platform == input.sales * PlatformFee * (Cent \div 100)
  IN processing + platform + input.extra * Cent

NetRevenue(input) ==
  IF input.net THEN input.sales * Cent - Fees(input) ELSE input.sales * Cent

-----------------------------------------------------------------------------
(* _sort_stakeholders_by_rules and _find_rule_for_stakeholder.             *)

Concerns(rule, s) == s.role \in rule.applies \cup rule.named

\* The first rule that concerns the stakeholder decides; 999 when none does.
Priority(s, rules) ==
  LET mine == {i \in DOMAIN rules : Concerns(rules[i], s)}
  IN IF mine = {} THEN 999 ELSE rules[Min(mine)].priority

\* The stakeholders that come before the i-th: Python's sort is stable.
Ahead(q, rules, i) ==
  {j \in DOMAIN q : \/ Priority(q[j], rules) < Priority(q[i], rules)
                    \/ Priority(q[j], rules) = Priority(q[i], rules) /\ j < i}

ByPriority(q, rules) ==
  [k \in DOMAIN q |-> q[CHOOSE i \in DOMAIN q : Cardinality(Ahead(q, rules, i)) = k - 1]]

\* A rule that lists no role applies to everyone.
HasRule(s, rules) == \E i \in DOMAIN rules : Concerns(rules[i], s) \/ rules[i].applies = {}

-----------------------------------------------------------------------------
(* _calculate_distributions.                                               *)

Constrained(s, amount) ==
  IF s.min # 0 /\ amount < s.min * Cent THEN s.min * Cent
  ELSE IF s.max # 0 /\ amount > s.max * Cent THEN s.max * Cent
  ELSE amount

\* One turn of the loop: a stakeholder without a rule is passed over; another one gets a
\* share of the net revenue, but no more than what is left of it.
Pay(net, rules, acc, s) ==
  LET amount == Smaller(Constrained(s, (net \div 100) * s.percentage), acc.left)
  IN IF HasRule(s, rules)
     THEN [paid |-> Append(acc.paid, [id |-> s.id, amount |-> RoundToCent(amount)]),
           left |-> acc.left - amount]
     ELSE acc

Paid(net, q, rules) ==
  FoldLeft(LAMBDA acc, s : Pay(net, rules, acc, s), [paid |-> << >>, left |-> net],
           ByPriority(q, rules)).paid

TotalPaid(paid) == Total([i \in DOMAIN paid |-> paid[i].amount])

\* max(): the first of the largest.
Largest(paid) ==
  CHOOSE i \in DOMAIN paid :
    /\ \A j \in DOMAIN paid : paid[j].amount <= paid[i].amount
    /\ \A j \in 1..(i - 1) : paid[j].amount < paid[i].amount

\* Mutated: amounts are compared in cents, as if they were dollars.
AdjustedOverADollar(net, paid) ==
  LET rest == net - TotalPaid(paid)
  IN IF paid = << >> \/ Magnitude(rest) <= 100 * Cent THEN paid
     ELSE [paid EXCEPT ![Largest(paid)].amount = RoundToCent(@ + RoundToCent(rest))]

\* All that is not distributed, or too much, is the largest payee's.
Adjusted(net, paid) ==
  LET rest == net - TotalPaid(paid)
  IN IF paid = << >> \/ Magnitude(rest) <= Cent THEN paid
     ELSE [paid EXCEPT ![Largest(paid)].amount = RoundToCent(@ + RoundToCent(rest))]

\* calculate_revenue_shares for the stakeholders q, in the order they are read.
Calculation(input, q) ==
  LET net == NetRevenue(input)
      paid == Adjusted(net, Paid(net, q, Rules(input)))
  IN [net |-> net, paid |-> paid, total |-> TotalPaid(paid), rest |-> net - TotalPaid(paid)]
=============================================================================
