-------------------------- MODULE MCRevenueSharing --------------------------
(***************************************************************************)
(* RevenueSharing with two requests that save lists of stakeholders, some  *)
(* of one id, for two events; the configured rates; and calculations with  *)
(* large, tiny and negative net revenues, default rules and custom ones.   *)
(***************************************************************************)
EXTENDS RevenueSharing

artist == [id |-> "a", role |-> "artist", percentage |-> 33, min |-> 0, max |-> 150]
host == [id |-> "h", role |-> "host", percentage |-> 99, min |-> 0, max |-> -20]
organizer == [id |-> "o", role |-> "organizer", percentage |-> 34, min |-> 400, max |-> 0]

MCConfigs == {<<artist>>, <<organizer, artist>>, <<host, organizer>>}

forArtists == [applies |-> {"artist"}, named |-> {}, priority |-> 2, percentage |-> 60]
forHosts == [applies |-> {"host", "organizer"}, named |-> {}, priority |-> 1, percentage |-> 40]

Asked(sales, tickets, extra, rules) ==
  [sales |-> sales, tickets |-> tickets, extra |-> extra, net |-> TRUE,
   currency |-> "USD", rates |-> << >>, rules |-> rules]

Rates == [c \in {"USD", "GBP", "NGN"} |->
            CASE c = "USD" -> 100 [] c = "GBP" -> 79 [] c = "NGN" -> 300]

In(currency, rates) == [Asked(1000, 2, 0, << >>) EXCEPT !.currency = currency, !.rates = rates]

MCInputs ==
  {Asked(1000, 2, 0, << >>),
   Asked(1000, 10, 0, <<forArtists, forHosts>>),
   Asked(101, 1, 0, <<forHosts>>),
   Asked(101, 1, 60, << >>),
   Asked(300, 1, 500, << >>),
   [Asked(997, 1, 0, << >>) EXCEPT !.net = FALSE],
   In("NGN", Rates), In("GBP", Rates), In("GBP", << >>), In("KES", Rates), In("XAF", Rates)}

MCSupported == {"USD", "NGN", "GBP", "EUR", "KES"}
=============================================================================
