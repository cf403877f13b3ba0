--------------------------- MODULE RevenueSharing ---------------------------
(***************************************************************************)
(* The revenue endpoints of main.py over their two tables: stakeholders    *)
(* (stakeholder_store.py), saved in a transaction that deletes the rows of *)
(* an event and inserts others, and revenue_calculations                   *)
(* (calculation_history_store.py), written by a background task after the  *)
(* answer.  A batch is several calculations, of which the failing ones     *)
(* are left out of the answer.                                             *)
(*                                                                         *)
(* Transactions are PostgreSQL's, read committed: a statement sees the     *)
(* rows committed before it began, and waits for the transactions that     *)
(* hold the rows or the keys it writes.                                    *)
(***************************************************************************)
EXTENDS RevenueRules

CONSTANTS
  Events,   \* event ids
  Configs,  \* the lists of stakeholders that may be saved
  Inputs,   \* the calculations that may be asked for
  Savers,   \* the requests that save, at most one transaction each at a time
  MaxSaves, \* bound: saves ever started
  MaxCalcs  \* bound: calculations

ListOf(c) == {c[i] : i \in DOMAIN c}

Stakeholders == UNION {ListOf(c) : c \in Configs}

ASSUME Bounds ==
  /\ Events # {} /\ Configs # {}
  /\ \A c \in Configs : c \in Seq(Stakeholders)
  /\ MaxSaves \in Nat /\ MaxCalcs \in Nat

ASSUME Amounts ==
  /\ \A s \in Stakeholders : {s.percentage, s.min, s.max} \subseteq Int
  /\ \A input \in Inputs :
       /\ {input.sales, input.tickets, input.extra} \subseteq Int
       /\ \A c \in DOMAIN input.rates : input.rates[c] \in Nat \ {0}
       /\ DOMAIN input.rules \subseteq Nat
       /\ \A i \in DOMAIN input.rules : input.rules[i].priority \in Int

VARIABLES
  rows,       \* the committed stakeholders: pairs of an event and a stakeholder
  tx,         \* the transactions
  saves,      \* how many saves were started
  last,       \* the latest calculation
  calcs,      \* how many calculations were made
  waiting,    \* the calculations whose background task has not run
  history,    \* revenue_calculations
  latest,     \* observer: latest[e]: what the latest successful save of e was asked to save
  overlapped  \* observer: the events of which two saves overlapped

tableVars == <<rows, tx, saves, latest, overlapped>>
calcVars == <<last, calcs, waiting, history>>
vars == <<tableVars, calcVars>>

TableRow == [event : Events, s : Stakeholders]

\* at: where the transaction is; seen: the rows its DELETE found.
Tx == [at : {"none", "delete", "insert"}, event : Events, config : Configs,
       next : Nat \ {0}, seen : SUBSET TableRow, deleted : SUBSET TableRow, inserted : SUBSET TableRow]

NoTx == [at |-> "none", event |-> CHOOSE e \in Events : TRUE,
         config |-> CHOOSE c \in Configs : TRUE, next |-> 1,
         seen |-> {}, deleted |-> {}, inserted |-> {}]

Open(t) == tx[t].at # "none"

RowsOf(e) == {r \in rows : r.event = e}

Init ==
  /\ rows = {}
  /\ tx = [t \in Savers |-> NoTx]
  /\ saves = 0
  /\ last = [net |-> 0, paid |-> << >>, total |-> 0, rest |-> 0]
  /\ calcs = 0
  /\ waiting = {}
  /\ history = {}
  /\ latest = [e \in Events |-> {}]
  /\ overlapped = {}

-----------------------------------------------------------------------------
(* save_stakeholders_for_event.                                            *)

BeginSave(t, e, c) ==
  /\ ~Open(t)
  /\ saves < MaxSaves
  /\ saves' = saves + 1
  /\ tx' = [tx EXCEPT ![t] = [NoTx EXCEPT !.at = "delete", !.event = e, !.config = c,
                                          !.seen = RowsOf(e)]]
  /\ overlapped' = IF \E u \in Savers : Open(u) /\ tx[u].event = e
                   THEN overlapped \cup {e} ELSE overlapped
  /\ UNCHANGED <<rows, latest, calcVars>>

\* DELETE waits for whoever deletes a row it saw, and finds that row gone.
Delete(t) ==
  /\ tx[t].at = "delete"
  /\ \A u \in Savers \ {t} : tx[t].seen \cap tx[u].deleted = {}
  /\ tx' = [tx EXCEPT ![t] = [tx[t] EXCEPT !.at = "insert", !.deleted = tx[t].seen]]
  /\ UNCHANGED <<rows, saves, latest, overlapped, calcVars>>

\* Stakeholder ids are the table's primary key, whatever their event.
KeyHeld(t, id) ==
  \E u \in Savers \ {t} : \E r \in tx[u].deleted \cup tx[u].inserted : r.s.id = id

\* Mutated: the key is looked up among the rows of the event only.
KeyTakenInEvent(t, id) ==
  \E r \in (RowsOf(tx[t].event) \ tx[t].deleted) \cup tx[t].inserted : r.s.id = id

KeyTaken(t, id) ==
  \E r \in (rows \ tx[t].deleted) \cup tx[t].inserted : r.s.id = id

Inserting(t) == tx[t].at = "insert" /\ tx[t].next <= Len(tx[t].config)

Insert(t) ==
  /\ Inserting(t)
  /\ LET s == tx[t].config[tx[t].next] IN
       /\ ~KeyHeld(t, s.id)
       /\ ~KeyTaken(t, s.id)
       /\ tx' = [tx EXCEPT ![t] =
                    [tx[t] EXCEPT !.next = tx[t].next + 1,
                                  !.inserted = tx[t].inserted \cup {[event |-> tx[t].event, s |-> s]}]]
  /\ UNCHANGED <<rows, saves, latest, overlapped, calcVars>>

\* Mutated: the delete is committed on its own.
DeletedOnly(t) == rows \ tx[t].deleted

\* The rows that a transaction leaves when it does not commit.
RolledBack(t) == rows

\* A key that is taken, a deadlock or a lost connection: the save is answered 500.
SaveFails(t) ==
  /\ Open(t)
  /\ rows' = RolledBack(t)
  /\ tx' = [tx EXCEPT ![t] = NoTx]
  /\ UNCHANGED <<saves, latest, overlapped, calcVars>>

Commit(t) ==
  /\ tx[t].at = "insert"
  /\ tx[t].next > Len(tx[t].config)
  /\ rows' = (rows \ tx[t].deleted) \cup tx[t].inserted
  /\ latest' = [latest EXCEPT ![tx[t].event] = ListOf(tx[t].config)]
  /\ tx' = [u \in Savers |-> IF u = t THEN NoTx
                            ELSE [tx[u] EXCEPT !.seen = tx[u].seen \ tx[t].deleted]]
  /\ UNCHANGED <<saves, overlapped, calcVars>>

-----------------------------------------------------------------------------
(* calculate_revenue_share and its background task.                        *)

\* get_stakeholders_for_event, in any order, or the default ones.
StakeholderLists(e) ==
  IF RowsOf(e) = {} THEN {DefaultStakeholders} ELSE SetToSeqs({r.s : r \in RowsOf(e)})

\* GET stakeholders: the rows of the event, or the default ones.
StakeholdersShown(e) ==
  LET q == IF RowsOf(e) = {} THEN DefaultStakeholders ELSE SetToSeq({r.s : r \in RowsOf(e)})
  IN {q[i] : i \in DOMAIN q}

\* get_history_for_event, all of its pages.
HistoryOf(e) == {w \in history : w.event = e}

Calculate(e, input) ==
  /\ calcs < MaxCalcs
  /\ Valid(input) /\ Calculable(input)
  /\ \E q \in StakeholderLists(e) :
       LET result == Calculation(input, q) IN
         /\ last' = result
         /\ waiting' = waiting \cup {[nr |-> calcs + 1, event |-> e, result |-> result]}
  /\ calcs' = calcs + 1
  /\ UNCHANGED <<tableVars, history>>

SaveCalculation(w) ==
  /\ waiting' = waiting \ {w}
  /\ history' = history \cup {w}
  /\ UNCHANGED <<tableVars, last, calcs>>

\* An exception in the background task is logged.
SaveCalculationFails(w) ==
  /\ waiting' = waiting \ {w}
  /\ UNCHANGED <<tableVars, last, calcs, history>>

Restart ==
  /\ tx' = [t \in Savers |-> NoTx]
  /\ waiting' = {}
  /\ UNCHANGED <<rows, saves, latest, overlapped, last, calcs, history>>

SaveStep(t) ==
  \/ \E e \in Events, c \in Configs : BeginSave(t, e, c)
  \/ Delete(t) \/ Insert(t) \/ Commit(t) \/ SaveFails(t)

Next ==
  \/ \E t \in Savers : SaveStep(t)
  \/ \E e \in Events, input \in Inputs : Calculate(e, input)
  \/ \E w \in waiting : SaveCalculation(w) \/ SaveCalculationFails(w)
  \/ Restart

Spec == Init /\ [][Next]_vars

-----------------------------------------------------------------------------
(* Properties.                                                             *)

\* Every variable has its type, and no two rows have one id.
TypeOK ==
  /\ rows \subseteq TableRow
  /\ \A r1, r2 \in rows : r1.s.id = r2.s.id => r1 = r2
  /\ tx \in [Savers -> Tx]
  /\ saves \in 0..MaxSaves
  /\ calcs \in 0..MaxCalcs
  /\ {w.nr : w \in waiting \cup history} \subseteq 1..calcs
  /\ latest \in [Events -> SUBSET Stakeholders]
  /\ overlapped \subseteq Events

\* Saves that fail, at any statement, and restarts leave an event the stakeholders
\* of its latest successful save: none of the readers is ever sent back to the
\* default ones, or to a part of a list.  Only two saves of one event that overlap
\* may mix: the second does not see what the first inserts, and deletes none of it.
LatestSaveIsKept ==
  \A e \in Events \ overlapped :
    StakeholdersShown(e) = IF latest[e] = {} THEN {DefaultStakeholders[i] : i \in 1..3}
                           ELSE latest[e]

\* All of the net revenue is paid out, to a cent, and no more, whatever the
\* percentages, the bounds, the fees and the currency are: as long as anyone is paid
\* at all.  So do the calculations that the history of an event shows.
PayoutsAddUp ==
  \A result \in {last} \cup {w.result : w \in UNION {HistoryOf(e) : e \in Events}} :
    result.paid # << >> => Magnitude(result.net - result.total) <= Cent
=============================================================================
