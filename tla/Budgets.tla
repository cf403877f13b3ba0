------------------------------ MODULE Budgets ------------------------------
(***************************************************************************)
(* Budgets and expenses: budget_service.py and expense_service.py.  Every  *)
(* handler awaits its repositories, so other handlers run between its read *)
(* of an entity and its save.  The repositories are given to the services  *)
(* and are not part of the code: find_one returns any match, with the      *)
(* relations it was asked for, and save inserts the entity or overwrites   *)
(* the row of its id; the id of a removed row is not given again.          *)
(***************************************************************************)
EXTENDS Integers, Sequences, FiniteSets

CONSTANTS
  Users,
  Months,      \* months of years
  Kinds,       \* expense categories
  None,        \* a field that a call has not, or that an update leaves out
  Requests,    \* the handlers that may run at once
  Viewers,     \* the handlers that show a budget
  MaxBudgets,  \* bound: budgets
  MaxRows,     \* bound: categories, and expenses
  MaxCalls     \* bound: calls

ASSUME Bounds == /\ {MaxBudgets, MaxRows, MaxCalls} \subseteq Nat
                 /\ None \notin Users \cup Months \cup Kinds

VARIABLES
  budgets,     \* the budgets, by their ids
  categories,  \* categories[i]: the category of id i, NoRow or Gone
  expenses,    \* expenses[i]: the expense of id i, NoRow or Gone
  req,         \* the handlers
  view,        \* the views: what they have read of a budget, or NoView
  calls,       \* how many calls were made
  loose        \* observer: budgets with an update of a category or overlapping additions

tables == <<budgets, categories, expenses>>
vars == <<tables, req, calls, loose, view>>

\* seen (observer): how many budgets there were when the handler looked for one.
Budget == [user : Users, month : Months, status : {"draft", "active"}, seen : 0..MaxBudgets]

NoRow == [state |-> "none"]
Gone == [state |-> "gone"]    \* removed
Stored(row) == row \notin {NoRow, Gone}

Category == [state : {"row"}, budget : 1..MaxBudgets, kind : Kinds]

\* activated (observer): its handler activated the budget it is booked on.
Expense == [state : {"row"}, user : Users, month : Months, kind : Kinds, activated : BOOLEAN]

Ids == 1..MaxRows

NoView == [op |-> "none"]

\* kinds, todo, shown: the categories that were read with the budget, those whose expenses
\* are still to be asked for, and the expenses found for each.  Observers: whether the
\* budget was loose when it was read, and the expenses that have changed category since.
View == [op : {"details", "overview"}, user : Users, month : Months, loose : BOOLEAN,
         kinds : [Ids -> Kinds \cup {None}], todo : SUBSET Ids,
         shown : [Ids -> SUBSET Ids], moved : SUBSET Ids]

\* at: the await the handler is at; found: the entity it has read.
Request == [at : {"idle", "create", "saveBudget", "add", "saveCategory", "update", "saveUpdate",
                  "delete", "removeCategory", "activate", "saveActive", "expense", "findDraft",
                  "saveDraft", "saveExpense", "change", "saveChange", "drop", "removeExpense"},
            user : Users \cup {None}, month : Months \cup {None}, kind : Kinds \cup {None},
            id : Nat, seen : 0..MaxBudgets, found : {NoRow} \cup Category \cup Expense,
            activated : BOOLEAN]

Idle == [at |-> "idle", user |-> None, month |-> None, kind |-> None, id |-> 0,
         seen |-> 0, found |-> NoRow, activated |-> FALSE]

Init ==
  /\ budgets = << >>
  /\ categories = [i \in Ids |-> NoRow]
  /\ expenses = [i \in Ids |-> NoRow]
  /\ req = [r \in Requests |-> Idle]
  /\ view = [v \in Viewers |-> NoView]
  /\ calls = 0
  /\ loose = {}

Call(r, op, user, month, kind, id) ==
  /\ req[r].at = "idle"
  /\ calls < MaxCalls
  /\ calls' = calls + 1
  /\ req' = [req EXCEPT ![r] = [Idle EXCEPT !.at = op, !.user = user, !.month = month,
                                            !.kind = kind, !.id = id]]
  /\ UNCHANGED <<tables, loose, view>>

\* The handler returns or raises.
Done(r) == req' = [req EXCEPT ![r] = Idle]

Goto(r, at) == req' = [req EXCEPT ![r].at = at]

\* The id of the next row.
Free(table) == {i \in Ids : table[i] = NoRow /\ \A j \in Ids : j < i => table[j] # NoRow}

-----------------------------------------------------------------------------
(* budget_service.py                                                       *)

\* Mutated: the where of retrieve_dashboard_overview.
ActiveOfMonth(b, r) ==
  b.user = req[r].user /\ b.month = req[r].month /\ b.status = "active"

OfMonth(b, r) == b.user = req[r].user /\ b.month = req[r].month

\* create_budget
LookForBudget(r) ==
  /\ req[r].at = "create"
  /\ IF \E i \in DOMAIN budgets : OfMonth(budgets[i], r)
     THEN Done(r)
     ELSE req' = [req EXCEPT ![r].at = "saveBudget", ![r].seen = Len(budgets)]
  /\ UNCHANGED <<tables, calls, loose, view>>

SaveBudget(r) ==
  /\ req[r].at = "saveBudget"
  /\ Len(budgets) < MaxBudgets
  /\ budgets' = Append(budgets, [user |-> req[r].user, month |-> req[r].month,
                                 status |-> "draft", seen |-> req[r].seen])
  /\ Done(r)
  /\ UNCHANGED <<categories, expenses, calls, loose, view>>

CategoriesOf(b) == {i \in Ids : Stored(categories[i]) /\ categories[i].budget = b}

KindsOf(b) == {categories[i].kind : i \in CategoriesOf(b)}

\* Mutated: drafts get categories, too.
AnyStatus(b) == TRUE

TakesCategories(b) == budgets[b].status # "draft"

\* add_budget_category, for any budget: its owner is not checked.
Adding(r, q) == req[q].at = "saveCategory" /\ req[q].id = req[r].id

ReadForCategory(r) ==
  /\ req[r].at = "add"
  /\ IF /\ req[r].id \in DOMAIN budgets
        /\ TakesCategories(req[r].id)
        /\ req[r].kind \notin KindsOf(req[r].id)
     THEN /\ Goto(r, "saveCategory")
          /\ loose' = IF \E q \in Requests : Adding(r, q) THEN loose \cup {req[r].id} ELSE loose
     ELSE Done(r) /\ UNCHANGED loose
  /\ UNCHANGED <<tables, calls, view>>

SaveCategory(r) ==
  /\ req[r].at = "saveCategory"
  /\ \E i \in Free(categories) :
       categories' = [categories EXCEPT ![i] =
                        [state |-> "row", budget |-> req[r].id, kind |-> req[r].kind]]
  /\ Done(r)
  /\ UNCHANGED <<budgets, expenses, calls, loose, view>>

\* Mutated: what the update leaves out is set to None.
AllSet(row, kind) == [row EXCEPT !.kind = kind]

Updated(row, kind) == IF kind = None THEN row ELSE [row EXCEPT !.kind = kind]

Redated(row, month) == IF month = None THEN row ELSE [row EXCEPT !.month = month]

\* update_budget_category, by the budget's owner.
ReadCategory(r) ==
  /\ req[r].at = "update"
  /\ LET row == categories[req[r].id] IN
       IF Stored(row) /\ budgets[row.budget].user = req[r].user
       THEN req' = [req EXCEPT ![r].at = "saveUpdate", ![r].found = Updated(row, req[r].kind)]
       ELSE Done(r)
  /\ UNCHANGED <<tables, calls, loose, view>>

SaveUpdate(r) ==
  /\ req[r].at = "saveUpdate"
  /\ categories' = [categories EXCEPT ![req[r].id] = req[r].found]
  /\ loose' = loose \cup {req[r].found.budget}
  /\ Done(r)
  /\ UNCHANGED <<budgets, expenses, calls, view>>

\* delete_budget_category, by anyone.
ReadToDelete(r) ==
  /\ req[r].at = "delete"
  /\ IF Stored(categories[req[r].id]) THEN Goto(r, "removeCategory") ELSE Done(r)
  /\ UNCHANGED <<tables, calls, loose, view>>

RemoveCategory(r) ==
  /\ req[r].at = "removeCategory"
  /\ categories' = [categories EXCEPT ![req[r].id] = Gone]
  /\ Done(r)
  /\ UNCHANGED <<budgets, expenses, calls, loose, view>>

\* activate_budget, by the owner.
ReadToActivate(r) ==
  /\ req[r].at = "activate"
  /\ IF /\ req[r].id \in DOMAIN budgets
        /\ budgets[req[r].id].user = req[r].user
        /\ budgets[req[r].id].status # "active"
     THEN Goto(r, "saveActive") ELSE Done(r)
  /\ UNCHANGED <<tables, calls, loose, view>>

SaveActive(r) ==
  /\ req[r].at = "saveActive"
  /\ budgets' = [budgets EXCEPT ![req[r].id].status = "active"]
  /\ Done(r)
  /\ UNCHANGED <<categories, expenses, calls, loose, view>>

-----------------------------------------------------------------------------
(* expense_service.py                                                      *)

OfStatus(r, status) ==
  {b \in DOMAIN budgets : budgets[b].user = req[r].user /\ budgets[b].status = status}

\* create_expense takes any active budget of the user, of whatever month.
FindActive(r) ==
  /\ req[r].at = "expense"
  /\ \/ \E b \in OfStatus(r, "active") :
          IF req[r].kind \in KindsOf(b) THEN Goto(r, "saveExpense") ELSE Done(r)
     \/ /\ OfStatus(r, "active") = {}
        /\ Goto(r, "findDraft")
  /\ UNCHANGED <<tables, calls, loose, view>>

\* found holds the categories that are read with the draft: that of the expense, if any.
FindDraft(r) ==
  /\ req[r].at = "findDraft"
  /\ \/ \E b \in OfStatus(r, "draft") :
          req' = [req EXCEPT ![r].at = "saveDraft", ![r].id = b,
                             ![r].found = IF req[r].kind \in KindsOf(b)
                                          THEN [state |-> "row", budget |-> b, kind |-> req[r].kind]
                                          ELSE NoRow]
     \/ /\ OfStatus(r, "draft") = {}
        /\ Done(r)
  /\ UNCHANGED <<tables, calls, loose, view>>

\* The draft is activated before its categories are looked at.
SaveDraft(r) ==
  /\ req[r].at = "saveDraft"
  /\ budgets' = [budgets EXCEPT ![req[r].id].status = "active"]
  /\ IF req[r].found # NoRow
     THEN req' = [req EXCEPT ![r].at = "saveExpense", ![r].activated = TRUE]
     ELSE Done(r)
  /\ UNCHANGED <<categories, expenses, calls, loose, view>>

SaveExpense(r) ==
  /\ req[r].at = "saveExpense"
  /\ \E i \in Free(expenses) :
       expenses' = [expenses EXCEPT ![i] =
                      [state |-> "row", user |-> req[r].user, month |-> req[r].month,
                       kind |-> req[r].kind, activated |-> req[r].activated]]
  /\ Done(r)
  /\ UNCHANGED <<budgets, categories, calls, loose, view>>

OwnExpense(r) ==
  Stored(expenses[req[r].id]) /\ expenses[req[r].id].user = req[r].user

\* update_expense: the new category need not be in any budget.
ReadExpense(r) ==
  /\ req[r].at = "change"
  /\ IF OwnExpense(r)
     THEN req' = [req EXCEPT ![r].at = "saveChange",
                             ![r].found = Redated(Updated(expenses[req[r].id], req[r].kind),
                                                 req[r].month)]
     ELSE Done(r)
  /\ UNCHANGED <<tables, calls, loose, view>>

Moves(r) == LET row == expenses[req[r].id] IN Stored(row) => row.kind # req[r].found.kind

SaveChange(r) ==
  /\ req[r].at = "saveChange"
  /\ expenses' = [expenses EXCEPT ![req[r].id] = req[r].found]
  /\ view' = [v \in Viewers |-> IF view[v] # NoView /\ Moves(r)
                                THEN [view[v] EXCEPT !.moved = @ \cup {req[r].id}]
                                ELSE view[v]]
  /\ Done(r)
  /\ UNCHANGED <<budgets, categories, calls, loose>>

\* remove_expense
ReadToDrop(r) ==
  /\ req[r].at = "drop"
  /\ IF OwnExpense(r) THEN Goto(r, "removeExpense") ELSE Done(r)
  /\ UNCHANGED <<tables, calls, loose, view>>

RemoveExpense(r) ==
  /\ req[r].at = "removeExpense"
  /\ expenses' = [expenses EXCEPT ![req[r].id] = Gone]
  /\ Done(r)
  /\ UNCHANGED <<budgets, categories, calls, loose, view>>

\* A repository raises, or the user is not found.
Fail(r) ==
  /\ req[r].at # "idle"
  /\ Done(r)
  /\ UNCHANGED <<tables, calls, loose, view>>

-----------------------------------------------------------------------------
(* The views.  They read the budget of a user and month with its           *)
(* categories, and then the expenses: the details with a query for each    *)
(* category, the overview with one for all.  Without a budget there is     *)
(* nothing to show.                                                        *)

SpentOn(u, m, k) == {i \in Ids : /\ Stored(expenses[i])
                                 /\ expenses[i].user = u
                                 /\ expenses[i].month = m
                                 /\ expenses[i].kind = k}

Opened(op, b) ==
  [op |-> op, user |-> budgets[b].user, month |-> budgets[b].month, loose |-> b \in loose,
   kinds |-> [i \in Ids |-> IF i \in CategoriesOf(b) THEN categories[i].kind ELSE None],
   todo |-> CategoriesOf(b), shown |-> [i \in Ids |-> {}], moved |-> {}]

Spent(v, i) == SpentOn(view[v].user, view[v].month, view[v].kinds[i])

\* retrieve_budget_details
ReadDetails(v) ==
  /\ view[v] = NoView
  /\ \E b \in DOMAIN budgets : view' = [view EXCEPT ![v] = Opened("details", b)]
  /\ UNCHANGED <<tables, req, calls, loose>>

SpentOnCategory(v) ==
  /\ view[v] # NoView
  /\ view[v].op = "details"
  /\ \E i \in view[v].todo :
       view' = [view EXCEPT ![v].todo = @ \ {i}, ![v].shown[i] = Spent(v, i)]
  /\ UNCHANGED <<tables, req, calls, loose>>

\* retrieve_dashboard_overview
ReadOverview(v) ==
  /\ view[v] = NoView
  /\ \E b \in DOMAIN budgets :
       /\ budgets[b].status = "active"
       /\ view' = [view EXCEPT ![v] = Opened("overview", b)]
  /\ UNCHANGED <<tables, req, calls, loose>>

SpentOnAll(v) ==
  /\ view[v] # NoView
  /\ view[v].op = "overview"
  /\ view[v].todo # {}
  /\ view' = [view EXCEPT ![v].todo = {},
                          ![v].shown = [i \in Ids |-> IF i \in view[v].todo THEN Spent(v, i) ELSE {}]]
  /\ UNCHANGED <<tables, req, calls, loose>>

\* It answers, or a repository raises.
EndView(v) ==
  /\ view[v] # NoView
  /\ view' = [view EXCEPT ![v] = NoView]
  /\ UNCHANGED <<tables, req, calls, loose>>

-----------------------------------------------------------------------------

BudgetCall(r) ==
  \E u \in Users :
    \/ \E m \in Months : Call(r, "create", u, m, None, 0)
    \/ \E b \in DOMAIN budgets :
         \/ Call(r, "activate", u, None, None, b)
         \/ \E k \in Kinds : Call(r, "add", u, None, k, b)
    \/ \E i \in {j \in Ids : Stored(categories[j])} :
         \/ \E k \in Kinds \cup {None} : Call(r, "update", u, None, k, i)
         \/ Call(r, "delete", u, None, None, i)

ExpenseCall(r) ==
  \E u \in Users :
    \/ \E m \in Months, k \in Kinds : Call(r, "expense", u, m, k, 0)
    \/ \E i \in {j \in Ids : Stored(expenses[j])} :
         \/ \E m \in Months \cup {None}, k \in Kinds \cup {None} : Call(r, "change", u, m, k, i)
         \/ Call(r, "drop", u, None, None, i)

Step(r) ==
  \/ LookForBudget(r) \/ SaveBudget(r) \/ ReadForCategory(r) \/ SaveCategory(r)
  \/ ReadCategory(r) \/ SaveUpdate(r) \/ ReadToDelete(r) \/ RemoveCategory(r)
  \/ ReadToActivate(r) \/ SaveActive(r)
  \/ FindActive(r) \/ FindDraft(r) \/ SaveDraft(r) \/ SaveExpense(r)
  \/ ReadExpense(r) \/ SaveChange(r) \/ ReadToDrop(r) \/ RemoveExpense(r)

Show(v) ==
  ReadDetails(v) \/ SpentOnCategory(v) \/ ReadOverview(v) \/ SpentOnAll(v) \/ EndView(v)

Next ==
  \/ \E r \in Requests : BudgetCall(r) \/ ExpenseCall(r) \/ Step(r) \/ Fail(r)
  \/ \E v \in Viewers : Show(v)

Spec == Init /\ [][Next]_vars

-----------------------------------------------------------------------------
(* Properties.                                                             *)

\* Every variable has its type; categories belong to budgets there are.
TypeOK ==
  /\ budgets \in Seq(Budget) /\ Len(budgets) <= MaxBudgets
  /\ categories \in [Ids -> {NoRow, Gone} \cup Category]
  /\ \A i \in Ids : Stored(categories[i]) => categories[i].budget \in DOMAIN budgets
  /\ expenses \in [Ids -> {NoRow, Gone} \cup Expense]
  /\ req \in [Requests -> Request]
  /\ view \in [Viewers -> {NoView} \cup View]
  /\ calls \in 0..MaxCalls
  /\ loose \subseteq DOMAIN budgets

\* A user has two budgets of one month only when the second was looked for before
\* the first was saved, whatever is activated or fails meanwhile.  And a view counts an
\* expense in two categories of a budget only when, before it read the budget, a category
\* was updated, which checks nothing, or additions overlapped; the details, which ask for
\* one category after the other, also when the expense changed category between.
DuplicatesNeedOverlap ==
  /\ \A i, j \in DOMAIN budgets :
       /\ i < j
       /\ budgets[i].user = budgets[j].user
       /\ budgets[i].month = budgets[j].month
       => budgets[j].seen < i
  /\ \A v \in Viewers : view[v] # NoView /\ ~view[v].loose =>
       \A i, j \in Ids : i # j =>
         view[v].shown[i] \cap view[v].shown[j]
           \subseteq IF view[v].op = "details" THEN view[v].moved ELSE {}

\* create_expense activates the user's draft when there is no active budget, but
\* never records the expense then: drafts have no categories, so it always ends in
\* the error that the category is not part of the budget, with the draft activated.
ActivationRecordsNoExpense ==
  \A i \in Ids : Stored(expenses[i]) => ~expenses[i].activated
=============================================================================
