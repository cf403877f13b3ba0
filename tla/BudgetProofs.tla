---------------------------- MODULE BudgetProofs ----------------------------
(***************************************************************************)
(* Proofs about Budgets.  The invariant says of every handler what it has  *)
(* read and what still holds of it, whatever ran while it awaited.         *)
(***************************************************************************)
EXTENDS Budgets, TLAPS

NeedsMonth == {"create", "saveBudget", "expense", "findDraft", "saveDraft", "saveExpense"}
NeedsKind == {"add", "saveCategory", "expense", "findDraft", "saveDraft", "saveExpense"}
NeedsRow == {"update", "saveUpdate", "delete", "removeCategory",
             "change", "saveChange", "drop", "removeExpense"}
NeedsBudget == {"saveCategory", "saveActive", "saveDraft"}

Apart(q, cs) == \A i \in Ids : Stored(cs[i]) /\ cs[i].budget = q.id => cs[i].kind # q.kind

\* What a handler may rely on: q is its state, the rest are the tables.
Fits(q, bs, cs, ls) ==
  /\ q.at \in NeedsMonth => q.user \in Users /\ q.month \in Months
  /\ q.at \in NeedsKind => q.kind \in Kinds
  /\ q.at \in NeedsRow => q.id \in Ids
  /\ q.at \in NeedsBudget => q.id \in DOMAIN bs
  /\ q.at = "saveBudget" =>
       /\ q.seen <= Len(bs)
       /\ \A i \in DOMAIN bs : bs[i].user = q.user /\ bs[i].month = q.month => q.seen < i
  /\ q.at = "saveCategory" => bs[q.id].status # "draft" /\ (q.id \in ls \/ Apart(q, cs))
  /\ q.at = "saveUpdate" =>
       /\ q.found \in Category
       /\ q.found.budget \in DOMAIN bs
       /\ bs[q.found.budget].status # "draft"
  /\ q.at = "saveDraft" => q.found = NoRow
  /\ q.at = "saveChange" => q.found \in Expense /\ ~q.found.activated
  /\ ~q.activated

BudgetsApart ==
  \A i, j \in DOMAIN budgets :
    i < j /\ budgets[i].user = budgets[j].user /\ budgets[i].month = budgets[j].month
    => budgets[j].seen < i

DraftsEmpty ==
  \A i \in Ids : Stored(categories[i]) => budgets[categories[i].budget].status # "draft"

CategoriesApart ==
  \A i, j \in Ids :
    /\ i # j /\ Stored(categories[i]) /\ Stored(categories[j])
    /\ categories[i].budget = categories[j].budget
    /\ categories[i].kind = categories[j].kind
    => categories[i].budget \in loose

Pending(q, b) == q.at = "saveCategory" /\ q.id = b

AddsApart ==
  \A r, s \in Requests : \A b \in Nat :
    r # s /\ Pending(req[r], b) /\ Pending(req[s], b) => b \in loose

HandlersFit == \A r \in Requests : Fits(req[r], budgets, categories, loose)

\* What a view has read of the categories, and where the expenses it counted are now.
ViewFits(w, es) ==
  w # NoView =>
    /\ ~w.loose =>
         \A i, j \in Ids : i # j =>
           /\ w.kinds[i] = w.kinds[j] => w.kinds[i] = None
           /\ w.shown[i] \cap w.shown[j] \subseteq IF w.op = "details" THEN w.moved ELSE {}
    /\ w.op = "details" =>
         \A i \in Ids : \A e \in w.shown[i] :
           /\ es[e] # NoRow
           /\ Stored(es[e]) /\ e \notin w.moved => es[e].kind = w.kinds[i]

ViewsFit == \A v \in Viewers : ViewFits(view[v], expenses)

BudgetInv ==
  /\ TypeOK
  /\ BudgetsApart
  /\ DraftsEmpty
  /\ CategoriesApart
  /\ AddsApart
  /\ HandlersFit
  /\ ViewsFit
  /\ ActivationRecordsNoExpense

-----------------------------------------------------------------------------
(* Handlers and rows.                                                      *)

LEMMA IdleFits ==
  /\ Idle \in Request
  /\ Idle.at = "idle" /\ Idle.seen = 0 /\ Idle.found = NoRow /\ ~Idle.activated
  /\ \A bs, cs, ls : Fits(Idle, bs, cs, ls)
<1>1. Idle \in Request
  BY Bounds DEF Idle, Request
<1>2. Idle.at = "idle" /\ Idle.seen = 0 /\ Idle.found = NoRow /\ ~Idle.activated
  BY DEF Idle
<1> QED
  BY <1>1, <1>2 DEF Fits, NeedsMonth, NeedsKind, NeedsRow, NeedsBudget

LEMMA RowsDiffer ==
  /\ \A row \in Category : Stored(row)
  /\ \A row \in Expense : Stored(row)
  /\ ~Stored(NoRow) /\ ~Stored(Gone) /\ Gone # NoRow
<1>1. ASSUME NEW row \in Category PROVE row.state = "row"
  BY DEF Category
<1>2. ASSUME NEW row \in Expense PROVE row.state = "row"
  BY DEF Expense
<1>3. NoRow.state = "none" /\ Gone.state = "gone"
  BY DEF NoRow, Gone
<1> QED
  BY <1>1, <1>2, <1>3 DEF Stored

LEMMA UpdatedCategory ==
  ASSUME NEW row \in Category, NEW kind \in Kinds \cup {None}
  PROVE  Updated(row, kind) \in Category /\ Updated(row, kind).budget = row.budget
BY DEF Updated, Category

LEMMA UpdatedExpense ==
  ASSUME NEW row \in Expense, NEW kind \in Kinds \cup {None}, NEW month \in Months \cup {None}
  PROVE  /\ Redated(Updated(row, kind), month) \in Expense
         /\ Redated(Updated(row, kind), month).activated = row.activated
<1>1. Updated(row, kind) \in Expense /\ Updated(row, kind).activated = row.activated
  BY DEF Updated, Expense
<1> QED
  BY <1>1 DEF Redated, Expense

\* A step that moves one handler and leaves the tables alone.
LEMMA OneMoves ==
  ASSUME BudgetInv, NEW r \in Requests, NEW q \in Request,
         UNCHANGED <<tables, view>>, calls' \in 0..MaxCalls,
         loose \subseteq loose', loose' \subseteq DOMAIN budgets,
         req' = [req EXCEPT ![r] = q],
         Fits(q, budgets, categories, loose'),
         \A s \in Requests \ {r} : \A b \in Nat :
           Pending(q, b) /\ Pending(req[s], b) => b \in loose'
  PROVE  BudgetInv'
<1>1. TypeOK'
  BY DEF BudgetInv, TypeOK, tables
<1>2. BudgetsApart' /\ DraftsEmpty' /\ CategoriesApart' /\ ViewsFit' /\ ActivationRecordsNoExpense'
  BY DEF BudgetInv, BudgetsApart, DraftsEmpty, CategoriesApart, ViewsFit, ActivationRecordsNoExpense,
         tables
<1>3. \A s \in Requests : req'[s] = IF s = r THEN q ELSE req[s]
  BY DEF BudgetInv, TypeOK
<1>4. AddsApart'
  BY <1>3 DEF BudgetInv, AddsApart
<1>5. HandlersFit'
  <2> SUFFICES ASSUME NEW s \in Requests
               PROVE  Fits(req'[s], budgets, categories, loose')
    BY DEF HandlersFit, tables
  <2>1. CASE s = r
    BY <2>1, <1>3
  <2>2. CASE s # r
    <3>1. Fits(req[s], budgets, categories, loose)
      BY DEF BudgetInv, HandlersFit
    <3> QED
      BY <2>2, <3>1, <1>3 DEF Fits
  <2> QED
    BY <2>1, <2>2
<1> QED
  BY <1>1, <1>2, <1>4, <1>5 DEF BudgetInv

LEMMA OneEnds ==
  ASSUME BudgetInv, NEW r \in Requests, Done(r), UNCHANGED <<tables, calls, loose, view>>
  PROVE  BudgetInv'
<1>1. Idle \in Request /\ Idle.at # "saveCategory" /\ Fits(Idle, budgets, categories, loose')
  BY IdleFits
<1>2. req' = [req EXCEPT ![r] = Idle]
  BY DEF Done
<1>3. \A b \in Nat : ~Pending(Idle, b)
  BY <1>1 DEF Pending
<1>4. calls' \in 0..MaxCalls /\ loose' = loose /\ loose \subseteq DOMAIN budgets
  BY DEF BudgetInv, TypeOK
<1> QED
  BY <1>1, <1>2, <1>3, <1>4, OneMoves

\* A step that changes tables and ends its handler.
LEMMA OneSaves ==
  ASSUME BudgetInv, NEW r \in Requests, Done(r), UNCHANGED calls,
         loose \subseteq loose', loose' \subseteq DOMAIN budgets',
         budgets' \in Seq(Budget), Len(budgets') <= MaxBudgets,
         categories' \in [Ids -> {NoRow, Gone} \cup Category],
         \A i \in Ids : Stored(categories'[i]) => categories'[i].budget \in DOMAIN budgets',
         expenses' \in [Ids -> {NoRow, Gone} \cup Expense],
         view' \in [Viewers -> {NoView} \cup View], ViewsFit',
         BudgetsApart', DraftsEmpty', CategoriesApart', ActivationRecordsNoExpense',
         \A s \in Requests \ {r} : Fits(req[s], budgets', categories', loose')
  PROVE  BudgetInv'
<1>1. Idle \in Request /\ Idle.at # "saveCategory" /\ Fits(Idle, budgets', categories', loose')
  BY IdleFits
<1>2. req' = [req EXCEPT ![r] = Idle] /\ req \in [Requests -> Request]
  BY DEF Done, BudgetInv, TypeOK
<1>3. \A s \in Requests : req'[s] = IF s = r THEN Idle ELSE req[s]
  BY <1>2
<1>4. TypeOK'
  BY <1>1, <1>2 DEF BudgetInv, TypeOK
<1>5. AddsApart'
  BY <1>1, <1>3 DEF BudgetInv, AddsApart, Pending
<1>6. HandlersFit'
  BY <1>1, <1>3 DEF HandlersFit
<1> QED
  BY <1>4, <1>5, <1>6 DEF BudgetInv

\* Budgets are only added, and activated: nothing that a handler relies on is lost.
LEMMA BudgetsGrow ==
  ASSUME NEW q \in Request, NEW bs \in Seq(Budget), NEW bt \in Seq(Budget), NEW cs, NEW ls,
         Fits(q, bs, cs, ls), Len(bs) <= Len(bt),
         \A i \in 1..Len(bs) : /\ bt[i].user = bs[i].user /\ bt[i].month = bs[i].month
                               /\ bt[i].status = "draft" => bs[i].status = "draft"
  PROVE  Fits(q, bt, cs, ls)
<1>1. DOMAIN bs = 1..Len(bs) /\ DOMAIN bt = 1..Len(bt) /\ Len(bs) \in Nat /\ Len(bt) \in Nat
  OBVIOUS
<1>2. q.seen \in Nat
  BY Bounds DEF Request
<1>3. q.at = "saveBudget" =>
        /\ q.seen <= Len(bt)
        /\ \A i \in DOMAIN bt : bt[i].user = q.user /\ bt[i].month = q.month => q.seen < i
  BY <1>1, <1>2 DEF Fits
<1>4. q.at \in NeedsBudget => q.id \in DOMAIN bt
  BY <1>1 DEF Fits
<1>5. q.at = "saveCategory" => bt[q.id].status # "draft" /\ (q.id \in ls \/ Apart(q, cs))
  BY <1>1 DEF Fits, NeedsBudget
<1>6. q.at = "saveUpdate" =>
        /\ q.found \in Category
        /\ q.found.budget \in DOMAIN bt
        /\ bt[q.found.budget].status # "draft"
  BY <1>1 DEF Fits
<1> QED
  BY <1>3, <1>4, <1>5, <1>6 DEF Fits

\* A step that leaves the views and the expenses alone.
LEMMA ViewsStay ==
  ASSUME BudgetInv, UNCHANGED <<view, expenses>>
  PROVE  view' \in [Viewers -> {NoView} \cup View] /\ ViewsFit'
BY DEF BudgetInv, TypeOK, ViewsFit

-----------------------------------------------------------------------------
(* Steps that only read.                                                   *)

LEMMA Typed ==
  ASSUME BudgetInv
  PROVE  /\ loose \subseteq DOMAIN budgets
         /\ budgets \in Seq(Budget)
         /\ categories \in [Ids -> {NoRow, Gone} \cup Category]
         /\ expenses \in [Ids -> {NoRow, Gone} \cup Expense]
         /\ view \in [Viewers -> {NoView} \cup View]
         /\ \A i \in Ids : Stored(categories[i]) => categories[i] \in Category
         /\ \A i \in Ids : Stored(expenses[i]) => expenses[i] \in Expense
BY DEF BudgetInv, TypeOK, Stored

LEMMA Handlers ==
  ASSUME BudgetInv, NEW r \in Requests
  PROVE  /\ req[r] \in Request
         /\ Fits(req[r], budgets, categories, loose)
         /\ req \in [Requests -> Request]
         /\ loose \subseteq DOMAIN budgets
         /\ calls \in 0..MaxCalls
         /\ budgets \in Seq(Budget)
         /\ categories \in [Ids -> {NoRow, Gone} \cup Category]
         /\ expenses \in [Ids -> {NoRow, Gone} \cup Expense]
         /\ view \in [Viewers -> {NoView} \cup View]
BY DEF BudgetInv, TypeOK, HandlersFit

LEMMA ShownAreIds ==
  ASSUME BudgetInv, NEW v \in Viewers, view[v] # NoView
  PROVE  view[v] \in View /\ \A i \in Ids : view[v].shown[i] \subseteq Ids
<1>1. view[v] \in View
  BY Typed
<1>2. view[v].shown \in [Ids -> SUBSET Ids]
  BY <1>1 DEF View
<1> QED
  BY <1>1, <1>2

\* A handler goes on to an await that needs nothing more.
LEMMA OneGoesOn ==
  ASSUME BudgetInv, NEW r \in Requests, UNCHANGED <<tables, calls, view>>,
         NEW at, Goto(r, at), loose \subseteq loose', loose' \subseteq DOMAIN budgets,
         [req[r] EXCEPT !.at = at] \in Request,
         Fits([req[r] EXCEPT !.at = at], budgets, categories, loose'),
         at = "saveCategory" =>
           \A s \in Requests \ {r} : Pending(req[s], req[r].id) => req[r].id \in loose'
  PROVE  BudgetInv'
<1> DEFINE q == [req[r] EXCEPT !.at = at]
<1>1. q.at = at /\ q.id = req[r].id
  BY Handlers DEF Request
<1>2. req' = [req EXCEPT ![r] = q]
  BY DEF Goto
<1>3. \A s \in Requests \ {r} : \A b \in Nat : Pending(q, b) /\ Pending(req[s], b) => b \in loose'
  BY <1>1 DEF Pending
<1>4. calls' \in 0..MaxCalls
  BY Handlers
<1> HIDE DEF q
<1> QED
  BY <1>2, <1>3, <1>4, OneMoves DEF q

LEMMA CallKeeps ==
  ASSUME BudgetInv, NEW r \in Requests, BudgetCall(r) \/ ExpenseCall(r)
  PROVE  BudgetInv'
<1> DEFINE New(op, user, month, kind, id) ==
      [Idle EXCEPT !.at = op, !.user = user, !.month = month, !.kind = kind, !.id = id]
<1>1. ASSUME NEW op \in {"create", "activate", "add", "update", "delete", "expense", "change", "drop"},
             NEW user \in Users, NEW month \in Months \cup {None}, NEW kind \in Kinds \cup {None},
             NEW id \in Nat, Call(r, op, user, month, kind, id),
             op \in NeedsMonth => month \in Months,
             op \in NeedsKind => kind \in Kinds,
             op \in NeedsRow => id \in Ids
      PROVE  BudgetInv'
  <2>1. /\ New(op, user, month, kind, id) \in Request
        /\ New(op, user, month, kind, id).at = op
        /\ New(op, user, month, kind, id).month = month
        /\ New(op, user, month, kind, id).kind = kind
        /\ New(op, user, month, kind, id).id = id
        /\ New(op, user, month, kind, id).activated = Idle.activated
    BY IdleFits DEF Request
  <2>2. Fits(New(op, user, month, kind, id), budgets, categories, loose')
    BY <1>1, <2>1, IdleFits DEF Fits, NeedsBudget
  <2>3. calls' \in 0..MaxCalls
    BY <1>1, Handlers, Bounds DEF Call
  <2>4. \A b \in Nat : ~Pending(New(op, user, month, kind, id), b)
    BY <2>1 DEF Pending
  <2>5. /\ UNCHANGED <<tables, loose, view>>
        /\ req' = [req EXCEPT ![r] = New(op, user, month, kind, id)]
    BY <1>1 DEF Call
  <2> HIDE DEF New
  <2> QED
    BY <2>1, <2>2, <2>3, <2>4, <2>5, Handlers, OneMoves
<1>2. Ids \subseteq Nat /\ 0 \in Nat /\ DOMAIN budgets \subseteq Nat
  <2>1. DOMAIN budgets = 1..Len(budgets)
    BY Handlers
  <2> QED
    BY <2>1, Bounds, Handlers DEF Ids
<1>3. CASE BudgetCall(r)
  <2>1. PICK u \in Users :
          \/ \E m \in Months : Call(r, "create", u, m, None, 0)
          \/ \E b \in DOMAIN budgets :
               \/ Call(r, "activate", u, None, None, b)
               \/ \E k \in Kinds : Call(r, "add", u, None, k, b)
          \/ \E i \in {j \in Ids : Stored(categories[j])} :
               \/ \E k \in Kinds \cup {None} : Call(r, "update", u, None, k, i)
               \/ Call(r, "delete", u, None, None, i)
    BY <1>3 DEF BudgetCall
  <2>2. ASSUME NEW m \in Months, Call(r, "create", u, m, None, 0) PROVE BudgetInv'
    BY <1>1, <1>2, <2>2 DEF NeedsMonth, NeedsKind, NeedsRow
  <2>3. ASSUME NEW b \in DOMAIN budgets, Call(r, "activate", u, None, None, b) PROVE BudgetInv'
    BY <1>1, <1>2, <2>3 DEF NeedsMonth, NeedsKind, NeedsRow
  <2>4. ASSUME NEW b \in DOMAIN budgets, NEW k \in Kinds, Call(r, "add", u, None, k, b)
        PROVE  BudgetInv'
    BY <1>1, <1>2, <2>4 DEF NeedsMonth, NeedsKind, NeedsRow
  <2>5. ASSUME NEW i \in Ids, NEW k \in Kinds \cup {None}, Call(r, "update", u, None, k, i)
        PROVE  BudgetInv'
    BY <1>1, <1>2, <2>5 DEF NeedsMonth, NeedsKind, NeedsRow
  <2>6. ASSUME NEW i \in Ids, Call(r, "delete", u, None, None, i) PROVE BudgetInv'
    BY <1>1, <1>2, <2>6 DEF NeedsMonth, NeedsKind, NeedsRow
  <2> QED
    BY <2>1, <2>2, <2>3, <2>4, <2>5, <2>6
<1>4. CASE ExpenseCall(r)
  <2>1. PICK u \in Users :
          \/ \E m \in Months, k \in Kinds : Call(r, "expense", u, m, k, 0)
          \/ \E i \in {j \in Ids : Stored(expenses[j])} :
               \/ \E m \in Months \cup {None}, k \in Kinds \cup {None} :
                    Call(r, "change", u, m, k, i)
               \/ Call(r, "drop", u, None, None, i)
    BY <1>4 DEF ExpenseCall
  <2>2. ASSUME NEW m \in Months, NEW k \in Kinds, Call(r, "expense", u, m, k, 0) PROVE BudgetInv'
    BY <1>1, <1>2, <2>2 DEF NeedsMonth, NeedsKind, NeedsRow
  <2>3. ASSUME NEW i \in Ids, NEW m \in Months \cup {None}, NEW k \in Kinds \cup {None},
               Call(r, "change", u, m, k, i)
        PROVE  BudgetInv'
    BY <1>1, <1>2, <2>3 DEF NeedsMonth, NeedsKind, NeedsRow
  <2>4. ASSUME NEW i \in Ids, Call(r, "drop", u, None, None, i) PROVE BudgetInv'
    BY <1>1, <1>2, <2>4 DEF NeedsMonth, NeedsKind, NeedsRow
  <2> QED
    BY <2>1, <2>2, <2>3, <2>4
<1> QED
  BY <1>3, <1>4

LEMMA LookForBudgetKeeps ==
  ASSUME BudgetInv, NEW r \in Requests, LookForBudget(r)
  PROVE  BudgetInv'
<1>1. CASE \E i \in DOMAIN budgets : OfMonth(budgets[i], r)
  BY <1>1, OneEnds DEF LookForBudget
<1>2. CASE ~ \E i \in DOMAIN budgets : OfMonth(budgets[i], r)
  <2> DEFINE q == [req[r] EXCEPT !.at = "saveBudget", !.seen = Len(budgets)]
  <2>1. Len(budgets) \in 0..MaxBudgets
    BY Handlers, Bounds DEF BudgetInv, TypeOK
  <2>2. /\ q \in Request
        /\ q.at = "saveBudget" /\ q.seen = Len(budgets)
        /\ q.user = req[r].user /\ q.month = req[r].month /\ q.activated = req[r].activated
    BY <2>1, Handlers DEF Request
  <2>3. req' = [req EXCEPT ![r] = q] /\ UNCHANGED <<tables, calls, loose, view>>
    BY <1>2 DEF LookForBudget
  <2>4. Fits(q, budgets, categories, loose')
    <3>1. req[r].user \in Users /\ req[r].month \in Months /\ ~req[r].activated
      BY Handlers DEF LookForBudget, Fits, NeedsMonth
    <3> QED
      BY <3>1, <2>2, <1>2 DEF Fits, NeedsMonth, NeedsKind, NeedsRow, NeedsBudget, OfMonth
  <2>5. \A b \in Nat : ~Pending(q, b)
    BY <2>2 DEF Pending
  <2> HIDE DEF q
  <2> QED
    BY <2>2, <2>3, <2>4, <2>5, Handlers, OneMoves
<1> QED
  BY <1>1, <1>2

LEMMA ReadForCategoryKeeps ==
  ASSUME BudgetInv, NEW r \in Requests, ReadForCategory(r)
  PROVE  BudgetInv'
<1> DEFINE Chosen == /\ req[r].id \in DOMAIN budgets
                     /\ TakesCategories(req[r].id)
                     /\ req[r].kind \notin KindsOf(req[r].id)
<1>1. CASE ~Chosen
  BY <1>1, OneEnds DEF ReadForCategory
<1>2. CASE Chosen
  <2>1. /\ Goto(r, "saveCategory") /\ UNCHANGED <<tables, calls, view>>
        /\ loose' = IF \E q \in Requests : Adding(r, q) THEN loose \cup {req[r].id} ELSE loose
    BY <1>2 DEF ReadForCategory
  <2>2. loose \subseteq loose' /\ loose' \subseteq DOMAIN budgets
    BY <1>2, <2>1, Handlers
  <2>3. \A s \in Requests \ {r} : Pending(req[s], req[r].id) => req[r].id \in loose'
    BY <2>1 DEF Pending, Adding
  <2> DEFINE q == [req[r] EXCEPT !.at = "saveCategory"]
  <2>4. /\ q \in Request /\ q.at = "saveCategory" /\ q.id = req[r].id
        /\ q.kind = req[r].kind /\ q.activated = req[r].activated
    BY Handlers DEF Request
  <2>5. Apart(q, categories)
    BY <1>2, <2>4 DEF Apart, KindsOf, CategoriesOf
  <2>6. req[r].kind \in Kinds /\ ~req[r].activated
    BY Handlers DEF ReadForCategory, Fits, NeedsKind
  <2>7. Fits(q, budgets, categories, loose')
    BY <1>2, <2>4, <2>5, <2>6
       DEF Fits, NeedsMonth, NeedsKind, NeedsRow, NeedsBudget, TakesCategories
  <2> QED
    BY <2>1, <2>2, <2>3, <2>4, <2>7, OneGoesOn
<1> QED
  BY <1>1, <1>2

LEMMA ReadCategoryKeeps ==
  ASSUME BudgetInv, NEW r \in Requests, ReadCategory(r)
  PROVE  BudgetInv'
<1> DEFINE row == categories[req[r].id]
<1>1. CASE ~(Stored(row) /\ budgets[row.budget].user = req[r].user)
  BY <1>1, OneEnds DEF ReadCategory
<1>2. CASE Stored(row) /\ budgets[row.budget].user = req[r].user
  <2>1. req[r].id \in Ids /\ ~req[r].activated
    BY Handlers DEF ReadCategory, Fits, NeedsRow
  <2>2. row \in Category /\ row.budget \in DOMAIN budgets /\ budgets[row.budget].status # "draft"
    BY <1>2, <2>1, Typed DEF BudgetInv, TypeOK, DraftsEmpty
  <2> DEFINE new == Updated(row, req[r].kind)
             q == [req[r] EXCEPT !.at = "saveUpdate", !.found = new]
  <2>3. req[r].kind \in Kinds \cup {None}
    BY Handlers DEF Request
  <2>4. new \in Category /\ new.budget = row.budget
    BY <2>2, <2>3, UpdatedCategory
  <2>5. req' = [req EXCEPT ![r] = q] /\ UNCHANGED <<tables, calls, loose, view>>
    BY <1>2 DEF ReadCategory
  <2> HIDE DEF new, row
  <2>6. /\ q \in Request /\ q.at = "saveUpdate" /\ q.found = new
        /\ q.id = req[r].id /\ q.activated = req[r].activated
    BY <2>4, Handlers DEF Request
  <2>7. Fits(q, budgets, categories, loose')
    BY <2>1, <2>2, <2>4, <2>6 DEF Fits, NeedsMonth, NeedsKind, NeedsRow, NeedsBudget
  <2>8. \A b \in Nat : ~Pending(q, b)
    BY <2>6 DEF Pending
  <2> HIDE DEF q
  <2> QED
    BY <2>5, <2>6, <2>7, <2>8, Handlers, OneMoves
<1> QED
  BY <1>1, <1>2

LEMMA ReadExpenseKeeps ==
  ASSUME BudgetInv, NEW r \in Requests, ReadExpense(r)
  PROVE  BudgetInv'
<1> DEFINE row == expenses[req[r].id]
<1>1. CASE ~OwnExpense(r)
  BY <1>1, OneEnds DEF ReadExpense
<1>2. CASE OwnExpense(r)
  <2>1. req[r].id \in Ids /\ ~req[r].activated
    BY Handlers DEF ReadExpense, Fits, NeedsRow
  <2>2. row \in Expense /\ ~row.activated
    BY <1>2, <2>1, Typed DEF BudgetInv, ActivationRecordsNoExpense, OwnExpense
  <2> DEFINE new == Redated(Updated(row, req[r].kind), req[r].month)
             q == [req[r] EXCEPT !.at = "saveChange", !.found = new]
  <2>3. req[r].kind \in Kinds \cup {None} /\ req[r].month \in Months \cup {None}
    BY Handlers DEF Request
  <2>4. new \in Expense /\ ~new.activated
    BY <2>2, <2>3, UpdatedExpense
  <2>5. req' = [req EXCEPT ![r] = q] /\ UNCHANGED <<tables, calls, loose, view>>
    BY <1>2 DEF ReadExpense
  <2> HIDE DEF new, row
  <2>6. /\ q \in Request /\ q.at = "saveChange" /\ q.found = new
        /\ q.id = req[r].id /\ q.activated = req[r].activated
    BY <2>4, Handlers DEF Request
  <2>7. Fits(q, budgets, categories, loose')
    BY <2>1, <2>4, <2>6 DEF Fits, NeedsMonth, NeedsKind, NeedsRow, NeedsBudget
  <2>8. \A b \in Nat : ~Pending(q, b)
    BY <2>6 DEF Pending
  <2> HIDE DEF q
  <2> QED
    BY <2>5, <2>6, <2>7, <2>8, Handlers, OneMoves
<1> QED
  BY <1>1, <1>2

\* The steps that only read and then go on, or end.
LEMMA ReadsKeep ==
  ASSUME BudgetInv, NEW r \in Requests,
         ReadToDelete(r) \/ ReadToActivate(r) \/ FindActive(r) \/ ReadToDrop(r)
  PROVE  BudgetInv'
<1>1. CASE Done(r) /\ UNCHANGED <<tables, calls, loose, view>>
  BY <1>1, OneEnds
<1>2. ASSUME NEW at \in {"removeCategory", "saveActive", "saveExpense", "findDraft", "removeExpense"},
             Goto(r, at), UNCHANGED <<tables, calls, loose, view>>,
             at \in NeedsMonth => req[r].user \in Users /\ req[r].month \in Months,
             at \in NeedsKind => req[r].kind \in Kinds,
             at \in NeedsRow => req[r].id \in Ids,
             at \in NeedsBudget => req[r].id \in DOMAIN budgets
      PROVE  BudgetInv'
  <2> DEFINE q == [req[r] EXCEPT !.at = at]
  <2>1. /\ q \in Request /\ q.at = at /\ q.id = req[r].id /\ q.kind = req[r].kind
        /\ q.user = req[r].user /\ q.month = req[r].month /\ q.activated = req[r].activated
    BY Handlers DEF Request
  <2>2. ~req[r].activated
    BY Handlers DEF Fits
  <2>3. Fits(q, budgets, categories, loose)
    BY <1>2, <2>1, <2>2 DEF Fits
  <2> QED
    BY <1>2, <2>1, <2>3, Handlers, OneGoesOn
<1>3. CASE ReadToDelete(r)
  <2>1. req[r].id \in Ids
    BY <1>3, Handlers DEF ReadToDelete, Fits, NeedsRow
  <2>2. CASE Goto(r, "removeCategory") /\ UNCHANGED <<tables, calls, loose, view>>
    BY <2>1, <2>2, <1>2 DEF NeedsMonth, NeedsKind, NeedsRow, NeedsBudget
  <2> QED
    BY <1>3, <1>1, <2>2 DEF ReadToDelete
<1>4. CASE ReadToActivate(r)
  <2>2. CASE Goto(r, "saveActive") /\ UNCHANGED <<tables, calls, loose, view>> /\ req[r].id \in DOMAIN budgets
    BY <2>2, <1>2 DEF NeedsMonth, NeedsKind, NeedsRow, NeedsBudget
  <2> QED
    BY <1>4, <1>1, <2>2 DEF ReadToActivate
<1>5. CASE FindActive(r)
  <2>1. req[r].user \in Users /\ req[r].kind \in Kinds /\ req[r].month \in Months
    BY <1>5, Handlers DEF FindActive, Fits, NeedsKind, NeedsMonth
  <2>2. CASE Goto(r, "saveExpense") /\ UNCHANGED <<tables, calls, loose, view>>
    BY <2>1, <2>2, <1>2 DEF NeedsMonth, NeedsKind, NeedsRow, NeedsBudget
  <2>3. CASE Goto(r, "findDraft") /\ UNCHANGED <<tables, calls, loose, view>>
    BY <2>1, <2>3, <1>2 DEF NeedsMonth, NeedsKind, NeedsRow, NeedsBudget
  <2> QED
    BY <1>5, <1>1, <2>2, <2>3 DEF FindActive
<1>6. CASE ReadToDrop(r)
  <2>1. req[r].id \in Ids
    BY <1>6, Handlers DEF ReadToDrop, Fits, NeedsRow
  <2>2. CASE Goto(r, "removeExpense") /\ UNCHANGED <<tables, calls, loose, view>>
    BY <2>1, <2>2, <1>2 DEF NeedsMonth, NeedsKind, NeedsRow, NeedsBudget
  <2> QED
    BY <1>6, <1>1, <2>2 DEF ReadToDrop
<1> QED
  BY <1>3, <1>4, <1>5, <1>6

\* A draft has no categories: the expense that activates it finds none.
LEMMA FindDraftKeeps ==
  ASSUME BudgetInv, NEW r \in Requests, FindDraft(r)
  PROVE  BudgetInv'
<1>1. CASE Done(r) /\ UNCHANGED <<tables, calls, loose, view>>
  BY <1>1, OneEnds
<1>2. ASSUME NEW b \in OfStatus(r, "draft"), UNCHANGED <<tables, calls, loose, view>>,
             req' = [req EXCEPT ![r].at = "saveDraft", ![r].id = b,
                                ![r].found = IF req[r].kind \in KindsOf(b)
                                             THEN [state |-> "row", budget |-> b, kind |-> req[r].kind]
                                             ELSE NoRow]
      PROVE  BudgetInv'
  <2>1. b \in DOMAIN budgets /\ budgets[b].status = "draft"
    BY DEF OfStatus
  <2>2. KindsOf(b) = {}
    BY <2>1 DEF BudgetInv, DraftsEmpty, KindsOf, CategoriesOf
  <2> DEFINE q == [req[r] EXCEPT !.at = "saveDraft", !.id = b, !.found = NoRow]
  <2>3. req' = [req EXCEPT ![r] = q]
    BY <1>2, <2>2
  <2>4. b \in Nat
    BY <2>1, Handlers
  <2>5. /\ q \in Request /\ q.at = "saveDraft" /\ q.id = b /\ q.found = NoRow
        /\ q.user = req[r].user /\ q.month = req[r].month /\ q.kind = req[r].kind
        /\ q.activated = req[r].activated
    BY <2>4, Handlers DEF Request
  <2>6. req[r].user \in Users /\ req[r].kind \in Kinds /\ req[r].month \in Months /\ ~req[r].activated
    BY Handlers DEF FindDraft, Fits, NeedsKind, NeedsMonth
  <2>7. Fits(q, budgets, categories, loose')
    BY <2>1, <2>5, <2>6 DEF Fits, NeedsMonth, NeedsKind, NeedsRow, NeedsBudget
  <2>8. \A c \in Nat : ~Pending(q, c)
    BY <2>5 DEF Pending
  <2> HIDE DEF q
  <2> QED
    BY <1>2, <2>3, <2>5, <2>7, <2>8, Handlers, OneMoves
<1> QED
  BY <1>1, <1>2 DEF FindDraft

-----------------------------------------------------------------------------
(* Steps that save.                                                        *)

LEMMA SaveBudgetKeeps ==
  ASSUME BudgetInv, NEW r \in Requests, SaveBudget(r)
  PROVE  BudgetInv'
<1> DEFINE new == [user |-> req[r].user, month |-> req[r].month, status |-> "draft",
                   seen |-> req[r].seen]
           n == Len(budgets)
<1>1. /\ req[r].user \in Users /\ req[r].month \in Months
      /\ req[r].seen <= n
      /\ \A i \in DOMAIN budgets : budgets[i].user = req[r].user /\ budgets[i].month = req[r].month
                                   => req[r].seen < i
  BY Handlers DEF SaveBudget, Fits, NeedsMonth
<1>2. /\ new \in Budget /\ new.user = req[r].user /\ new.month = req[r].month
      /\ new.seen = req[r].seen
  BY <1>1, Handlers DEF Request, Budget
<1>3. budgets' = Append(budgets, new) /\ n < MaxBudgets /\ n \in Nat
  BY Handlers DEF SaveBudget
<1> HIDE DEF new
<1>4. /\ budgets' \in Seq(Budget) /\ Len(budgets') = n + 1
      /\ DOMAIN budgets' = 1..(n + 1) /\ DOMAIN budgets = 1..n
      /\ budgets'[n + 1] = new /\ \A i \in 1..n : budgets'[i] = budgets[i]
  BY <1>2, <1>3, Handlers
<1>5. UNCHANGED <<categories, expenses, calls, loose, view>> /\ Done(r)
  BY DEF SaveBudget
<1>6. BudgetsApart'
  <2> SUFFICES ASSUME NEW i \in 1..(n + 1), NEW j \in 1..(n + 1), i < j,
                      budgets'[i].user = budgets'[j].user, budgets'[i].month = budgets'[j].month
               PROVE  budgets'[j].seen < i
    BY <1>4 DEF BudgetsApart
  <2>1. CASE j \in 1..n
    BY <2>1, <1>3, <1>4 DEF BudgetInv, BudgetsApart
  <2>2. CASE j = n + 1
    BY <2>2, <1>1, <1>2, <1>3, <1>4
  <2> QED
    BY <2>1, <2>2, <1>3
<1>7. \A i \in Ids : Stored(categories[i]) => categories[i].budget \in 1..n
  BY <1>4 DEF BudgetInv, TypeOK
<1>8. DraftsEmpty' /\ CategoriesApart' /\ ActivationRecordsNoExpense'
  BY <1>4, <1>5, <1>7
     DEF BudgetInv, DraftsEmpty, CategoriesApart, ActivationRecordsNoExpense
<1>9. ASSUME NEW s \in Requests \ {r} PROVE Fits(req[s], budgets', categories', loose')
  <2>1. Fits(req[s], budgets, categories, loose) /\ req[s] \in Request /\ budgets \in Seq(Budget)
    BY Handlers
  <2>2. /\ Len(budgets) <= Len(budgets')
        /\ \A i \in 1..Len(budgets) :
             /\ budgets'[i].user = budgets[i].user /\ budgets'[i].month = budgets[i].month
             /\ budgets'[i].status = "draft" => budgets[i].status = "draft"
    BY <1>3, <1>4
  <2>3. Fits(req[s], budgets', categories, loose)
    BY <2>1, <2>2, <1>4, BudgetsGrow
  <2> QED
    BY <2>3, <1>5
<1>10. loose' \subseteq DOMAIN budgets' /\ 1..n \subseteq 1..(n + 1)
  BY <1>3, <1>4, <1>5, Handlers
<1>11. Len(budgets') <= MaxBudgets
  BY <1>3, <1>4, Bounds
<1>12. \A i \in Ids : Stored(categories'[i]) => categories'[i].budget \in DOMAIN budgets'
  BY <1>4, <1>5, <1>7, <1>10
<1>13. /\ categories' \in [Ids -> {NoRow, Gone} \cup Category]
       /\ expenses' \in [Ids -> {NoRow, Gone} \cup Expense]
       /\ loose \subseteq loose' /\ UNCHANGED calls /\ budgets' \in Seq(Budget)
  BY <1>4, <1>5, Handlers
<1> QED
  BY <1>5, <1>6, <1>8, <1>9, <1>10, <1>11, <1>12, <1>13, ViewsStay, OneSaves

LEMMA SaveCategoryKeeps ==
  ASSUME BudgetInv, NEW r \in Requests, SaveCategory(r)
  PROVE  BudgetInv'
<1> DEFINE new == [state |-> "row", budget |-> req[r].id, kind |-> req[r].kind]
<1>1. /\ req[r].kind \in Kinds /\ req[r].id \in DOMAIN budgets
      /\ budgets[req[r].id].status # "draft"
      /\ req[r].id \in loose \/ Apart(req[r], categories)
  BY Handlers DEF SaveCategory, Fits, NeedsKind, NeedsBudget
<1>2. PICK i \in Free(categories) : categories' = [categories EXCEPT ![i] = new]
  BY DEF SaveCategory
<1>3. UNCHANGED <<budgets, expenses, calls, loose, view>> /\ Done(r)
  BY DEF SaveCategory
<1>4. new \in Category /\ new.budget = req[r].id /\ new.kind = req[r].kind
  <2>1. req[r].id \in 1..MaxBudgets
    <3>1. Len(budgets) <= MaxBudgets /\ DOMAIN budgets = 1..Len(budgets) /\ Len(budgets) \in Nat
      BY Handlers DEF BudgetInv, TypeOK
    <3> QED
      BY <1>1, <3>1, Bounds
  <2> QED
    BY <1>1, <2>1 DEF Category
<1> HIDE DEF new
<1>5. i \in Ids /\ categories[i] = NoRow /\ Stored(new)
  BY <1>4, RowsDiffer DEF Free
<1>6. \A j \in Ids : categories'[j] = IF j = i THEN new ELSE categories[j]
  BY <1>2, Handlers
<1>7. /\ categories' \in [Ids -> {NoRow, Gone} \cup Category]
      /\ \A j \in Ids : Stored(categories'[j]) => categories'[j].budget \in DOMAIN budgets'
  BY <1>1, <1>2, <1>3, <1>4, <1>6, Handlers DEF BudgetInv, TypeOK
<1>8. DraftsEmpty' /\ BudgetsApart' /\ ActivationRecordsNoExpense'
  BY <1>1, <1>3, <1>4, <1>6
     DEF BudgetInv, DraftsEmpty, BudgetsApart, ActivationRecordsNoExpense
<1>9. CategoriesApart'
  <2> SUFFICES ASSUME NEW j \in Ids, NEW k \in Ids, j # k,
                      Stored(categories'[j]), Stored(categories'[k]),
                      categories'[j].budget = categories'[k].budget,
                      categories'[j].kind = categories'[k].kind
               PROVE  categories'[j].budget \in loose
    BY <1>3 DEF CategoriesApart
  <2>1. CASE j # i /\ k # i
    BY <2>1, <1>6 DEF BudgetInv, CategoriesApart
  <2>2. CASE j = i
    BY <2>2, <1>1, <1>4, <1>6 DEF Apart
  <2>3. CASE k = i
    BY <2>3, <1>1, <1>4, <1>6 DEF Apart
  <2> QED
    BY <2>1, <2>2, <2>3
<1>10. ASSUME NEW s \in Requests \ {r} PROVE Fits(req[s], budgets', categories', loose')
  <2>1. Fits(req[s], budgets, categories, loose)
    BY Handlers
  <2>2. req[s].at = "saveCategory" => req[s].id \in loose \/ Apart(req[s], categories')
    <3> SUFFICES ASSUME req[s].at = "saveCategory", req[s].id \notin loose
                 PROVE  Apart(req[s], categories')
      OBVIOUS
    <3>1. Apart(req[s], categories)
      BY <2>1 DEF Fits
    <3>2. req[s].id # req[r].id
      BY Handlers DEF BudgetInv, AddsApart, Pending, SaveCategory, Request
    <3> QED
      BY <3>1, <3>2, <1>4, <1>6 DEF Apart
  <2> QED
    BY <2>1, <2>2, <1>3 DEF Fits
<1>11. Len(budgets') <= MaxBudgets
  BY <1>3 DEF BudgetInv, TypeOK
<1> QED
  BY <1>3, <1>7, <1>8, <1>9, <1>10, <1>11, Handlers, ViewsStay, OneSaves

LEMMA SaveUpdateKeeps ==
  ASSUME BudgetInv, NEW r \in Requests, SaveUpdate(r)
  PROVE  BudgetInv'
<1> DEFINE new == req[r].found
           i == req[r].id
<1>1. /\ i \in Ids /\ new \in Category /\ new.budget \in DOMAIN budgets
      /\ budgets[new.budget].status # "draft"
  BY Handlers DEF SaveUpdate, Fits, NeedsRow
<1>2. /\ categories' = [categories EXCEPT ![i] = new]
      /\ loose' = loose \cup {new.budget}
      /\ UNCHANGED <<budgets, expenses, calls, view>> /\ Done(r)
  BY DEF SaveUpdate
<1> HIDE DEF new, i
<1>3. \A j \in Ids : categories'[j] = IF j = i THEN new ELSE categories[j]
  BY <1>2, Handlers
<1>4. /\ categories' \in [Ids -> {NoRow, Gone} \cup Category]
      /\ \A j \in Ids : Stored(categories'[j]) => categories'[j].budget \in DOMAIN budgets'
  BY <1>1, <1>2, <1>3, Handlers DEF BudgetInv, TypeOK
<1>5. DraftsEmpty' /\ BudgetsApart' /\ ActivationRecordsNoExpense'
  BY <1>1, <1>2, <1>3
     DEF BudgetInv, DraftsEmpty, BudgetsApart, ActivationRecordsNoExpense
<1>6. CategoriesApart'
  BY <1>2, <1>3 DEF BudgetInv, CategoriesApart
<1>7. ASSUME NEW s \in Requests \ {r} PROVE Fits(req[s], budgets', categories', loose')
  <2>1. Fits(req[s], budgets, categories, loose)
    BY Handlers
  <2>2. req[s].at = "saveCategory" => req[s].id \in loose' \/ Apart(req[s], categories')
    BY <2>1, <1>2, <1>3 DEF Fits, Apart
  <2> QED
    BY <2>1, <2>2, <1>2 DEF Fits
<1>8. loose \subseteq loose' /\ loose' \subseteq DOMAIN budgets' /\ Len(budgets') <= MaxBudgets
  BY <1>1, <1>2, Handlers DEF BudgetInv, TypeOK
<1> QED
  BY <1>2, <1>4, <1>5, <1>6, <1>7, <1>8, Handlers, ViewsStay, OneSaves

LEMMA RemoveCategoryKeeps ==
  ASSUME BudgetInv, NEW r \in Requests, RemoveCategory(r)
  PROVE  BudgetInv'
<1> DEFINE i == req[r].id
<1>1. /\ categories' = [categories EXCEPT ![i] = Gone]
      /\ UNCHANGED <<budgets, expenses, calls, loose, view>> /\ Done(r)
  BY DEF RemoveCategory
<1>2. \A j \in Ids : categories'[j] = IF j = i THEN Gone ELSE categories[j]
  BY <1>1, Handlers
<1>3. /\ categories' \in [Ids -> {NoRow, Gone} \cup Category]
      /\ \A j \in Ids : Stored(categories'[j]) => categories'[j].budget \in DOMAIN budgets'
  BY <1>1, <1>2, Handlers, RowsDiffer DEF BudgetInv, TypeOK
<1>4. DraftsEmpty' /\ BudgetsApart' /\ CategoriesApart' /\ ActivationRecordsNoExpense'
  BY <1>1, <1>2, RowsDiffer
     DEF BudgetInv, DraftsEmpty, BudgetsApart, CategoriesApart, ActivationRecordsNoExpense
<1>5. ASSUME NEW s \in Requests \ {r} PROVE Fits(req[s], budgets', categories', loose')
  <2>1. Fits(req[s], budgets, categories, loose)
    BY Handlers
  <2>2. Apart(req[s], categories) => Apart(req[s], categories')
    BY <1>2, RowsDiffer DEF Apart
  <2> QED
    BY <2>1, <2>2, <1>1 DEF Fits
<1>6. loose' \subseteq DOMAIN budgets' /\ Len(budgets') <= MaxBudgets
  BY <1>1, Handlers DEF BudgetInv, TypeOK
<1> QED
  BY <1>1, <1>3, <1>4, <1>5, <1>6, Handlers, ViewsStay, OneSaves

\* A budget's status becomes active.
LEMMA Activates ==
  ASSUME BudgetInv, NEW r \in Requests, NEW b \in DOMAIN budgets, Done(r),
         budgets' = [budgets EXCEPT ![b].status = "active"],
         UNCHANGED <<categories, expenses, calls, loose, view>>
  PROVE  BudgetInv'
<1> DEFINE new == [budgets[b] EXCEPT !.status = "active"]
<1>1. /\ budgets \in Seq(Budget) /\ Len(budgets) <= MaxBudgets
      /\ DOMAIN budgets = 1..Len(budgets) /\ Len(budgets) \in Nat
  BY Handlers DEF BudgetInv, TypeOK
<1>2. budgets[b] \in Budget
  BY <1>1
<1>3. /\ new \in Budget /\ new.status = "active" /\ new.user = budgets[b].user
      /\ new.month = budgets[b].month /\ new.seen = budgets[b].seen
  BY <1>2 DEF Budget
<1>4. budgets' = [budgets EXCEPT ![b] = new]
  OBVIOUS
<1> HIDE DEF new
<1>5. /\ budgets' \in Seq(Budget) /\ Len(budgets') = Len(budgets)
      /\ DOMAIN budgets' = DOMAIN budgets
      /\ \A i \in DOMAIN budgets : budgets'[i] = IF i = b THEN new ELSE budgets[i]
  BY <1>1, <1>3, <1>4
<1>6. /\ BudgetsApart' /\ CategoriesApart' /\ ActivationRecordsNoExpense'
  <2>1. \A i \in DOMAIN budgets : /\ budgets'[i].user = budgets[i].user
                                  /\ budgets'[i].month = budgets[i].month
                                  /\ budgets'[i].seen = budgets[i].seen
    BY <1>3, <1>5
  <2> QED
    BY <2>1, <1>5 DEF BudgetInv, BudgetsApart, CategoriesApart, ActivationRecordsNoExpense
<1>7. DraftsEmpty'
  <2>1. \A i \in DOMAIN budgets : budgets'[i].status = "draft" => budgets[i].status = "draft"
    BY <1>3, <1>5
  <2>2. \A i \in Ids : Stored(categories[i]) => categories[i].budget \in DOMAIN budgets
    BY DEF BudgetInv, TypeOK
  <2> QED
    BY <2>1, <2>2 DEF BudgetInv, DraftsEmpty
<1>8. ASSUME NEW s \in Requests \ {r} PROVE Fits(req[s], budgets', categories', loose')
  <2>1. Fits(req[s], budgets, categories, loose) /\ req[s] \in Request
    BY Handlers
  <2>2. /\ Len(budgets) <= Len(budgets')
        /\ \A i \in 1..Len(budgets) :
             /\ budgets'[i].user = budgets[i].user /\ budgets'[i].month = budgets[i].month
             /\ budgets'[i].status = "draft" => budgets[i].status = "draft"
    BY <1>1, <1>3, <1>5
  <2>3. Fits(req[s], budgets', categories, loose)
    BY <2>1, <2>2, <1>1, <1>5, BudgetsGrow
  <2> QED
    BY <2>3
<1>9. /\ loose' \subseteq DOMAIN budgets' /\ loose \subseteq loose' /\ Len(budgets') <= MaxBudgets
      /\ \A i \in Ids : Stored(categories'[i]) => categories'[i].budget \in DOMAIN budgets'
      /\ categories' \in [Ids -> {NoRow, Gone} \cup Category] /\ expenses' \in [Ids -> {NoRow, Gone} \cup Expense]
  BY <1>1, <1>5 DEF BudgetInv, TypeOK
<1> QED
  BY <1>5, <1>6, <1>7, <1>8, <1>9, ViewsStay, OneSaves

LEMMA ActivationsKeep ==
  ASSUME BudgetInv, NEW r \in Requests, SaveActive(r) \/ SaveDraft(r)
  PROVE  BudgetInv'
<1>1. CASE SaveActive(r)
  <2>1. req[r].id \in DOMAIN budgets
    BY <1>1, Handlers DEF SaveActive, Fits, NeedsBudget
  <2> QED
    BY <1>1, <2>1, Activates DEF SaveActive
<1>2. CASE SaveDraft(r)
  <2>1. req[r].id \in DOMAIN budgets /\ req[r].found = NoRow
    BY <1>2, Handlers DEF SaveDraft, Fits, NeedsBudget
  <2>2. Done(r) /\ budgets' = [budgets EXCEPT ![req[r].id].status = "active"]
        /\ UNCHANGED <<categories, expenses, calls, loose, view>>
    BY <1>2, <2>1 DEF SaveDraft
  <2> QED
    BY <2>1, <2>2, Activates
<1> QED
  BY <1>1, <1>2

\* An expense is saved or removed.
LEMMA ExpensesKeep ==
  ASSUME BudgetInv, NEW r \in Requests, SaveExpense(r) \/ SaveChange(r) \/ RemoveExpense(r)
  PROVE  BudgetInv'
<1>1. ASSUME NEW i \in Ids, NEW row \in {Gone} \cup Expense, row = Gone \/ ~row.activated,
             expenses' = [expenses EXCEPT ![i] = row], Done(r),
             UNCHANGED <<budgets, categories, calls, loose>>,
             view' \in [Viewers -> {NoView} \cup View], ViewsFit'
      PROVE  BudgetInv'
  <2>1. \A j \in Ids : expenses'[j] = IF j = i THEN row ELSE expenses[j]
    BY <1>1, Handlers
  <2>2. expenses' \in [Ids -> {NoRow, Gone} \cup Expense] /\ ActivationRecordsNoExpense'
    BY <1>1, <2>1, Handlers, RowsDiffer DEF BudgetInv, ActivationRecordsNoExpense
  <2>3. BudgetsApart' /\ DraftsEmpty' /\ CategoriesApart'
    BY <1>1 DEF BudgetInv, BudgetsApart, DraftsEmpty, CategoriesApart
  <2>4. \A s \in Requests \ {r} : Fits(req[s], budgets', categories', loose')
    BY <1>1, Handlers
  <2>5. /\ Len(budgets') <= MaxBudgets /\ loose' \subseteq DOMAIN budgets' /\ loose \subseteq loose'
        /\ \A j \in Ids : Stored(categories'[j]) => categories'[j].budget \in DOMAIN budgets'
        /\ budgets' \in Seq(Budget) /\ categories' \in [Ids -> {NoRow, Gone} \cup Category]
    BY <1>1 DEF BudgetInv, TypeOK
  <2> QED
    BY <1>1, <2>2, <2>3, <2>4, <2>5, OneSaves
<1>2. CASE SaveExpense(r)
  <2> DEFINE new == [state |-> "row", user |-> req[r].user, month |-> req[r].month,
                     kind |-> req[r].kind, activated |-> req[r].activated]
  <2>1. req[r].user \in Users /\ req[r].month \in Months /\ req[r].kind \in Kinds
    BY <1>2, Handlers DEF SaveExpense, Fits, NeedsKind, NeedsMonth
  <2>2. req[r].activated \in BOOLEAN /\ ~req[r].activated
    BY Handlers DEF Request, Fits
  <2>3. new \in Expense /\ ~new.activated
    BY <2>1, <2>2 DEF Expense
  <2>4. PICK i \in Free(expenses) : expenses' = [expenses EXCEPT ![i] = new]
    BY <1>2 DEF SaveExpense
  <2>5. Done(r) /\ UNCHANGED <<budgets, categories, calls, loose, view>> /\ i \in Ids
    BY <1>2 DEF SaveExpense, Free
  <2> HIDE DEF new
  <2>6. view' \in [Viewers -> {NoView} \cup View] /\ ViewsFit'
    <3>1. expenses[i] = NoRow /\ \A e \in Ids : e # i => expenses'[e] = expenses[e]
      BY <2>4, Handlers DEF Free
    <3>2. ASSUME NEW v \in Viewers, ViewFits(view[v], expenses) PROVE ViewFits(view[v], expenses')
      BY <3>1, <3>2, ShownAreIds DEF ViewFits
    <3> QED
      BY <3>2, <2>5, Handlers DEF BudgetInv, ViewsFit
  <2> QED
    BY <1>1, <2>3, <2>4, <2>5, <2>6
<1>3. CASE SaveChange(r)
  <2> DEFINE row == req[r].found
             e == req[r].id
  <2>1. e \in Ids /\ row \in Expense /\ ~row.activated
    BY <1>3, Handlers DEF SaveChange, Fits, NeedsRow
  <2>2. /\ expenses' = [expenses EXCEPT ![e] = row] /\ Done(r)
        /\ UNCHANGED <<budgets, categories, calls, loose>>
        /\ view' = [v \in Viewers |-> IF view[v] # NoView /\ Moves(r)
                                      THEN [view[v] EXCEPT !.moved = @ \cup {e}] ELSE view[v]]
    BY <1>3 DEF SaveChange
  <2>3. ~Moves(r) => Stored(expenses[e]) /\ expenses[e].kind = row.kind
    BY DEF Moves
  <2> HIDE DEF row, e
  <2>4. \A j \in Ids : expenses'[j] = IF j = e THEN row ELSE expenses[j]
    BY <2>1, <2>2, Handlers
  <2>5. row # NoRow
    BY <2>1, RowsDiffer
  <2>6. ASSUME NEW v \in Viewers
        PROVE  view'[v] \in {NoView} \cup View /\ ViewFits(view'[v], expenses')
    <3>1. ViewFits(view[v], expenses) /\ view[v] \in {NoView} \cup View
      BY Handlers DEF BudgetInv, ViewsFit
    <3>2. CASE view[v] = NoView
      BY <3>2, <2>2 DEF ViewFits
    <3>3. CASE view[v] # NoView /\ ~Moves(r)
      <4>1. view'[v] = view[v]
        BY <3>3, <2>2
      <4>2. \A i \in Ids : view[v].shown[i] \subseteq Ids
        BY <3>3, ShownAreIds
      <4> QED
        BY <4>1, <4>2, <3>1, <3>3, <2>3, <2>4, <2>5 DEF ViewFits
    <3>4. CASE view[v] # NoView /\ Moves(r)
      <4> DEFINE w == [view[v] EXCEPT !.moved = @ \cup {e}]
      <4>1. view'[v] = w
        BY <3>4, <2>2
      <4>2. view[v] \in View /\ \A i \in Ids : view[v].shown[i] \subseteq Ids
        BY <3>1, <3>4, ShownAreIds
      <4>3. /\ w \in View /\ w.op = view[v].op /\ w.loose = view[v].loose
            /\ w.kinds = view[v].kinds /\ w.shown = view[v].shown
            /\ w.moved = view[v].moved \cup {e}
        BY <4>2, <2>1 DEF View
      <4> HIDE DEF w
      <4>4. ViewFits(w, expenses')
        BY <4>2, <4>3, <3>1, <3>4, <2>4, <2>5 DEF ViewFits
      <4> QED
        BY <4>1, <4>3, <4>4
    <3> QED
      BY <3>2, <3>3, <3>4
  <2>7. view' \in [Viewers -> {NoView} \cup View] /\ ViewsFit'
    BY <2>2, <2>6 DEF ViewsFit
  <2> QED
    BY <1>1, <2>1, <2>2, <2>7
<1>4. CASE RemoveExpense(r)
  <2>1. req[r].id \in Ids
    BY <1>4, Handlers DEF RemoveExpense, Fits, NeedsRow
  <2>2. \A e \in Ids : expenses'[e] = expenses[e] \/ expenses'[e] = Gone
    BY <1>4, Handlers DEF RemoveExpense
  <2>3. ASSUME NEW v \in Viewers, ViewFits(view[v], expenses) PROVE ViewFits(view[v], expenses')
    BY <2>2, <2>3, ShownAreIds, RowsDiffer DEF ViewFits
  <2>4. view' \in [Viewers -> {NoView} \cup View] /\ ViewsFit'
    BY <1>4, <2>3, Handlers DEF BudgetInv, ViewsFit, RemoveExpense
  <2> QED
    BY <1>1, <1>4, <2>1, <2>4 DEF RemoveExpense
<1> QED
  BY <1>2, <1>3, <1>4

-----------------------------------------------------------------------------
(* The views.                                                              *)

LEMMA OneViewMoves ==
  ASSUME BudgetInv, NEW v \in Viewers, NEW w \in {NoView} \cup View,
         view' = [view EXCEPT ![v] = w], ViewFits(w, expenses),
         UNCHANGED <<tables, req, calls, loose>>
  PROVE  BudgetInv'
<1>1. \A x \in Viewers : view'[x] = IF x = v THEN w ELSE view[x]
  BY Typed
<1>2. ViewsFit'
  BY <1>1 DEF BudgetInv, ViewsFit, tables
<1>3. TypeOK'
  BY Typed DEF BudgetInv, TypeOK, tables
<1>4. BudgetsApart' /\ DraftsEmpty' /\ CategoriesApart' /\ ActivationRecordsNoExpense'
  BY DEF BudgetInv, BudgetsApart, DraftsEmpty, CategoriesApart, ActivationRecordsNoExpense, tables
<1>5. AddsApart' /\ HandlersFit'
  BY DEF BudgetInv, AddsApart, HandlersFit, tables
<1> QED
  BY <1>2, <1>3, <1>4, <1>5 DEF BudgetInv

\* The categories that are read with a budget differ, unless it is loose.
LEMMA OpenedFits ==
  ASSUME BudgetInv, NEW b \in DOMAIN budgets, NEW op \in {"details", "overview"}
  PROVE  Opened(op, b) \in View /\ ViewFits(Opened(op, b), expenses)
<1> DEFINE w == Opened(op, b)
           kinds == [i \in Ids |-> IF i \in CategoriesOf(b) THEN categories[i].kind ELSE None]
<1>1. budgets[b] \in Budget
  BY Typed
<1>2. \A i \in CategoriesOf(b) : categories[i] \in Category
  BY Typed DEF CategoriesOf
<1>3. kinds \in [Ids -> Kinds \cup {None}]
  BY <1>2 DEF Category
<1>4. /\ CategoriesOf(b) \in SUBSET Ids /\ {} \in SUBSET Ids
      /\ [i \in Ids |-> {}] \in [Ids -> SUBSET Ids]
      /\ (b \in loose) \in BOOLEAN
  BY DEF CategoriesOf
<1>5. /\ w.loose = (b \in loose) /\ w.kinds = kinds /\ w.op = op
      /\ w.shown = [i \in Ids |-> {}]
  BY DEF Opened
<1>6. budgets[b].user \in Users /\ budgets[b].month \in Months
  BY <1>1 DEF Budget
<1>7. w \in View
  <2> HIDE DEF kinds
  <2>1. w = [op |-> op, user |-> budgets[b].user, month |-> budgets[b].month, loose |-> b \in loose,
             kinds |-> kinds, todo |-> CategoriesOf(b), shown |-> [i \in Ids |-> {}], moved |-> {}]
    BY DEF Opened, kinds
  <2> HIDE DEF w
  <2> QED
    BY <2>1, <1>3, <1>4, <1>6 DEF View
<1> HIDE DEF w
<1>8. ASSUME NEW i \in Ids, NEW j \in Ids, i # j, b \notin loose, kinds[i] = kinds[j]
      PROVE  kinds[i] = None
  <2> SUFFICES ASSUME kinds[i] # None PROVE FALSE
    OBVIOUS
  <2>1. i \in CategoriesOf(b) /\ j \in CategoriesOf(b) /\ categories[i].kind = categories[j].kind
    BY <1>8
  <2> QED
    BY <2>1, <1>8 DEF BudgetInv, CategoriesApart, CategoriesOf
<1> HIDE DEF kinds
<1>9. \A i \in Ids : w.shown[i] = {}
  BY <1>5
<1> QED
  BY <1>5, <1>7, <1>8, <1>9 DEF ViewFits, w

\* What a query finds has the category it asks for.
LEMMA SpentIsOfKind ==
  ASSUME BudgetInv, NEW u, NEW m, NEW k, NEW e \in SpentOn(u, m, k)
  PROVE  e \in Ids /\ expenses[e] # NoRow /\ expenses[e].kind = k /\ k \in Kinds
<1>1. e \in Ids /\ Stored(expenses[e]) /\ expenses[e].kind = k
  BY DEF SpentOn
<1>2. expenses[e] \in Expense
  BY <1>1, Typed
<1> QED
  BY <1>1, <1>2, RowsDiffer DEF Expense, Stored

LEMMA SpentOnCategoryKeeps ==
  ASSUME BudgetInv, NEW v \in Viewers, SpentOnCategory(v)
  PROVE  BudgetInv'
<1> DEFINE old == view[v]
<1>1. PICK i \in old.todo :
        view' = [view EXCEPT ![v].todo = @ \ {i}, ![v].shown[i] = Spent(v, i)]
  BY DEF SpentOnCategory
<1> DEFINE w == [old EXCEPT !.todo = @ \ {i}, !.shown[i] = Spent(v, i)]
<1>2. old \in View /\ old.op = "details" /\ old # NoView /\ ViewFits(old, expenses)
  BY ShownAreIds DEF SpentOnCategory, BudgetInv, ViewsFit
<1>3. i \in Ids /\ old.shown \in [Ids -> SUBSET Ids]
  BY <1>2 DEF View
<1>4. Spent(v, i) = SpentOn(old.user, old.month, old.kinds[i]) /\ Spent(v, i) \in SUBSET Ids
  BY DEF Spent, SpentOn
<1> DEFINE now == [old.shown EXCEPT ![i] = Spent(v, i)]
<1>5. /\ w \in View /\ w.op = "details" /\ w.loose = old.loose /\ w.kinds = old.kinds
      /\ w.moved = old.moved /\ w.shown = now
  BY <1>2, <1>3, <1>4 DEF View
<1>6. \A j \in Ids : now[j] = IF j = i THEN Spent(v, i) ELSE old.shown[j]
  BY <1>3
<1>7. view' = [view EXCEPT ![v] = w]
  BY <1>1
<1> HIDE DEF w, now, old
<1>8. ASSUME NEW j \in Ids, NEW e \in now[j]
      PROVE  expenses[e] # NoRow /\ (Stored(expenses[e]) /\ e \notin w.moved => expenses[e].kind = w.kinds[j])
  <2>1. CASE j = i
    BY <2>1, <1>8, <1>4, <1>5, <1>6, SpentIsOfKind
  <2>2. CASE j # i
    BY <2>2, <1>8, <1>2, <1>5, <1>6 DEF ViewFits
  <2> QED
    BY <2>1, <2>2
<1>9. ASSUME ~w.loose, NEW j \in Ids, NEW k \in Ids, j # k,
             NEW e \in now[j], e \in now[k], e \notin w.moved
      PROVE  FALSE
  <2>1. CASE j # i /\ k # i
    BY <2>1, <1>9, <1>2, <1>5, <1>6 DEF ViewFits
  <2>2. CASE j = i \/ k = i
    <3>1. e \in Spent(v, i)
      BY <2>2, <1>6, <1>9
    <3>2. Stored(expenses[e]) /\ expenses[e].kind \in Kinds
      BY <3>1, <1>4, SpentIsOfKind DEF SpentOn
    <3>3. w.kinds[j] = w.kinds[k] /\ w.kinds[j] \in Kinds
      BY <3>2, <1>8, <1>9
    <3> QED
      BY <3>3, <1>9, <1>2, <1>5, Bounds DEF ViewFits
  <2> QED
    BY <2>1, <2>2
<1>10. \A j, k \in Ids : ~w.loose /\ j # k /\ w.kinds[j] = w.kinds[k] => w.kinds[j] = None
  BY <1>2, <1>5 DEF ViewFits
<1>11. ViewFits(w, expenses)
  BY <1>5, <1>8, <1>9, <1>10 DEF ViewFits
<1>12. UNCHANGED <<tables, req, calls, loose>>
  BY DEF SpentOnCategory
<1> QED
  BY <1>5, <1>7, <1>11, <1>12, OneViewMoves

LEMMA SpentOnAllKeeps ==
  ASSUME BudgetInv, NEW v \in Viewers, SpentOnAll(v)
  PROVE  BudgetInv'
<1> DEFINE old == view[v]
           now == [i \in Ids |-> IF i \in old.todo THEN Spent(v, i) ELSE {}]
           w == [old EXCEPT !.todo = {}, !.shown = now]
<1>1. view' = [view EXCEPT ![v] = w] /\ UNCHANGED <<tables, req, calls, loose>>
  BY DEF SpentOnAll
<1>2. old \in View /\ old.op = "overview" /\ old # NoView /\ ViewFits(old, expenses)
  BY ShownAreIds DEF SpentOnAll, BudgetInv, ViewsFit
<1>3. \A i \in Ids : Spent(v, i) = SpentOn(old.user, old.month, old.kinds[i])
                     /\ Spent(v, i) \in SUBSET Ids
  BY DEF Spent, SpentOn
<1>4. /\ now \in [Ids -> SUBSET Ids]
      /\ \A i \in Ids : now[i] \subseteq SpentOn(old.user, old.month, old.kinds[i])
  BY <1>3
<1> HIDE DEF now, old
<1>5. /\ w \in View /\ w.op = "overview" /\ w.loose = old.loose /\ w.kinds = old.kinds
      /\ w.moved = old.moved /\ w.shown = now
  BY <1>2, <1>4 DEF View
<1> HIDE DEF w
<1>6. \A j, k \in Ids : ~w.loose /\ j # k /\ w.kinds[j] = w.kinds[k] => w.kinds[j] = None
  BY <1>2, <1>5 DEF ViewFits
<1>7. ASSUME ~w.loose, NEW j \in Ids, NEW k \in Ids, j # k, NEW e \in now[j], e \in now[k]
      PROVE  FALSE
  <2>1. /\ expenses[e].kind = w.kinds[j] /\ expenses[e].kind = w.kinds[k]
        /\ expenses[e].kind \in Kinds
    BY <1>4, <1>5, <1>7, SpentIsOfKind
  <2> QED
    BY <2>1, <1>6, <1>7, Bounds
<1>8. ViewFits(w, expenses)
  BY <1>5, <1>6, <1>7 DEF ViewFits
<1> QED
  BY <1>1, <1>5, <1>8, OneViewMoves

LEMMA ShowKeeps ==
  ASSUME BudgetInv, NEW v \in Viewers, Show(v)
  PROVE  BudgetInv'
<1>1. CASE ReadDetails(v)
  BY <1>1, OpenedFits, OneViewMoves DEF ReadDetails
<1>2. CASE ReadOverview(v)
  BY <1>2, OpenedFits, OneViewMoves DEF ReadOverview
<1>3. CASE EndView(v)
  <2>1. ViewFits(NoView, expenses)
    BY DEF ViewFits
  <2> QED
    BY <1>3, <2>1, OneViewMoves DEF EndView
<1> QED
  BY <1>1, <1>2, <1>3, SpentOnCategoryKeeps, SpentOnAllKeeps DEF Show

-----------------------------------------------------------------------------
(* The theorems.                                                           *)

LEMMA BudgetInit == Init => BudgetInv
<1> SUFFICES ASSUME Init PROVE BudgetInv
  OBVIOUS
<1>1. TypeOK
  BY IdleFits, RowsDiffer, Bounds DEF Init, TypeOK
<1>2. \A r \in Requests : req[r] = Idle
  BY DEF Init
<1>3. AddsApart /\ HandlersFit
  BY <1>2, IdleFits DEF AddsApart, HandlersFit, Pending
<1>4. BudgetsApart /\ DraftsEmpty /\ CategoriesApart /\ ViewsFit /\ ActivationRecordsNoExpense
  BY RowsDiffer DEF Init, BudgetsApart, DraftsEmpty, CategoriesApart, ViewsFit, ViewFits,
                    ActivationRecordsNoExpense
<1> QED
  BY <1>1, <1>3, <1>4 DEF BudgetInv

LEMMA BudgetStep == BudgetInv /\ [Next]_vars => BudgetInv'
<1> SUFFICES ASSUME BudgetInv, [Next]_vars PROVE BudgetInv'
  OBVIOUS
<1>1. CASE UNCHANGED vars
  BY <1>1 DEF vars, tables, BudgetInv, TypeOK, BudgetsApart, DraftsEmpty, CategoriesApart,
              AddsApart, HandlersFit, ViewsFit, ActivationRecordsNoExpense, Pending
<1>2. ASSUME NEW r \in Requests, Fail(r) PROVE BudgetInv'
  BY <1>2, OneEnds DEF Fail
<1>3. ASSUME NEW r \in Requests, Step(r) PROVE BudgetInv'
  BY <1>3, LookForBudgetKeeps, SaveBudgetKeeps, ReadForCategoryKeeps, SaveCategoryKeeps,
     ReadCategoryKeeps, SaveUpdateKeeps, RemoveCategoryKeeps, ReadsKeep, FindDraftKeeps,
     ActivationsKeep, ExpensesKeep, ReadExpenseKeeps DEF Step
<1> QED
  BY <1>1, <1>2, <1>3, CallKeeps, ShowKeeps DEF Next

LEMMA BudgetAlways == Spec => []BudgetInv
BY BudgetInit, BudgetStep, PTL DEF Spec

\* Every variable keeps its type, and categories belong to budgets there are.
THEOREM BudgetTypes == Spec => []TypeOK
<1>1. BudgetInv => TypeOK
  BY DEF BudgetInv
<1> QED
  BY <1>1, BudgetAlways, PTL

\* Two budgets of one month need two create_budget that overlap.  An expense that a view
\* of a budget counts twice needs overlapping add_budget_category or an
\* update_budget_category before the view, or, in the details, an update_expense that gives
\* it another category between two of their queries, for any number of users, budgets,
\* handlers and views.
THEOREM BudgetDuplicates == Spec => []DuplicatesNeedOverlap
<1>1. BudgetInv => DuplicatesNeedOverlap
  BY DEF BudgetInv, BudgetsApart, ViewsFit, ViewFits, DuplicatesNeedOverlap
<1> QED
  BY <1>1, BudgetAlways, PTL

\* Whatever else runs, create_expense never records the expense for which it activates a
\* draft: no draft ever has the category.
THEOREM BudgetActivation == Spec => []ActivationRecordsNoExpense
<1>1. BudgetInv => ActivationRecordsNoExpense
  BY DEF BudgetInv
<1> QED
  BY <1>1, BudgetAlways, PTL
=============================================================================
