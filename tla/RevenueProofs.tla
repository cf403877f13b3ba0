---------------------------- MODULE RevenueProofs ----------------------------
(***************************************************************************)
(* Proofs about RevenueSharing: what a transaction on the stakeholders     *)
(* table holds is its own, so ids stay unique; an event whose saves do not *)
(* overlap has the stakeholders of its latest one; and the payments of a   *)
(* calculation add up to the net revenue, to a cent.                       *)
(***************************************************************************)
EXTENDS RevenueSharing, FiniteSetTheorems, WellFoundedInduction, TLAPS

HeldBy(p) == p.deleted \cup p.inserted

\* What a transaction is, given the committed rows.
Fits(p, committed) ==
  /\ p \in Tx
  /\ p.at = "none" => p.seen = {} /\ p.deleted = {} /\ p.inserted = {}
  /\ p.at = "delete" => p.deleted = {} /\ p.inserted = {}
  /\ p.at = "insert" => p.deleted = p.seen
  /\ p.deleted \subseteq p.seen /\ p.seen \subseteq committed
  /\ \A r \in p.seen \cup HeldBy(p) : r.event = p.event
  /\ \A r \in p.inserted : \A q \in (committed \ p.deleted) \cup p.inserted :
       r.s.id = q.s.id => q = r
  /\ p.inserted \cap (committed \ p.deleted) = {}
  /\ IsFiniteSet(p.inserted)

\* No two transactions hold one key.
Apart(p, q) == \A r \in HeldBy(p), s \in HeldBy(q) : r.s.id # s.s.id

OneRowPerId(committed) == \A r, q \in committed : r.s.id = q.s.id => r = q

TablesInv ==
  /\ rows \subseteq TableRow /\ IsFiniteSet(rows) /\ OneRowPerId(rows)
  /\ tx \in [Savers -> Tx]
  /\ \A t \in Savers : Fits(tx[t], rows)
  /\ \A t, u \in Savers : t # u => Apart(tx[t], tx[u])

-----------------------------------------------------------------------------
(* Transactions.                                                           *)

LEMMA NoTxIs ==
  /\ NoTx \in Tx /\ NoTx.at = "none" /\ NoTx.next = 1 /\ NoTx.config \in Configs
  /\ NoTx.seen = {} /\ NoTx.deleted = {} /\ NoTx.inserted = {}
  /\ HeldBy(NoTx) = {}
<1>1. (CHOOSE e \in Events : TRUE) \in Events /\ (CHOOSE c \in Configs : TRUE) \in Configs
  BY Bounds
<1> QED
  BY <1>1 DEF NoTx, Tx, HeldBy

LEMMA NoTxFits ==
  ASSUME NEW committed
  PROVE  Fits(NoTx, committed) /\ \A q : Apart(NoTx, q) /\ Apart(q, NoTx)
BY NoTxIs, FS_EmptySet DEF Fits, Apart

\* The transaction of BeginSave.
Begun(e, c, seen) == [NoTx EXCEPT !.at = "delete", !.event = e, !.config = c, !.seen = seen]

LEMMA BegunIs ==
  ASSUME NEW e \in Events, NEW c \in Configs, NEW seen \in SUBSET TableRow
  PROVE  /\ Begun(e, c, seen) \in Tx
         /\ Begun(e, c, seen).at = "delete" /\ Begun(e, c, seen).event = e
         /\ Begun(e, c, seen).seen = seen
         /\ Begun(e, c, seen).deleted = {} /\ Begun(e, c, seen).inserted = {}
         /\ Begun(e, c, seen).config = c /\ Begun(e, c, seen).next = 1
BY NoTxIs DEF Begun, Tx

\* The transaction after its DELETE.
Deleting(p) == [p EXCEPT !.at = "insert", !.deleted = p.seen]

LEMMA DeletingIs ==
  ASSUME NEW p \in Tx
  PROVE  /\ Deleting(p) \in Tx
         /\ Deleting(p).at = "insert" /\ Deleting(p).event = p.event
         /\ Deleting(p).seen = p.seen /\ Deleting(p).deleted = p.seen
         /\ Deleting(p).inserted = p.inserted
         /\ Deleting(p).config = p.config /\ Deleting(p).next = p.next
BY DEF Deleting, Tx

\* The transaction after an INSERT.
Adding(p, n, all) == [p EXCEPT !.next = n, !.inserted = all]

LEMMA AddingIs ==
  ASSUME NEW p \in Tx, NEW n \in Nat \ {0}, NEW all \in SUBSET TableRow
  PROVE  /\ Adding(p, n, all) \in Tx
         /\ Adding(p, n, all).at = p.at /\ Adding(p, n, all).event = p.event
         /\ Adding(p, n, all).seen = p.seen /\ Adding(p, n, all).deleted = p.deleted
         /\ Adding(p, n, all).inserted = all
         /\ Adding(p, n, all).config = p.config /\ Adding(p, n, all).next = n
BY DEF Adding, Tx

\* The transaction after another's commit.
Freed(p, gone) == [p EXCEPT !.seen = p.seen \ gone]

LEMMA FreedIs ==
  ASSUME NEW p \in Tx, NEW gone
  PROVE  /\ Freed(p, gone) \in Tx
         /\ Freed(p, gone).at = p.at /\ Freed(p, gone).event = p.event
         /\ Freed(p, gone).seen = p.seen \ gone
         /\ Freed(p, gone).deleted = p.deleted /\ Freed(p, gone).inserted = p.inserted
         /\ Freed(p, gone).config = p.config /\ Freed(p, gone).next = p.next
BY DEF Freed, Tx

\* One transaction moves and the rows stay.
LEMMA TxMoves ==
  ASSUME TablesInv, NEW t \in Savers, NEW p, rows' = rows, tx' = [tx EXCEPT ![t] = p],
         Fits(p, rows), \A u \in Savers \ {t} : Apart(p, tx[u])
  PROVE  TablesInv'
<1>1. \A u \in Savers : tx'[u] = IF u = t THEN p ELSE tx[u]
  BY DEF TablesInv
<1>2. p \in Tx
  BY DEF Fits
<1>3. tx' \in [Savers -> Tx]
  BY <1>2 DEF TablesInv
<1>4. \A u \in Savers : Fits(tx'[u], rows')
  BY <1>1 DEF TablesInv
<1>5. \A u \in Savers \ {t} : Apart(tx[u], p)
  BY DEF Apart
<1>6. \A u, v \in Savers : u # v => Apart(tx'[u], tx'[v])
  BY <1>1, <1>5 DEF TablesInv
<1> QED
  BY <1>3, <1>4, <1>6 DEF TablesInv

LEMMA BeginSaveTables ==
  ASSUME TablesInv, NEW t \in Savers, NEW e \in Events, NEW c \in Configs, BeginSave(t, e, c)
  PROVE  TablesInv'
<1> DEFINE p == Begun(e, c, RowsOf(e))
<1>1. tx' = [tx EXCEPT ![t] = p] /\ rows' = rows
  BY DEF BeginSave, Begun
<1>2. RowsOf(e) \in SUBSET TableRow /\ RowsOf(e) \subseteq rows /\ \A r \in RowsOf(e) : r.event = e
  BY DEF RowsOf, TablesInv
<1>3. /\ p \in Tx /\ p.at = "delete" /\ p.event = e /\ p.seen = RowsOf(e)
      /\ p.deleted = {} /\ p.inserted = {}
  BY <1>2, BegunIs
<1> HIDE DEF p
<1>4. HeldBy(p) = {}
  BY <1>3 DEF HeldBy
<1>5. Fits(p, rows)
  BY <1>2, <1>3, <1>4, FS_EmptySet DEF Fits
<1>6. \A q : Apart(p, q)
  BY <1>4 DEF Apart
<1> QED
  BY <1>1, <1>5, <1>6, TxMoves

LEMMA DeleteTables ==
  ASSUME TablesInv, NEW t \in Savers, Delete(t)
  PROVE  TablesInv'
<1> DEFINE p == Deleting(tx[t])
<1>1. tx' = [tx EXCEPT ![t] = p] /\ rows' = rows /\ tx[t].at = "delete"
  BY DEF Delete, Deleting
<1>2. Fits(tx[t], rows) /\ tx[t] \in Tx
  BY DEF TablesInv
<1>3. /\ p \in Tx /\ p.at = "insert" /\ p.event = tx[t].event
      /\ p.seen = tx[t].seen /\ p.deleted = tx[t].seen /\ p.inserted = {}
      /\ tx[t].seen \subseteq rows /\ \A r \in tx[t].seen : r.event = tx[t].event
  BY <1>1, <1>2, DeletingIs DEF Fits
<1> HIDE DEF p
<1>4. Fits(p, rows)
  BY <1>3, FS_EmptySet DEF Fits, HeldBy
<1>5. ASSUME NEW u \in Savers \ {t}, NEW r \in HeldBy(p), NEW q \in HeldBy(tx[u]), r.s.id = q.s.id
      PROVE  FALSE
  <2>1. r \in tx[t].seen /\ r \in rows /\ r \notin tx[u].deleted
    BY <1>3, <1>5 DEF HeldBy, Delete
  <2>2. Fits(tx[u], rows)
    BY DEF TablesInv
  <2>3. CASE q \in tx[u].inserted
    <3>1. r \in rows \ tx[u].deleted
      BY <2>1
    <3>2. r = q
      BY <1>5, <2>2, <2>3, <3>1 DEF Fits
    <3> QED
      BY <2>2, <2>3, <3>1, <3>2 DEF Fits
  <2>4. CASE q \in tx[u].deleted
    <3>1. q \in rows
      BY <2>2, <2>4 DEF Fits
    <3>2. r = q
      BY <1>5, <2>1, <3>1 DEF TablesInv, OneRowPerId
    <3> QED
      BY <2>1, <2>4, <3>2
  <2> QED
    BY <2>3, <2>4 DEF HeldBy
<1>6. \A u \in Savers \ {t} : Apart(p, tx[u])
  BY <1>5 DEF Apart
<1> QED
  BY <1>1, <1>4, <1>6, TxMoves

LEMMA InsertTables ==
  ASSUME TablesInv, NEW t \in Savers, Insert(t)
  PROVE  TablesInv'
<1> DEFINE old == tx[t]
           s == old.config[old.next]
           new == [event |-> old.event, s |-> s]
           n == old.next + 1
           all == old.inserted \cup {new}
           p == Adding(old, n, all)
<1>1. /\ tx' = [tx EXCEPT ![t] = p] /\ rows' = rows
      /\ old.at = "insert" /\ old.next <= Len(old.config)
      /\ ~KeyHeld(t, s.id) /\ ~KeyTaken(t, s.id)
  BY DEF Insert, Inserting, Adding
<1>2. Fits(old, rows) /\ old \in Tx
  BY DEF TablesInv
<1>3. /\ old.config \in Configs /\ old.next \in Nat \ {0} /\ old.event \in Events
      /\ old.inserted \subseteq TableRow
  BY <1>2 DEF Tx
<1>4. old.config \in Seq(Stakeholders)
  BY <1>3, Bounds
<1> HIDE DEF old
<1>5. new \in TableRow /\ new.event = old.event /\ new.s = s
  <2>1. s \in Stakeholders
    <3>1. Len(old.config) \in Nat
      BY <1>4
    <3>2. old.next \in 1 .. Len(old.config)
      BY <1>1, <1>3, <3>1
    <3> QED
      BY <1>4, <3>2
  <2> QED
    BY <1>3, <2>1 DEF TableRow
<1>6. n \in Nat \ {0} /\ all \subseteq TableRow
  BY <1>3, <1>5
<1> HIDE DEF s, new, n, all, p
<1>7. /\ p \in Tx /\ p.at = "insert" /\ p.event = old.event
      /\ p.seen = old.seen /\ p.deleted = old.deleted /\ p.inserted = all
  BY <1>1, <1>2, <1>6, AddingIs DEF p
<1>8. all = old.inserted \cup {new}
  BY DEF all
<1>9. \A r \in (rows \ old.deleted) \cup old.inserted : r.s.id # new.s.id
  BY <1>1, <1>5 DEF KeyTaken, old
<1>10. IsFiniteSet(all)
  BY <1>2, <1>8, FS_AddElement DEF Fits
<1>11. Fits(p, rows)
  <2>1. /\ old.deleted = old.seen /\ old.seen \subseteq rows
        /\ \A r \in old.seen \cup HeldBy(old) : r.event = old.event
        /\ \A r \in old.inserted : \A q \in (rows \ old.deleted) \cup old.inserted :
             r.s.id = q.s.id => q = r
        /\ old.inserted \cap (rows \ old.deleted) = {}
    BY <1>1, <1>2 DEF Fits
  <2>2. \A r \in p.seen \cup HeldBy(p) : r.event = p.event
    BY <1>5, <1>7, <1>8, <2>1 DEF HeldBy
  <2>3. \A r \in p.inserted : \A q \in (rows \ p.deleted) \cup p.inserted :
          r.s.id = q.s.id => q = r
    BY <1>7, <1>8, <1>9, <2>1
  <2>4. p.inserted \cap (rows \ p.deleted) = {}
    BY <1>7, <1>8, <1>9, <2>1
  <2> QED
    BY <1>7, <1>10, <2>1, <2>2, <2>3, <2>4 DEF Fits
<1>12. ASSUME NEW u \in Savers \ {t} PROVE Apart(p, tx[u])
  <2>1. Apart(old, tx[u])
    BY DEF TablesInv, old
  <2>2. \A r \in HeldBy(tx[u]) : r.s.id # s.id
    BY <1>1 DEF KeyHeld, HeldBy
  <2>3. HeldBy(p) = HeldBy(old) \cup {new}
    BY <1>7, <1>8 DEF HeldBy
  <2> QED
    BY <1>5, <2>1, <2>2, <2>3 DEF Apart
<1> QED
  BY <1>1, <1>11, <1>12, TxMoves

LEMMA InsertKeeps ==
  ASSUME TablesInv, NEW t \in Savers, Insert(t)
  PROVE  /\ tx'[t].event = tx[t].event /\ tx'[t].seen = tx[t].seen
         /\ \A u \in Savers : u # t => tx'[u] = tx[u]
<1>1. PICK n, all : tx' = [tx EXCEPT ![t] = Adding(tx[t], n, all)]
  BY DEF Insert, Adding
<1>2. Adding(tx[t], n, all).event = tx[t].event /\ Adding(tx[t], n, all).seen = tx[t].seen
  BY DEF Adding, TablesInv, Tx
<1> QED
  BY <1>1, <1>2 DEF TablesInv

LEMMA SaveFailsTables ==
  ASSUME TablesInv, NEW t \in Savers, SaveFails(t)
  PROVE  TablesInv'
<1>1. tx' = [tx EXCEPT ![t] = NoTx] /\ rows' = rows
  BY DEF SaveFails, RolledBack
<1> QED
  BY <1>1, NoTxFits, TxMoves

LEMMA RestartTables ==
  ASSUME TablesInv, Restart
  PROVE  TablesInv'
BY NoTxIs, NoTxFits DEF TablesInv, Restart

\* What another's commit leaves of a transaction.
LEMMA CommitFrees ==
  ASSUME TablesInv, NEW t \in Savers, Commit(t), NEW u \in Savers \ {t}
  PROVE  LET p == Freed(tx[u], tx[t].deleted) IN
         /\ tx'[u] = p /\ p \in Tx /\ p.at = tx[u].at /\ p.event = tx[u].event
         /\ p.seen = tx[u].seen \ tx[t].deleted
         /\ p.deleted = tx[u].deleted /\ p.inserted = tx[u].inserted
         /\ tx[u].deleted \cap tx[t].deleted = {}
<1>1. tx[u] \in Tx /\ Apart(tx[u], tx[t])
  BY DEF TablesInv
<1>2. tx'[u] = Freed(tx[u], tx[t].deleted)
  BY DEF Commit, Freed
<1>3. tx[u].deleted \cap tx[t].deleted = {}
  BY <1>1 DEF Apart, HeldBy
<1> QED
  BY <1>1, <1>2, <1>3, FreedIs

LEMMA CommitTables ==
  ASSUME TablesInv, NEW t \in Savers, Commit(t)
  PROVE  TablesInv'
<1> DEFINE gone == tx[t].deleted
           new == tx[t].inserted
<1>1. Fits(tx[t], rows) /\ tx[t] \in Tx
  BY DEF TablesInv
<1>2. rows' = (rows \ gone) \cup new /\ tx'[t] = NoTx /\ tx' = [u \in Savers |-> tx'[u]]
  BY DEF Commit
<1>3. rows' \subseteq TableRow /\ IsFiniteSet(rows')
  <2>1. new \subseteq TableRow /\ IsFiniteSet(new)
    BY <1>1 DEF Tx, Fits
  <2>2. IsFiniteSet(rows \ gone)
    BY FS_Subset DEF TablesInv
  <2> QED
    BY <1>2, <2>1, <2>2, FS_Union DEF TablesInv
<1>4. OneRowPerId(rows')
  BY <1>1, <1>2 DEF Fits, OneRowPerId, TablesInv
<1>5. ASSUME NEW u \in Savers \ {t}
      PROVE  /\ Fits(tx'[u], rows') /\ tx'[u] \in Tx
             /\ HeldBy(tx'[u]) = HeldBy(tx[u])
  <2> DEFINE old == tx[u]
             p == tx'[u]
  <2>1. /\ p \in Tx /\ p.at = old.at /\ p.event = old.event
        /\ p.seen = old.seen \ gone /\ p.deleted = old.deleted /\ p.inserted = old.inserted
        /\ old.deleted \cap gone = {}
    BY CommitFrees
  <2>2. Fits(old, rows) /\ Apart(old, tx[t])
    BY DEF TablesInv
  <2> HIDE DEF old, p
  <2>3. p.at = "none" => p.seen = {} /\ p.deleted = {} /\ p.inserted = {}
    BY <2>1, <2>2 DEF Fits
  <2>4. p.at = "insert" => p.deleted = p.seen
    BY <2>1, <2>2 DEF Fits
  <2>5. p.deleted \subseteq p.seen /\ p.seen \subseteq rows'
    BY <1>2, <2>1, <2>2 DEF Fits
  <2>6. \A r \in p.seen \cup HeldBy(p) : r.event = p.event
    BY <2>1, <2>2 DEF Fits, HeldBy
  <2>7. \A r \in p.inserted : \A q \in (rows' \ p.deleted) \cup p.inserted :
          r.s.id = q.s.id => q = r
    BY <1>2, <2>1, <2>2 DEF Fits, Apart, HeldBy
  <2>8. p.inserted \cap (rows' \ p.deleted) = {}
    BY <1>2, <2>1, <2>2 DEF Fits, Apart, HeldBy
  <2>9. Fits(p, rows')
    BY <2>1, <2>2, <2>3, <2>4, <2>5, <2>6, <2>7, <2>8 DEF Fits
  <2> QED
    BY <2>1, <2>9 DEF old, p, HeldBy
<1>6. \A u \in Savers : Fits(tx'[u], rows') /\ tx'[u] \in Tx
  BY <1>2, <1>5, NoTxFits, NoTxIs
<1>7. \A u, v \in Savers : u # v => Apart(tx'[u], tx'[v])
  <2> SUFFICES ASSUME NEW u \in Savers, NEW v \in Savers, u # v PROVE Apart(tx'[u], tx'[v])
    OBVIOUS
  <2>1. CASE u = t \/ v = t
    BY <1>2, <2>1, NoTxFits
  <2>2. CASE u # t /\ v # t
    <3>1. Apart(tx[u], tx[v])
      BY DEF TablesInv
    <3> QED
      BY <1>5, <2>2, <3>1 DEF Apart
  <2> QED
    BY <2>1, <2>2
<1>8. tx' \in [Savers -> Tx]
  BY <1>2, <1>6
<1> QED
  BY <1>3, <1>4, <1>6, <1>7, <1>8 DEF TablesInv

-----------------------------------------------------------------------------
(* What a transaction has written: its list, as far as it has come.        *)

WrittenBy(p) == {[event |-> p.event, s |-> p.config[i]] : i \in 1 .. p.next - 1}

HasWritten(p) ==
  /\ p.config \in Configs
  /\ p.next \in Nat \ {0}
  /\ p.next <= Len(p.config) + 1
  /\ p.inserted = WrittenBy(p)

WrittenInv == \A t \in Savers : HasWritten(tx[t])

\* Before its first insert.
LEMMA NothingWritten ==
  ASSUME NEW p, p.config \in Configs, p.next = 1, p.inserted = {}
  PROVE  HasWritten(p)
<1>1. p.config \in Seq(Stakeholders)
  BY Bounds
<1>2. Len(p.config) \in Nat
  BY <1>1
<1>3. 1 .. p.next - 1 = {}
  OBVIOUS
<1> QED
  BY <1>2, <1>3 DEF HasWritten, WrittenBy

\* A transaction that keeps its list and its place in it.
LEMMA StillWritten ==
  ASSUME NEW p, HasWritten(p), NEW q, q.event = p.event, q.config = p.config,
         q.next = p.next, q.inserted = p.inserted
  PROVE  HasWritten(q)
BY DEF HasWritten, WrittenBy

\* A transaction that writes the next stakeholder of its list.
LEMMA OneMoreWritten ==
  ASSUME NEW p, HasWritten(p), NEW q, q.event = p.event, q.config = p.config,
         p.next <= Len(p.config), q.next = p.next + 1,
         q.inserted = p.inserted \cup {[event |-> p.event, s |-> p.config[p.next]]}
  PROVE  HasWritten(q)
<1> DEFINE n == p.next
<1>1. n \in Nat \ {0} /\ Len(p.config) \in Nat
  <2>1. p.config \in Seq(Stakeholders)
    BY Bounds DEF HasWritten
  <2> QED
    BY <2>1 DEF HasWritten
<1>2. 1 .. n + 1 - 1 = (1 .. n - 1) \cup {n}
  BY <1>1
<1>3. q.inserted = WrittenBy(q)
  BY <1>2 DEF HasWritten, WrittenBy
<1> HIDE DEF n
<1>4. q.next = n + 1 /\ n + 1 <= Len(p.config) + 1 /\ n + 1 \in Nat \ {0}
  BY <1>1 DEF n
<1> QED
  BY <1>3, <1>4 DEF HasWritten

\* What a transaction writes in all is its list.
LEMMA AllWritten ==
  ASSUME NEW p, HasWritten(p), p.next > Len(p.config)
  PROVE  {r.s : r \in p.inserted} = ListOf(p.config)
<1>1. p.config \in Seq(Stakeholders)
  BY Bounds DEF HasWritten
<1>2. 1 .. p.next - 1 = DOMAIN p.config
  <2>1. Len(p.config) \in Nat /\ DOMAIN p.config = 1 .. Len(p.config)
    BY <1>1
  <2>2. p.next - 1 = Len(p.config)
    BY <2>1 DEF HasWritten
  <2> QED
    BY <2>1, <2>2
<1>3. p.inserted = {[event |-> p.event, s |-> p.config[i]] : i \in DOMAIN p.config}
  BY <1>2 DEF HasWritten, WrittenBy
<1>4. ASSUME NEW r \in p.inserted
      PROVE  r.s \in ListOf(p.config)
  BY <1>3 DEF ListOf
<1>5. ASSUME NEW i \in DOMAIN p.config
      PROVE  p.config[i] \in {r.s : r \in p.inserted}
  <2> DEFINE row == [event |-> p.event, s |-> p.config[i]]
  <2>1. row \in p.inserted
    BY <1>3
  <2>2. row.s = p.config[i]
    OBVIOUS
  <2> HIDE DEF row
  <2> QED
    BY <2>1, <2>2
<1> QED
  BY <1>4, <1>5 DEF ListOf

-----------------------------------------------------------------------------
(* The whole state.                                                        *)

\* Of an event whose saves have not overlapped, one transaction at most is open; it has seen all
\* of the rows, which are those of the latest save.
EventInv(e) ==
  /\ \A t \in Savers : Open(t) /\ tx[t].event = e => tx[t].seen = RowsOf(e)
  /\ \A t, u \in Savers : Open(t) /\ Open(u) /\ tx[t].event = e /\ tx[u].event = e => t = u
  /\ latest[e] = {r.s : r \in RowsOf(e)}

CountersInv ==
  /\ saves \in 0 .. MaxSaves
  /\ calcs \in 0 .. MaxCalcs
  /\ {w.nr : w \in waiting \cup history} \subseteq 1 .. calcs
  /\ latest \in [Events -> SUBSET Stakeholders]
  /\ overlapped \subseteq Events

RevenueInv ==
  /\ TablesInv
  /\ WrittenInv
  /\ CountersInv
  /\ \A e \in Events \ overlapped : EventInv(e)

\* A step that leaves the rows, the latest saves and the overlaps alone, and opens no transaction.
LEMMA EventsStay ==
  ASSUME RevenueInv, UNCHANGED <<rows, latest, overlapped>>,
         \A t \in Savers : tx'[t].at = "none"
                          \/ /\ tx[t].at # "none" /\ tx'[t].event = tx[t].event
                             /\ tx'[t].seen = tx[t].seen,
         NEW e \in Events \ overlapped
  PROVE  EventInv(e)'
<1>1. EventInv(e)
  BY DEF RevenueInv
<1>2. RowsOf(e)' = RowsOf(e)
  BY DEF RowsOf
<1>3. \A t \in Savers : Open(t)' /\ tx'[t].event = e =>
        Open(t) /\ tx[t].event = e /\ tx'[t].seen = tx[t].seen
  BY DEF Open
<1>4. \A t \in Savers : Open(t)' /\ tx'[t].event = e => tx'[t].seen = RowsOf(e)'
  BY <1>1, <1>2, <1>3 DEF EventInv
<1>5. \A t, u \in Savers : Open(t)' /\ Open(u)' /\ tx'[t].event = e /\ tx'[u].event = e => t = u
  BY <1>1, <1>3 DEF EventInv
<1>6. latest'[e] = {r.s : r \in RowsOf(e)'}
  BY <1>1, <1>2 DEF EventInv
<1> QED
  BY <1>4, <1>5, <1>6 DEF EventInv

LEMMA BeginSaveEvents ==
  ASSUME RevenueInv, NEW t \in Savers, NEW d \in Events, NEW c \in Configs, BeginSave(t, d, c),
         NEW e \in Events \ overlapped'
  PROVE  EventInv(e)'
<1>1. /\ tx' = [tx EXCEPT ![t] = Begun(d, c, RowsOf(d))]
      /\ rows' = rows /\ latest' = latest /\ ~Open(t)
      /\ e \notin overlapped
      /\ e = d => ~\E u \in Savers : Open(u) /\ tx[u].event = e
  BY DEF BeginSave, Begun
<1>2. /\ Begun(d, c, RowsOf(d)).at = "delete" /\ Begun(d, c, RowsOf(d)).event = d
      /\ Begun(d, c, RowsOf(d)).seen = RowsOf(d)
  <2>1. RowsOf(d) \in SUBSET TableRow
    BY DEF RevenueInv, TablesInv, RowsOf
  <2> QED
    BY <2>1, BegunIs
<1>3. \A u \in Savers : u # t => tx'[u] = tx[u]
  BY <1>1 DEF RevenueInv, TablesInv
<1>4. tx'[t].event = d /\ tx'[t].seen = RowsOf(d)
  BY <1>1, <1>2 DEF RevenueInv, TablesInv
<1>5. EventInv(e) /\ RowsOf(e)' = RowsOf(e)
  BY <1>1 DEF RevenueInv, RowsOf
<1>6. \A u \in Savers : u # t => (Open(u)' <=> Open(u))
  BY <1>3 DEF Open
<1>7. \A u \in Savers : Open(u)' /\ tx'[u].event = e => tx'[u].seen = RowsOf(e)'
  BY <1>3, <1>4, <1>5, <1>6 DEF EventInv
<1>8. \A u, v \in Savers : Open(u)' /\ Open(v)' /\ tx'[u].event = e /\ tx'[v].event = e => u = v
  BY <1>1, <1>3, <1>4, <1>5, <1>6 DEF EventInv
<1> QED
  BY <1>1, <1>5, <1>7, <1>8 DEF EventInv

LEMMA CommitEvents ==
  ASSUME RevenueInv, NEW t \in Savers, Commit(t), NEW e \in Events \ overlapped
  PROVE  EventInv(e)'
<1> DEFINE f == tx[t].event
           gone == tx[t].deleted
           new == tx[t].inserted
<1>0. ListOf(tx[t].config) = {r.s : r \in new}
  BY AllWritten DEF Commit, RevenueInv, WrittenInv
<1>1. /\ rows' = (rows \ gone) \cup new /\ latest' = [latest EXCEPT ![f] = {r.s : r \in new}]
      /\ tx'[t] = NoTx /\ Open(t) /\ tx[t].at = "insert"
  BY <1>0 DEF Commit, Open
<1>2. /\ gone = tx[t].seen /\ \A r \in gone \cup new : r.event = f
  BY <1>1 DEF RevenueInv, TablesInv, Fits, HeldBy
<1>3. ~Open(t)'
  BY <1>1, NoTxIs DEF Open
<1>4. ASSUME NEW u \in Savers \ {t}
      PROVE  /\ Open(u)' <=> Open(u)
             /\ tx'[u].event = tx[u].event
             /\ tx'[u].seen = tx[u].seen \ gone
  BY CommitFrees DEF RevenueInv, Open
<1>5. EventInv(e) /\ latest \in [Events -> SUBSET Stakeholders]
  BY DEF RevenueInv, CountersInv
<1> HIDE DEF gone, new, f
<1>6. CASE e = f
  <2>1. gone = RowsOf(e)
    BY <1>1, <1>2, <1>5, <1>6 DEF EventInv, f
  <2>2. RowsOf(e)' = new
    BY <1>1, <1>2, <1>6, <2>1 DEF RowsOf
  <2>3. latest'[e] = {r.s : r \in RowsOf(e)'}
    BY <1>1, <1>5, <1>6, <2>2
  <2>4. \A u \in Savers : ~(Open(u)' /\ tx'[u].event = e)
    BY <1>1, <1>3, <1>4, <1>5, <1>6 DEF EventInv, f
  <2> QED
    BY <2>3, <2>4 DEF EventInv
<1>7. CASE e # f
  <2>1. RowsOf(e)' = RowsOf(e) /\ RowsOf(e) \ gone = RowsOf(e)
    BY <1>1, <1>2, <1>7 DEF RowsOf
  <2>2. latest'[e] = {r.s : r \in RowsOf(e)'}
    BY <1>1, <1>5, <1>7, <2>1 DEF EventInv
  <2>3. \A u \in Savers : Open(u)' /\ tx'[u].event = e => tx'[u].seen = RowsOf(e)'
    BY <1>3, <1>4, <1>5, <2>1 DEF EventInv
  <2>4. \A u, v \in Savers : Open(u)' /\ Open(v)' /\ tx'[u].event = e /\ tx'[v].event = e => u = v
    BY <1>3, <1>4, <1>5 DEF EventInv
  <2> QED
    BY <2>2, <2>3, <2>4 DEF EventInv
<1> QED
  BY <1>6, <1>7

\* The calculations and what counts the saves.
LEMMA NextCounters ==
  ASSUME RevenueInv, Next
  PROVE  CountersInv'
<1>1. CountersInv /\ MaxSaves \in Nat /\ MaxCalcs \in Nat
  BY Bounds DEF RevenueInv
<1>2. CASE \E t \in Savers, e \in Events, c \in Configs : BeginSave(t, e, c)
  BY <1>1, <1>2 DEF BeginSave, CountersInv, calcVars
<1>3. CASE \E t \in Savers : Delete(t) \/ Insert(t) \/ SaveFails(t)
  BY <1>1, <1>3 DEF Delete, Insert, SaveFails, CountersInv, calcVars
<1>4. CASE \E t \in Savers : Commit(t)
  <2>1. PICK t \in Savers : Commit(t)
    BY <1>4
  <2>2. tx[t].config \in Configs
    BY DEF RevenueInv, TablesInv, Tx
  <2>3. ListOf(tx[t].config) \subseteq Stakeholders
    BY <2>2 DEF Stakeholders
  <2> QED
    BY <1>1, <2>1, <2>3 DEF Commit, CountersInv, calcVars
<1>5. CASE \E e \in Events, input \in Inputs : Calculate(e, input)
  <2>1. PICK e \in Events, input \in Inputs : Calculate(e, input)
    BY <1>5
  <2>2. /\ calcs < MaxCalcs /\ calcs' = calcs + 1 /\ history' = history
        /\ UNCHANGED <<saves, latest, overlapped>>
    BY <2>1 DEF Calculate, tableVars
  <2>3. PICK q \in StakeholderLists(e) :
          waiting' = waiting \cup {[nr |-> calcs + 1, event |-> e, result |-> Calculation(input, q)]}
    BY <2>1 DEF Calculate
  <2>4. {w.nr : w \in waiting' \cup history'} \subseteq 1 .. calcs'
    BY <1>1, <2>2, <2>3 DEF CountersInv
  <2> QED
    BY <1>1, <2>2, <2>4 DEF CountersInv
<1>6. CASE \E w \in waiting : SaveCalculation(w) \/ SaveCalculationFails(w)
  BY <1>1, <1>6 DEF SaveCalculation, SaveCalculationFails, CountersInv, tableVars
<1>7. CASE Restart
  BY <1>1, <1>7 DEF Restart, CountersInv
<1> QED
  BY <1>2, <1>3, <1>4, <1>5, <1>6, <1>7 DEF Next, SaveStep

\* A step of nothing but calculations.
LEMMA SameTables ==
  ASSUME RevenueInv, UNCHANGED <<rows, tx, latest, overlapped>>
  PROVE  /\ TablesInv'
         /\ \A e \in Events \ overlapped' : EventInv(e)'
BY DEF RevenueInv, TablesInv, EventInv, RowsOf, Open

\* Every transaction keeps to its list.
LEMMA NextWritten ==
  ASSUME RevenueInv, [Next]_vars
  PROVE  WrittenInv'
<1>0. TablesInv /\ WrittenInv /\ tx \in [Savers -> Tx]
  BY DEF RevenueInv, TablesInv
<1>1. ASSUME UNCHANGED tx
      PROVE  WrittenInv'
  BY <1>0, <1>1 DEF WrittenInv
<1>2. ASSUME NEW t \in Savers, NEW p, HasWritten(p), tx' = [tx EXCEPT ![t] = p]
      PROVE  WrittenInv'
  BY <1>0, <1>2 DEF WrittenInv
<1>3. HasWritten(NoTx)
  BY NoTxIs, NothingWritten
<1>4. ASSUME NEW t \in Savers, NEW e \in Events, NEW c \in Configs, BeginSave(t, e, c)
      PROVE  WrittenInv'
  <2>1. tx' = [tx EXCEPT ![t] = Begun(e, c, RowsOf(e))]
    BY <1>4 DEF BeginSave, Begun
  <2>2. RowsOf(e) \in SUBSET TableRow
    BY <1>0 DEF RowsOf, TablesInv
  <2>3. HasWritten(Begun(e, c, RowsOf(e)))
    BY <2>2, BegunIs, NothingWritten
  <2> QED
    BY <1>2, <2>1, <2>3
<1>5. ASSUME NEW t \in Savers, Delete(t)
      PROVE  WrittenInv'
  <2>1. tx' = [tx EXCEPT ![t] = Deleting(tx[t])]
    BY <1>5 DEF Delete, Deleting
  <2>2. HasWritten(Deleting(tx[t]))
    BY <1>0, DeletingIs, StillWritten DEF WrittenInv
  <2> QED
    BY <1>2, <2>1, <2>2
<1>6. ASSUME NEW t \in Savers, Insert(t)
      PROVE  WrittenInv'
  <2> DEFINE old == tx[t]
             new == [event |-> old.event, s |-> old.config[old.next]]
             p == Adding(old, old.next + 1, old.inserted \cup {new})
  <2>1. tx' = [tx EXCEPT ![t] = p] /\ old.next <= Len(old.config)
    BY <1>6 DEF Insert, Inserting, Adding
  <2>2. HasWritten(old) /\ old \in Tx
    BY <1>0 DEF WrittenInv
  <2>3. /\ p.event = old.event /\ p.config = old.config /\ p.next = old.next + 1
        /\ p.inserted = old.inserted \cup {new}
    BY <2>2 DEF Adding, Tx
  <2> HIDE DEF old, p
  <2>4. HasWritten(p)
    BY <2>1, <2>2, <2>3, OneMoreWritten
  <2> QED
    BY <1>2, <2>1, <2>4
<1>7. ASSUME NEW t \in Savers, SaveFails(t)
      PROVE  WrittenInv'
  BY <1>2, <1>3, <1>7 DEF SaveFails
<1>8. ASSUME NEW t \in Savers, Commit(t)
      PROVE  WrittenInv'
  <2>1. \A u \in Savers \ {t} : HasWritten(tx'[u])
    <3> SUFFICES ASSUME NEW u \in Savers \ {t} PROVE HasWritten(tx'[u])
      OBVIOUS
    <3>1. tx'[u] = Freed(tx[u], tx[t].deleted)
      BY <1>8 DEF Commit, Freed
    <3> QED
      BY <1>0, <3>1, FreedIs, StillWritten DEF WrittenInv
  <2>2. tx'[t] = NoTx
    BY <1>8 DEF Commit
  <2> QED
    BY <1>3, <2>1, <2>2 DEF WrittenInv
<1>9. CASE Restart
  BY <1>3, <1>9 DEF Restart, WrittenInv
<1>10. ASSUME (\E e \in Events, input \in Inputs : Calculate(e, input))
              \/ \E w \in waiting : SaveCalculation(w) \/ SaveCalculationFails(w)
       PROVE  WrittenInv'
  BY <1>1, <1>10 DEF Calculate, SaveCalculation, SaveCalculationFails, tableVars
<1>11. CASE UNCHANGED vars
  BY <1>1, <1>11 DEF vars, tableVars
<1> QED
  BY <1>4, <1>5, <1>6, <1>7, <1>8, <1>9, <1>10, <1>11 DEF Next, SaveStep

LEMMA NextInv == RevenueInv /\ [Next]_vars => RevenueInv'
<1> SUFFICES ASSUME RevenueInv, [Next]_vars PROVE RevenueInv'
  OBVIOUS
<1>0. TablesInv /\ WrittenInv'
  BY NextWritten DEF RevenueInv
<1>1. CASE UNCHANGED vars
  <2>1. CountersInv'
    BY <1>1 DEF RevenueInv, CountersInv, vars, tableVars, calcVars
  <2> QED
    BY <1>0, <1>1, <2>1, SameTables DEF RevenueInv, vars, tableVars
<1>2. ASSUME NEW t \in Savers, NEW e \in Events, NEW c \in Configs, BeginSave(t, e, c)
      PROVE  RevenueInv'
  <2>1. CountersInv'
    BY <1>2, NextCounters DEF Next, SaveStep
  <2> QED
    BY <1>0, <1>2, <2>1, BeginSaveTables, BeginSaveEvents DEF RevenueInv
<1>3. ASSUME NEW t \in Savers, Delete(t)
      PROVE  RevenueInv'
  <2>1. CountersInv'
    BY <1>3, NextCounters DEF Next, SaveStep
  <2>2. /\ tx' = [tx EXCEPT ![t] = Deleting(tx[t])] /\ tx[t].at = "delete"
        /\ UNCHANGED <<rows, latest, overlapped>>
    BY <1>3 DEF Delete, Deleting
  <2>3. Deleting(tx[t]).event = tx[t].event /\ Deleting(tx[t]).seen = tx[t].seen
    BY <1>0, DeletingIs DEF TablesInv
  <2>4. \A u \in Savers : tx'[u].at = "none"
                        \/ (tx[u].at # "none" /\ tx'[u].event = tx[u].event /\ tx'[u].seen = tx[u].seen)
    BY <1>0, <2>2, <2>3 DEF TablesInv
  <2> QED
    BY <1>0, <1>3, <2>1, <2>2, <2>4, DeleteTables, EventsStay DEF RevenueInv
<1>4. ASSUME NEW t \in Savers, Insert(t)
      PROVE  RevenueInv'
  <2>1. CountersInv'
    BY <1>4, NextCounters DEF Next, SaveStep
  <2>2. tx[t].at = "insert" /\ UNCHANGED <<rows, latest, overlapped>>
    BY <1>4 DEF Insert, Inserting
  <2>3. TablesInv'
    BY <1>0, <1>4, InsertTables
  <2>4. tx'[t].event = tx[t].event /\ tx'[t].seen = tx[t].seen /\ \A u \in Savers : u # t => tx'[u] = tx[u]
    BY <1>0, <1>4, InsertKeeps
  <2>5. \A u \in Savers : tx'[u].at = "none"
                        \/ (tx[u].at # "none" /\ tx'[u].event = tx[u].event /\ tx'[u].seen = tx[u].seen)
    BY <2>2, <2>4
  <2> QED
    BY <1>0, <2>1, <2>2, <2>3, <2>5, EventsStay DEF RevenueInv
<1>5. ASSUME NEW t \in Savers, SaveFails(t)
      PROVE  RevenueInv'
  <2>1. CountersInv'
    BY <1>5, NextCounters DEF Next, SaveStep
  <2>2. tx' = [tx EXCEPT ![t] = NoTx] /\ UNCHANGED <<rows, latest, overlapped>>
    BY <1>5 DEF SaveFails, RolledBack
  <2>3. \A u \in Savers : tx'[u].at = "none" \/ tx'[u] = tx[u]
    BY <1>0, <2>2, NoTxIs DEF TablesInv
  <2> QED
    BY <1>0, <1>5, <2>1, <2>2, <2>3, SaveFailsTables, EventsStay DEF RevenueInv
<1>6. ASSUME NEW t \in Savers, Commit(t)
      PROVE  RevenueInv'
  <2>1. CountersInv'
    BY <1>6, NextCounters DEF Next, SaveStep
  <2>2. overlapped' = overlapped
    BY <1>6 DEF Commit
  <2> QED
    BY <1>0, <1>6, <2>1, <2>2, CommitTables, CommitEvents DEF RevenueInv
<1>7. ASSUME Restart
      PROVE  RevenueInv'
  <2>1. CountersInv'
    BY <1>7, NextCounters DEF Next
  <2>2. (\A u \in Savers : tx'[u].at = "none") /\ UNCHANGED <<rows, latest, overlapped>>
    BY <1>7, NoTxIs DEF Restart
  <2> QED
    BY <1>0, <1>7, <2>1, <2>2, RestartTables, EventsStay DEF RevenueInv
<1>8. ASSUME (\E e \in Events, input \in Inputs : Calculate(e, input))
             \/ \E w \in waiting : SaveCalculation(w) \/ SaveCalculationFails(w)
      PROVE  RevenueInv'
  <2>1. CountersInv'
    BY <1>8, NextCounters DEF Next
  <2>2. UNCHANGED <<rows, tx, latest, overlapped>>
    BY <1>8 DEF Calculate, SaveCalculation, SaveCalculationFails, tableVars
  <2> QED
    BY <1>0, <2>1, <2>2, SameTables DEF RevenueInv
<1> QED
  BY <1>1, <1>2, <1>3, <1>4, <1>5, <1>6, <1>7, <1>8 DEF Next, SaveStep

LEMMA InitInv == Init => RevenueInv
<1> SUFFICES ASSUME Init PROVE RevenueInv
  OBVIOUS
<1>1. TablesInv
  BY NoTxIs, NoTxFits, FS_EmptySet DEF Init, TablesInv, OneRowPerId
<1>2. CountersInv
  BY Bounds DEF Init, CountersInv
<1>3. \A e \in Events : EventInv(e)
  BY NoTxIs DEF Init, EventInv, Open, RowsOf
<1>4. WrittenInv
  BY NoTxIs, NothingWritten DEF Init, WrittenInv
<1> QED
  BY <1>1, <1>2, <1>3, <1>4 DEF RevenueInv

\* Every variable keeps its type, and stakeholder ids stay unique: what a transaction writes cannot
\* clash with what another holds.
THEOREM RevenueTypes == Spec => []TypeOK
<1>1. RevenueInv => TypeOK
  BY DEF RevenueInv, TablesInv, CountersInv, OneRowPerId, TypeOK
<1> QED
  BY <1>1, InitInv, NextInv, PTL DEF Spec

-----------------------------------------------------------------------------
(* What the readers are shown.                                             *)

\* A sequence made of a set has the elements of the set.
LEMMA SequenceOfSet ==
  ASSUME NEW S, IsFiniteSet(S)
  PROVE  LET q == SetToSeq(S) IN {q[i] : i \in DOMAIN q} = S
<1> DEFINE n == Cardinality(S)
           q == SetToSeq(S)
<1>1. n \in Nat /\ ExistsBijection(1 .. n, S)
  BY FS_CardinalityType
<1>2. \E f \in [1 .. n -> S] : IsInjective(f)
  BY <1>1 DEF ExistsBijection, Bijection, Injection, IsInjective
<1>3. q \in [1 .. n -> S] /\ IsInjective(q)
  BY <1>2 DEF SetToSeq
<1>4. q \in Injection(1 .. n, S)
  BY <1>3 DEF Injection
<1>5. Cardinality(1 .. n) = n
  BY <1>1, FS_Interval
<1>6. q \in Surjection(1 .. n, S)
  BY <1>4, <1>5, FS_Injection
<1>7. \A s \in S : \E i \in 1 .. n : q[i] = s
  BY <1>6 DEF Surjection
<1> HIDE DEF q, n
<1>8. {q[i] : i \in DOMAIN q} = S
  BY <1>3, <1>7
<1> QED
  BY <1>8 DEF q

LEMMA DefaultOnes == DOMAIN DefaultStakeholders = 1 .. 3
BY DEF DefaultStakeholders

\* However saves fail or the process restarts, the readers of an event get the stakeholders of its
\* latest successful save, unless two saves of the event overlapped.
THEOREM RevenueLatest == Spec => []LatestSaveIsKept
<1>1. RevenueInv => LatestSaveIsKept
  <2> SUFFICES ASSUME RevenueInv, NEW e \in Events \ overlapped
               PROVE  StakeholdersShown(e) = IF latest[e] = {} THEN {DefaultStakeholders[i] : i \in 1..3}
                                             ELSE latest[e]
    BY DEF LatestSaveIsKept
  <2> DEFINE S == {r.s : r \in RowsOf(e)}
  <2>1. latest[e] = S
    BY DEF RevenueInv, EventInv
  <2>2. CASE RowsOf(e) = {}
    BY <2>1, <2>2, DefaultOnes DEF StakeholdersShown
  <2>3. CASE RowsOf(e) # {}
    <3>1. S # {}
      BY <2>3
    <3>2. IsFiniteSet(RowsOf(e))
      BY FS_Subset DEF RevenueInv, TablesInv, RowsOf
    <3>3. [r \in RowsOf(e) |-> r.s] \in Surjection(RowsOf(e), S)
      BY DEF Surjection
    <3>4. IsFiniteSet(S)
      BY <3>2, <3>3, FS_Surjection
    <3> HIDE DEF S
    <3>5. LET q == SetToSeq(S) IN {q[i] : i \in DOMAIN q} = S
      BY <3>4, SequenceOfSet
    <3>6. StakeholdersShown(e) = S
      BY <2>3, <3>5 DEF StakeholdersShown, S
    <3> QED
      BY <2>1, <3>1, <3>6
  <2> QED
    BY <2>2, <2>3
<1> QED
  BY <1>1, InitInv, NextInv, PTL DEF Spec
-----------------------------------------------------------------------------
(* Finite sets of numbers, and folds over them.                            *)

\* A set of numbers has a smallest one.
LEMMA SmallestOf ==
  ASSUME NEW S \in SUBSET Nat, S # {}
  PROVE  \E n \in S : \A m \in S : n <= m
<1> DEFINE R == OpToRel(<, Nat)
<1>1. IsWellFoundedOn(R, Nat)
  BY NatLessThanWellFounded
<1>2. \A m, n \in Nat : <<m, n>> \in R <=> m < n
  BY DEF OpToRel
<1> HIDE DEF R
<1>3. PICK n \in S : \A m \in S : ~ (<<m, n>> \in R)
  BY <1>1, WFMin
<1>4. ASSUME NEW m \in S
      PROVE  n <= m
  <2>1. m \in Nat /\ n \in Nat /\ ~ (m < n)
    BY <1>2, <1>3, <1>4
  <2> QED
    BY <2>1
<1> QED
  BY <1>4

\* Induction over the subsets of a finite set, P being the set of those for which it holds.
LEMMA SubsetsInduct ==
  ASSUME NEW S, IsFiniteSet(S), NEW P, {} \in P,
         \A s \in SUBSET S : s # {} /\ (\A x \in s : s \ {x} \in P) => s \in P
  PROVE  \A s \in SUBSET S : s \in P
<1> DEFINE bad == {s \in SUBSET S : s \notin P}
           sizes == {Cardinality(s) : s \in bad}
<1> SUFFICES ASSUME bad # {} PROVE FALSE
  OBVIOUS
<1>1. sizes # {} /\ sizes \in SUBSET Nat
  BY FS_Subset, FS_CardinalityType
<1>2. PICK n \in sizes : \A m \in sizes : n <= m
  <2> HIDE DEF sizes
  <2> QED
    BY <1>1, SmallestOf
<1>3. PICK s \in bad : n = Cardinality(s)
  BY <1>2
<1>4. PICK x \in s : s \ {x} \notin P
  BY <1>3
<1>5. IsFiniteSet(s) /\ Cardinality(s) \in Nat
  BY <1>3, FS_Subset, FS_CardinalityType
<1>6. Cardinality(s \ {x}) = Cardinality(s) - 1
  BY <1>4, <1>5, FS_RemoveElement
<1>7. s \ {x} \in SUBSET S /\ s \ {x} \notin P
  BY <1>3, <1>4
<1>8. Cardinality(s \ {x}) \in sizes
  BY <1>7
<1> HIDE DEF sizes
<1> QED
  BY <1>2, <1>3, <1>5, <1>6, <1>8

\* One of finitely many integers is the largest.
LEMMA LargestIs ==
  ASSUME NEW S, IsFiniteSet(S), S # {}, NEW f, \A i \in S : f[i] \in Int
  PROVE  \E i \in S : \A j \in S : f[j] <= f[i]
<1> DEFINE P == {s \in SUBSET S : s # {} => \E i \in s : \A j \in s : f[j] <= f[i]}
<1>1. {} \in P
  OBVIOUS
<1>2. ASSUME NEW s \in SUBSET S, s # {}, \A x \in s : s \ {x} \in P
      PROVE  s \in P
  <2>0. PICK x \in s : s \ {x} \in P
    BY <1>2
  <2>1. CASE s \ {x} = {}
    <3>1. \A j \in s : j = x
      BY <2>1
    <3> QED
      BY <3>1
  <2>2. CASE s \ {x} # {}
    <3>1. PICK i \in s \ {x} : \A j \in s \ {x} : f[j] <= f[i]
      BY <2>0, <2>2
    <3>2. \A j \in s : f[j] \in Int
      OBVIOUS
    <3>3. CASE f[x] <= f[i]
      BY <3>1, <3>3
    <3>4. CASE ~(f[x] <= f[i])
      <4>1. \A j \in s : f[j] <= f[x]
        BY <3>1, <3>2, <3>4
      <4> QED
        BY <4>1
    <3> QED
      BY <3>3, <3>4
  <2> QED
    BY <2>1, <2>2
<1> HIDE DEF P
<1>3. \A s \in SUBSET S : s \in P
  BY <1>1, <1>2, SubsetsInduct
<1>4. S \in P
  BY <1>3
<1> QED
  BY <1>4 DEF P

LEMMA MaxIs ==
  ASSUME NEW S \in SUBSET Nat, IsFiniteSet(S), S # {}
  PROVE  Max(S) \in S /\ \A m \in S : m <= Max(S)
<1> DEFINE f == [i \in S |-> i]
<1>1. \A i \in S : f[i] = i /\ f[i] \in Int
  OBVIOUS
<1> HIDE DEF f
<1>2. PICK i \in S : \A j \in S : f[j] <= f[i]
  BY <1>1, LargestIs
<1>3. \A j \in S : i >= j
  BY <1>1, <1>2
<1>4. Max(S) \in S /\ \A j \in S : Max(S) >= j
  BY <1>3 DEF Max
<1> QED
  BY <1>4

LEMMA MinIs ==
  ASSUME NEW S \in SUBSET Nat, S # {}
  PROVE  Min(S) \in S
BY SmallestOf DEF Min

\* FoldLeft takes the last element of a set of positions and goes on with the others.
LEMMA LastOne ==
  ASSUME NEW S \in SUBSET Nat, IsFiniteSet(S), NEW s \in SUBSET S, s # {}
  PROVE  /\ Max(s) \in s /\ s \ {Max(s)} \in SUBSET S
         /\ IsFiniteSet(s) /\ Cardinality(s) \in Nat \ {0}
         /\ Cardinality(s \ {Max(s)}) = Cardinality(s) - 1
<1>1. IsFiniteSet(s) /\ s \in SUBSET Nat
  BY FS_Subset
<1>2. Max(s) \in s
  BY <1>1, MaxIs
<1>3. Cardinality(s) \in Nat /\ Cardinality(s) # 0
  BY <1>1, FS_CardinalityType, FS_EmptySet
<1>4. Cardinality(s \ {Max(s)}) = Cardinality(s) - 1
  BY <1>1, <1>2, FS_RemoveElement
<1> QED
  BY <1>1, <1>2, <1>3, <1>4

Folding(g, base, step, D) ==
  g = [s \in D |-> IF s = {} THEN base ELSE step[<<Max(s), g[s \ {Max(s)}]>>]]

UpTo(S, n) == {s \in SUBSET S : Cardinality(s) <= n}

\* A fold of steps between values of V exists.
LEMMA FoldsExist ==
  ASSUME NEW S \in SUBSET Nat, IsFiniteSet(S), NEW V, NEW base \in V, NEW step \in [S \X V -> V]
  PROVE  \E g \in [SUBSET S -> V] : Folding(g, base, step, SUBSET S)
<1> DEFINE Fine(n) == \E g \in [UpTo(S, n) -> V] : Folding(g, base, step, UpTo(S, n))
           bad == {n \in Nat : ~Fine(n)}
<1>1. ASSUME bad # {}
      PROVE  FALSE
  <2>1. PICK n \in bad : \A m \in bad : n <= m
    <3>1. bad \in SUBSET Nat
      OBVIOUS
    <3> HIDE DEF bad
    <3> QED
      BY <1>1, <3>1, SmallestOf
  <2>2. n \in Nat /\ ~Fine(n)
    BY <2>1
  <2>3. CASE n = 0
    <3>1. ASSUME NEW s \in UpTo(S, 0)
          PROVE  s = {}
      <4>1. Cardinality(s) \in Nat /\ Cardinality(s) <= 0 /\ IsFiniteSet(s)
        BY <3>1, FS_Subset, FS_CardinalityType DEF UpTo
      <4>2. Cardinality(s) = 0
        BY <4>1
      <4> QED
        BY <4>1, <4>2, FS_EmptySet
    <3> DEFINE g == [s \in UpTo(S, 0) |-> base]
    <3>2. g \in [UpTo(S, 0) -> V] /\ Folding(g, base, step, UpTo(S, 0))
      BY <3>1 DEF Folding
    <3> QED
      BY <2>2, <2>3, <3>2
  <2>4. CASE n # 0
    <3>1. n - 1 \in Nat /\ ~ (n - 1 \in bad)
      BY <2>1, <2>2, <2>4
    <3>2. PICK g \in [UpTo(S, n - 1) -> V] : Folding(g, base, step, UpTo(S, n - 1))
      BY <3>1
    <3> DEFINE h == [s \in UpTo(S, n) |->
                       IF s = {} THEN base ELSE step[<<Max(s), g[s \ {Max(s)}]>>]]
    <3>3. ASSUME NEW s \in UpTo(S, n), s # {}
          PROVE  /\ Max(s) \in S
                 /\ s \ {Max(s)} \in UpTo(S, n)
                 /\ s \ {Max(s)} \in UpTo(S, n - 1)
      <4>1. /\ Cardinality(s \ {Max(s)}) = Cardinality(s) - 1 /\ Cardinality(s) \in Nat
            /\ Max(s) \in S /\ s \ {Max(s)} \in SUBSET S
        BY <3>3, LastOne DEF UpTo
      <4>2. Cardinality(s \ {Max(s)}) <= n - 1 /\ Cardinality(s \ {Max(s)}) <= n
        BY <2>2, <4>1 DEF UpTo
      <4> QED
        BY <4>1, <4>2 DEF UpTo
    <3>4. ASSUME NEW s \in UpTo(S, n - 1)
          PROVE  s \in UpTo(S, n) /\ g[s] = h[s]
      <4>1. s \in UpTo(S, n)
        <5>1. Cardinality(s) \in Nat
          BY FS_Subset, FS_CardinalityType DEF UpTo
        <5> QED
          BY <2>2, <5>1 DEF UpTo
      <4>2. g[s] = IF s = {} THEN base ELSE step[<<Max(s), g[s \ {Max(s)}]>>]
        BY <3>2 DEF Folding
      <4> QED
        BY <4>1, <4>2
    <3>5. ASSUME NEW s \in UpTo(S, n)
          PROVE  h[s] \in V
      BY <3>2, <3>3
    <3>6. ASSUME NEW s \in UpTo(S, n)
          PROVE  h[s] = IF s = {} THEN base ELSE step[<<Max(s), h[s \ {Max(s)}]>>]
      BY <3>3, <3>4
    <3>7. h \in [UpTo(S, n) -> V] /\ Folding(h, base, step, UpTo(S, n))
      <4>1. h = [s \in UpTo(S, n) |-> h[s]]
        OBVIOUS
      <4> HIDE DEF h
      <4>2. h = [s \in UpTo(S, n) |-> IF s = {} THEN base ELSE step[<<Max(s), h[s \ {Max(s)}]>>]]
        BY <3>6, <4>1
      <4>3. h \in [UpTo(S, n) -> V]
        BY <3>5, <4>1
      <4> QED
        BY <4>2, <4>3 DEF Folding
    <3> QED
      BY <2>2, <3>7
  <2> QED
    BY <2>3, <2>4
<1>2. Cardinality(S) \in Nat
  BY FS_CardinalityType
<1>3. Fine(Cardinality(S))
  BY <1>1, <1>2
<1>4. UpTo(S, Cardinality(S)) = SUBSET S
  <2>1. ASSUME NEW s \in SUBSET S
        PROVE  Cardinality(s) <= Cardinality(S)
    BY FS_Subset
  <2> QED
    BY <2>1 DEF UpTo
<1> QED
  BY <1>3, <1>4

-----------------------------------------------------------------------------
(* Sums.                                                                   *)

\* Total is the fold of the additions.
LEMMA TotalIs ==
  ASSUME NEW q, DOMAIN q \in SUBSET Nat, IsFiniteSet(DOMAIN q), \A i \in DOMAIN q : q[i] \in Int
  PROVE  \E g \in [SUBSET DOMAIN q -> Int] :
           /\ g[{}] = 0
           /\ \A s \in SUBSET DOMAIN q : s # {} => g[s] = g[s \ {Max(s)}] + q[Max(s)]
           /\ Total(q) = g[DOMAIN q]
<1> DEFINE S == DOMAIN q
           Eq(g) == g = [s \in SUBSET S |->
                           IF s = {} THEN 0 ELSE g[s \ {Max(s)}] + q[Max(s)]]
           step == [p \in S \X Int |-> p[2] + q[p[1]]]
<1>1. Total(q) = (CHOOSE g : Eq(g))[S]
  BY DEF Total, FoldLeft, MapThenFoldSet
<1>2. step \in [S \X Int -> Int] /\ \A i \in S, v \in Int : step[<<i, v>>] = v + q[i]
  OBVIOUS
<1>3. \A s \in SUBSET S : s # {} => Max(s) \in S /\ s \ {Max(s)} \in SUBSET S
  BY LastOne
<1> HIDE DEF step
<1>4. \E g : Eq(g)
  <2>1. 0 \in Int
    OBVIOUS
  <2>2. PICK g \in [SUBSET S -> Int] : Folding(g, 0, step, SUBSET S)
    BY <1>2, <2>1, FoldsExist
  <2>3. \A s \in SUBSET S : s # {} => step[<<Max(s), g[s \ {Max(s)}]>>] = g[s \ {Max(s)}] + q[Max(s)]
    BY <1>2, <1>3
  <2>4. Eq(g)
    BY <2>2, <2>3 DEF Folding
  <2> QED
    BY <2>4
<1>5. PICK g : Eq(g) /\ Total(q) = g[S]
  <2> HIDE DEF Eq
  <2> QED
    BY <1>1, <1>4
<1>6. /\ g[{}] = 0
      /\ \A s \in SUBSET S : s # {} => g[s] = g[s \ {Max(s)}] + q[Max(s)]
  BY <1>5
<1>7. \A s \in SUBSET S : g[s] \in Int
  <2> DEFINE P == {s \in SUBSET S : g[s] \in Int}
  <2>1. {} \in P
    BY <1>6
  <2>2. ASSUME NEW s \in SUBSET S, s # {}, \A x \in s : s \ {x} \in P
        PROVE  s \in P
    <3>1. Max(s) \in s /\ g[s \ {Max(s)}] \in Int
      BY <2>2, LastOne
    <3>2. g[s] = g[s \ {Max(s)}] + q[Max(s)] /\ q[Max(s)] \in Int
      BY <1>6, <2>2, <3>1
    <3> QED
      BY <3>1, <3>2
  <2> HIDE DEF P
  <2>3. \A s \in SUBSET S : s \in P
    BY <2>1, <2>2, SubsetsInduct
  <2> QED
    BY <2>3 DEF P
<1>8. g \in [SUBSET S -> Int]
  <2>1. g = [s \in SUBSET S |-> g[s]]
    BY <1>5
  <2> QED
    BY <1>7, <2>1
<1> QED
  BY <1>5, <1>6, <1>8

\* Where one number changes, the sum changes as much.
LEMMA TotalMoves ==
  ASSUME NEW q, DOMAIN q \in SUBSET Nat, IsFiniteSet(DOMAIN q), \A i \in DOMAIN q : q[i] \in Int,
         NEW i \in DOMAIN q, NEW x \in Int
  PROVE  /\ Total(q) \in Int
         /\ Total([q EXCEPT ![i] = x]) = Total(q) + (x - q[i])
<1> DEFINE S == DOMAIN q
           r == [q EXCEPT ![i] = x]
<1>1. DOMAIN r = S /\ \A j \in S : r[j] = IF j = i THEN x ELSE q[j]
  OBVIOUS
<1>2. \A j \in S : r[j] \in Int
  BY <1>1
<1> HIDE DEF r
<1>3. PICK g \in [SUBSET S -> Int] :
        /\ g[{}] = 0
        /\ \A s \in SUBSET S : s # {} => g[s] = g[s \ {Max(s)}] + q[Max(s)]
        /\ Total(q) = g[S]
  BY TotalIs
<1>4. PICK h \in [SUBSET S -> Int] :
        /\ h[{}] = 0
        /\ \A s \in SUBSET S : s # {} => h[s] = h[s \ {Max(s)}] + r[Max(s)]
        /\ Total(r) = h[S]
  <2>1. DOMAIN r \in SUBSET Nat /\ IsFiniteSet(DOMAIN r) /\ \A j \in DOMAIN r : r[j] \in Int
    BY <1>1, <1>2
  <2> QED
    BY <1>1, <2>1, TotalIs
<1> DEFINE change(s) == IF i \in s THEN x - q[i] ELSE 0
           P == {s \in SUBSET S : h[s] = g[s] + change(s)}
<1>5. {} \in P
  BY <1>3, <1>4
<1>6. ASSUME NEW s \in SUBSET S, s # {}, \A y \in s : s \ {y} \in P
      PROVE  s \in P
  <2>1. Max(s) \in s /\ s \ {Max(s)} \in SUBSET S
    BY <1>6, LastOne
  <2>2. h[s \ {Max(s)}] = g[s \ {Max(s)}] + change(s \ {Max(s)})
    BY <1>6, <2>1
  <2>3. /\ h[s] = h[s \ {Max(s)}] + r[Max(s)]
        /\ g[s] = g[s \ {Max(s)}] + q[Max(s)]
        /\ r[Max(s)] = IF Max(s) = i THEN x ELSE q[Max(s)]
    BY <1>1, <1>3, <1>4, <1>6, <2>1
  <2>4. q[i] \in Int /\ q[Max(s)] \in Int /\ g[s \ {Max(s)}] \in Int /\ h[s \ {Max(s)}] \in Int
    BY <2>1
  <2>5. i \in s \ {Max(s)} <=> i \in s /\ Max(s) # i
    OBVIOUS
  <2>6. h[s] = g[s] + change(s)
    BY <2>1, <2>2, <2>3, <2>4, <2>5
  <2> QED
    BY <2>6
<1>7. S \in P
  <2> HIDE DEF P
  <2>1. \A s \in SUBSET S : s \in P
    BY <1>5, <1>6, SubsetsInduct
  <2> QED
    BY <2>1
<1> QED
  BY <1>3, <1>4, <1>7 DEF r

-----------------------------------------------------------------------------
(* The order of the stakeholders.                                          *)

\* A priority is one of a rule, or the last.
LEMMA PriorityIs ==
  ASSUME NEW rules, DOMAIN rules \in SUBSET Nat, \A i \in DOMAIN rules : rules[i].priority \in Int,
         NEW s
  PROVE  Priority(s, rules) \in Int
<1> DEFINE mine == {i \in DOMAIN rules : Concerns(rules[i], s)}
<1>1. mine # {} => Min(mine) \in mine
  <2>1. mine \in SUBSET Nat
    OBVIOUS
  <2> HIDE DEF mine
  <2> QED
    BY <2>1, MinIs
<1> QED
  BY <1>1 DEF Priority

\* As many stakeholders are ahead of the k-th as there are before it: the sorted list is a list of
\* stakeholders again.
LEMMA SortedIs ==
  ASSUME NEW S, NEW q \in Seq(S), NEW rules, \A s \in S : Priority(s, rules) \in Int
  PROVE  ByPriority(q, rules) \in Seq(S) /\ DOMAIN ByPriority(q, rules) = DOMAIN q
<1> DEFINE D == DOMAIN q
           n == Len(q)
           A(i) == Ahead(q, rules, i)
           rank == [i \in D |-> Cardinality(A(i)) + 1]
<1>1. n \in Nat /\ D = 1 .. n /\ IsFiniteSet(D) /\ Cardinality(D) = n
  <2>1. n \in Nat /\ D = 1 .. n
    OBVIOUS
  <2> HIDE DEF n, D
  <2> QED
    BY <2>1, FS_Interval
<1>2. \A i \in D : q[i] \in S /\ Priority(q[i], rules) \in Int /\ i \in Int
  BY <1>1
<1>3. \A i \in D : A(i) \subseteq D \ {i}
  BY <1>2 DEF Ahead
<1>4. \A i \in D : IsFiniteSet(A(i)) /\ Cardinality(A(i)) \in 0 .. n - 1
  <2> SUFFICES ASSUME NEW i \in D
               PROVE  IsFiniteSet(A(i)) /\ Cardinality(A(i)) \in 0 .. n - 1
    OBVIOUS
  <2>1. IsFiniteSet(D \ {i}) /\ Cardinality(D \ {i}) = n - 1
    BY <1>1, FS_RemoveElement
  <2>2. IsFiniteSet(A(i)) /\ Cardinality(A(i)) <= n - 1
    BY <1>3, <2>1, FS_Subset
  <2>3. Cardinality(A(i)) \in Nat
    BY <2>2, FS_CardinalityType
  <2> HIDE DEF A
  <2> QED
    BY <1>1, <2>2, <2>3
<1>5. \A i, j \in D : i \in A(j) => Cardinality(A(i)) < Cardinality(A(j))
  <2> SUFFICES ASSUME NEW i \in D, NEW j \in D, i \in A(j)
               PROVE  Cardinality(A(i)) < Cardinality(A(j))
    OBVIOUS
  <2>1. A(i) \subseteq A(j) \ {i}
    <3> SUFFICES ASSUME NEW k \in A(i)
                 PROVE  k \in A(j) /\ k # i
      OBVIOUS
    <3>1. k \in D /\ Priority(q[k], rules) \in Int /\ k \in Int
      BY <1>2 DEF Ahead
    <3>2. Priority(q[i], rules) \in Int /\ Priority(q[j], rules) \in Int /\ i \in Int /\ j \in Int
      BY <1>2
    <3>3. Priority(q[k], rules) < Priority(q[i], rules)
            \/ (Priority(q[k], rules) = Priority(q[i], rules) /\ k < i)
      BY DEF Ahead
    <3>4. Priority(q[i], rules) < Priority(q[j], rules)
            \/ (Priority(q[i], rules) = Priority(q[j], rules) /\ i < j)
      BY DEF Ahead
    <3>5. k # i
      BY <3>1, <3>2, <3>3
    <3>6. Priority(q[k], rules) < Priority(q[j], rules)
            \/ (Priority(q[k], rules) = Priority(q[j], rules) /\ k < j)
      <4>1. PICK pk \in Int : pk = Priority(q[k], rules)
        BY <3>1
      <4>2. PICK pi \in Int : pi = Priority(q[i], rules)
        BY <3>2
      <4>3. PICK pj \in Int : pj = Priority(q[j], rules)
        BY <3>2
      <4>4. pk < pi \/ (pk = pi /\ k < i)
        BY <3>3, <4>1, <4>2
      <4>5. pi < pj \/ (pi = pj /\ i < j)
        BY <3>4, <4>2, <4>3
      <4>6. k \in Int /\ i \in Int /\ j \in Int
        BY <3>1, <3>2
      <4>7. pk < pj \/ (pk = pj /\ k < j)
        <5> HIDE DEF A, D, n, rank
        <5> QED
          BY <4>4, <4>5, <4>6
      <4> QED
        BY <4>1, <4>3, <4>7
    <3> QED
      BY <3>1, <3>5, <3>6 DEF Ahead
  <2>2. IsFiniteSet(A(j) \ {i}) /\ Cardinality(A(j) \ {i}) = Cardinality(A(j)) - 1
    BY <1>4, FS_RemoveElement
  <2>3. Cardinality(A(i)) <= Cardinality(A(j) \ {i})
    BY <2>1, <2>2, FS_Subset
  <2> HIDE DEF A
  <2> QED
    BY <1>1, <1>4, <2>2, <2>3
<1>6. \A i, j \in D : i # j => i \in A(j) \/ j \in A(i)
  BY <1>2 DEF Ahead
<1>7. rank \in Surjection(D, D)
  <2>1. rank \in [D -> D]
    <3> HIDE DEF A
    <3> QED
      BY <1>1, <1>4
  <2>2. ASSUME NEW i \in D, NEW j \in D, i # j
        PROVE  rank[i] # rank[j]
    <3>1. Cardinality(A(i)) # Cardinality(A(j))
      <4>1. Cardinality(A(i)) \in Int /\ Cardinality(A(j)) \in Int
        BY <1>1, <1>4
      <4>2. i \in A(j) \/ j \in A(i)
        BY <1>6, <2>2
      <4> HIDE DEF A
      <4> QED
        BY <1>5, <4>1, <4>2
    <3> HIDE DEF A
    <3> QED
      BY <1>1, <1>4, <3>1
  <2> HIDE DEF rank, D
  <2>3. rank \in Injection(D, D)
    BY <2>1, <2>2 DEF Injection, IsInjective
  <2> QED
    BY <1>1, <2>3, FS_Injection
<1>8. \A k \in D : \E i \in D : Cardinality(A(i)) = k - 1
  <2> SUFFICES ASSUME NEW k \in D
               PROVE  \E i \in D : Cardinality(A(i)) = k - 1
    OBVIOUS
  <2>1. PICK i \in D : rank[i] = k
    <3> HIDE DEF rank, D
    <3> QED
      BY <1>7 DEF Surjection
  <2>2. Cardinality(A(i)) + 1 = k /\ Cardinality(A(i)) \in Int
    <3> HIDE DEF A
    <3> QED
      BY <1>1, <1>4, <2>1
  <2> HIDE DEF A
  <2> QED
    BY <1>1, <2>2
<1> DEFINE at(k) == CHOOSE i \in D : Cardinality(A(i)) = k - 1
<1>9. \A k \in D : at(k) \in D
  <2> HIDE DEF A, D
  <2> QED
    BY <1>8
<1>10. ByPriority(q, rules) = [k \in D |-> q[at(k)]]
  BY DEF ByPriority
<1> HIDE DEF at
<1> QED
  BY <1>1, <1>2, <1>9, <1>10

-----------------------------------------------------------------------------
(* Payments.                                                               *)

Payment(ids) == [id : ids, amount : Int]

\* What the loop over the stakeholders carries along.
Carried(ids) == [paid : Seq(Payment(ids)), left : Int]

LEMMA CentIs == Cent \in Int /\ Cent = 100000
BY DEF Cent

\* Rounding moves an amount by half a cent at most.
LEMMA RoundingIs ==
  ASSUME NEW x \in Int
  PROVE  /\ RoundToCent(x) \in Int
         /\ 2 * (x - RoundToCent(x)) <= Cent
         /\ 2 * (RoundToCent(x) - x) <= Cent
<1> DEFINE cents == x \div 100000
           part == x % 100000
           up == 2 * part > 100000 \/ (2 * part = 100000 /\ cents % 2 = 1)
<1>1. RoundToCent(x) = 100000 * (cents + IF up THEN 1 ELSE 0)
  BY DEF RoundToCent, Cent
<1>2. cents \in Int
  OBVIOUS
<1>3. part \in Int
  OBVIOUS
<1>4. x = 100000 * cents + part
  OBVIOUS
<1>5. 0 <= part
  OBVIOUS
<1>6. part < 100000
  OBVIOUS
<1>7. up => 2 * part >= 100000
  BY <1>3
<1>8. ~up => 2 * part <= 100000
  BY <1>3
<1> HIDE DEF cents, part, up
<1>9. CASE up
  <2>1. RoundToCent(x) = 100000 * (cents + 1)
    BY <1>1, <1>9
  <2> QED
    BY <1>2, <1>3, <1>4, <1>5, <1>6, <1>7, <1>9, <2>1, CentIs
<1>10. CASE ~up
  <2>1. RoundToCent(x) = 100000 * cents
    BY <1>1, <1>2, <1>10
  <2> QED
    BY <1>2, <1>3, <1>4, <1>5, <1>6, <1>8, <1>10, <2>1, CentIs
<1> QED
  BY <1>9, <1>10

\* One turn of the loop.
LEMMA PayIs ==
  ASSUME NEW net \in Int, NEW rules, NEW ids, NEW acc \in Carried(ids),
         NEW s, s.id \in ids, {s.percentage, s.min, s.max} \subseteq Int
  PROVE  Pay(net, rules, acc, s) \in Carried(ids)
<1>1. s.percentage \in Int /\ s.min \in Int /\ s.max \in Int
  OBVIOUS
<1>2. net \div 100 \in Int
  OBVIOUS
<1>3. (net \div 100) * s.percentage \in Int
  BY <1>1, <1>2
<1>4. Constrained(s, (net \div 100) * s.percentage) \in Int
  BY <1>1, <1>3, CentIs DEF Constrained
<1>5. acc.left \in Int /\ acc.paid \in Seq(Payment(ids))
  BY DEF Carried
<1> DEFINE amount == Smaller(Constrained(s, (net \div 100) * s.percentage), acc.left)
<1>6. amount \in Int
  BY <1>4, <1>5 DEF Smaller
<1>7. Pay(net, rules, acc, s) =
        IF HasRule(s, rules)
        THEN [paid |-> Append(acc.paid, [id |-> s.id, amount |-> RoundToCent(amount)]),
              left |-> acc.left - amount]
        ELSE acc
  BY DEF Pay
<1> HIDE DEF amount
<1>8. [id |-> s.id, amount |-> RoundToCent(amount)] \in Payment(ids)
  BY <1>6, RoundingIs DEF Payment
<1>9. Append(acc.paid, [id |-> s.id, amount |-> RoundToCent(amount)]) \in Seq(Payment(ids))
  BY <1>5, <1>8
<1>10. acc.left - amount \in Int
  BY <1>5, <1>6
<1> QED
  BY <1>7, <1>9, <1>10 DEF Carried

\* The loop over the stakeholders.
LEMMA PaidIs ==
  ASSUME NEW net \in Int, NEW rules, NEW S, NEW ids, NEW q \in Seq(S),
         \A s \in S : /\ Priority(s, rules) \in Int
                      /\ s.id \in ids /\ {s.percentage, s.min, s.max} \subseteq Int
  PROVE  Paid(net, q, rules) \in Seq(Payment(ids))
<1> DEFINE z == ByPriority(q, rules)
           D == DOMAIN z
           V == Carried(ids)
           base == [paid |-> << >>, left |-> net]
           Eq(g) == g = [s \in SUBSET D |->
                           IF s = {} THEN base ELSE Pay(net, rules, g[s \ {Max(s)}], z[Max(s)])]
           step == [p \in D \X V |-> Pay(net, rules, p[2], z[p[1]])]
<1>1. z \in Seq(S)
  BY SortedIs
<1>2. Paid(net, q, rules) = (CHOOSE g : Eq(g))[D].paid
  BY DEF Paid, FoldLeft, MapThenFoldSet
<1> HIDE DEF z
<1>3. /\ D \in SUBSET Nat /\ IsFiniteSet(D)
      /\ \A i \in D : z[i] \in S
  <2>1. D = 1 .. Len(z) /\ Len(z) \in Nat
    BY <1>1
  <2>2. IsFiniteSet(1 .. Len(z))
    BY <2>1, FS_Interval
  <2> QED
    BY <1>1, <2>1, <2>2
<1>4. base \in V
  BY DEF Carried
<1>5. \A i \in D, acc \in V : Pay(net, rules, acc, z[i]) \in V
  BY <1>3, PayIs
<1>6. step \in [D \X V -> V] /\ \A i \in D, acc \in V : step[<<i, acc>>] = Pay(net, rules, acc, z[i])
  BY <1>5
<1>7. \A s \in SUBSET D : s # {} => Max(s) \in D /\ s \ {Max(s)} \in SUBSET D
  BY <1>3, LastOne
<1> HIDE DEF base, V, step, D
<1>8. \E g : Eq(g)
  <2>1. PICK g \in [SUBSET D -> V] : Folding(g, base, step, SUBSET D)
    BY <1>3, <1>4, <1>6, FoldsExist
  <2>2. \A s \in SUBSET D : s # {} =>
          step[<<Max(s), g[s \ {Max(s)}]>>] = Pay(net, rules, g[s \ {Max(s)}], z[Max(s)])
    BY <1>6, <1>7
  <2>3. Eq(g)
    BY <2>1, <2>2 DEF Folding
  <2> QED
    BY <2>3
<1>9. PICK g : Eq(g) /\ Paid(net, q, rules) = g[D].paid
  <2> HIDE DEF Eq
  <2> QED
    BY <1>2, <1>8
<1> DEFINE P == {s \in SUBSET D : g[s] \in V}
<1>10. {} \in P
  BY <1>4, <1>9
<1>11. ASSUME NEW s \in SUBSET D, s # {}, \A x \in s : s \ {x} \in P
       PROVE  s \in P
  <2>1. Max(s) \in s /\ Max(s) \in D
    BY <1>3, <1>11, LastOne
  <2>2. g[s \ {Max(s)}] \in V
    BY <1>11, <2>1
  <2>3. g[s] = Pay(net, rules, g[s \ {Max(s)}], z[Max(s)])
    BY <1>9, <1>11
  <2> QED
    BY <1>5, <2>1, <2>2, <2>3
<1>12. g[D] \in V
  <2> HIDE DEF P
  <2>1. \A s \in SUBSET D : s \in P
    BY <1>3, <1>10, <1>11, SubsetsInduct
  <2>2. D \in P
    BY <2>1
  <2> QED
    BY <2>2 DEF P
<1> QED
  BY <1>9, <1>12 DEF V, Carried

\* A list of payments has a largest one, and a first one among those.
LEMMA LargestPaid ==
  ASSUME NEW ids, NEW paid \in Seq(Payment(ids)), paid # << >>
  PROVE  Largest(paid) \in DOMAIN paid
<1> DEFINE D == DOMAIN paid
           f == [i \in D |-> paid[i].amount]
<1>1. D = 1 .. Len(paid) /\ Len(paid) \in Nat /\ Len(paid) # 0
  OBVIOUS
<1>2. \A i \in D : paid[i].amount \in Int
  <2>1. \A i \in D : paid[i] \in Payment(ids)
    OBVIOUS
  <2> QED
    BY <2>1 DEF Payment
<1>3. IsFiniteSet(D) /\ D # {} /\ D \in SUBSET Nat
  <2>1. IsFiniteSet(1 .. Len(paid))
    BY <1>1, FS_Interval
  <2>2. 1 \in D
    BY <1>1
  <2>3. D \in SUBSET Nat
    BY <1>1
  <2> HIDE DEF D
  <2> QED
    BY <1>1, <2>1, <2>2, <2>3
<1>4. \A i \in D : f[i] = paid[i].amount /\ f[i] \in Int
  BY <1>2
<1> DEFINE most == {i \in D : \A j \in D : paid[j].amount <= paid[i].amount}
<1>5. most # {}
  <2>1. PICK i \in D : \A j \in D : f[j] <= f[i]
    <3> HIDE DEF f, D
    <3> QED
      BY <1>3, <1>4, LargestIs
  <2>2. \A j \in D : paid[j].amount <= paid[i].amount
    BY <1>4, <2>1
  <2> QED
    BY <2>2
<1>6. PICK i \in most : \A j \in most : i <= j
  <2>1. most \in SUBSET Nat
    BY <1>3
  <2> HIDE DEF most
  <2> QED
    BY <1>5, <2>1, SmallestOf
<1>7. i \in D /\ \A j \in D : paid[j].amount <= paid[i].amount
  BY <1>6
<1>8. ASSUME NEW j \in 1 .. (i - 1)
      PROVE  paid[j].amount < paid[i].amount
  <2>1. j \in D /\ j < i /\ j \in Nat /\ i \in Nat
    BY <1>1, <1>7
  <2>2. j \notin most
    BY <1>6, <2>1
  <2>3. PICK k \in D : ~(paid[k].amount <= paid[j].amount)
    BY <2>1, <2>2
  <2>4. paid[k].amount <= paid[i].amount
    BY <1>7
  <2> HIDE DEF D
  <2> QED
    BY <1>2, <1>7, <2>1, <2>3, <2>4
<1> QED
  BY <1>7, <1>8 DEF Largest

-----------------------------------------------------------------------------
(* What is paid out.                                                       *)

\* The sum of the payments is an integer.
LEMMA TotalPaidIs ==
  ASSUME NEW ids, NEW paid \in Seq(Payment(ids))
  PROVE  LET amounts == [i \in DOMAIN paid |-> paid[i].amount]
         IN /\ DOMAIN amounts \in SUBSET Nat /\ IsFiniteSet(DOMAIN amounts)
            /\ \A i \in DOMAIN amounts : amounts[i] \in Int
            /\ TotalPaid(paid) = Total(amounts)
<1> DEFINE D == DOMAIN paid
           amounts == [i \in D |-> paid[i].amount]
<1>1. D = 1 .. Len(paid) /\ Len(paid) \in Nat
  OBVIOUS
<1>2. IsFiniteSet(D) /\ D \in SUBSET Nat
  <2>1. IsFiniteSet(1 .. Len(paid))
    BY <1>1, FS_Interval
  <2>2. D \in SUBSET Nat
    BY <1>1
  <2> HIDE DEF D
  <2> QED
    BY <1>1, <2>1, <2>2
<1>3. \A i \in D : paid[i].amount \in Int
  <2>1. \A i \in D : paid[i] \in Payment(ids)
    OBVIOUS
  <2> QED
    BY <2>1 DEF Payment
<1>4. TotalPaid(paid) = Total(amounts)
  BY DEF TotalPaid
<1>5. DOMAIN amounts = D /\ \A i \in D : amounts[i] = paid[i].amount
  OBVIOUS
<1> HIDE DEF D
<1>6. DOMAIN amounts \in SUBSET Nat /\ IsFiniteSet(DOMAIN amounts)
  BY <1>2, <1>5
<1>7. \A i \in DOMAIN amounts : amounts[i] \in Int
  BY <1>3, <1>5
<1> QED
  BY <1>4, <1>6, <1>7 DEF D

LEMMA MagnitudeIs ==
  ASSUME NEW x \in Int
  PROVE  Magnitude(x) <= Cent <=> x <= Cent /\ -x <= Cent
<1>1. Cent \in Int /\ Cent > 0
  BY CentIs
<1> QED
  BY <1>1 DEF Magnitude

\* After the adjustment no more than a cent is left, or too much, when anyone is paid: the largest
\* payee's amount is rounded twice, by half a cent at most each time.
LEMMA AdjustedAddsUp ==
  ASSUME NEW net \in Int, NEW ids, NEW paid \in Seq(Payment(ids)), Adjusted(net, paid) # << >>
  PROVE  Magnitude(net - TotalPaid(Adjusted(net, paid))) <= Cent
<1> DEFINE amounts == [i \in DOMAIN paid |-> paid[i].amount]
           rest == net - TotalPaid(paid)
           most == Largest(paid)
           moved == RoundToCent(paid[most].amount + RoundToCent(rest))
           new == [paid EXCEPT ![most].amount = moved]
<1>1. /\ DOMAIN amounts \in SUBSET Nat /\ IsFiniteSet(DOMAIN amounts)
      /\ \A i \in DOMAIN amounts : amounts[i] \in Int
      /\ TotalPaid(paid) = Total(amounts)
  BY TotalPaidIs
<1>2. CASE paid = << >>
  BY <1>2 DEF Adjusted
<1>3. CASE paid # << >> /\ Magnitude(rest) <= Cent
  <2>1. Adjusted(net, paid) = paid
    BY <1>3 DEF Adjusted
  <2> QED
    BY <1>3, <2>1
<1>4. CASE paid # << >> /\ ~ (Magnitude(rest) <= Cent)
  <2>1. Adjusted(net, paid) = new
    BY <1>4 DEF Adjusted
  <2>2. most \in DOMAIN paid
    BY <1>4, LargestPaid
  <2>3. paid[most].amount \in Int /\ amounts[most] = paid[most].amount
    BY <1>1, <2>2
  <2>4. Total(amounts) \in Int
    <3> HIDE DEF amounts
    <3>1. PICK g \in [SUBSET DOMAIN amounts -> Int] : Total(amounts) = g[DOMAIN amounts]
      BY <1>1, TotalIs
    <3> QED
      BY <3>1
  <2>5. rest \in Int
    BY <1>1, <2>4
  <2>6. RoundToCent(rest) \in Int /\ 2 * (rest - RoundToCent(rest)) <= Cent
        /\ 2 * (RoundToCent(rest) - rest) <= Cent
    <3> HIDE DEF rest
    <3> QED
      BY <2>5, RoundingIs
  <2> DEFINE sum == paid[most].amount + RoundToCent(rest)
  <2>7. sum \in Int
    BY <2>3, <2>6
  <2>8. moved \in Int /\ 2 * (sum - moved) <= Cent /\ 2 * (moved - sum) <= Cent
    <3>1. moved = RoundToCent(sum)
      OBVIOUS
    <3> HIDE DEF sum, moved
    <3> QED
      BY <2>7, <3>1, RoundingIs
  <2> HIDE DEF moved
  <2>9. DOMAIN new = DOMAIN paid
        /\ \A i \in DOMAIN paid : new[i].amount = IF i = most THEN moved ELSE paid[i].amount
    <3>1. \A i \in DOMAIN paid : paid[i] \in Payment(ids)
      OBVIOUS
    <3>2. \A i \in DOMAIN paid : paid[i] = [id |-> paid[i].id, amount |-> paid[i].amount]
      BY <3>1 DEF Payment
    <3> HIDE DEF most
    <3> QED
      BY <2>2, <3>2
  <2>10. [i \in DOMAIN new |-> new[i].amount] = [amounts EXCEPT ![most] = moved]
    <3> HIDE DEF new, most
    <3> QED
      BY <2>2, <2>9
  <2>11. TotalPaid(new) = Total([amounts EXCEPT ![most] = moved])
    <3> HIDE DEF new, amounts
    <3> QED
      BY <2>10 DEF TotalPaid
  <2>12. most \in DOMAIN amounts
    BY <2>2
  <2>13. TotalPaid(new) = Total(amounts) + (moved - amounts[most])
    <3> HIDE DEF new, amounts, most
    <3> QED
      BY <1>1, <2>8, <2>11, <2>12, TotalMoves
  <2>14. net - TotalPaid(new) = (rest - RoundToCent(rest)) + (sum - moved)
    <3>1. rest = net - Total(amounts) /\ sum = amounts[most] + RoundToCent(rest)
      BY <1>1, <2>3
    <3> HIDE DEF new, amounts, most, rest, sum
    <3>2. PICK t \in Int : t = Total(amounts)
      BY <2>4
    <3>3. PICK a \in Int : a = amounts[most]
      BY <2>3
    <3>4. PICK r \in Int : r = RoundToCent(rest)
      BY <2>6
    <3>5. TotalPaid(new) = t + (moved - a) /\ rest = net - t /\ sum = a + r
      BY <2>13, <3>1, <3>2, <3>3, <3>4
    <3>6. net - (t + (moved - a)) = ((net - t) - r) + ((a + r) - moved)
      BY <2>8
    <3> QED
      BY <3>4, <3>5, <3>6
  <2> DEFINE gap == net - TotalPaid(new)
  <2>15. gap \in Int /\ gap <= Cent /\ -gap <= Cent
    <3> HIDE DEF new, most, rest, sum
    <3> QED
      BY <2>5, <2>6, <2>7, <2>8, <2>14, CentIs
  <2>16. Magnitude(gap) <= Cent
    <3> HIDE DEF gap
    <3> QED
      BY <2>15, MagnitudeIs
  <2> QED
    BY <2>1, <2>16
<1> QED
  BY <1>2, <1>3, <1>4

-----------------------------------------------------------------------------
(* The calculations.                                                       *)

\* The stakeholders there may be: those of the lists that are saved, and the default ones.
Parties == Stakeholders \cup {DefaultStakeholders[i] : i \in 1 .. 3}

LEMMA PartiesAre ==
  \A s \in Parties : {s.percentage, s.min, s.max} \subseteq Int
<1>1. \A s \in Stakeholders : {s.percentage, s.min, s.max} \subseteq Int
  BY Amounts
<1>2. OrganizerShare \in Int /\ PlatformFee \in Int /\ VenueFee \in Int
  BY RatesAssumption
<1>3. \A i \in 1 .. 3 : {DefaultStakeholders[i].percentage, DefaultStakeholders[i].min,
                         DefaultStakeholders[i].max} \subseteq Int
  <2>1. {DefaultStakeholders[1].percentage, DefaultStakeholders[1].min, DefaultStakeholders[1].max} \subseteq Int
    BY <1>2 DEF DefaultStakeholders
  <2>2. {DefaultStakeholders[2].percentage, DefaultStakeholders[2].min, DefaultStakeholders[2].max} \subseteq Int
    BY <1>2 DEF DefaultStakeholders
  <2>3. {DefaultStakeholders[3].percentage, DefaultStakeholders[3].min, DefaultStakeholders[3].max} \subseteq Int
    BY <1>2 DEF DefaultStakeholders
  <2> HIDE DEF DefaultStakeholders
  <2> QED
    BY <2>1, <2>2, <2>3
<1> QED
  BY <1>1, <1>3 DEF Parties

\* A calculation asked for has integers for amounts, and so have the rules it goes by.
LEMMA RulesAre ==
  ASSUME NEW input \in Inputs
  PROVE  /\ DOMAIN Rules(input) \in SUBSET Nat
         /\ \A i \in DOMAIN Rules(input) : Rules(input)[i].priority \in Int
<1>1. DOMAIN DefaultRules = 1 .. 3
  BY DEF DefaultRules
<1>2. \A i \in 1 .. 3 : DefaultRules[i].priority \in Int
  <2>1. DefaultRules[1].priority = 1 /\ DefaultRules[2].priority = 2 /\ DefaultRules[3].priority = 3
    BY DEF DefaultRules
  <2> HIDE DEF DefaultRules
  <2> QED
    BY <2>1
<1>3. DOMAIN input.rules \subseteq Nat /\ \A i \in DOMAIN input.rules : input.rules[i].priority \in Int
  BY Amounts
<1> QED
  BY <1>1, <1>2, <1>3 DEF Rules

LEMMA NetIs ==
  ASSUME NEW input \in Inputs
  PROVE  NetRevenue(input) \in Int
<1>1. input.sales \in Int /\ input.tickets \in Int /\ input.extra \in Int
  BY Amounts
<1>2. Rate(input) \in Int
  <2>1. CASE {"USD", input.currency} \subseteq Supported \cap DOMAIN input.rates
    <3>1. input.rates[input.currency] \in Nat \ {0} /\ input.rates["USD"] \in Nat \ {0}
      BY <2>1, Amounts
    <3>2. (100 * input.rates[input.currency]) \div input.rates["USD"] \in Int
      BY <3>1
    <3> QED
      BY <2>1, <3>2 DEF Rate
  <2>2. CASE ~ ({"USD", input.currency} \subseteq Supported \cap DOMAIN input.rates)
    BY <2>2 DEF Rate
  <2> QED
    BY <2>1, <2>2
<1>3. ProcessingRate \in Int /\ FixedFee \in Int /\ PlatformFee \in Int
  BY RatesAssumption
<1>4. Cent \in Int /\ Cent \div 1000 \in Int /\ Cent \div 100 \in Int
  BY CentIs
<1>5. \A x, y \in Int : x * y \in Int /\ x + y \in Int /\ x - y \in Int
  OBVIOUS
<1>6. input.sales * ProcessingRate * (Cent \div 1000) \in Int
  BY <1>1, <1>3, <1>4, <1>5
<1>7. input.tickets * FixedFee * Rate(input) * (Cent \div 100) \in Int
  BY <1>1, <1>2, <1>3, <1>4, <1>5
<1>8. input.sales * PlatformFee * (Cent \div 100) \in Int
  BY <1>1, <1>3, <1>4, <1>5
<1>9. input.extra * Cent \in Int /\ input.sales * Cent \in Int
  BY <1>1, <1>4, <1>5
<1>10. Fees(input) \in Int
  BY <1>5, <1>6, <1>7, <1>8, <1>9 DEF Fees
<1> QED
  BY <1>5, <1>9, <1>10 DEF NetRevenue

\* Whatever list of stakeholders a calculation is made for, its payments add up.
LEMMA CalculationAddsUp ==
  ASSUME NEW input \in Inputs, NEW q \in Seq(Parties), Calculation(input, q).paid # << >>
  PROVE  Magnitude(Calculation(input, q).net - Calculation(input, q).total) <= Cent
<1> DEFINE net == NetRevenue(input)
           ids == {s.id : s \in Parties}
           paid == Paid(net, q, Rules(input))
<1>1. net \in Int
  BY NetIs
<1>2. \A s \in Parties : /\ Priority(s, Rules(input)) \in Int
                         /\ s.id \in ids /\ {s.percentage, s.min, s.max} \subseteq Int
  BY PartiesAre, PriorityIs, RulesAre
<1>3. paid \in Seq(Payment(ids))
  <2> HIDE DEF net, ids
  <2> QED
    BY <1>1, <1>2, PaidIs
<1>4. /\ Calculation(input, q).net = net
      /\ Calculation(input, q).paid = Adjusted(net, paid)
      /\ Calculation(input, q).total = TotalPaid(Adjusted(net, paid))
  BY DEF Calculation
<1> HIDE DEF net, paid, ids
<1> QED
  BY <1>1, <1>3, <1>4, AdjustedAddsUp

\* The lists a calculation may read.
LEMMA ListsAre ==
  ASSUME RevenueInv, NEW e \in Events, NEW q \in StakeholderLists(e)
  PROVE  q \in Seq(Parties)
<1>1. CASE RowsOf(e) = {}
  <2>1. q = DefaultStakeholders
    BY <1>1 DEF StakeholderLists
  <2>2. \A i \in 1 .. 3 : DefaultStakeholders[i] \in Parties
    BY DEF Parties
  <2>3. DefaultStakeholders = <<DefaultStakeholders[1], DefaultStakeholders[2], DefaultStakeholders[3]>>
    BY DEF DefaultStakeholders
  <2>4. PICK d : d = DefaultStakeholders
    OBVIOUS
  <2>5. <<d[1], d[2], d[3]>> \in Seq(Parties)
    BY <2>2, <2>4
  <2> HIDE DEF DefaultStakeholders
  <2> QED
    BY <2>1, <2>3, <2>4, <2>5
<1>2. CASE RowsOf(e) # {}
  <2> DEFINE S == {r.s : r \in RowsOf(e)}
  <2>1. IsFiniteSet(RowsOf(e)) /\ \A r \in RowsOf(e) : r.s \in Stakeholders
    BY FS_Subset DEF RevenueInv, TablesInv, RowsOf, TableRow
  <2>2. [r \in RowsOf(e) |-> r.s] \in Surjection(RowsOf(e), S)
    BY DEF Surjection
  <2>3. IsFiniteSet(S)
    BY <2>1, <2>2, FS_Surjection
  <2>4. S \subseteq Parties
    BY <2>1 DEF Parties
  <2>5. q \in SetToSeqs(S)
    BY <1>2 DEF StakeholderLists
  <2> HIDE DEF S
  <2>6. q \in [1 .. Cardinality(S) -> S] /\ Cardinality(S) \in Nat
    BY <2>3, <2>5, FS_CardinalityType DEF SetToSeqs
  <2> QED
    BY <2>4, <2>6
<1> QED
  BY <1>1, <1>2

\* The payments of a result add up.
AddsUp(result) == result.paid # << >> => Magnitude(result.net - result.total) <= Cent

PaymentsInv == AddsUp(last) /\ \A w \in waiting \cup history : AddsUp(w.result)

LEMMA PaymentsInit == Init => PaymentsInv
BY DEF Init, PaymentsInv, AddsUp

LEMMA PaymentsNext == RevenueInv /\ PaymentsInv /\ [Next]_vars => PaymentsInv'
<1> SUFFICES ASSUME RevenueInv, PaymentsInv, [Next]_vars PROVE PaymentsInv'
  OBVIOUS
<1>1. CASE UNCHANGED vars
  BY <1>1 DEF vars, calcVars, PaymentsInv
<1>2. CASE \E t \in Savers : SaveStep(t)
  <2>1. PICK t \in Savers : SaveStep(t)
    BY <1>2
  <2>2. UNCHANGED calcVars
    <3>1. CASE \E e \in Events, c \in Configs : BeginSave(t, e, c)
      BY <3>1 DEF BeginSave
    <3>2. CASE Delete(t)
      BY <3>2 DEF Delete
    <3>3. CASE Insert(t)
      BY <3>3 DEF Insert
    <3>4. CASE Commit(t)
      BY <3>4 DEF Commit
    <3>5. CASE SaveFails(t)
      BY <3>5 DEF SaveFails
    <3> QED
      BY <2>1, <3>1, <3>2, <3>3, <3>4, <3>5 DEF SaveStep
  <2> QED
    BY <2>2 DEF calcVars, PaymentsInv
<1>3. CASE \E e \in Events, input \in Inputs : Calculate(e, input)
  <2>1. PICK e \in Events, input \in Inputs : Calculate(e, input)
    BY <1>3
  <2>2. PICK q \in StakeholderLists(e) :
          /\ last' = Calculation(input, q)
          /\ waiting' = waiting \cup {[nr |-> calcs + 1, event |-> e, result |-> Calculation(input, q)]}
          /\ history' = history
    BY <2>1 DEF Calculate
  <2>3. q \in Seq(Parties)
    BY ListsAre
  <2>4. AddsUp(Calculation(input, q))
    BY <2>3, CalculationAddsUp DEF AddsUp
  <2>5. PICK result : result = Calculation(input, q)
    OBVIOUS
  <2>6. \A w \in waiting' \cup history' : w \in waiting \cup history \/ w.result = result
    BY <2>2, <2>5
  <2> QED
    BY <2>2, <2>4, <2>5, <2>6 DEF PaymentsInv
<1>4. CASE \E w \in waiting : SaveCalculation(w) \/ SaveCalculationFails(w)
  BY <1>4 DEF SaveCalculation, SaveCalculationFails, PaymentsInv
<1>5. CASE Restart
  BY <1>5 DEF Restart, PaymentsInv
<1> QED
  BY <1>1, <1>2, <1>3, <1>4, <1>5 DEF Next

\* All of the net revenue is paid out, to a cent, whenever anyone is paid: for every list of
\* stakeholders and every input, in what is answered and in what the history keeps.
THEOREM RevenuePayouts == Spec => []PayoutsAddUp
<1>1. PaymentsInv => PayoutsAddUp
  BY DEF PaymentsInv, AddsUp, PayoutsAddUp, HistoryOf
<1>2. Init => RevenueInv /\ PaymentsInv
  BY InitInv, PaymentsInit
<1>3. RevenueInv /\ PaymentsInv /\ [Next]_vars => (RevenueInv /\ PaymentsInv)'
  BY NextInv, PaymentsNext
<1> QED
  BY <1>1, <1>2, <1>3, PTL DEF Spec
=============================================================================
