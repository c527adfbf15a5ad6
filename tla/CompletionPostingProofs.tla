---------------------- MODULE CompletionPostingProofs -----------------------
(***************************************************************************)
(* For any number of threads, rows and entries and any quantities: no row  *)
(* of the ledger is journaled twice (JournalInv), a short order is         *)
(* accepted before anything of it was received (AcceptInv), finished goods *)
(* are received once but for the named histories (ReceiptInv), work in     *)
(* progress clears (WipInv), and rows and entries are committed as in the  *)
(* book that makes one entry at a time (BookInv).                          *)
(*                                                                         *)
(* The first rests on the advisory lock: one session at a time has swept   *)
(* and not committed, and what it has swept nobody else can touch, as it   *)
(* is committed or its own and has no entry.  The second rests on the lock *)
(* of the order's row and on the script's posting no stock, the third on   *)
(* what each handler has read of the order while nobody overtook it.  In   *)
(* the fourth, an entry books out what its rows cost, and the sums are     *)
(* over the rows of the ledger; the last shows the same rows at the same   *)
(* cost from their sweep to the commit of their entry.                     *)
(***************************************************************************)
EXTENDS CompletionPosting, FiniteLemmas, TLAPS

(* The fields of the records; the invariants below type the values they    *)
(* need.                                                                   *)
RowFields == {"kind", "cost", "entry", "by"}
EntryFields == {"status", "rows", "consumed", "received", "scrap", "scripted"}
SessionFields == {"pc", "kind", "good", "bad", "seen", "read", "swept", "scrap", "stale"}

Shapes ==
    /\ DOMAIN row = Rows /\ \A r \in Rows : DOMAIN row[r] = RowFields
    /\ DOMAIN entry = Entries /\ \A e \in Entries : DOMAIN entry[e] = EntryFields
    /\ DOMAIN session = Sessions /\ \A s \in Sessions : DOMAIN session[s] = SessionFields

(* The advisory lock.                                                      *)
OneSweeper ==
    \A s, t \in Sessions : session[s].pc = "swept" /\ session[t].pc = "swept" => s = t

(* What a session has swept.                                               *)
SweptRows ==
    \A s \in Sessions :
        /\ session[s].pc # "swept" => session[s].swept = {}
        /\ session[s].pc = "swept" => Unused # {}
        /\ session[s].swept \subseteq
             {r \in Rows : row[r].kind # "free" /\ row[r].by \in {s, NoSession}
                             /\ row[r].entry = NoEntry}

(* Entries are for rows that are committed.                                *)
CommittedRows ==
    \A r \in Rows : row[r].kind = "free" \/ row[r].by # NoSession => row[r].entry = NoEntry

EntryRows == \A e \in Entries : entry[e].rows \subseteq Rows

JournalInv ==
    Shapes /\ OneSweeper /\ SweptRows /\ CommittedRows /\ EntryRows /\ JournaledOnce

-----------------------------------------------------------------------------

(* A set of positive numbers has a first element.                          *)
LEMMA FirstIsMember ==
  ASSUME NEW S, S \subseteq Nat, S # {}
  PROVE  First(S) \in S
<1> DEFINE Segments == {1..x : x \in S}
<1>1. Segments \subseteq FiniteSubsetsOf(Nat) /\ Segments # {}
  <2>1. \A x \in S : 1..x \subseteq Nat /\ IsFiniteSet(1..x)
    BY FS_Interval
  <2> QED
    BY <2>1 DEF FiniteSubsetsOf
<1>2. PICK x \in S : \A y \in S : ~(<<1..y, 1..x>> \in StrictSubsetOrdering(Nat))
  <2>1. PICK X \in Segments : \A Y \in Segments : ~(<<Y, X>> \in StrictSubsetOrdering(Nat))
    BY <1>1, FS_StrictSubsetOrderingWellFounded, WFMin, Zenon
  <2> QED
    BY <2>1
<1>3. \A y \in S : x <= y
  <2> SUFFICES ASSUME NEW y \in S, ~(x <= y) PROVE FALSE
    OBVIOUS
  <2>1. 1..y \subseteq 1..x /\ x \in 1..x /\ x \notin 1..y /\ 1..x \subseteq Nat
    OBVIOUS
  <2>2. <<1..y, 1..x>> \in StrictSubsetOrdering(Nat)
    BY <2>1 DEF StrictSubsetOrdering
  <2> QED
    BY <1>2, <2>2
<1> QED
  BY <1>3 DEF First

(* A ledger with two rows free gives both of those that are asked for.     *)
LEMMA FreeRowsAreFree ==
  ASSUME Cardinality(Free) >= 2, NEW used, used = First(Free)
  PROVE  used \in Free /\ First(Free \ {used}) \in Free \ {used} /\ First(Free) \in Free
<1>1. IsFiniteSet(Free) /\ Free \subseteq Nat
  <2>1. IsFiniteSet(Rows) /\ Rows \subseteq Nat
    BY BoundsAssumption, FS_Interval DEF Rows
  <2>2. Free \in SUBSET Rows
    BY DEF Free
  <2> QED
    BY <2>1, <2>2, FS_Subset
<1>2. Free # {}
  BY FS_EmptySet
<1>3. used \in Free
  BY <1>1, <1>2, FirstIsMember
<1>4. Cardinality(Free) \in Nat
  BY <1>1, FS_CardinalityType
<1>5. Free \ {used} # {}
  BY <1>1, <1>3, <1>4, FS_RemoveElement, FS_EmptySet
<1>6. First(Free \ {used}) \in Free \ {used}
  BY <1>1, <1>5, FirstIsMember
<1> QED
  BY <1>3, <1>6

(* A request that touches neither rows nor entries, and has not swept.     *)
LEMMA QuietStep ==
  ASSUME JournalInv, NEW s \in Sessions, UNCHANGED <<row, entry>>,
         DOMAIN session' = Sessions, \A t \in Sessions \ {s} : session'[t] = session[t],
         DOMAIN session'[s] = SessionFields, session'[s].pc # "swept", session'[s].swept = {}
  PROVE  JournalInv'
<1>1. Shapes'
  BY DEF JournalInv, Shapes
<1>2. OneSweeper'
  BY DEF JournalInv, OneSweeper
<1>3. SweptRows'
  BY DEF JournalInv, SweptRows, Unused
<1>4. CommittedRows' /\ EntryRows' /\ JournaledOnce'
  BY DEF JournalInv, CommittedRows, EntryRows, JournaledOnce, Posted
<1> QED
  BY <1>1, <1>2, <1>3, <1>4 DEF JournalInv

(* An order without ledger rows has no journal entries.                    *)
LEMMA JournalInvInit == ASSUME Init PROVE JournalInv
<1>1. Shapes
  BY DEF Init, Shapes, FreeRow, FreeEntry, Idle, RowFields, EntryFields, SessionFields
<1>2. OneSweeper /\ SweptRows
  BY DEF Init, OneSweeper, SweptRows, Idle
<1>3. CommittedRows /\ EntryRows /\ JournaledOnce
  BY DEF Init, CommittedRows, EntryRows, JournaledOnce, Posted, FreeRow, FreeEntry
<1> QED
  BY <1>1, <1>2, <1>3 DEF JournalInv

(* Loading an order.                                                       *)
LEMMA LoadsKeepsJournal ==
  ASSUME JournalInv, NEW s \in Sessions, NEW kind, NEW good, NEW bad, Loads(s, kind, good, bad)
  PROVE  JournalInv'
<1>1. DOMAIN session = Sessions
  BY DEF JournalInv, Shapes
<1> QED
  BY <1>1, QuietStep DEF Loads, Idle, SessionFields

(* Reading its material rows.                                              *)
LEMMA ReadMaterialsKeepsJournal ==
  ASSUME JournalInv, NEW s \in Sessions, ReadMaterials(s)
  PROVE  JournalInv'
<1>1. DOMAIN session = Sessions /\ DOMAIN session[s] = SessionFields /\ session[s].swept = {}
  BY DEF JournalInv, Shapes, SweptRows, ReadMaterials
<1> QED
  BY <1>1, QuietStep DEF ReadMaterials, SessionFields

(* Posting the scrap of a report.                                          *)
LEMMA PostScrapKeepsJournal ==
  ASSUME JournalInv, NEW s \in Sessions, PostScrap(s)
  PROVE  JournalInv'
<1>1. DOMAIN session = Sessions /\ DOMAIN session[s] = SessionFields /\ session[s].swept = {}
  BY DEF JournalInv, Shapes, SweptRows, PostScrap
<1> QED
  BY <1>1, QuietStep DEF PostScrap, SessionFields

(* Posted rows are free ones.                                              *)
LEMMA PostedRows ==
  ASSUME DOMAIN row = Rows, NEW s \in Sessions, NEW held \in BOOLEAN, PostStock(s, held)
  PROVE  \A r \in Rows :
        \/ row'[r] = row[r]
        \/ /\ row[r].kind = "free" /\ DOMAIN row'[r] = RowFields
           /\ row'[r].kind # "free" /\ row'[r].entry = NoEntry /\ row'[r].by = s
<1> DEFINE consumes == session[s].read = "pending"
           receives == Completes(s) /\ ~Raises(s)
           used == First(Free)
           made == First(IF consumes THEN Free \ {used} ELSE Free)
<1>1. (consumes => used \in Free) /\ (receives => made \in Free)
  <2>1. CASE consumes \/ receives
    <3>1. Cardinality(Free) >= 2
      BY <2>1 DEF PostStock
    <3> QED
      BY <3>1, FreeRowsAreFree
  <2> QED
    BY <2>1
<1>2. row' = [r \in Rows |->
                CASE consumes /\ r = used ->
                       [kind |-> IF held THEN "negative_adjustment" ELSE "consumption",
                        cost |-> Ordered * MaterialCost, entry |-> NoEntry, by |-> s]
                  [] receives /\ r = made ->
                       [kind |-> "receipt", cost |-> ReceiptCost(s), entry |-> NoEntry, by |-> s]
                  [] OTHER -> row[r]]
  BY DEF PostStock
<1> HIDE DEF consumes, receives, used, made
<1>3. ASSUME NEW r \in Rows
      PROVE  \/ row'[r] = row[r]
             \/ /\ row[r].kind = "free" /\ DOMAIN row'[r] = RowFields
                /\ row'[r].kind # "free" /\ row'[r].entry = NoEntry /\ row'[r].by = s
  <2>1. CASE consumes /\ r = used
    BY <1>1, <1>2, <2>1 DEF Free, RowFields
  <2>2. CASE ~(consumes /\ r = used) /\ receives /\ r = made
    BY <1>1, <1>2, <2>2 DEF Free, RowFields
  <2>3. CASE ~(consumes /\ r = used) /\ ~(receives /\ r = made)
    BY <1>2, <2>3
  <2> QED
    BY <2>1, <2>2, <2>3
<1> QED
  BY <1>3

(* Nobody has swept them.                                                  *)
LEMMA PostStockKeepsJournal ==
  ASSUME JournalInv, NEW s \in Sessions, NEW held \in BOOLEAN, PostStock(s, held)
  PROVE  JournalInv'
<1>1. /\ session[s].pc # "swept" /\ session[s].swept = {}
      /\ session' = [session EXCEPT ![s].pc = "posted"] /\ UNCHANGED entry
  BY DEF JournalInv, SweptRows, PostStock, ReadyToPost
<1>2. \A r \in Rows :
        \/ row'[r] = row[r]
        \/ /\ row[r].kind = "free" /\ DOMAIN row'[r] = RowFields
           /\ row'[r].kind # "free" /\ row'[r].entry = NoEntry
  BY PostedRows DEF JournalInv, Shapes
<1>3. DOMAIN row' = Rows
  BY DEF PostStock
<1>4. Shapes'
  <2>1. \A r \in Rows : DOMAIN row'[r] = RowFields
    BY <1>2 DEF JournalInv, Shapes, RowFields
  <2> QED
    BY <1>1, <1>3, <2>1 DEF JournalInv, Shapes
<1>5. OneSweeper'
  BY <1>1 DEF JournalInv, Shapes, OneSweeper
<1>6. \A r \in Rows : row[r].kind # "free" => row'[r] = row[r]
  BY <1>2
<1>7. SweptRows'
  <2>1. \A t \in Sessions : session'[t].swept = session[t].swept
    BY <1>1 DEF JournalInv, Shapes, SessionFields
  <2>2. \A t \in Sessions : session'[t].pc = "swept" <=> session[t].pc = "swept"
    BY <1>1 DEF JournalInv, Shapes, SessionFields
  <2> QED
    BY <1>1, <1>6, <2>1, <2>2 DEF JournalInv, SweptRows, Unused
<1>8. CommittedRows'
  BY <1>2 DEF JournalInv, CommittedRows
<1>9. \A r \in Rows : row'[r].entry = row[r].entry
  BY <1>2 DEF JournalInv, CommittedRows
<1>10. EntryRows' /\ JournaledOnce'
  BY <1>1, <1>9 DEF JournalInv, EntryRows, JournaledOnce, Posted
<1> QED
  BY <1>4, <1>5, <1>7, <1>8, <1>10 DEF JournalInv

(* A sweep is the only one there is, and takes rows without an entry.      *)
LEMMA SweptOnce ==
  ASSUME JournalInv, NEW s \in Sessions, GuardFree(s), Unused # {}, UNCHANGED <<row, entry>>,
         DOMAIN session' = Sessions, \A t \in Sessions \ {s} : session'[t] = session[t],
         DOMAIN session'[s] = SessionFields, session'[s].pc = "swept",
         session'[s].swept = Unjournaled(s)
  PROVE  JournalInv'
<1>1. Shapes'
  BY DEF JournalInv, Shapes
<1>2. \A t \in Sessions \ {s} : session[t].pc # "swept"
  BY DEF GuardFree, HoldsGuard
<1>3. OneSweeper'
  BY <1>2 DEF OneSweeper
<1>4. SweptRows'
  BY <1>2 DEF JournalInv, SweptRows, Unused, Unjournaled, Visible
<1>5. CommittedRows' /\ EntryRows' /\ JournaledOnce'
  BY DEF JournalInv, CommittedRows, EntryRows, JournaledOnce, Posted
<1> QED
  BY <1>1, <1>3, <1>4, <1>5 DEF JournalInv

(* Sweeping rows into an entry, under the advisory lock.                   *)
LEMMA SweepKeepsJournal ==
  ASSUME JournalInv, NEW s \in Sessions, Sweep(s)
  PROVE  JournalInv'
<1>1. DOMAIN session = Sessions /\ DOMAIN session[s] = SessionFields
  BY DEF JournalInv, Shapes
<1> QED
  BY <1>1, SweptOnce DEF Sweep, SessionFields

(* The sweep of the backfill script.                                       *)
LEMMA SweepBackfillKeepsJournal ==
  ASSUME JournalInv, SweepBackfill
  PROVE  JournalInv'
<1>1. DOMAIN session = Sessions /\ Script \in Sessions
  BY DEF JournalInv, Shapes, Sessions
<1> QED
  BY <1>1, SweptOnce DEF SweepBackfill, Idle, SessionFields

(* A commit of the sweep's session ties its rows to an unused entry.       *)
LEMMA CommitKeepsJournal ==
  ASSUME JournalInv, NEW s \in Sessions, Commit(s)
  PROVE  JournalInv'
<1> DEFINE journals == session[s].swept # {}
           e == First(Unused)
<1>1. /\ row' = [r \in Rows |->
                   [row[r] EXCEPT
                      !.by = IF r \in Mine(s) THEN NoSession ELSE row[r].by,
                      !.entry = IF journals /\ r \in session[s].swept THEN e ELSE row[r].entry]]
      /\ entry' = IF journals THEN [entry EXCEPT ![e] = EntryOf(s)] ELSE entry
      /\ session' = [t \in Sessions |->
                       IF t = s THEN Idle
                       ELSE [session[t] EXCEPT
                               !.stale = session[t].stale \/ (session[t].pc # "idle" /\ s # Script)]]
  BY DEF Commit
<1>2. journals => e \in Unused
  <2>1. journals => Unused # {}
    BY DEF JournalInv, SweptRows
  <2>2. Unused \subseteq Nat
    BY BoundsAssumption DEF Unused, Entries
  <2> QED
    BY <2>1, <2>2, FirstIsMember
<1> HIDE DEF e
<1>3. \A r \in Rows :
        /\ DOMAIN row'[r] = RowFields
        /\ row'[r].kind = row[r].kind
        /\ row'[r].by = IF r \in Mine(s) THEN NoSession ELSE row[r].by
        /\ row'[r].entry = IF r \in session[s].swept THEN e ELSE row[r].entry
  BY <1>1 DEF JournalInv, Shapes, RowFields
<1>4. \A t \in Sessions : /\ DOMAIN session'[t] = SessionFields
                          /\ t # s => session'[t].pc = session[t].pc /\ session'[t].swept = session[t].swept
                          /\ t = s => session'[t].pc # "swept" /\ session'[t].swept = {}
  <2>1. DOMAIN session'[s] = SessionFields /\ session'[s].pc # "swept" /\ session'[s].swept = {}
    <3>1. session'[s] = Idle
      BY <1>1
    <3> QED
      BY <3>1 DEF Idle, SessionFields
  <2>2. ASSUME NEW t \in Sessions, t # s
        PROVE  /\ DOMAIN session'[t] = SessionFields
               /\ session'[t].pc = session[t].pc /\ session'[t].swept = session[t].swept
    <3>1. PICK stale : session'[t] = [session[t] EXCEPT !.stale = stale]
      BY <1>1, <2>2
    <3>2. DOMAIN session[t] = SessionFields
      BY DEF JournalInv, Shapes
    <3> QED
      BY <3>1, <3>2 DEF SessionFields
  <2> QED
    BY <2>1, <2>2
<1>5. DOMAIN row' = Rows /\ DOMAIN session' = Sessions /\ DOMAIN entry' = Entries
  BY <1>1 DEF JournalInv, Shapes
<1>6. /\ journals => /\ entry'[e].rows = session[s].swept /\ entry'[e].status = "posted"
                     /\ DOMAIN entry'[e] = EntryFields
      /\ \A f \in Entries : ~journals \/ f # e => entry'[f] = entry[f]
  <2>1. /\ EntryOf(s).rows = session[s].swept /\ EntryOf(s).status = "posted"
        /\ DOMAIN EntryOf(s) = EntryFields
    BY DEF EntryOf, EntryFields
  <2>2. journals => entry'[e] = EntryOf(s)
    BY <1>1, <1>2 DEF JournalInv, Shapes, Unused
  <2>3. \A f \in Entries : ~journals \/ f # e => entry'[f] = entry[f]
    BY <1>1 DEF JournalInv, Shapes
  <2> QED
    BY <2>1, <2>2, <2>3
<1>7. Shapes'
  BY <1>3, <1>4, <1>5, <1>6 DEF JournalInv, Shapes
<1>8. OneSweeper'
  BY <1>4 DEF JournalInv, OneSweeper
<1>9. \A t \in Sessions \ {s} : journals => session[t].pc # "swept" /\ session[t].swept = {}
  BY DEF JournalInv, SweptRows, OneSweeper
<1>10. SweptRows'
  <2>1. ASSUME NEW t \in Sessions, t # s
        PROVE  /\ session'[t].pc # "swept" => session'[t].swept = {}
               /\ session'[t].pc = "swept" => Unused' # {}
               /\ session'[t].swept \subseteq
                    {r \in Rows : row'[r].kind # "free" /\ row'[r].by \in {t, NoSession}
                                    /\ row'[r].entry = NoEntry}
    <3>1. CASE journals
      BY <1>4, <1>9, <2>1, <3>1
    <3>2. CASE ~journals
      <4>1. Unused' = Unused
        BY <1>1, <3>2 DEF Unused
      <4>2. ASSUME NEW r \in session[t].swept
            PROVE  /\ r \in Rows /\ row'[r].kind # "free" /\ row'[r].by \in {t, NoSession}
                   /\ row'[r].entry = NoEntry
        <5>1. /\ r \in Rows /\ row[r].kind # "free" /\ row[r].by \in {t, NoSession}
              /\ row[r].entry = NoEntry
          BY DEF JournalInv, SweptRows
        <5> QED
          BY <1>3, <3>2, <5>1
      <4> QED
        BY <1>4, <2>1, <4>1, <4>2 DEF JournalInv, SweptRows
    <3> QED
      BY <3>1, <3>2
  <2> QED
    BY <1>4, <2>1 DEF SweptRows
<1>11. CommittedRows'
  <2>1. ASSUME NEW r \in Rows, row'[r].kind = "free" \/ row'[r].by # NoSession
        PROVE  row'[r].entry = NoEntry
    <3>1. row[r].kind = "free" \/ row[r].by # NoSession
      BY <1>3, <2>1
    <3>2. row[r].entry = NoEntry
      BY <3>1 DEF JournalInv, CommittedRows
    <3>3. r \notin session[s].swept
      BY <1>3, <2>1 DEF JournalInv, SweptRows, Mine
    <3> QED
      BY <1>3, <3>2, <3>3
  <2> QED
    BY <2>1 DEF CommittedRows
<1>12. EntryRows'
  BY <1>6 DEF JournalInv, EntryRows, SweptRows
<1>13. JournaledOnce'
  <2>1. ASSUME NEW f \in Entries, entry'[f].status = "posted", NEW r \in entry'[f].rows
        PROVE  row'[r].entry = f
    <3>1. CASE journals /\ f = e
      BY <1>3, <1>6, <2>1, <3>1 DEF JournalInv, SweptRows
    <3>2. CASE ~journals \/ f # e
      <4>1. entry'[f] = entry[f]
        BY <1>6, <3>2
      <4>2. r \in Rows /\ row[r].entry = f
        BY <2>1, <4>1 DEF JournalInv, EntryRows, JournaledOnce, Posted
      <4>3. r \notin session[s].swept
        BY <4>2, BoundsAssumption DEF JournalInv, SweptRows
      <4> QED
        BY <1>3, <4>2, <4>3
    <3> QED
      BY <3>1, <3>2
  <2>2. ASSUME NEW r \in Rows, row'[r].entry # NoEntry
        PROVE  row'[r].entry \in Posted' /\ r \in entry'[row'[r].entry].rows
    <3>1. CASE r \in session[s].swept
      BY <1>2, <1>3, <1>6, <3>1 DEF Posted, Unused
    <3>2. CASE r \notin session[s].swept
      <4>1. row'[r].entry = row[r].entry
        BY <1>3, <3>2
      <4>2. row[r].entry \in Posted /\ r \in entry[row[r].entry].rows
        BY <2>2, <4>1 DEF JournalInv, JournaledOnce
      <4>3. journals => row[r].entry # e
        BY <1>2, <4>2 DEF Posted, Unused
      <4> QED
        BY <1>6, <4>1, <4>2, <4>3 DEF Posted
    <3> QED
      BY <3>1, <3>2
  <2> QED
    BY <2>1, <2>2 DEF JournaledOnce, Posted
<1> QED
  BY <1>7, <1>8, <1>10, <1>11, <1>12, <1>13 DEF JournalInv

(* What an aborted session has posted was in no entry.                     *)
LEMMA AbortKeepsJournal ==
  ASSUME JournalInv, NEW s \in Sessions, Abort(s)
  PROVE  JournalInv'
<1>1. /\ row' = [r \in Rows |-> IF r \in Mine(s) THEN FreeRow ELSE row[r]]
      /\ session' = [session EXCEPT ![s] = Idle] /\ UNCHANGED entry
  BY DEF Abort
<1>2. Shapes'
  <2>1. \A r \in Rows : DOMAIN row'[r] = RowFields
    BY <1>1 DEF JournalInv, Shapes, FreeRow, RowFields
  <2>2. \A t \in Sessions : DOMAIN session'[t] = SessionFields
    BY <1>1 DEF JournalInv, Shapes, Idle, SessionFields
  <2> QED
    BY <1>1, <2>1, <2>2 DEF JournalInv, Shapes
<1>3. session'[s].pc # "swept" /\ session'[s].swept = {}
  BY <1>1 DEF JournalInv, Shapes, Idle
<1>4. \A t \in Sessions \ {s} : session'[t] = session[t]
  BY <1>1 DEF JournalInv, Shapes
<1>5. OneSweeper'
  BY <1>3, <1>4 DEF JournalInv, OneSweeper
<1>6. \A t \in Sessions \ {s} : \A r \in session[t].swept : row'[r] = row[r]
  BY <1>1, SessionsAssumption DEF JournalInv, SweptRows, Mine
<1>7. SweptRows'
  BY <1>1, <1>3, <1>4, <1>6 DEF JournalInv, SweptRows, Unused
<1>8. \A r \in Rows : row'[r].entry = row[r].entry
  <2>1. \A r \in Mine(s) : row[r].entry = NoEntry
    BY SessionsAssumption DEF Mine, JournalInv, CommittedRows
  <2> QED
    BY <1>1, <2>1 DEF FreeRow
<1>9. CommittedRows'
  BY <1>1 DEF JournalInv, CommittedRows, FreeRow
<1>10. EntryRows' /\ JournaledOnce'
  BY <1>1, <1>8 DEF JournalInv, EntryRows, JournaledOnce, Posted
<1> QED
  BY <1>2, <1>5, <1>7, <1>9, <1>10 DEF JournalInv

(* A rollback frees the rows of its entry and no other ones.               *)
LEMMA RollBackKeepsJournal ==
  ASSUME JournalInv, NEW e \in Entries, RollBack(e)
  PROVE  JournalInv'
<1>1. /\ entry' = [entry EXCEPT ![e].status = "voided"] /\ UNCHANGED session
      /\ row' = [r \in Rows |->
                   IF row[r].entry = e THEN [row[r] EXCEPT !.entry = NoEntry] ELSE row[r]]
      /\ entry[e].status = "posted"
  BY DEF RollBack
<1>2. \A r \in Rows : /\ DOMAIN row'[r] = RowFields
                      /\ row'[r].kind = row[r].kind /\ row'[r].by = row[r].by
                      /\ row'[r].entry = IF row[r].entry = e THEN NoEntry ELSE row[r].entry
  BY <1>1 DEF JournalInv, Shapes, RowFields
<1>3. \A f \in Entries : /\ DOMAIN entry'[f] = EntryFields
                         /\ entry'[f].rows = entry[f].rows
                         /\ entry'[f].status = IF f = e THEN "voided" ELSE entry[f].status
  BY <1>1 DEF JournalInv, Shapes, EntryFields
<1>4. Shapes'
  BY <1>1, <1>2, <1>3 DEF JournalInv, Shapes
<1>5. OneSweeper'
  BY <1>1 DEF JournalInv, OneSweeper
<1>6. SweptRows'
  <2>1. Unused' = Unused
    BY <1>1, <1>3 DEF Unused
  <2>2. \A s \in Sessions : \A r \in session[s].swept : r \in Rows /\ row'[r].entry = NoEntry
    BY <1>2 DEF JournalInv, SweptRows
  <2> QED
    BY <1>1, <1>2, <2>1, <2>2 DEF JournalInv, SweptRows
<1>7. CommittedRows'
  BY <1>2 DEF JournalInv, CommittedRows
<1>8. EntryRows'
  BY <1>3 DEF JournalInv, EntryRows
<1>9. JournaledOnce'
  <2>1. ASSUME NEW f \in Entries, entry'[f].status = "posted", NEW r \in entry'[f].rows
        PROVE  row'[r].entry = f
    <3>1. f # e /\ entry[f].status = "posted" /\ r \in entry[f].rows
      BY <1>3, <2>1
    <3>2. r \in Rows /\ row[r].entry = f
      BY <3>1 DEF JournalInv, EntryRows, JournaledOnce, Posted
    <3> QED
      BY <1>2, <3>1, <3>2
  <2>2. ASSUME NEW r \in Rows, row'[r].entry # NoEntry
        PROVE  row'[r].entry \in Posted' /\ r \in entry'[row'[r].entry].rows
    <3>1. row[r].entry # e /\ row'[r].entry = row[r].entry
      BY <1>2, <2>2
    <3>2. row[r].entry \in Posted /\ r \in entry[row[r].entry].rows
      BY <2>2, <3>1 DEF JournalInv, JournaledOnce
    <3> QED
      BY <1>3, <3>1, <3>2 DEF Posted
  <2> QED
    BY <2>1, <2>2 DEF JournaledOnce, Posted
<1> QED
  BY <1>4, <1>5, <1>6, <1>7, <1>8, <1>9 DEF JournalInv

(* Every step keeps the invariant.                                         *)
LEMMA JournalInvStep == ASSUME JournalInv, [Next]_vars PROVE JournalInv'
<1>1. CASE \E t \in Threads :
             \/ LoadSchedule(t)
             \/ LoadStart(t)
             \/ \E good, bad \in 0..Ordered : LoadReport(t, good, bad)
             \/ \E bad \in 1..Ordered : LoadScrap(t, bad)
             \/ PostScrap(t)
  <2>1. PICK t \in Threads :
          \/ LoadSchedule(t)
          \/ LoadStart(t)
          \/ \E good, bad \in 0..Ordered : LoadReport(t, good, bad)
          \/ \E bad \in 1..Ordered : LoadScrap(t, bad)
          \/ PostScrap(t)
    BY <1>1
  <2>2. t \in Sessions
    BY DEF Sessions
  <2>3. (\E kind, good, bad : Loads(t, kind, good, bad)) \/ PostScrap(t)
    BY <2>1 DEF LoadSchedule, LoadStart, LoadReport, LoadScrap
  <2> QED
    BY <2>2, <2>3, LoadsKeepsJournal, PostScrapKeepsJournal
<1>2. CASE (\E good, bad \in 0..Ordered : LoadComplete(good, bad)) \/ LoadAccept \/ LoadClose
  <2>1. \E kind, good, bad : Loads(EventLoop, kind, good, bad)
    BY <1>2 DEF LoadComplete, LoadAccept, LoadClose
  <2>2. EventLoop \in Sessions
    BY DEF Sessions
  <2> QED
    BY <2>1, <2>2, LoadsKeepsJournal
<1>3. CASE SweepBackfill
  BY <1>3, SweepBackfillKeepsJournal
<1>4. ASSUME NEW s \in Sessions,
             \/ ReadMaterials(s)
             \/ \E held \in BOOLEAN : PostStock(s, held)
             \/ Sweep(s)
             \/ Commit(s)
             \/ Abort(s)
      PROVE  JournalInv'
  BY <1>4, ReadMaterialsKeepsJournal, PostStockKeepsJournal, SweepKeepsJournal,
     CommitKeepsJournal, AbortKeepsJournal
<1>5. CASE \E e \in Entries : RollBack(e)
  BY <1>5, RollBackKeepsJournal
<1>6. CASE UNCHANGED vars
  BY <1>6 DEF vars, JournalInv, Shapes, OneSweeper, SweptRows, CommittedRows, EntryRows,
              JournaledOnce, Unused, Posted
<1> QED
  BY <1>1, <1>2, <1>3, <1>4, <1>5, <1>6 DEF Next

(* A row of the ledger is in one posted journal entry at most, the one it  *)
(* points to, whatever completions, the backfill script and its rollback   *)
(* overlap or fail: production_gl_service.py sweeps rows without an entry  *)
(* under an advisory lock of the order.                                    *)
THEOREM RowsJournaledOnce == Spec => []JournaledOnce
<1>1. Init => JournalInv
  BY JournalInvInit
<1>2. JournalInv /\ [Next]_vars => JournalInv'
  BY JournalInvStep
<1>3. JournalInv => JournaledOnce
  BY DEF JournalInv
<1> QED
  BY <1>1, <1>2, <1>3, PTL DEF Spec

-----------------------------------------------------------------------------
(* Acceptance and closing of short orders.                                 *)

Ending == {"accept", "close"}

ScriptPostsNothing ==
    /\ session[Script].pc \in {"idle", "swept"}
    /\ \A r \in Rows : row[r].by # Script

(* Nor does a request that schedules the operation.                        *)
Scheduling == {"none", "schedule"}
SchedulingPostsNothing ==
    \A s \in Sessions : session[s].kind \in Scheduling =>
        session[s].pc \in {"idle", "loaded"} /\ Mine(s) = {}

AcceptInv == ScriptPostsNothing /\ SchedulingPostsNothing /\ AcceptIsFirst

(* A step that leaves the rows of others and of the ledger alone.          *)
LEMMA ReceiptsStay ==
  ASSUME ScriptPostsNothing, SchedulingPostsNothing, NEW s \in Sessions,
         DOMAIN session' = Sessions, \A t \in Sessions \ {s} : session'[t] = session[t],
         s = Script => session'[s].pc \in {"idle", "swept"},
         \A r \in Rows : row'[r].by # row[r].by => (row'[r].by = s /\ s # Script) \/ row'[r].by = NoSession,
         \A t \in Sessions \ {s} : Mine(t)' = Mine(t),
         session'[s].kind \in Scheduling =>
           session'[s].pc \in {"idle", "loaded"} /\ Mine(s)' = {},
         Receipts' = Receipts,
         session'[s].kind \in Ending => Receipts = {} \/ session[s].kind \in Ending,
         AcceptIsFirst
  PROVE  AcceptInv'
<1>1. EventLoop \in Sessions /\ Script \in Sessions /\ EventLoop # Script
  BY SessionsAssumption DEF Sessions
<1>2. ScriptPostsNothing'
  BY <1>1, SessionsAssumption DEF ScriptPostsNothing
<1>3. SchedulingPostsNothing'
  BY DEF SchedulingPostsNothing
<1>4. AcceptIsFirst'
  BY <1>1 DEF AcceptIsFirst, Ending
<1> QED
  BY <1>2, <1>3, <1>4 DEF AcceptInv

(* Nothing is being accepted in the beginning.                             *)
LEMMA AcceptInvInit == ASSUME Init PROVE AcceptInv
<1>1. Script \in Sessions /\ EventLoop \in Sessions /\ NoSession # Script
  BY SessionsAssumption DEF Sessions
<1>2. SchedulingPostsNothing
  BY DEF Init, SchedulingPostsNothing, Idle, Mine, FreeRow
<1> QED
  BY <1>1, <1>2 DEF Init, AcceptInv, ScriptPostsNothing, AcceptIsFirst, Ending, Idle, FreeRow

(* Loading an order; to accept or close it, one without receipt.           *)
LEMMA LoadsKeepsAcceptance ==
  ASSUME Shapes, AcceptInv, NEW s \in Sessions, s # Script, NEW kind, NEW good, NEW bad,
         Loads(s, kind, good, bad), kind \in Ending => Receipts = {}
  PROVE  AcceptInv'
<1>1. /\ session' = [session EXCEPT ![s] = session'[s]]
      /\ session'[s].kind = kind /\ session'[s].pc = "loaded" /\ session[s].kind = "none"
  BY DEF Loads, Shapes, Idle
<1>2. Receipts' = Receipts /\ UNCHANGED row /\ \A t \in Sessions : Mine(t)' = Mine(t)
  BY DEF Loads, Receipts, Mine
<1>3. Mine(s) = {}
  BY <1>1 DEF AcceptInv, SchedulingPostsNothing, Scheduling
<1> QED
  BY <1>1, <1>2, <1>3, ReceiptsStay DEF Shapes, AcceptInv

(* Reading, scrapping and sweeping commit nothing.                         *)
LEMMA WorkKeepsAcceptance ==
  ASSUME Shapes, AcceptInv, NEW s \in Sessions, ReadMaterials(s) \/ PostScrap(s) \/ Sweep(s)
  PROVE  AcceptInv'
<1>1. s # Script
  BY DEF AcceptInv, ScriptPostsNothing, ReadMaterials, PostScrap, Sweep, Sweeps
<1>2. /\ DOMAIN session' = Sessions /\ session'[s].kind = session[s].kind
      /\ \A t \in Sessions \ {s} : session'[t] = session[t]
  BY DEF ReadMaterials, PostScrap, Sweep, Shapes, SessionFields
<1>3. Receipts' = Receipts /\ UNCHANGED row /\ \A t \in Sessions : Mine(t)' = Mine(t)
  BY DEF ReadMaterials, PostScrap, Sweep, Receipts, Mine
<1>4. session[s].kind \notin Scheduling
  BY DEF ReadMaterials, PostScrap, Sweep, Sweeps, Scheduling, AcceptInv, SchedulingPostsNothing
<1> QED
  BY <1>1, <1>2, <1>3, <1>4, ReceiptsStay DEF AcceptInv

(* A posted receipt is not committed yet.                                  *)
LEMMA PostStockKeepsAcceptance ==
  ASSUME Shapes, AcceptInv, NEW s \in Sessions, NEW held \in BOOLEAN, PostStock(s, held)
  PROVE  AcceptInv'
<1>1. s # Script /\ s # NoSession
  BY SessionsAssumption DEF AcceptInv, ScriptPostsNothing, PostStock, ReadyToPost
<1>2. /\ DOMAIN session' = Sessions /\ session'[s].kind = session[s].kind
      /\ \A t \in Sessions \ {s} : session'[t] = session[t]
  BY DEF PostStock, Shapes, SessionFields
<1>3. \A r \in Rows :
        row'[r] = row[r] \/ (row[r].kind = "free" /\ row'[r].kind # "free" /\ row'[r].by = s)
  BY PostedRows DEF Shapes
<1>4. Receipts' = Receipts /\ \A t \in Sessions \ {s} : Mine(t)' = Mine(t)
  BY <1>1, <1>3 DEF Receipts, Mine
<1>5. session[s].kind \notin Scheduling
  BY DEF PostStock, ReadyToPost, Scheduling, AcceptInv, SchedulingPostsNothing
<1> QED
  BY <1>1, <1>2, <1>3, <1>4, <1>5, ReceiptsStay DEF AcceptInv

(* The script neither accepts nor closes.                                  *)
LEMMA SweepBackfillKeepsAcceptance ==
  ASSUME Shapes, AcceptInv, SweepBackfill
  PROVE  AcceptInv'
<1>1. Script \in Sessions
  BY DEF Sessions
<1>2. /\ DOMAIN session' = Sessions
      /\ session'[Script].kind = "backfill" /\ session'[Script].pc = "swept"
      /\ \A t \in Sessions \ {Script} : session'[t] = session[t]
  BY <1>1 DEF SweepBackfill, Shapes, Idle
<1>3. Receipts' = Receipts /\ UNCHANGED row /\ \A t \in Sessions : Mine(t)' = Mine(t)
  BY DEF SweepBackfill, Receipts, Mine
<1> QED
  BY <1>1, <1>2, <1>3, ReceiptsStay DEF AcceptInv, Ending, Scheduling

(* An acceptance holds the order's row, so the commit is its own or the    *)
(* script's, which receives nothing.                                       *)
LEMMA CommitKeepsAcceptance ==
  ASSUME Shapes, AcceptInv, NEW s \in Sessions, Commit(s)
  PROVE  AcceptInv'
<1>1. /\ EventLoop \in Sessions /\ Script \in Sessions
      /\ EventLoop # Script /\ NoSession # Script
  BY SessionsAssumption DEF Sessions
<1>2. \A r \in Rows : /\ row'[r].kind = row[r].kind
                      /\ row'[r].by = IF r \in Mine(s) THEN NoSession ELSE row[r].by
  BY DEF Commit, Shapes, RowFields
<1>3. session'[s].kind = "none" /\ session'[s].pc = "idle"
  <2>1. session'[s] = Idle
    BY DEF Commit
  <2> QED
    BY <2>1 DEF Idle
<1>4. \A t \in Sessions \ {s} :
        session'[t].kind = session[t].kind /\ session'[t].pc = session[t].pc
  <2> TAKE t \in Sessions \ {s}
  <2>1. PICK stale : session'[t] = [session[t] EXCEPT !.stale = stale]
    BY DEF Commit
  <2> QED
    BY <2>1 DEF Shapes, SessionFields
<1>5. ScriptPostsNothing'
  BY <1>1, <1>2, <1>3, <1>4 DEF AcceptInv, ScriptPostsNothing
<1>6. SchedulingPostsNothing'
  <2>1. \A t \in Sessions : Mine(t)' \subseteq Mine(t) /\ Mine(s)' = {}
    BY <1>2, SessionsAssumption DEF Mine
  <2> QED
    BY <1>3, <1>4, <2>1 DEF AcceptInv, SchedulingPostsNothing
<1>7. AcceptIsFirst'
  <2>1. CASE s = EventLoop
    BY <1>3, <2>1 DEF AcceptIsFirst, Ending
  <2>2. CASE s = Script \/ session[s].kind = "schedule"
    <3>1. Mine(s) = {}
      BY <2>2 DEF AcceptInv, ScriptPostsNothing, SchedulingPostsNothing, Scheduling, Mine
    <3>2. Receipts' = Receipts
      BY <1>2, <3>1 DEF Receipts
    <3> QED
      BY <1>1, <1>3, <1>4, <3>2 DEF AcceptInv, AcceptIsFirst, Ending
  <2>3. CASE s \notin {EventLoop, Script} /\ session[s].kind # "schedule"
    <3>1. session[EventLoop].kind \notin Ending
      BY <1>1, <2>3 DEF Commit, OrderFree, HoldsOrder, Ending
    <3> QED
      BY <1>1, <1>4, <2>3, <3>1 DEF AcceptIsFirst, Ending
  <2> QED
    BY <2>1, <2>2, <2>3
<1> QED
  BY <1>5, <1>6, <1>7 DEF AcceptInv

(* An abort commits nothing.                                               *)
LEMMA AbortKeepsAcceptance ==
  ASSUME Shapes, AcceptInv, NEW s \in Sessions, Abort(s)
  PROVE  AcceptInv'
<1>1. /\ DOMAIN session' = Sessions
      /\ session'[s].kind = "none" /\ session'[s].pc = "idle"
      /\ \A t \in Sessions \ {s} : session'[t] = session[t]
  BY DEF Abort, Shapes, Idle
<1>2. \A r \in Rows : row'[r] = IF r \in Mine(s) THEN FreeRow ELSE row[r]
  BY DEF Abort
<1>3. Receipts' = Receipts
  BY <1>2, SessionsAssumption DEF Receipts, Mine, FreeRow
<1>4. \A r \in Rows : row'[r].by # row[r].by => row'[r].by = NoSession
  BY <1>2 DEF FreeRow
<1>5. Mine(s)' = {} /\ \A t \in Sessions \ {s} : Mine(t)' = Mine(t)
  BY <1>2, SessionsAssumption DEF Mine, FreeRow
<1> QED
  BY <1>1, <1>3, <1>4, <1>5, ReceiptsStay DEF AcceptInv, Ending

(* A rollback touches no receipt.                                          *)
LEMMA RollBackKeepsAcceptance ==
  ASSUME Shapes, AcceptInv, NEW e \in Entries, RollBack(e)
  PROVE  AcceptInv'
<1>1. \A r \in Rows : row'[r].kind = row[r].kind /\ row'[r].by = row[r].by
  BY DEF RollBack, Shapes, RowFields
<1>2. Receipts' = Receipts /\ UNCHANGED session /\ \A t \in Sessions : Mine(t)' = Mine(t)
  BY <1>1 DEF RollBack, Receipts, Mine
<1> QED
  BY <1>1, <1>2 DEF AcceptInv, ScriptPostsNothing, SchedulingPostsNothing, AcceptIsFirst, Ending

(* Every step keeps it.                                                    *)
LEMMA AcceptInvStep == ASSUME Shapes, AcceptInv, [Next]_vars PROVE AcceptInv'
<1>1. CASE \E t \in Threads :
             \/ LoadSchedule(t)
             \/ LoadStart(t)
             \/ \E good, bad \in 0..Ordered : LoadReport(t, good, bad)
             \/ \E bad \in 1..Ordered : LoadScrap(t, bad)
             \/ PostScrap(t)
  <2>1. PICK t \in Threads :
          \/ LoadSchedule(t)
          \/ LoadStart(t)
          \/ \E good, bad \in 0..Ordered : LoadReport(t, good, bad)
          \/ \E bad \in 1..Ordered : LoadScrap(t, bad)
          \/ PostScrap(t)
    BY <1>1
  <2>2. t \in Sessions /\ t # Script
    BY SessionsAssumption DEF Sessions
  <2>3. \/ \E kind \in {"schedule", "start", "report", "scrap"} : \E good, bad : Loads(t, kind, good, bad)
        \/ PostScrap(t)
    BY <2>1 DEF LoadSchedule, LoadStart, LoadReport, LoadScrap
  <2> QED
    BY <2>2, <2>3, LoadsKeepsAcceptance, WorkKeepsAcceptance DEF Ending
<1>2. CASE (\E good, bad \in 0..Ordered : LoadComplete(good, bad)) \/ LoadAccept \/ LoadClose
  <2>1. \E kind, good, bad :
          Loads(EventLoop, kind, good, bad) /\ (kind \in Ending => Receipts = {})
    BY <1>2 DEF LoadComplete, LoadAccept, LoadClose, Ending
  <2>2. EventLoop \in Sessions /\ EventLoop # Script
    BY SessionsAssumption DEF Sessions
  <2> QED
    BY <2>1, <2>2, LoadsKeepsAcceptance
<1>3. CASE SweepBackfill
  BY <1>3, SweepBackfillKeepsAcceptance
<1>4. ASSUME NEW s \in Sessions,
             \/ ReadMaterials(s)
             \/ \E held \in BOOLEAN : PostStock(s, held)
             \/ Sweep(s)
             \/ Commit(s)
             \/ Abort(s)
      PROVE  AcceptInv'
  BY <1>4, WorkKeepsAcceptance, PostStockKeepsAcceptance, CommitKeepsAcceptance,
     AbortKeepsAcceptance
<1>5. CASE \E e \in Entries : RollBack(e)
  BY <1>5, RollBackKeepsAcceptance
<1>6. CASE UNCHANGED vars
  BY <1>6 DEF vars, AcceptInv, ScriptPostsNothing, SchedulingPostsNothing, AcceptIsFirst, Ending,
              Receipts, Mine
<1> QED
  BY <1>1, <1>2, <1>3, <1>4, <1>5, <1>6 DEF Next

(* While a short order is being accepted or closed nothing of it has been  *)
(* received: accept_short_production_order looks for receipts under the    *)
(* lock of the order's row, which every other handler needs to commit.     *)
THEOREM AcceptedFirst == Spec => []AcceptIsFirst
<1>1. Init => JournalInv /\ AcceptInv
  BY JournalInvInit, AcceptInvInit
<1>2. (JournalInv /\ AcceptInv) /\ [Next]_vars => (JournalInv /\ AcceptInv)'
  BY JournalInvStep, AcceptInvStep DEF JournalInv
<1>3. AcceptInv => AcceptIsFirst
  BY DEF AcceptInv
<1> QED
  BY <1>1, <1>2, <1>3, PTL DEF Spec

-----------------------------------------------------------------------------
(* Receipts and consumption.                                               *)

Receiving == {"report", "complete", "accept"}

JobFields == {"status", "done", "scrapped", "ended", "op", "opDone", "opScrapped",
              "reopened"}

(* Committed rows of the material's consumption, held ones included.       *)
Consumptions == {r \in Rows : row[r].kind \notin {"free", "receipt"} /\ row[r].by = NoSession}

AtMostOne(S) == \A x, y \in S : x = y

MyReceipts(s) == {r \in Mine(s) : row[r].kind = "receipt"}
MyConsumption(s) == {r \in Mine(s) : row[r].kind # "receipt"}

(* What a request has posted is what it read and loaded.                   *)
Postings(s) ==
    /\ AtMostOne(MyReceipts(s)) /\ AtMostOne(MyConsumption(s))
    /\ MyReceipts(s) # {} <=> Completes(s) /\ session[s].read # "unconvertible"
    /\ MyConsumption(s) # {} => session[s].read = "pending"

(* How far a request of each kind gets.                                    *)
RequestOK(s) ==
    /\ session[s].pc \in {"read", "scrapped", "posted"} => session[s].kind \in Receiving
    /\ session[s].pc = "swept" =>
         session[s].kind \in IF s = Script THEN {"backfill"} ELSE Receiving \cup {"close"}
    /\ IF session[s].pc \in {"posted", "swept"} /\ session[s].kind \in Receiving
         THEN /\ Postings(s)
              /\ session[s].kind # "report" => session[s].read # "unconvertible"
         ELSE Mine(s) = {}

(* What each kind of request has checked when it loaded the order.         *)
Checked(kind) ==
    /\ kind = "start" => job.op \in {"pending", "queued"}
    /\ kind = "report" => job.op = "running"
    /\ kind = "complete" => job.status \in {"in_progress", "released"}
    /\ kind \in Ending => job.status = "short" /\ Receipts = {}

(* As long as nobody has committed over it, it is still so.                *)
UpToDate(s) ==
    session[s].pc # "idle" /\ ~session[s].stale =>
        /\ session[s].seen = job
        /\ session[s].pc # "loaded" /\ session[s].kind \in Receiving => session[s].read = mat
        /\ Checked(session[s].kind)

(* The order, its operation and its stock agree.                           *)
Settled ==
    /\ job.op \in {"pending", "queued", "running", "complete"}
    /\ job.op # "complete" => job.status \in {"released", "in_progress"} /\ job.ended = FALSE
    /\ job.op = "complete" => job.status \in {"complete", "short", "scrapped"}
    /\ Receipts # {} => job.status = "complete"
    /\ job.status = "complete" /\ Receipts = {} => mat = "unconvertible"
    /\ Consumptions # {} => mat = "consumed"
    /\ AtMostOne(Receipts) /\ AtMostOne(Consumptions)

(* They do until a complete operation is scheduled again.                  *)
JobOK == ~job.reopened => Settled

ReceiptInv ==
    /\ job = [f \in JobFields |-> job[f]]
    /\ \A s \in Sessions : RequestOK(s)
    /\ ~overlapped => JobOK /\ \A s \in Sessions \ {Script} : UpToDate(s)

(* A set with at most one element has no two.                              *)
LEMMA AtMostOneCardinality ==
  ASSUME NEW S, IsFiniteSet(S), AtMostOne(S)
  PROVE  ~(Cardinality(S) > 1)
<1>1. CASE S = {}
  BY <1>1, FS_EmptySet
<1>2. CASE S # {}
  <2>1. PICK x : S = {x}
    BY <1>2 DEF AtMostOne
  <2> QED
    BY <2>1, FS_Singleton
<1> QED
  BY <1>1, <1>2

(* One with no two elements has at most one.                               *)
LEMMA CardinalityAtMostOne ==
  ASSUME NEW S, IsFiniteSet(S), ~(Cardinality(S) > 1)
  PROVE  AtMostOne(S)
<1> SUFFICES ASSUME NEW x \in S, NEW y \in S, x # y PROVE FALSE
  BY DEF AtMostOne
<1>1. IsFiniteSet(S \ {x}) /\ Cardinality(S \ {x}) = Cardinality(S) - 1
  BY FS_RemoveElement
<1>2. Cardinality(S \ {x}) \in Nat /\ Cardinality(S) \in Nat
  BY <1>1, FS_CardinalityType
<1>3. S \ {x} = {}
  BY <1>1, <1>2, FS_EmptySet
<1> QED
  BY <1>3

(* What another request has posted or read stays.                          *)
LEMMA RequestStaysOK ==
  ASSUME NEW t \in Sessions, RequestOK(t),
         session'[t].pc = session[t].pc, session'[t].kind = session[t].kind,
         session'[t].good = session[t].good, session'[t].seen = session[t].seen,
         session'[t].read = session[t].read,
         Mine(t)' = Mine(t), \A r \in Mine(t) : row'[r].kind = row[r].kind
  PROVE  RequestOK(t)'
<1>1. MyReceipts(t)' = MyReceipts(t) /\ MyConsumption(t)' = MyConsumption(t)
  BY DEF MyReceipts, MyConsumption
<1>2. Completes(t)' = Completes(t)
  BY DEF Completes
<1>3. Postings(t)' = Postings(t)
  BY <1>1, <1>2 DEF Postings, AtMostOne
<1> QED
  BY <1>3 DEF RequestOK

(* A step that commits nothing.                                            *)
LEMMA NothingCommitted ==
  ASSUME ReceiptInv, NEW s \in Sessions, UNCHANGED <<job, mat, overlapped>>,
         \A t \in Sessions \ {s} : session'[t] = session[t],
         \A t \in Sessions \ {s} : Mine(t)' = Mine(t),
         \A t \in Sessions \ {s} : \A r \in Mine(t) : row'[r].kind = row[r].kind,
         Receipts' = Receipts, Consumptions' = Consumptions,
         RequestOK(s)', ~overlapped /\ s # Script => UpToDate(s)'
  PROVE  ReceiptInv'
<1>1. \A t \in Sessions \ {s} : RequestOK(t)'
  BY RequestStaysOK DEF ReceiptInv
<1>2. ASSUME ~overlapped PROVE JobOK'
  BY <1>2 DEF ReceiptInv, JobOK, Settled, AtMostOne
<1>3. ASSUME ~overlapped, NEW t \in Sessions \ {s, Script} PROVE UpToDate(t)'
  BY <1>3 DEF ReceiptInv, UpToDate, Checked
<1> QED
  BY <1>1, <1>2, <1>3 DEF ReceiptInv

(* The same of a step that posts nothing either.                           *)
LEMMA NothingPosted ==
  ASSUME ReceiptInv, NEW s \in Sessions, UNCHANGED <<job, mat, row, overlapped>>,
         \A t \in Sessions \ {s} : session'[t] = session[t],
         RequestOK(s)', ~overlapped /\ s # Script => UpToDate(s)'
  PROVE  ReceiptInv'
<1>1. \A t \in Sessions : Mine(t)' = Mine(t)
  BY DEF Mine
<1>2. Receipts' = Receipts /\ Consumptions' = Consumptions
  BY DEF Receipts, Consumptions
<1> QED
  BY <1>1, <1>2, NothingCommitted

(* Before the first request the order is fresh.                            *)
LEMMA ReceiptInvInit == ASSUME Init PROVE ReceiptInv
<1>1. \A s \in Sessions : Mine(s) = {} /\ session[s].pc = "idle"
  BY DEF Init, Mine, FreeRow, Idle
<1>2. Receipts = {} /\ Consumptions = {}
  BY DEF Init, Receipts, Consumptions, FreeRow
<1> QED
  BY <1>1, <1>2 DEF Init, ReceiptInv, JobFields, FreshJob, RequestOK, JobOK, Settled, UpToDate, AtMostOne

(* Loading an order of which the handler has checked what it needs.        *)
LEMMA LoadsKeepsReceipts ==
  ASSUME Shapes, ReceiptInv, NEW s \in Sessions, s # Script, NEW kind, NEW good, NEW bad,
         Loads(s, kind, good, bad), Checked(kind)
  PROVE  ReceiptInv'
<1>1. /\ session[s] = Idle /\ UNCHANGED <<job, mat, row, overlapped>>
      /\ \A t \in Sessions \ {s} : session'[t] = session[t]
      /\ session'[s] = [Idle EXCEPT !.pc = "loaded", !.kind = kind, !.good = good,
                                    !.bad = bad, !.seen = job]
  BY DEF Loads, Shapes
<1>2. /\ session'[s].pc = "loaded" /\ session'[s].kind = kind /\ session'[s].seen = job
      /\ session'[s].stale = FALSE
  BY <1>1 DEF Idle
<1>3. Mine(s)' = {}
  BY <1>1 DEF ReceiptInv, RequestOK, Mine, Idle
<1>4. RequestOK(s)'
  BY <1>2, <1>3 DEF RequestOK
<1>5. Checked(kind)'
  BY <1>1 DEF Checked, Receipts
<1>6. UpToDate(s)'
  BY <1>1, <1>2, <1>5 DEF UpToDate
<1> QED
  BY <1>1, <1>4, <1>6, NothingPosted

(* Reading the material rows.                                              *)
LEMMA ReadMaterialsKeepsReceipts ==
  ASSUME Shapes, AcceptInv, ReceiptInv, NEW s \in Sessions, ReadMaterials(s)
  PROVE  ReceiptInv'
<1>1. /\ session[s].pc = "loaded" /\ session[s].kind \in Receiving
      /\ \A t \in Sessions \ {s} : session'[t] = session[t]
      /\ session'[s] = [session[s] EXCEPT !.pc = "read", !.read = mat]
      /\ UNCHANGED <<job, mat, row, overlapped>>
  BY DEF ReadMaterials, Shapes, Receiving
<1>2. /\ session'[s].pc = "read" /\ session'[s].kind = session[s].kind
      /\ session'[s].read = mat /\ session'[s].seen = session[s].seen
      /\ session'[s].stale = session[s].stale
  BY <1>1 DEF Shapes, SessionFields
<1>3. RequestOK(s)'
  <2>1. Mine(s)' = {}
    BY <1>1 DEF ReceiptInv, RequestOK, Mine
  <2> QED
    BY <1>1, <1>2, <2>1 DEF RequestOK
<1>4. ASSUME ~overlapped, s # Script PROVE UpToDate(s)'
  <2>1. UpToDate(s)
    BY <1>4 DEF ReceiptInv
  <2>2. Checked(session[s].kind)' = Checked(session'[s].kind)
    BY <1>1, <1>2 DEF Checked, Receipts
  <2> QED
    BY <1>1, <1>2, <2>1, <2>2 DEF UpToDate, Checked, Receipts
<1> QED
  BY <1>1, <1>3, <1>4, NothingPosted

(* Scrap rows and sweeps change how far a request is.                      *)
LEMMA StepKeepsReceipts ==
  ASSUME ReceiptInv, NEW s \in Sessions, s # Script, UNCHANGED <<job, mat, row, overlapped>>,
         \A t \in Sessions \ {s} : session'[t] = session[t],
         session'[s].kind = session[s].kind, session'[s].good = session[s].good,
         session'[s].seen = session[s].seen, session'[s].read = session[s].read,
         session'[s].stale = session[s].stale,
         \/ session[s].pc = "read" /\ session'[s].pc = "scrapped"
         \/ session[s].pc = "posted" /\ session'[s].pc = "swept"
         \/ /\ session[s].pc = "loaded" /\ session'[s].pc = "swept"
            /\ session[s].kind = "close"
  PROVE  ReceiptInv'
<1>1. Mine(s)' = Mine(s) /\ MyReceipts(s)' = MyReceipts(s) /\ MyConsumption(s)' = MyConsumption(s)
  BY DEF Mine, MyReceipts, MyConsumption
<1>2. Postings(s)' = Postings(s)
  BY <1>1 DEF Postings, AtMostOne, Completes
<1>3. RequestOK(s)'
  BY <1>1, <1>2 DEF ReceiptInv, RequestOK, Receiving
<1>4. ASSUME ~overlapped, s # Script PROVE UpToDate(s)'
  <2>1. UpToDate(s)
    BY <1>4 DEF ReceiptInv
  <2>2. session[s].kind \in Receiving => session[s].pc # "loaded"
    BY DEF Receiving
  <2> QED
    BY <2>1, <2>2 DEF UpToDate, Checked, Receipts, Receiving
<1> QED
  BY <1>3, <1>4, NothingPosted

(* The scrap of a report.                                                  *)
LEMMA PostScrapKeepsReceipts ==
  ASSUME Shapes, AcceptInv, ReceiptInv, NEW s \in Sessions, PostScrap(s)
  PROVE  ReceiptInv'
<1>1. /\ \A t \in Sessions \ {s} : session'[t] = session[t]
      /\ session'[s] = [session[s] EXCEPT !.pc = "scrapped"]
      /\ session[s].pc = "read" /\ UNCHANGED <<job, mat, row, overlapped>>
  BY DEF PostScrap, Shapes
<1>2. /\ session'[s].pc = "scrapped" /\ session'[s].kind = session[s].kind
      /\ session'[s].good = session[s].good /\ session'[s].seen = session[s].seen
      /\ session'[s].read = session[s].read /\ session'[s].stale = session[s].stale
  BY <1>1 DEF Shapes, SessionFields
<1>3. s # Script
  BY <1>1 DEF AcceptInv, ScriptPostsNothing
<1> QED
  BY <1>1, <1>2, <1>3, StepKeepsReceipts

(* The sweep of a handler.                                                 *)
LEMMA SweepKeepsReceipts ==
  ASSUME Shapes, AcceptInv, ReceiptInv, NEW s \in Sessions, Sweep(s)
  PROVE  ReceiptInv'
<1>1. /\ \A t \in Sessions \ {s} : session'[t] = session[t]
      /\ \E swept, scrap :
           session'[s] = [session[s] EXCEPT !.pc = "swept", !.swept = swept, !.scrap = scrap]
      /\ session[s].pc = "posted" \/ (session[s].pc = "loaded" /\ session[s].kind = "close")
      /\ UNCHANGED <<job, mat, row, overlapped>>
  BY DEF Sweep, Sweeps, Shapes
<1>2. /\ session'[s].pc = "swept" /\ session'[s].kind = session[s].kind
      /\ session'[s].good = session[s].good /\ session'[s].seen = session[s].seen
      /\ session'[s].read = session[s].read /\ session'[s].stale = session[s].stale
  BY <1>1 DEF Shapes, SessionFields
<1>3. s # Script
  BY <1>1 DEF AcceptInv, ScriptPostsNothing
<1> QED
  BY <1>1, <1>2, <1>3, StepKeepsReceipts

(* The sweep of the script.                                                *)
LEMMA SweepBackfillKeepsReceipts ==
  ASSUME Shapes, ReceiptInv, SweepBackfill
  PROVE  ReceiptInv'
<1>1. Script \in Sessions
  BY DEF Sessions
<1>2. /\ session[Script] = Idle /\ UNCHANGED <<job, mat, row, overlapped>>
      /\ \A t \in Sessions \ {Script} : session'[t] = session[t]
      /\ session'[Script].pc = "swept" /\ session'[Script].kind = "backfill"
  BY <1>1 DEF SweepBackfill, Shapes, Idle
<1>3. Mine(Script)' = {}
  BY <1>1, <1>2 DEF ReceiptInv, RequestOK, Mine, Idle
<1>4. RequestOK(Script)'
  BY <1>2, <1>3 DEF RequestOK, Receiving
<1> QED
  BY <1>1, <1>2, <1>4, NothingPosted

(* An error takes back what the request has posted.                        *)
LEMMA AbortKeepsReceipts ==
  ASSUME Shapes, ReceiptInv, NEW s \in Sessions, Abort(s)
  PROVE  ReceiptInv'
<1>1. /\ UNCHANGED <<job, mat, overlapped>> /\ session'[s] = Idle
      /\ \A t \in Sessions \ {s} : session'[t] = session[t]
  BY DEF Abort, Shapes
<1>2. \A r \in Rows : row'[r] = IF r \in Mine(s) THEN FreeRow ELSE row[r]
  BY DEF Abort
<1>3. s # NoSession /\ NoSession \notin Sessions
  BY SessionsAssumption
<1>4. Receipts' = Receipts /\ Consumptions' = Consumptions
  BY <1>2, <1>3 DEF Receipts, Consumptions, Mine, FreeRow
<1>5. \A t \in Sessions \ {s} : /\ Mine(t)' = Mine(t)
                                /\ \A r \in Mine(t) : row'[r].kind = row[r].kind
  BY <1>2, <1>3 DEF Mine, FreeRow
<1>6. RequestOK(s)'
  <2>1. Mine(s)' = {}
    BY <1>2 DEF Mine, FreeRow
  <2> QED
    BY <1>1, <2>1 DEF RequestOK, Idle
<1>7. UpToDate(s)'
  BY <1>1 DEF UpToDate, Idle
<1> QED
  BY <1>1, <1>4, <1>5, <1>6, <1>7, NothingCommitted

(* A rollback changes journal entries only.                                *)
LEMMA RollBackKeepsReceipts ==
  ASSUME Shapes, ReceiptInv, NEW e \in Entries, RollBack(e)
  PROVE  ReceiptInv'
<1>1. \A r \in Rows : row'[r].kind = row[r].kind /\ row'[r].by = row[r].by
  BY DEF RollBack, Shapes, RowFields
<1>2. UNCHANGED <<session, job, mat, overlapped>>
  BY DEF RollBack
<1>3. Receipts' = Receipts /\ Consumptions' = Consumptions
  BY <1>1 DEF Receipts, Consumptions
<1>4. \A t \in Sessions : Mine(t)' = Mine(t) /\ \A r \in Mine(t) : row'[r].kind = row[r].kind
  BY <1>1 DEF Mine
<1>5. Script \in Sessions
  BY DEF Sessions
<1>6. RequestOK(Script)'
  BY <1>2, <1>4, <1>5, RequestStaysOK DEF ReceiptInv
<1> QED
  BY <1>2, <1>3, <1>4, <1>5, <1>6, NothingCommitted

(* Posting stock: one row of the material if it was reserved, one receipt  *)
(* if the order is completed, and nothing of anybody else's.               *)
LEMMA PostStockKeepsReceipts ==
  ASSUME Shapes, AcceptInv, ReceiptInv, NEW s \in Sessions, NEW held \in BOOLEAN,
         PostStock(s, held)
  PROVE  ReceiptInv'
<1> DEFINE consumes == session[s].read = "pending"
           receives == Completes(s) /\ ~Raises(s)
           used == First(Free)
           made == First(IF consumes THEN Free \ {used} ELSE Free)
<1>1. /\ session[s].pc \in {"read", "scrapped"} /\ session[s].kind \in Receiving
      /\ Mine(s) = {} /\ s # Script /\ s # NoSession
  <2>1. session[s].pc \in {"read", "scrapped"}
    BY DEF PostStock, ReadyToPost
  <2> QED
    BY <2>1, SessionsAssumption DEF ReceiptInv, RequestOK, AcceptInv, ScriptPostsNothing
<1>2. /\ consumes => used \in Free
      /\ receives => made \in Free
      /\ consumes /\ receives => used # made
  <2>1. CASE consumes \/ receives
    <3>1. Cardinality(Free) >= 2
      BY <2>1 DEF PostStock
    <3> QED
      BY <3>1, FreeRowsAreFree
  <2> QED
    BY <2>1
<1>3. row' = [r \in Rows |->
                CASE consumes /\ r = used ->
                       [kind |-> IF held THEN "negative_adjustment" ELSE "consumption",
                        cost |-> Ordered * MaterialCost, entry |-> NoEntry, by |-> s]
                  [] receives /\ r = made ->
                       [kind |-> "receipt", cost |-> ReceiptCost(s), entry |-> NoEntry, by |-> s]
                  [] OTHER -> row[r]]
  BY DEF PostStock
<1>4. /\ session[s].kind # "report" => ~Raises(s)
      /\ UNCHANGED <<job, mat, overlapped>>
      /\ \A t \in Sessions \ {s} : session'[t] = session[t]
      /\ session'[s] = [session[s] EXCEPT !.pc = "posted"]
  BY DEF PostStock, Shapes
<1>5. /\ session'[s].pc = "posted" /\ session'[s].kind = session[s].kind
      /\ session'[s].good = session[s].good /\ session'[s].seen = session[s].seen
      /\ session'[s].read = session[s].read /\ session'[s].stale = session[s].stale
  BY <1>4 DEF Shapes, SessionFields
<1>6. receives <=> Completes(s) /\ session[s].read # "unconvertible"
  BY DEF Raises
<1>7. Completes(s)' = Completes(s)
  BY <1>5 DEF Completes
<1> HIDE DEF consumes, receives, used, made
<1>8. \A r \in Rows :
        /\ consumes /\ r = used =>
             row'[r].kind \notin {"free", "receipt"} /\ row'[r].by = s /\ row[r].kind = "free"
        /\ receives /\ r = made =>
             row'[r].kind = "receipt" /\ row'[r].by = s /\ row[r].kind = "free"
        /\ ~(consumes /\ r = used) /\ ~(receives /\ r = made) => row'[r] = row[r]
  <2> TAKE r \in Rows
  <2>1. CASE consumes /\ r = used
    BY <1>2, <1>3, <2>1 DEF Free
  <2>2. CASE ~(consumes /\ r = used) /\ receives /\ r = made
    BY <1>2, <1>3, <2>2 DEF Free
  <2>3. CASE ~(consumes /\ r = used) /\ ~(receives /\ r = made)
    BY <1>3, <2>3
  <2> QED
    BY <1>2, <2>1, <2>2, <2>3
<1>9. /\ MyReceipts(s)' = IF receives THEN {made} ELSE {}
      /\ MyConsumption(s)' = IF consumes THEN {used} ELSE {}
  <2>1. (consumes => used \in Rows) /\ (receives => made \in Rows)
    BY <1>2 DEF Free
  <2>2. \A r \in Rows : ~(row[r].kind # "free" /\ row[r].by = s)
    BY <1>1 DEF Mine
  <2> QED
    BY <1>8, <2>1, <2>2 DEF MyReceipts, MyConsumption, Mine
<1>10. RequestOK(s)'
  <2>1. Postings(s)'
    BY <1>5, <1>6, <1>7, <1>9 DEF Postings, AtMostOne, consumes
  <2>2. session'[s].kind # "report" => session'[s].read # "unconvertible"
    BY <1>1, <1>4, <1>5 DEF Raises, Completes, Receiving
  <2> QED
    BY <1>1, <1>5, <2>1, <2>2 DEF RequestOK
<1>11. \A t \in Sessions \ {s} : /\ Mine(t)' = Mine(t)
                                 /\ \A r \in Mine(t) : row'[r].kind = row[r].kind
  BY <1>8 DEF Mine
<1>12. Receipts' = Receipts /\ Consumptions' = Consumptions
  BY <1>1, <1>8 DEF Receipts, Consumptions
<1>13. ASSUME ~overlapped PROVE UpToDate(s)'
  <2>1. UpToDate(s)
    BY <1>1, <1>13 DEF ReceiptInv
  <2> QED
    BY <1>1, <1>4, <1>5, <1>12, <2>1 DEF UpToDate, Checked, Receiving
<1> QED
  BY <1>4, <1>10, <1>11, <1>12, <1>13, NothingCommitted

(* What a commit does to the rows and to what the others know.             *)
CommittedStock(s) ==
    /\ Receipts' = Receipts \cup MyReceipts(s)
    /\ Consumptions' = Consumptions \cup MyConsumption(s)
    /\ \A t \in Sessions : Mine(t)' = IF t = s THEN {} ELSE Mine(t)
    /\ \A r \in Rows : row'[r].kind = row[r].kind

(* A commit makes the request's rows visible.                              *)
LEMMA CommitRows ==
  ASSUME Shapes, NEW s \in Sessions, Commit(s)
  PROVE  CommittedStock(s)
<1>1. \A r \in Rows : /\ row'[r].kind = row[r].kind
                      /\ row'[r].by = IF r \in Mine(s) THEN NoSession ELSE row[r].by
  BY DEF Commit, Shapes, RowFields
<1>2. NoSession \notin Sessions
  BY SessionsAssumption
<1>3. Receipts' = Receipts \cup MyReceipts(s)
  BY <1>1 DEF Receipts, MyReceipts, Mine
<1>4. Consumptions' = Consumptions \cup MyConsumption(s)
  BY <1>1 DEF Consumptions, MyConsumption, Mine
<1>5. \A t \in Sessions : Mine(t)' = IF t = s THEN {} ELSE Mine(t)
  BY <1>1, <1>2 DEF Mine
<1> QED
  BY <1>1, <1>3, <1>4, <1>5 DEF CommittedStock

(* A commit ends the request and makes every other open one stale, unless  *)
(* it is the script's.                                                     *)
LEMMA CommitSessions ==
  ASSUME Shapes, NEW s \in Sessions, Commit(s)
  PROVE  /\ session'[s] = Idle
         /\ \A t \in Sessions \ {s} :
              /\ session'[t].pc = session[t].pc /\ session'[t].kind = session[t].kind
              /\ session'[t].good = session[t].good /\ session'[t].seen = session[t].seen
              /\ session'[t].read = session[t].read /\ session'[t].bad = session[t].bad
              /\ session'[t].swept = session[t].swept /\ session'[t].scrap = session[t].scrap
              /\ session'[t].stale <=> session[t].stale \/ (session[t].pc # "idle" /\ s # Script)
<1>1. session'[s] = Idle
  BY DEF Commit
<1>2. \A t \in Sessions \ {s} :
        session'[t] = [session[t] EXCEPT
                         !.stale = session[t].stale \/ (session[t].pc # "idle" /\ s # Script)]
  BY DEF Commit
<1>3. ASSUME NEW t \in Sessions \ {s}
      PROVE  /\ session'[t].pc = session[t].pc /\ session'[t].kind = session[t].kind
             /\ session'[t].good = session[t].good /\ session'[t].seen = session[t].seen
             /\ session'[t].read = session[t].read /\ session'[t].bad = session[t].bad
             /\ session'[t].swept = session[t].swept /\ session'[t].scrap = session[t].scrap
  <2>1. PICK stale : session'[t] = [session[t] EXCEPT !.stale = stale]
    BY <1>2
  <2> QED
    BY <2>1 DEF Shapes, SessionFields
<1>4. ASSUME NEW t \in Sessions \ {s}
      PROVE  session'[t].stale = (session[t].stale \/ (session[t].pc # "idle" /\ s # Script))
  <2> DEFINE stale == session[t].stale \/ (session[t].pc # "idle" /\ s # Script)
  <2>1. session'[t] = [session[t] EXCEPT !.stale = stale]
    BY <1>2, Zenon
  <2>2. "stale" \in DOMAIN session[t]
    BY DEF Shapes, SessionFields
  <2> HIDE DEF stale
  <2>3. session'[t].stale = stale
    BY <2>1, <2>2
  <2> QED
    BY <2>3, Zenon DEF stale
<1> QED
  BY <1>1, <1>3, <1>4

(* The script leaves the order as it is.                                   *)
LEMMA ScriptLeavesJob ==
  ASSUME Shapes, AcceptInv, ReceiptInv, Commit(Script)
  PROVE  UNCHANGED <<job, mat>> /\ Mine(Script) = {}
<1>1. Script \in Sessions
  BY DEF Sessions
<1>2. session[Script].pc = "swept"
  BY <1>1 DEF Commit, Done, AcceptInv, ScriptPostsNothing
<1>3. session[Script].kind = "backfill" /\ Mine(Script) = {}
  BY <1>1, <1>2 DEF ReceiptInv, RequestOK, Receiving
<1>4. Left(Script) = job
  BY <1>3 DEF Left
<1>5. job' = job
  BY <1>4 DEF Commit, Written, ReceiptInv, JobFields
<1>6. mat' = mat
  BY <1>3 DEF Commit
<1> QED
  BY <1>3, <1>5, <1>6

(* A complete operation that was scheduled stays marked so.                *)
LEMMA ReopenedStays ==
  ASSUME ReceiptInv, ~overlapped, NEW s \in Sessions, s # Script,
         Commit(s), ~session[s].stale, ~job'.reopened
  PROVE  ~job.reopened /\ (session[s].kind = "schedule" => job.op # "complete")
<1>1. RequestOK(s) /\ Done(s) /\ session[s].pc # "idle" /\ session[s].seen = job
  BY DEF Commit, ReceiptInv, UpToDate, Done
<1>2. ~Left(s).reopened
  BY <1>1 DEF Commit, Written, ReceiptInv, JobFields
<1>3. CASE session[s].kind = "schedule"
  <2>1. Left(s) = Scheduled(job)
    BY <1>1, <1>3 DEF Left
  <2>2. Scheduled(job).reopened <=> job.reopened \/ job.op = "complete"
    BY Zenon DEF Scheduled, ReceiptInv, JobFields
  <2> QED
    BY <1>2, <2>1, <2>2
<1>4. CASE session[s].kind # "schedule"
  <2>1. Left(s).reopened = job.reopened
    BY <1>1, <1>4 DEF Left, Started, Reported, Scrapped, Completed, Finished, ReceiptInv, JobFields
  <2> QED
    BY <1>2, <1>4, <2>1
<1> QED
  BY <1>3, <1>4

(* A request that nobody has committed over leaves the order it computed   *)
(* from the order as it is.                                                *)
LEMMA FreshCommit ==
  ASSUME Shapes, AcceptInv, ReceiptInv, ~overlapped, NEW s \in Sessions, s # Script,
         Commit(s), ~session[s].stale
  PROVE  JobOK'
<1> SUFFICES ASSUME ~job'.reopened PROVE Settled'
  BY DEF JobOK
<1>0. ~job.reopened /\ (session[s].kind = "schedule" => job.op # "complete")
  BY ReopenedStays
<1>1. /\ Settled /\ RequestOK(s)
      /\ session[s].pc # "idle" /\ session[s].seen = job
      /\ session[s].pc # "loaded" /\ session[s].kind \in Receiving => session[s].read = mat
      /\ Checked(session[s].kind)
  <2>1. Done(s)
    BY DEF Commit
  <2> QED
    BY <1>0, <2>1 DEF ReceiptInv, JobOK, UpToDate, Done
<1>2. \A f \in JobFields : job'[f] = Left(s)[f]
  BY <1>1 DEF Commit, Written, ReceiptInv
<1>3. job'.status = Left(s).status /\ job'.ended = Left(s).ended /\ job'.op = Left(s).op
  BY <1>2 DEF JobFields
<1>4. /\ Receipts' = Receipts \cup MyReceipts(s)
      /\ Consumptions' = Consumptions \cup MyConsumption(s)
  BY CommitRows DEF CommittedStock
<1>5. mat' = IF MyConsumption(s) # {} THEN "consumed" ELSE mat
  BY DEF Commit, MyConsumption
<1>6. MyReceipts(s) \subseteq Mine(s) /\ MyConsumption(s) \subseteq Mine(s)
  BY DEF MyReceipts, MyConsumption
<1>7. \/ session[s].pc = "loaded" /\ session[s].kind \in {"schedule", "start", "scrap", "close"}
      \/ session[s].pc = "swept" /\ session[s].kind = "close"
      \/ session[s].pc \in {"posted", "swept"} /\ session[s].kind \in Receiving
  BY <1>1 DEF Commit, Done, RequestOK
<1>8. CASE session[s].kind \in {"schedule", "start", "scrap", "close"}
  <2>1. Receipts' = Receipts /\ Consumptions' = Consumptions /\ mat' = mat
    BY <1>1, <1>4, <1>5, <1>6, <1>8 DEF RequestOK, Receiving
  <2>2. CASE session[s].kind = "start"
    <3>1. job'.status = "in_progress" /\ job'.op = "running" /\ job'.ended = FALSE
      BY <1>1, <1>3, <2>2 DEF Left, Started, Checked, Settled, ReceiptInv, JobFields
    <3> QED
      BY <1>1, <2>1, <2>2, <3>1 DEF Settled, Checked
  <2>3. CASE session[s].kind = "scrap"
    <3>1. job'.status = job.status /\ job'.op = job.op /\ job'.ended = job.ended
      BY <1>1, <1>3, <2>3 DEF Left, Scrapped, ReceiptInv, JobFields
    <3> QED
      BY <1>1, <2>1, <3>1 DEF Settled
  <2>4. CASE session[s].kind = "close"
    <3>1. job'.status = "scrapped" /\ job'.op = job.op
      BY <1>1, <1>3, <2>4 DEF Left, ReceiptInv, JobFields
    <3> QED
      BY <1>1, <2>1, <2>4, <3>1 DEF Settled, Checked, Ending
  <2>5. CASE session[s].kind = "schedule"
    <3>1. job'.status = job.status /\ job'.op = "queued" /\ job'.ended = job.ended
      BY <1>1, <1>3, <2>5 DEF Left, Scheduled, ReceiptInv, JobFields
    <3> QED
      BY <1>0, <1>1, <2>1, <2>5, <3>1 DEF Settled
  <2> QED
    BY <1>8, <2>2, <2>3, <2>4, <2>5
<1>9. CASE session[s].kind \in Receiving
  <2>1. /\ session[s].read = mat /\ Postings(s)
        /\ session[s].kind # "report" => mat # "unconvertible"
    BY <1>1, <1>7, <1>9 DEF RequestOK, Receiving
  <2>2. Receipts = {} /\ job.status # "complete"
    BY <1>1, <1>9 DEF Settled, Checked, Receiving, Ending
  <2>3. job'.op = "complete"
    BY <1>1, <1>3, <1>9 DEF Left, Reported, Completed, Finished, Receiving, ReceiptInv, JobFields
  <2>4. job'.status = IF Completes(s) THEN "complete" ELSE "short"
    <3>1. CASE session[s].kind = "report"
      <4>1. job.ended = FALSE
        BY <1>1, <3>1 DEF Settled, Checked
      <4>2. Completes(s) <=> session[s].good >= Ordered
        BY <1>1, <2>2, <3>1, <4>1 DEF Completes
      <4> QED
        BY <1>3, <3>1, <4>2 DEF Left, Reported
    <3>2. CASE session[s].kind = "complete"
      BY <1>1, <1>3, <3>2 DEF Left, Completed, Finished, Completes, ReceiptInv, JobFields
    <3>3. CASE session[s].kind = "accept"
      BY <1>1, <1>3, <3>3 DEF Left, Finished, Completes, ReceiptInv, JobFields
    <3> QED
      BY <1>9, <3>1, <3>2, <3>3 DEF Receiving
  <2>5. /\ MyConsumption(s) # {} => Consumptions = {} /\ mat' = "consumed"
        /\ MyConsumption(s) = {} => mat' = mat
    BY <1>1, <1>5, <2>1 DEF Postings, Settled
  <2>6. Receipts' # {} <=> Completes(s) /\ mat # "unconvertible"
    BY <1>4, <2>1, <2>2 DEF Postings
  <2>7. mat = "unconvertible" => mat' = "unconvertible"
    BY <2>1, <2>5 DEF Postings
  <2>8. AtMostOne(Receipts') /\ AtMostOne(Consumptions')
    BY <1>1, <1>4, <2>1, <2>2, <2>5 DEF Postings, Settled, AtMostOne
  <2>9. Consumptions' # {} => mat' = "consumed"
    BY <1>1, <1>4, <2>5 DEF Settled
  <2> QED
    BY <2>3, <2>4, <2>6, <2>7, <2>8, <2>9 DEF Settled, AtMostOne
<1> QED
  BY <1>7, <1>8, <1>9

(* A commit: of a request that nobody has committed over, or of the        *)
(* script; any other one sets overlapped.                                  *)
LEMMA CommitKeepsReceipts ==
  ASSUME Shapes, AcceptInv, ReceiptInv, NEW s \in Sessions, Commit(s)
  PROVE  ReceiptInv'
<1>1. /\ CommittedStock(s) /\ session'[s] = Idle
      /\ overlapped' = (overlapped \/ session[s].stale)
      /\ job' = [f \in JobFields |-> job'[f]]
  <2>1. DOMAIN job = JobFields
    BY DEF ReceiptInv
  <2>2. job' = [f \in JobFields |-> job'[f]]
    BY <2>1 DEF Commit, Written
  <2>3. overlapped' = (overlapped \/ session[s].stale)
    BY Zenon DEF Commit
  <2> QED
    BY <2>2, <2>3, CommitRows, CommitSessions
<1>2. ASSUME NEW t \in Sessions PROVE RequestOK(t)'
  <2>1. CASE t = s
    BY <1>1, <2>1 DEF CommittedStock, RequestOK, Idle
  <2>2. CASE t # s
    <3>1. Mine(t)' = Mine(t) /\ \A r \in Mine(t) : row'[r].kind = row[r].kind
      BY <1>1, <2>2 DEF CommittedStock, Mine
    <3> QED
      BY <2>2, <3>1, CommitSessions, RequestStaysOK DEF ReceiptInv
  <2> QED
    BY <2>1, <2>2
<1>3. CASE s # Script
  <2>1. ASSUME ~overlapped' PROVE JobOK'
    BY <1>1, <1>3, <2>1, FreshCommit
  <2>2. ASSUME NEW t \in Sessions PROVE UpToDate(t)'
    <3>1. CASE t = s
      BY <1>1, <3>1 DEF UpToDate, Idle
    <3>2. CASE t # s
      BY <1>3, <3>2, CommitSessions DEF UpToDate
    <3> QED
      BY <3>1, <3>2
  <2> QED
    BY <1>1, <1>2, <2>1, <2>2 DEF ReceiptInv
<1>4. CASE s = Script
  <2>1. UNCHANGED <<job, mat>> /\ Mine(Script) = {}
    BY <1>4, ScriptLeavesJob
  <2>2. Receipts' = Receipts /\ Consumptions' = Consumptions
    BY <1>1, <1>4, <2>1 DEF CommittedStock, MyReceipts, MyConsumption
  <2>3. ASSUME ~overlapped' PROVE JobOK'
    BY <1>1, <2>1, <2>2, <2>3 DEF ReceiptInv, JobOK, Settled, AtMostOne
  <2>4. ASSUME ~overlapped', NEW t \in Sessions \ {Script} PROVE UpToDate(t)'
    <3>1. UpToDate(t)
      BY <1>1, <2>4 DEF ReceiptInv
    <3>2. /\ session'[t].pc = session[t].pc /\ session'[t].kind = session[t].kind
          /\ session'[t].seen = session[t].seen /\ session'[t].read = session[t].read
          /\ session'[t].stale <=> session[t].stale
      BY <1>4, CommitSessions
    <3> QED
      BY <2>1, <2>2, <3>1, <3>2 DEF UpToDate, Checked
  <2> QED
    BY <1>1, <1>2, <2>3, <2>4 DEF ReceiptInv
<1> QED
  BY <1>3, <1>4

(* Every step keeps it.                                                    *)
LEMMA ReceiptInvStep ==
  ASSUME Shapes, AcceptInv, ReceiptInv, [Next]_vars
  PROVE  ReceiptInv'
<1>1. CASE \E t \in Threads :
             \/ LoadSchedule(t)
             \/ LoadStart(t)
             \/ \E good, bad \in 0..Ordered : LoadReport(t, good, bad)
             \/ \E bad \in 1..Ordered : LoadScrap(t, bad)
             \/ PostScrap(t)
  <2>1. PICK t \in Threads :
          \/ LoadSchedule(t)
          \/ LoadStart(t)
          \/ \E good, bad \in 0..Ordered : LoadReport(t, good, bad)
          \/ \E bad \in 1..Ordered : LoadScrap(t, bad)
          \/ PostScrap(t)
    BY <1>1
  <2>2. t \in Sessions /\ t # Script
    BY SessionsAssumption DEF Sessions
  <2>3. \/ \E kind, good, bad : Loads(t, kind, good, bad) /\ Checked(kind)
        \/ PostScrap(t)
    BY <2>1 DEF LoadSchedule, LoadStart, LoadReport, LoadScrap, Checked, Ending
  <2> QED
    BY <2>2, <2>3, LoadsKeepsReceipts, PostScrapKeepsReceipts
<1>2. CASE (\E good, bad \in 0..Ordered : LoadComplete(good, bad)) \/ LoadAccept \/ LoadClose
  <2>1. \E kind, good, bad : Loads(EventLoop, kind, good, bad) /\ Checked(kind)
    BY <1>2 DEF LoadComplete, LoadAccept, LoadClose, Checked, Ending
  <2>2. EventLoop \in Sessions /\ EventLoop # Script
    BY SessionsAssumption DEF Sessions
  <2> QED
    BY <2>1, <2>2, LoadsKeepsReceipts
<1>3. CASE SweepBackfill
  BY <1>3, SweepBackfillKeepsReceipts
<1>4. ASSUME NEW s \in Sessions,
             \/ ReadMaterials(s)
             \/ \E held \in BOOLEAN : PostStock(s, held)
             \/ Sweep(s)
             \/ Commit(s)
             \/ Abort(s)
      PROVE  ReceiptInv'
  BY <1>4, ReadMaterialsKeepsReceipts, PostStockKeepsReceipts, SweepKeepsReceipts,
     CommitKeepsReceipts, AbortKeepsReceipts
<1>5. CASE \E e \in Entries : RollBack(e)
  BY <1>5, RollBackKeepsReceipts
<1>6. CASE UNCHANGED vars
  BY <1>6 DEF vars, ReceiptInv, RequestOK, JobOK, Settled, UpToDate, Checked, Postings, Completes,
              Mine, MyReceipts, MyConsumption, Receipts, Consumptions, AtMostOne
<1> QED
  BY <1>1, <1>2, <1>3, <1>4, <1>5, <1>6 DEF Next

(* The invariant says what the property says.                              *)
LEMMA ReceiptInvImplies == ASSUME ReceiptInv PROVE ReceivedOnce
<1>1. IsFiniteSet(Rows)
  BY BoundsAssumption, FS_Interval DEF Rows
<1> DEFINE Consumed ==
      {r \in Rows : row[r].kind \in {"consumption", "negative_adjustment"} /\ row[r].by = NoSession}
<1>2. Consumed \subseteq Consumptions
  BY DEF Consumptions
<1>3. IsFiniteSet(Receipts) /\ IsFiniteSet(Consumed)
  BY <1>1, FS_Subset DEF Receipts
<1>4. ASSUME ~overlapped, ~job.reopened
      PROVE  /\ Cardinality(Receipts) <= 1 /\ Cardinality(Consumed) <= 1
             /\ job.status = "complete" /\ Receipts = {} => mat = "unconvertible"
  <2>1. /\ AtMostOne(Receipts) /\ AtMostOne(Consumed)
        /\ job.status = "complete" /\ Receipts = {} => mat = "unconvertible"
    BY <1>2, <1>4 DEF ReceiptInv, JobOK, Settled, AtMostOne
  <2> HIDE DEF Consumed
  <2> QED
    BY <1>3, <2>1, AtMostOneCardinality, FS_CardinalityType
<1> QED
  BY <1>4 DEF ReceivedOnce

(* The finished goods of an order are received once and its material is    *)
(* consumed once, whatever reports, completions, acceptances, closings and *)
(* errors come in between, unless a request commits over another one's     *)
(* commit; and a complete order was received, unless its material cannot   *)
(* be consumed, which update_po_status swallows.                           *)
THEOREM StockPostedOnce == Spec => []ReceivedOnce
<1>1. Init => JournalInv /\ AcceptInv /\ ReceiptInv
  BY JournalInvInit, AcceptInvInit, ReceiptInvInit
<1>2. (JournalInv /\ AcceptInv /\ ReceiptInv) /\ [Next]_vars
        => (JournalInv /\ AcceptInv /\ ReceiptInv)'
  BY JournalInvStep, AcceptInvStep, ReceiptInvStep DEF JournalInv
<1>3. ReceiptInv => ReceivedOnce
  BY ReceiptInvImplies
<1> QED
  BY <1>1, <1>2, <1>3, PTL DEF Spec

-----------------------------------------------------------------------------
(* Work in progress.                                                       *)

(* Entries and sweeps that show the receipt.                               *)
ShowsReceipt(rows) == \E r \in rows : row[r].kind = "receipt"

(* What a request's own scrap adds to the recorded credits.                *)
OwnScrap(s) == IF mat = "none" \/ session[s].kind # "report" THEN 0 ELSE RecordedScrap(s)

WipTyped ==
    /\ DOMAIN credits = {"recorded", "unrecorded", "late"}
    /\ credits.recorded \in Nat /\ credits.unrecorded \in Nat /\ credits.late \in BOOLEAN
    /\ \A r \in Rows : row[r].cost \in Nat
    /\ \A e \in Entries :
         entry[e].consumed \in Nat /\ entry[e].received \in Nat /\ entry[e].scrap \in Nat
    /\ \A s \in Sessions : /\ session[s].bad \in Nat /\ session[s].scrap \in Nat
                           /\ session[s].kind = "accept" => session[s].seen.done \in Nat

(* Without a material row there is nothing to consume, and the sweep of a  *)
(* completion shows its own receipt.                                       *)
SweepsOK ==
    \A s \in Sessions :
        /\ mat = "none" => session[s].read # "pending"
        /\ session[s].pc = "swept" /\ session[s].kind \in Receiving =>
             ShowsReceipt(session[s].swept)

(* A sweep counts no more scrap than there is.                             *)
WithinScrap ==
    /\ \A e \in Posted : entry[e].scrap <= credits.recorded
    /\ \A s \in Sessions :
         session[s].pc = "swept" => session[s].scrap <= credits.recorded + OwnScrap(s)

(* An entry that shows the receipt has all of it, unless some came late.   *)
ReceiptHasScrap ==
    /\ \A e \in Posted : ShowsReceipt(entry[e].rows) => entry[e].scrap = credits.recorded
    /\ \A s \in Sessions : ShowsReceipt(session[s].swept) =>
                             session[s].scrap = credits.recorded + OwnScrap(s)

(* So does the entry of the closing of an order.                           *)
ClosingHasScrap ==
    /\ \A e \in Posted : ~entry[e].scripted /\ ~ShowsReceipt(entry[e].rows) =>
                           entry[e].scrap = credits.recorded /\ job.status = "scrapped"
    /\ \A s \in Sessions : session[s].kind = "close" /\ session[s].pc = "swept" =>
                             session[s].scrap = credits.recorded

WipInv ==
    /\ WipTyped
    /\ SweepsOK
    /\ WithinScrap
    /\ ~credits.late => ReceiptHasScrap
    /\ ~credits.late /\ ~overlapped /\ ~job.reopened => ClosingHasScrap

(* Nothing is in work in progress in the beginning.                        *)
LEMMA WipInvInit == ASSUME Init PROVE WipInv
<1>1. Posted = {}
  BY DEF Init, Posted, FreeEntry
<1>2. \A s \in Sessions : session[s] = Idle
  BY DEF Init
<1>3. WipTyped
  BY DEF Init, WipTyped, FreeRow, FreeEntry, Idle
<1>4. SweepsOK /\ WithinScrap /\ ReceiptHasScrap /\ ClosingHasScrap
  BY <1>1, <1>2 DEF SweepsOK, WithinScrap, ReceiptHasScrap, ClosingHasScrap, ShowsReceipt, Idle
<1> QED
  BY <1>3, <1>4 DEF WipInv

(* The credit of a request's own scrap is a natural number.                *)
LEMMA ScrapCredit ==
  ASSUME NEW s \in Sessions, session[s].bad \in Nat
  PROVE  /\ RecordedScrap(s) \in Nat /\ OwnScrap(s) \in Nat /\ OwnScrap(s) <= RecordedScrap(s)
         /\ session[s].kind \notin {"report", "scrap"} => RecordedScrap(s) = 0
<1> DEFINE piece == LaborCost + IF mat = "none" THEN 0 ELSE MaterialCost
<1>1. piece \in Nat
  BY CostsAssumption
<1> HIDE DEF piece
<1>2. session[s].bad * piece \in Nat
  BY <1>1
<1>3. RecordedScrap(s) = IF session[s].kind \in {"report", "scrap"} /\ session[s].bad > 0
                           THEN session[s].bad * piece ELSE 0
  BY DEF RecordedScrap, piece
<1> QED
  BY <1>2, <1>3 DEF OwnScrap

(* A swept request's share of the scrap depends on itself and on whether   *)
(* there is a material row.                                                *)
LEMMA ScrapStays ==
  ASSUME NEW t, session'[t].kind = session[t].kind, session'[t].bad = session[t].bad,
         mat' = "none" <=> mat = "none"
  PROVE  OwnScrap(t)' = OwnScrap(t)
BY DEF OwnScrap, RecordedScrap

(* A request that has not swept, or that just has.                         *)
NotSwept(q) == q.pc # "swept" /\ q.swept = {}
JustSwept(s) ==
    /\ session[s].pc = "swept" /\ session[s].scrap = credits.recorded + OwnScrap(s)
    /\ session[s].kind \in Receiving => ShowsReceipt(session[s].swept)

(* A step without a commit.                                                *)
LEMMA NothingCredited ==
  ASSUME WipInv, NEW s \in Sessions, UNCHANGED <<job, mat, entry, credits, overlapped>>,
         \A t \in Sessions \ {s} : session'[t] = session[t],
         \A r \in Rows : row'[r].cost \in Nat,
         \A e \in Posted : \A r \in entry[e].rows : row'[r].kind = row[r].kind,
         \A t \in Sessions \ {s} : \A r \in session[t].swept : row'[r].kind = row[r].kind,
         session'[s].bad \in Nat, session'[s].scrap \in Nat,
         session'[s].kind = "accept" => session'[s].seen.done \in Nat,
         mat = "none" => session'[s].read # "pending",
         NotSwept(session'[s]) \/ JustSwept(s)'
  PROVE  WipInv'
<1>1. Posted' = Posted
  BY DEF Posted
<1>2. \A t \in Sessions \ {s} : OwnScrap(t)' = OwnScrap(t)
  BY ScrapStays
<1>3. \A t \in Sessions \ {s} : ShowsReceipt(session[t].swept)' = ShowsReceipt(session[t].swept)
  BY DEF ShowsReceipt
<1>4. \A e \in Posted : ShowsReceipt(entry[e].rows)' = ShowsReceipt(entry[e].rows)
  BY DEF ShowsReceipt
<1>5. OwnScrap(s)' \in Nat
  <2> DEFINE piece == LaborCost + IF mat' = "none" THEN 0 ELSE MaterialCost
  <2>1. piece \in Nat
    BY CostsAssumption
  <2> HIDE DEF piece
  <2>2. session'[s].bad * piece \in Nat
    BY <2>1
  <2>3. OwnScrap(s)' = 0 \/ OwnScrap(s)' = session'[s].bad * piece
    BY DEF OwnScrap, RecordedScrap, piece
  <2> QED
    BY <2>2, <2>3
<1>6. WipTyped'
  BY DEF WipInv, WipTyped
<1>7. SweepsOK'
  BY <1>3 DEF WipInv, SweepsOK, NotSwept, JustSwept
<1>8. WithinScrap'
  BY <1>1, <1>2, <1>5 DEF WipInv, WipTyped, WithinScrap, NotSwept, JustSwept
<1>9. ASSUME ~credits.late PROVE ReceiptHasScrap'
  BY <1>1, <1>2, <1>3, <1>4, <1>9 DEF WipInv, ReceiptHasScrap, NotSwept, JustSwept, ShowsReceipt
<1>10. ASSUME ~credits.late, ~overlapped, ~job.reopened PROVE ClosingHasScrap'
  <2>1. session'[s].kind = "close" => OwnScrap(s)' = 0
    BY DEF OwnScrap
  <2> QED
    BY <1>1, <1>4, <1>10, <2>1 DEF WipInv, WipTyped, ClosingHasScrap, NotSwept, JustSwept
<1> QED
  BY <1>6, <1>7, <1>8, <1>9, <1>10 DEF WipInv

(* The rows of posted entries and of sweeps are neither free nor anybody's *)
(* but the sweeper's.                                                      *)
LEMMA SweptRowsAreKept ==
  ASSUME JournalInv
  PROVE  /\ \A e \in Posted : \A r \in entry[e].rows :
              r \in Rows /\ row[r].kind # "free" /\ row[r].by = NoSession
         /\ \A t \in Sessions : \A r \in session[t].swept :
              r \in Rows /\ row[r].kind # "free" /\ row[r].by \in {t, NoSession}
<1>1. \A e \in Posted : e # NoEntry
  BY BoundsAssumption DEF Posted
<1> QED
  BY <1>1 DEF JournalInv, JournaledOnce, EntryRows, CommittedRows, SweptRows, Posted

(* Loading, reading and posting scrap sweep nothing and change no row.     *)
LEMMA LoadsKeepsWip ==
  ASSUME JournalInv, WipInv, NEW s \in Sessions, NEW kind, NEW good, NEW bad \in Nat,
         Loads(s, kind, good, bad), kind = "accept" => job.done \in Nat
  PROVE  WipInv'
<1>1. /\ UNCHANGED <<job, mat, row, entry, credits, overlapped>>
      /\ \A t \in Sessions \ {s} : session'[t] = session[t]
      /\ session'[s] = [Idle EXCEPT !.pc = "loaded", !.kind = kind, !.good = good,
                                    !.bad = bad, !.seen = job]
  BY DEF Loads, JournalInv, Shapes
<1>2. /\ session'[s].bad \in Nat /\ session'[s].scrap \in Nat
      /\ session'[s].kind = "accept" => session'[s].seen.done \in Nat
      /\ session'[s].read # "pending" /\ NotSwept(session'[s])
  BY <1>1 DEF Idle, NotSwept
<1> QED
  BY <1>1, <1>2, NothingCredited DEF WipInv, WipTyped

(* Reading the materials posts nothing.                                    *)
LEMMA ReadMaterialsKeepsWip ==
  ASSUME JournalInv, WipInv, NEW s \in Sessions, ReadMaterials(s) \/ PostScrap(s)
  PROVE  WipInv'
<1>1. /\ UNCHANGED <<job, mat, row, entry, credits, overlapped>>
      /\ \A t \in Sessions \ {s} : session'[t] = session[t]
      /\ session[s].pc # "swept"
      /\ \/ session'[s] = [session[s] EXCEPT !.pc = "read", !.read = mat]
         \/ session'[s] = [session[s] EXCEPT !.pc = "scrapped"]
  BY DEF ReadMaterials, PostScrap, JournalInv, Shapes
<1>2. /\ session'[s].bad = session[s].bad /\ session'[s].scrap = session[s].scrap
      /\ session'[s].kind = session[s].kind /\ session'[s].seen = session[s].seen
      /\ session'[s].read \in {mat, session[s].read}
      /\ session'[s].pc # "swept" /\ session'[s].swept = session[s].swept
  BY <1>1 DEF JournalInv, Shapes, SessionFields
<1>3. NotSwept(session'[s])
  BY <1>1, <1>2 DEF NotSwept, JournalInv, SweptRows
<1> QED
  BY <1>1, <1>2, <1>3, NothingCredited DEF WipInv, WipTyped, SweepsOK

(* Posted rows are nobody's yet.                                           *)
LEMMA PostStockKeepsWip ==
  ASSUME JournalInv, WipInv, NEW s \in Sessions, NEW held \in BOOLEAN, PostStock(s, held)
  PROVE  WipInv'
<1>1. /\ UNCHANGED <<job, mat, entry, credits, overlapped>>
      /\ \A t \in Sessions \ {s} : session'[t] = session[t]
      /\ session[s].pc # "swept"
      /\ session'[s] = [session[s] EXCEPT !.pc = "posted"]
  BY DEF PostStock, ReadyToPost, JournalInv, Shapes
<1>2. /\ session'[s].bad = session[s].bad /\ session'[s].scrap = session[s].scrap
      /\ session'[s].kind = session[s].kind /\ session'[s].seen = session[s].seen
      /\ session'[s].read = session[s].read
      /\ session'[s].pc # "swept" /\ session'[s].swept = session[s].swept
  BY <1>1 DEF JournalInv, Shapes, SessionFields
<1>3. NotSwept(session'[s])
  BY <1>1, <1>2 DEF NotSwept, JournalInv, SweptRows
<1>4. \A r \in Rows : row[r].kind # "free" => row'[r].kind = row[r].kind
  BY PostedRows DEF JournalInv, Shapes
<1>5. \A r \in Rows : row'[r].cost \in Nat
  <2>1. ReceiptCost(s) \in Nat
    BY CostsAssumption DEF ReceiptCost, WipInv, WipTyped
  <2>2. Ordered * MaterialCost \in Nat
    BY CostsAssumption
  <2>3. \A r \in Rows :
          row'[r].cost \in {Ordered * MaterialCost, ReceiptCost(s), row[r].cost}
    <3> DEFINE consumes(r) == session[s].read = "pending" /\ r = First(Free)
               receives(r) == /\ Completes(s) /\ ~Raises(s)
                              /\ r = First(IF session[s].read = "pending"
                                             THEN Free \ {First(Free)} ELSE Free)
    <3>1. row' = [r \in Rows |->
                    CASE consumes(r) ->
                           [kind |-> IF held THEN "negative_adjustment" ELSE "consumption",
                            cost |-> Ordered * MaterialCost, entry |-> NoEntry, by |-> s]
                      [] receives(r) ->
                           [kind |-> "receipt", cost |-> ReceiptCost(s), entry |-> NoEntry, by |-> s]
                      [] OTHER -> row[r]]
      BY DEF PostStock
    <3> HIDE DEF consumes, receives
    <3> TAKE r \in Rows
    <3>2. CASE consumes(r) /\ receives(r)
      BY <3>1, <3>2
    <3>3. CASE ~(consumes(r) /\ receives(r))
      BY <3>1, <3>3
    <3> QED
      BY <3>2, <3>3
  <2> QED
    BY <2>1, <2>2, <2>3 DEF WipInv, WipTyped
<1>6. /\ \A e \in Posted : \A r \in entry[e].rows : row'[r].kind = row[r].kind
      /\ \A t \in Sessions : \A r \in session[t].swept : row'[r].kind = row[r].kind
  BY <1>4, SweptRowsAreKept
<1> QED
  BY <1>1, <1>2, <1>3, <1>5, <1>6, NothingCredited DEF WipInv, WipTyped, SweepsOK

(* A sweep takes the credits there are, and its own.                       *)
LEMMA SweepKeepsWip ==
  ASSUME JournalInv, AcceptInv, ReceiptInv, WipInv, NEW s \in Sessions, Sweep(s)
  PROVE  WipInv'
<1>1. /\ UNCHANGED <<job, mat, row, entry, credits, overlapped>>
      /\ \A t \in Sessions \ {s} : session'[t] = session[t]
      /\ session'[s] = [session[s] EXCEPT !.pc = "swept", !.swept = Unjournaled(s),
                                          !.scrap = SweptScrap(s)]
  BY DEF Sweep, JournalInv, Shapes
<1>2. /\ session'[s].bad = session[s].bad /\ session'[s].scrap = SweptScrap(s)
      /\ session'[s].kind = session[s].kind /\ session'[s].seen = session[s].seen
      /\ session'[s].read = session[s].read
      /\ session'[s].pc = "swept" /\ session'[s].swept = Unjournaled(s)
  BY <1>1 DEF JournalInv, Shapes, SessionFields
<1>3. OwnScrap(s)' = OwnScrap(s) /\ OwnScrap(s) \in Nat
  BY <1>1, <1>2, ScrapStays, ScrapCredit DEF WipInv, WipTyped
<1>4. SweptScrap(s) = credits.recorded + OwnScrap(s)
  BY DEF SweptScrap, OwnScrap
<1>5. session[s].kind \in Receiving => ShowsReceipt(Unjournaled(s))
  <2> SUFFICES ASSUME session[s].kind \in Receiving PROVE ShowsReceipt(Unjournaled(s))
    OBVIOUS
  <2>1. PICK r \in Mine(s) : row[r].kind = "receipt"
    BY DEF Sweep, Sweeps, Receiving
  <2>2. row[r].entry = NoEntry
    BY <2>1, SessionsAssumption DEF JournalInv, CommittedRows, Mine
  <2> QED
    BY <2>1, <2>2 DEF ShowsReceipt, Unjournaled, Visible, Mine
<1>6. JustSwept(s)'
  BY <1>1, <1>2, <1>3, <1>4, <1>5 DEF JustSwept, ShowsReceipt
<1>7. /\ \A r \in Rows : row'[r].cost \in Nat
      /\ session'[s].bad \in Nat /\ session'[s].scrap \in Nat
      /\ session'[s].kind = "accept" => session'[s].seen.done \in Nat
      /\ mat = "none" => session'[s].read # "pending"
  BY <1>1, <1>2, <1>3, <1>4 DEF WipInv, WipTyped, SweepsOK
<1> QED
  BY <1>1, <1>6, <1>7, NothingCredited

(* The script has no scrap of its own.                                     *)
LEMMA SweepBackfillKeepsWip ==
  ASSUME JournalInv, WipInv, SweepBackfill
  PROVE  WipInv'
<1>1. Script \in Sessions
  BY DEF Sessions
<1>2. /\ UNCHANGED <<job, mat, row, entry, credits, overlapped>>
      /\ session[Script] = Idle
      /\ \A t \in Sessions \ {Script} : session'[t] = session[t]
      /\ session'[Script] = [Idle EXCEPT !.pc = "swept", !.kind = "backfill",
                               !.swept = Unjournaled(Script), !.scrap = SweptScrap(Script)]
  BY <1>1 DEF SweepBackfill, JournalInv, Shapes
<1>3. /\ session'[Script].bad = 0 /\ session'[Script].scrap = SweptScrap(Script)
      /\ session'[Script].kind = "backfill" /\ session'[Script].read = "none"
      /\ session'[Script].pc = "swept"
  BY <1>2 DEF Idle
<1>4. SweptScrap(Script) = credits.recorded /\ OwnScrap(Script)' = 0
  <2>1. session[Script].kind = "none"
    BY <1>2 DEF Idle
  <2> QED
    BY <1>3, <2>1 DEF SweptScrap, OwnScrap, WipInv, WipTyped
<1>5. JustSwept(Script)'
  BY <1>2, <1>3, <1>4 DEF JustSwept, Receiving, WipInv, WipTyped
<1>6. /\ \A r \in Rows : row'[r].cost \in Nat
      /\ session'[Script].bad \in Nat /\ session'[Script].scrap \in Nat
  BY <1>2, <1>3, <1>4 DEF WipInv, WipTyped
<1> QED
  BY <1>1, <1>2, <1>3, <1>5, <1>6, NothingCredited

(* What an abort takes back nobody else has swept.                         *)
LEMMA AbortKeepsWip ==
  ASSUME JournalInv, WipInv, NEW s \in Sessions, Abort(s)
  PROVE  WipInv'
<1>1. /\ UNCHANGED <<job, mat, entry, credits, overlapped>> /\ session'[s] = Idle
      /\ \A t \in Sessions \ {s} : session'[t] = session[t]
      /\ \A r \in Rows : row'[r] = IF r \in Mine(s) THEN FreeRow ELSE row[r]
  BY DEF Abort, JournalInv, Shapes
<1>2. \A r \in Rows : row'[r].cost \in Nat
  BY <1>1 DEF FreeRow, WipInv, WipTyped
<1>3. /\ \A e \in Posted : \A r \in entry[e].rows : row'[r].kind = row[r].kind
      /\ \A t \in Sessions \ {s} : \A r \in session[t].swept : row'[r].kind = row[r].kind
  BY <1>1, SweptRowsAreKept, SessionsAssumption DEF Mine
<1>4. NotSwept(session'[s])
  BY <1>1 DEF NotSwept, Idle
<1> QED
  BY <1>1, <1>2, <1>3, <1>4, NothingCredited DEF Idle

(* A rollback voids an entry and leaves the others.                        *)
LEMMA RollBackKeepsWip ==
  ASSUME JournalInv, WipInv, NEW e \in Entries, RollBack(e)
  PROVE  WipInv'
<1>1. /\ UNCHANGED <<job, mat, credits, session, overlapped>>
      /\ entry' = [entry EXCEPT ![e].status = "voided"]
  BY DEF RollBack
<1>2. \A r \in Rows : row'[r].kind = row[r].kind /\ row'[r].cost = row[r].cost
  BY DEF RollBack, JournalInv, Shapes, RowFields
<1>3. \A f \in Entries : /\ entry'[f].rows = entry[f].rows /\ entry'[f].scrap = entry[f].scrap
                         /\ entry'[f].scripted = entry[f].scripted
                         /\ entry'[f].consumed = entry[f].consumed
                         /\ entry'[f].received = entry[f].received
                         /\ entry'[f].status = IF f = e THEN "voided" ELSE entry[f].status
  BY <1>1 DEF JournalInv, Shapes, EntryFields
<1>4. Posted' \subseteq Posted
  BY <1>3 DEF Posted
<1>5. /\ \A f \in Entries : ShowsReceipt(entry[f].rows)' = ShowsReceipt(entry[f].rows)
      /\ \A t \in Sessions : ShowsReceipt(session[t].swept)' = ShowsReceipt(session[t].swept)
  BY <1>1, <1>2, <1>3 DEF ShowsReceipt, JournalInv, EntryRows, SweptRows
<1>6. \A t \in Sessions : OwnScrap(t)' = OwnScrap(t)
  BY <1>1, ScrapStays
<1>7. WipTyped'
  BY <1>1, <1>2, <1>3 DEF WipInv, WipTyped
<1>8. SweepsOK' /\ WithinScrap'
  BY <1>1, <1>3, <1>4, <1>5, <1>6 DEF WipInv, SweepsOK, WithinScrap, Posted
<1>9. ASSUME ~credits.late PROVE ReceiptHasScrap'
  BY <1>1, <1>3, <1>4, <1>5, <1>6, <1>9 DEF WipInv, ReceiptHasScrap, Posted
<1>10. ASSUME ~credits.late, ~overlapped, ~job.reopened PROVE ClosingHasScrap'
  BY <1>1, <1>3, <1>4, <1>5, <1>10 DEF WipInv, ClosingHasScrap, Posted
<1> QED
  BY <1>1, <1>7, <1>8, <1>9, <1>10 DEF WipInv

(* What a commit adds to the credits; late scrap is marked.                *)
LEMMA CommitCredits ==
  ASSUME JournalInv, WipTyped, NEW s \in Sessions, Commit(s)
  PROVE  /\ credits'.recorded =
              credits.recorded + IF mat = "none" THEN 0 ELSE RecordedScrap(s)
         /\ credits'.unrecorded =
              credits.unrecorded + IF mat = "none" THEN RecordedScrap(s) ELSE 0
         /\ credits'.late <=> \/ credits.late
                              \/ /\ RecordedScrap(s) > 0
                                 /\ ReceiptSwept(s) \/ job.status = "scrapped"
         /\ DOMAIN credits' = {"recorded", "unrecorded", "late"}
         /\ credits'.late \in BOOLEAN
<1> DEFINE amount == RecordedScrap(s)
           late == amount > 0 /\ (ReceiptSwept(s) \/ job.status = "scrapped")
<1>1. credits' = IF mat = "none"
                   THEN [credits EXCEPT !.unrecorded = credits.unrecorded + amount,
                                        !.late = credits.late \/ late]
                   ELSE [credits EXCEPT !.recorded = credits.recorded + amount,
                                        !.late = credits.late \/ late]
  BY Zenon DEF Commit, Credited
<1>2. amount \in Nat
  BY ScrapCredit DEF WipTyped
<1>3. late \in BOOLEAN
  OBVIOUS
<1>4. (credits.late \/ late) \in BOOLEAN
  OBVIOUS
<1> DEFINE marked == credits.late \/ late
<1>5. marked \in BOOLEAN /\ (marked <=> credits.late \/ late)
  BY <1>4
<1>6. credits' = IF mat = "none"
                   THEN [credits EXCEPT !.unrecorded = credits.unrecorded + amount,
                                        !.late = marked]
                   ELSE [credits EXCEPT !.recorded = credits.recorded + amount,
                                        !.late = marked]
  BY <1>1, Zenon
<1> HIDE DEF amount, late, marked
<1>7. /\ credits'.recorded = credits.recorded + IF mat = "none" THEN 0 ELSE amount
      /\ credits'.unrecorded = credits.unrecorded + IF mat = "none" THEN amount ELSE 0
      /\ DOMAIN credits' = {"recorded", "unrecorded", "late"}
  BY <1>2, <1>6 DEF WipTyped
<1>8. credits'.late = marked
  BY <1>6 DEF WipTyped
<1> QED
  BY <1>5, <1>7, <1>8 DEF amount, late

(* The entry that a commit posts, if it has swept.                         *)
LEMMA CommitEntry ==
  ASSUME JournalInv, WipTyped, NEW s \in Sessions, Commit(s)
  PROVE  \/ UNCHANGED entry
         \/ /\ session[s].pc = "swept"
            /\ \E e \in Unused :
                 /\ \A f \in Entries \ {e} : entry'[f] = entry[f]
                 /\ entry'[e].status = "posted" /\ entry'[e].rows = session[s].swept
                 /\ entry'[e].scrap = session[s].scrap
                 /\ entry'[e].scripted <=> s = Script
                 /\ entry'[e].consumed \in Nat /\ entry'[e].received \in Nat
<1> SUFFICES ASSUME session[s].swept # {}
             PROVE  /\ session[s].pc = "swept"
                    /\ \E e \in Unused :
                         /\ \A f \in Entries \ {e} : entry'[f] = entry[f]
                         /\ entry'[e].status = "posted" /\ entry'[e].rows = session[s].swept
                         /\ entry'[e].scrap = session[s].scrap
                         /\ entry'[e].scripted <=> s = Script
                         /\ entry'[e].consumed \in Nat /\ entry'[e].received \in Nat
  BY DEF Commit
<1> DEFINE e == First(Unused)
<1>1. session[s].pc = "swept" /\ Unused # {}
  BY DEF JournalInv, SweptRows
<1>2. e \in Unused
  <2>1. Unused \subseteq Nat
    BY BoundsAssumption DEF Unused, Entries
  <2> QED
    BY <1>1, <2>1, FirstIsMember
<1> HIDE DEF e
<1>3. entry' = [entry EXCEPT ![e] = EntryOf(s)]
  BY DEF Commit, e
<1>4. entry'[e] = EntryOf(s) /\ \A f \in Entries \ {e} : entry'[f] = entry[f]
  BY <1>2, <1>3 DEF JournalInv, Shapes, Unused
<1>5. ASSUME NEW kind PROVE CostOf(session[s].swept, kind) \in Nat
  <2> DEFINE cost == [r \in Rows |-> row[r].cost]
             S == {r \in session[s].swept : row[r].kind = kind}
  <2>1. S \subseteq Rows /\ IsFiniteSet(Rows)
    BY BoundsAssumption, FS_Interval, SweptRowsAreKept DEF Rows
  <2>2. IsFiniteSet(S)
    BY <2>1, FS_Subset
  <2>3. \A r \in S : cost[r] \in Nat
    BY <2>1 DEF WipTyped
  <2> HIDE DEF cost, S
  <2>4. SumFunctionOnSet(cost, S) \in Nat
    BY <2>2, <2>3, SumNat
  <2> QED
    BY <2>4 DEF CostOf, cost, S
<1>6. entry'[e].consumed \in Nat /\ entry'[e].received \in Nat
  BY <1>4, <1>5 DEF EntryOf
<1>7. entry'[e].scripted <=> s = Script
  <2> DEFINE byScript == s = Script
  <2>1. \E c, r : EntryOf(s) = [status |-> "posted", rows |-> session[s].swept, consumed |-> c,
                                received |-> r, scrap |-> session[s].scrap, scripted |-> byScript]
    BY Zenon DEF EntryOf
  <2> HIDE DEF byScript
  <2>2. EntryOf(s).scripted = byScript
    BY <2>1
  <2> QED
    BY <1>4, <2>2, Zenon DEF byScript
<1>8. /\ entry'[e].status = "posted" /\ entry'[e].rows = session[s].swept
      /\ entry'[e].scrap = session[s].scrap
  BY <1>4 DEF EntryOf
<1> QED
  BY <1>1, <1>2, <1>4, <1>6, <1>7, <1>8

(* A fresh request leaves a scrapped order scrapped, and a closing makes   *)
(* it so.                                                                  *)
LEMMA ScrappedStays ==
  ASSUME Shapes, AcceptInv, ReceiptInv, NEW s \in Sessions, Commit(s), ~overlapped', ~job'.reopened,
         job.status = "scrapped" \/ session[s].kind = "close"
  PROVE  job'.status = "scrapped"
<1>1. ~overlapped /\ ~session[s].stale
  BY Zenon DEF Commit
<1>2. CASE s = Script
  <2>1. session[Script].kind = "backfill"
    BY <1>2 DEF Commit, Done, AcceptInv, ScriptPostsNothing, ReceiptInv, RequestOK
  <2> QED
    BY <1>2, <2>1, ScriptLeavesJob
<1>3. CASE s # Script
  <2>0. ~job.reopened /\ (session[s].kind = "schedule" => job.op # "complete")
    BY <1>1, <1>3, ReopenedStays
  <2>1. /\ Settled /\ RequestOK(s) /\ Done(s)
        /\ session[s].seen = job /\ Checked(session[s].kind)
    <3>1. Done(s)
      BY DEF Commit
    <3> QED
      BY <1>1, <1>3, <2>0, <3>1 DEF ReceiptInv, JobOK, UpToDate, Done
  <2>2. job'.status = Left(s).status
    BY <2>1 DEF Commit, Written, ReceiptInv, JobFields
  <2>3. CASE session[s].kind = "close"
    BY <2>1, <2>2, <2>3 DEF Left, ReceiptInv, JobFields
  <2>4. CASE session[s].kind # "close"
    <3>1. job.status = "scrapped" /\ job.op = "complete"
      BY <2>1, <2>4 DEF JobOK, Settled
    <3>2. session[s].kind = "scrap"
      BY <1>3, <2>0, <2>1, <2>4, <3>1 DEF Done, RequestOK, Checked, Receiving, Ending
    <3> QED
      BY <2>1, <2>2, <3>1, <3>2 DEF Left, Scrapped, ReceiptInv, JobFields
  <2> QED
    BY <2>3, <2>4
<1> QED
  BY <1>2, <1>3

(* A commit.                                                               *)
LEMMA CommitKeepsWip ==
  ASSUME JournalInv, AcceptInv, ReceiptInv, WipInv, NEW s \in Sessions, Commit(s)
  PROVE  WipInv'
<1> DEFINE amount == RecordedScrap(s)
<1>1. /\ amount \in Nat /\ OwnScrap(s) \in Nat /\ OwnScrap(s) <= amount
      /\ session[s].kind \notin {"report", "scrap"} => amount = 0
  BY ScrapCredit DEF WipInv, WipTyped
<1>2. /\ credits'.recorded = credits.recorded + IF mat = "none" THEN 0 ELSE amount
      /\ credits'.unrecorded = credits.unrecorded + IF mat = "none" THEN amount ELSE 0
      /\ credits'.late <=> \/ credits.late
                           \/ amount > 0 /\ (ReceiptSwept(s) \/ job.status = "scrapped")
      /\ DOMAIN credits' = {"recorded", "unrecorded", "late"}
      /\ credits'.late \in BOOLEAN
  BY CommitCredits DEF WipInv
<1> HIDE DEF amount
<1>3. CommittedStock(s)
  BY CommitRows DEF JournalInv
<1>4. /\ session'[s] = Idle
      /\ \A t \in Sessions \ {s} :
           /\ session'[t].pc = session[t].pc /\ session'[t].kind = session[t].kind
           /\ session'[t].seen = session[t].seen /\ session'[t].read = session[t].read
           /\ session'[t].bad = session[t].bad
           /\ session'[t].swept = session[t].swept /\ session'[t].scrap = session[t].scrap
  BY CommitSessions DEF JournalInv
<1>5. mat' = "none" <=> mat = "none"
  <2>1. mat' = IF MyConsumption(s) # {} THEN "consumed" ELSE mat
    BY DEF Commit, MyConsumption
  <2>2. MyConsumption(s) # {} => session[s].read = "pending"
    BY DEF ReceiptInv, RequestOK, Postings, MyConsumption
  <2> QED
    BY <2>1, <2>2 DEF WipInv, SweepsOK
<1>6. \A t \in Sessions \ {s} : OwnScrap(t)' = OwnScrap(t)
  BY <1>4, <1>5, ScrapStays
<1>7. \A rows : rows \subseteq Rows =>
        ((\E r \in rows : row'[r].kind = "receipt") <=> ShowsReceipt(rows))
  BY <1>3 DEF ShowsReceipt, CommittedStock
<1>8. /\ \A e \in Entries : entry[e].rows \subseteq Rows
      /\ \A t \in Sessions : session[t].swept \subseteq Rows
      /\ \A t \in Sessions : session[t].pc # "swept" => session[t].swept = {}
  BY DEF JournalInv, EntryRows, SweptRows
<1>9. \/ UNCHANGED entry
      \/ /\ session[s].pc = "swept"
         /\ \E e \in Unused :
              /\ \A f \in Entries \ {e} : entry'[f] = entry[f]
              /\ entry'[e].status = "posted" /\ entry'[e].rows = session[s].swept
              /\ entry'[e].scrap = session[s].scrap
              /\ entry'[e].scripted <=> s = Script
              /\ entry'[e].consumed \in Nat /\ entry'[e].received \in Nat
  BY CommitEntry DEF WipInv
<1>10. \A f \in Posted' :
         \/ f \in Posted /\ entry'[f] = entry[f]
         \/ /\ f \in Entries /\ session[s].pc = "swept" /\ entry'[f].rows = session[s].swept
            /\ entry'[f].scrap = session[s].scrap
            /\ entry'[f].scripted <=> s = Script
  BY <1>9 DEF Posted
<1>11. session[s].pc = "swept" =>
         /\ session[s].kind # "scrap"
         /\ session[s].kind # "close" =>
              s = Script \/ ShowsReceipt(session[s].swept)
  BY DEF ReceiptInv, RequestOK, Receiving, WipInv, SweepsOK
<1>12. session[s].pc = "swept" =>
         credits'.recorded = credits.recorded + OwnScrap(s)
  BY <1>1, <1>2, <1>11 DEF OwnScrap, amount, WipInv, WipTyped
<1>13. WipTyped'
  <2>1. \A r \in Rows : row'[r].cost \in Nat
    <3>1. \A r \in Rows : row'[r].cost = row[r].cost
      BY DEF Commit, JournalInv, Shapes, RowFields
    <3> QED
      BY <3>1 DEF WipInv, WipTyped
  <2>2. \A e \in Entries :
          entry'[e].consumed \in Nat /\ entry'[e].received \in Nat /\ entry'[e].scrap \in Nat
    BY <1>9 DEF WipInv, WipTyped
  <2>3. \A t \in Sessions : /\ session'[t].bad \in Nat /\ session'[t].scrap \in Nat
                            /\ session'[t].kind = "accept" => session'[t].seen.done \in Nat
    BY <1>4 DEF WipInv, WipTyped, Idle
  <2>4. credits'.recorded \in Nat /\ credits'.unrecorded \in Nat
    BY <1>1, <1>2 DEF WipInv, WipTyped
  <2> QED
    BY <1>2, <2>1, <2>2, <2>3, <2>4 DEF WipTyped
<1>14. SweepsOK'
  <2>1. ASSUME NEW t \in Sessions, t # s
        PROVE  ShowsReceipt(session[t].swept)' <=> ShowsReceipt(session[t].swept)
    BY <1>4, <1>7, <1>8, <2>1 DEF ShowsReceipt
  <2> QED
    BY <1>4, <1>5, <2>1 DEF WipInv, SweepsOK, Idle
<1>15. WithinScrap'
  <2>1. credits.recorded <= credits'.recorded /\ credits.recorded \in Nat /\ credits'.recorded \in Nat
    BY <1>1, <1>2 DEF WipInv, WipTyped
  <2>2. ASSUME NEW f \in Posted' PROVE entry'[f].scrap <= credits'.recorded
    <3>1. CASE f \in Posted /\ entry'[f] = entry[f]
      <4>1. entry[f].scrap \in Nat /\ entry[f].scrap <= credits.recorded
        BY <3>1 DEF WipInv, WipTyped, WithinScrap, Posted
      <4> QED
        BY <2>1, <3>1, <4>1
    <3>2. CASE session[s].pc = "swept" /\ entry'[f].scrap = session[s].scrap
      BY <1>12, <3>2 DEF WipInv, WithinScrap
    <3> QED
      BY <1>10, <2>2, <3>1, <3>2
  <2>3. ASSUME NEW t \in Sessions, session'[t].pc = "swept"
        PROVE  session'[t].scrap <= credits'.recorded + OwnScrap(t)'
    <3>1. t # s /\ session[t].pc = "swept" /\ session'[t].scrap = session[t].scrap
      BY <1>4, <2>3 DEF Idle
    <3>2. /\ session[t].scrap <= credits.recorded + OwnScrap(t) /\ OwnScrap(t)' = OwnScrap(t)
          /\ session[t].scrap \in Nat /\ OwnScrap(t) \in Nat
      BY <1>6, <3>1, ScrapCredit DEF WipInv, WithinScrap, WipTyped
    <3> QED
      BY <2>1, <3>1, <3>2
  <2> QED
    BY <2>2, <2>3 DEF WithinScrap
<1>16. ASSUME ~credits'.late PROVE ReceiptHasScrap'
  <2>1. ~credits.late /\ ReceiptHasScrap /\ (amount > 0 => ~ReceiptSwept(s))
    BY <1>2, <1>16 DEF WipInv
  <2>2. ~(amount > 0) => credits'.recorded = credits.recorded
    BY <1>1, <1>2 DEF WipInv, WipTyped
  <2>3. ASSUME NEW f \in Posted', ShowsReceipt(entry[f].rows)'
        PROVE  entry'[f].scrap = credits'.recorded
    <3>1. CASE f \in Posted /\ entry'[f] = entry[f]
      <4>1. f \in Entries /\ ShowsReceipt(entry[f].rows)
        BY <1>7, <1>8, <2>3, <3>1 DEF Posted, ShowsReceipt
      <4>2. ReceiptSwept(s)
        BY <3>1, <4>1 DEF ReceiptSwept, ShowsReceipt
      <4> QED
        BY <2>1, <2>2, <3>1, <4>1, <4>2 DEF ReceiptHasScrap
    <3>2. CASE /\ session[s].pc = "swept" /\ entry'[f].rows = session[s].swept
               /\ entry'[f].scrap = session[s].scrap
      <4>1. ShowsReceipt(session[s].swept)
        BY <1>7, <1>8, <2>3, <3>2 DEF ShowsReceipt
      <4> QED
        BY <1>12, <2>1, <3>2, <4>1 DEF ReceiptHasScrap
    <3> QED
      BY <1>10, <2>3, <3>1, <3>2
  <2>4. ASSUME NEW t \in Sessions, ShowsReceipt(session[t].swept)'
        PROVE  session'[t].scrap = credits'.recorded + OwnScrap(t)'
    <3>1. t # s
      BY <1>4, <2>4 DEF ShowsReceipt, Idle
    <3>2. ShowsReceipt(session[t].swept)
      BY <1>4, <1>7, <1>8, <2>4, <3>1 DEF ShowsReceipt
    <3>3. ReceiptSwept(s)
      BY <3>1, <3>2 DEF ReceiptSwept, ShowsReceipt
    <3> QED
      BY <1>4, <1>6, <2>1, <2>2, <3>1, <3>2, <3>3 DEF ReceiptHasScrap
  <2> QED
    BY <2>3, <2>4 DEF ReceiptHasScrap
<1>17. ASSUME ~credits'.late, ~overlapped', ~job'.reopened PROVE ClosingHasScrap'
  <2>1. ~overlapped /\ ~job.reopened
    <3>1. ~overlapped /\ ~session[s].stale
      BY <1>17, Zenon DEF Commit
    <3>2. CASE s = Script
      <4>1. job' = job
        BY <3>2, ScriptLeavesJob DEF JournalInv
      <4> QED
        BY <1>17, <3>1, <4>1
    <3>3. CASE s # Script
      BY <1>17, <3>1, <3>3, ReopenedStays
    <3> QED
      BY <3>1, <3>2, <3>3
  <2>2. ~credits.late /\ ClosingHasScrap /\ (amount > 0 => job.status # "scrapped")
    BY <1>2, <1>17, <2>1 DEF WipInv
  <2>3. ~(amount > 0) => credits'.recorded = credits.recorded
    BY <1>1, <1>2 DEF WipInv, WipTyped
  <2>4. ASSUME NEW f \in Posted', ~entry'[f].scripted, ~ShowsReceipt(entry[f].rows)'
        PROVE  entry'[f].scrap = credits'.recorded /\ job'.status = "scrapped"
    <3>1. CASE f \in Posted /\ entry'[f] = entry[f]
      <4>1. f \in Entries /\ ~ShowsReceipt(entry[f].rows)
        BY <1>7, <1>8, <2>4, <3>1 DEF Posted, ShowsReceipt
      <4>2. entry[f].scrap = credits.recorded /\ job.status = "scrapped"
        BY <2>2, <2>4, <3>1, <4>1 DEF ClosingHasScrap
      <4>3. job'.status = "scrapped"
        BY <1>17, <4>2, ScrappedStays DEF JournalInv
      <4> QED
        BY <2>2, <2>3, <3>1, <4>2, <4>3
    <3>2. CASE /\ session[s].pc = "swept" /\ entry'[f].rows = session[s].swept
               /\ entry'[f].scrap = session[s].scrap
               /\ entry'[f].scripted <=> s = Script
      <4>1. s # Script /\ ~ShowsReceipt(session[s].swept)
        BY <1>7, <1>8, <2>4, <3>2 DEF ShowsReceipt
      <4>2. session[s].kind = "close"
        BY <1>11, <3>2, <4>1
      <4>3. session[s].scrap = credits.recorded
        BY <2>2, <3>2, <4>2 DEF ClosingHasScrap
      <4>4. job'.status = "scrapped"
        BY <1>17, <4>2, ScrappedStays DEF JournalInv
      <4>5. ~(amount > 0)
        BY <1>1, <4>2
      <4> QED
        BY <2>3, <3>2, <4>3, <4>4, <4>5
    <3> QED
      BY <1>10, <2>4, <3>1, <3>2
  <2>5. ASSUME NEW t \in Sessions, session'[t].kind = "close", session'[t].pc = "swept"
        PROVE  session'[t].scrap = credits'.recorded
    <3>1. t # s /\ session[t].kind = "close" /\ session[t].pc = "swept"
      BY <1>4, <2>5 DEF Idle
    <3>2. s = Script \/ session[s].kind = "schedule"
      BY <3>1 DEF Commit, OrderFree, HoldsOrder
    <3>3. session[s].kind \in {"backfill", "schedule"}
      BY <3>2 DEF Commit, Done, AcceptInv, ScriptPostsNothing, ReceiptInv, RequestOK
    <3>4. ~(amount > 0)
      BY <1>1, <3>3
    <3> QED
      BY <1>4, <2>2, <2>3, <3>1, <3>4 DEF ClosingHasScrap
  <2> QED
    BY <2>4, <2>5 DEF ClosingHasScrap
<1> QED
  BY <1>13, <1>14, <1>15, <1>16, <1>17 DEF WipInv

(* Every step keeps it.                                                    *)
LEMMA WipInvStep ==
  ASSUME JournalInv, AcceptInv, ReceiptInv, WipInv, [Next]_vars
  PROVE  WipInv'
<1>1. CASE \E t \in Threads :
             \/ LoadSchedule(t)
             \/ LoadStart(t)
             \/ \E good, bad \in 0..Ordered : LoadReport(t, good, bad)
             \/ \E bad \in 1..Ordered : LoadScrap(t, bad)
             \/ PostScrap(t)
  <2>1. PICK t \in Threads :
          \/ LoadSchedule(t)
          \/ LoadStart(t)
          \/ \E good, bad \in 0..Ordered : LoadReport(t, good, bad)
          \/ \E bad \in 1..Ordered : LoadScrap(t, bad)
          \/ PostScrap(t)
    BY <1>1
  <2>2. t \in Sessions
    BY DEF Sessions
  <2>3. \/ \E kind \in {"schedule", "start", "report", "scrap"}, good, bad \in Nat : Loads(t, kind, good, bad)
        \/ PostScrap(t)
    BY <2>1, CostsAssumption DEF LoadSchedule, LoadStart, LoadReport, LoadScrap
  <2> QED
    BY <2>2, <2>3, LoadsKeepsWip, ReadMaterialsKeepsWip
<1>2. CASE (\E good, bad \in 0..Ordered : LoadComplete(good, bad)) \/ LoadAccept \/ LoadClose
  <2>1. \E kind \in {"complete", "accept", "close"}, good, bad \in Nat :
          /\ Loads(EventLoop, kind, good, bad)
          /\ kind = "accept" => job.done \in Nat
    <3>1. CASE \E good, bad \in 0..Ordered : LoadComplete(good, bad)
      BY <3>1, CostsAssumption DEF LoadComplete
    <3>2. CASE LoadAccept
      BY <3>2, CostsAssumption DEF LoadAccept
    <3>3. CASE LoadClose
      BY <3>3 DEF LoadClose
    <3> QED
      BY <1>2, <3>1, <3>2, <3>3
  <2>2. EventLoop \in Sessions
    BY DEF Sessions
  <2> QED
    BY <2>1, <2>2, LoadsKeepsWip
<1>3. CASE SweepBackfill
  BY <1>3, SweepBackfillKeepsWip
<1>4. ASSUME NEW s \in Sessions,
             \/ ReadMaterials(s)
             \/ \E held \in BOOLEAN : PostStock(s, held)
             \/ Sweep(s)
             \/ Commit(s)
             \/ Abort(s)
      PROVE  WipInv'
  BY <1>4, ReadMaterialsKeepsWip, PostStockKeepsWip, SweepKeepsWip, CommitKeepsWip, AbortKeepsWip
<1>5. CASE \E e \in Entries : RollBack(e)
  BY <1>5, RollBackKeepsWip
<1>6. CASE UNCHANGED vars
  BY <1>6 DEF vars, WipInv, WipTyped, SweepsOK, WithinScrap, ReceiptHasScrap, ClosingHasScrap,
              ShowsReceipt, OwnScrap, RecordedScrap, Posted
<1> QED
  BY <1>1, <1>2, <1>3, <1>4, <1>5, <1>6 DEF Next

(* An entry leaves on work in progress the scrap it has counted.           *)
LEMMA OnWipIsScrap ==
  ASSUME WipTyped, NEW e \in Entries
  PROVE  OnWip(e) = entry[e].scrap
BY DEF OnWip, Variance, WipTyped

(* If one of the posted entries counts all the scrap there is, no other    *)
(* one more than that, and two of them none twice, their sum is the scrap. *)
LEMMA OneEntryHasScrap ==
  ASSUME WipTyped, WithinScrap, NEW e \in Posted, entry[e].scrap = credits.recorded,
         ~(Cardinality({f \in Entries : f \in Posted /\ entry[f].scrap > 0}) > 1)
  PROVE  SumFunctionOnSet([f \in Entries |-> OnWip(f)], Posted) = credits.recorded
<1> DEFINE wip == [f \in Entries |-> OnWip(f)]
           Counting == {f \in Entries : f \in Posted /\ entry[f].scrap > 0}
<1>1. IsFiniteSet(Entries)
  BY BoundsAssumption, FS_Interval DEF Entries
<1>2. Posted \subseteq Entries /\ IsFiniteSet(Posted) /\ IsFiniteSet(Counting)
  BY <1>1, FS_Subset DEF Posted
<1>3. \A f \in Posted : wip[f] = entry[f].scrap /\ entry[f].scrap \in Nat
  BY <1>2, OnWipIsScrap DEF WipTyped
<1>4. \A f, g \in Counting : f = g
  <2>1. ~(Cardinality(Counting) > 1)
    OBVIOUS
  <2> HIDE DEF Counting
  <2>2. AtMostOne(Counting)
    BY <1>2, <2>1, CardinalityAtMostOne
  <2> QED
    BY <2>2 DEF AtMostOne
<1>5. \A f \in Posted \ {e} : wip[f] = 0
  <2> TAKE f \in Posted \ {e}
  <2>1. wip[f] = entry[f].scrap /\ entry[f].scrap \in Nat /\ entry[f].scrap <= entry[e].scrap
    BY <1>3 DEF WithinScrap
  <2>2. ~(entry[f].scrap > 0)
    <3> SUFFICES ASSUME entry[f].scrap > 0 PROVE FALSE
      OBVIOUS
    <3>1. entry[e].scrap > 0
      BY <1>3, <2>1
    <3>2. f \in Counting /\ e \in Counting
      BY <1>2, <3>1
    <3> QED
      BY <1>4, <3>2
  <2> QED
    BY <2>1, <2>2
<1>6. wip[e] = credits.recorded /\ credits.recorded \in Int
  BY <1>3 DEF WipTyped
<1>7. IsFiniteSet(Posted \ {e})
  BY <1>2, FS_Subset
<1> HIDE DEF wip
<1>8. SumFunctionOnSet(wip, Posted \ {e}) = 0
  BY <1>5, <1>7, SumZero
<1>9. \A f \in Posted : wip[f] \in Int
  BY <1>3
<1>10. SumFunctionOnSet(wip, Posted) = wip[e] + SumFunctionOnSet(wip, Posted \ {e})
  BY <1>2, <1>9, SumRemove
<1> QED
  BY <1>6, <1>8, <1>10 DEF wip

(* The invariants say what the property says.                              *)
LEMMA WipInvImplies ==
  ASSUME JournalInv, ReceiptInv, WipInv
  PROVE  WipClears
<1> SUFFICES ASSUME Swept, credits.unrecorded = 0, ~credits.late,
                    ~(Cardinality({e \in Posted : entry[e].scrap > 0}) > 1)
             PROVE  SumFunctionOnSet([e \in Entries |-> OnWip(e)], Posted)
                      = credits.recorded + credits.unrecorded
  BY DEF WipClears, WipInv, WipTyped
<1>1. WipTyped /\ WithinScrap /\ ReceiptHasScrap
  BY DEF WipInv
<1>2. PICK e \in Posted : entry[e].scrap = credits.recorded
  <2>1. CASE \E e \in Posted : \E r \in entry[e].rows : row[r].kind = "receipt"
    BY <1>1, <2>1 DEF ReceiptHasScrap, ShowsReceipt
  <2>2. CASE /\ job.status = "scrapped" /\ ~overlapped /\ ~job.reopened
             /\ Posted # {} /\ \A e \in Posted : ~entry[e].scripted
    <3>1. Receipts = {}
      BY <2>2 DEF ReceiptInv, JobOK, Settled
    <3>2. \A e \in Posted : ~ShowsReceipt(entry[e].rows)
      BY <3>1, SweptRowsAreKept DEF ShowsReceipt, Receipts
    <3> QED
      BY <2>2, <3>2 DEF WipInv, ClosingHasScrap
  <2> QED
    BY <2>1, <2>2 DEF Swept
<1>3. {f \in Entries : f \in Posted /\ entry[f].scrap > 0} = {f \in Posted : entry[f].scrap > 0}
  BY DEF Posted
<1>4. SumFunctionOnSet([f \in Entries |-> OnWip(f)], Posted) = credits.recorded
  BY <1>1, <1>2, <1>3, OneEntryHasScrap
<1> QED
  BY <1>1, <1>4 DEF WipTyped

(* The entries of an order that was received, or closed as scrapped, leave *)
(* on account 1210 exactly what its scrap entries have taken from there,   *)
(* unless scrap had no record, came after the sweep or was counted by two: *)
(* the promise of production_gl_service.py, with its exceptions.           *)
THEOREM WorkInProgressClears == Spec => []WipClears
<1> DEFINE Inv == JournalInv /\ AcceptInv /\ ReceiptInv /\ WipInv
<1>1. Init => Inv
  BY JournalInvInit, AcceptInvInit, ReceiptInvInit, WipInvInit
<1>2. Inv /\ [Next]_vars => Inv'
  BY JournalInvStep, AcceptInvStep, ReceiptInvStep, WipInvStep DEF JournalInv
<1>3. Inv => WipClears
  BY WipInvImplies
<1> QED
  BY <1>1, <1>2, <1>3, PTL DEF Spec

-----------------------------------------------------------------------------
(* Entries and their rows as one book.                                     *)

BookFields == {"status", "rows", "consumed", "received"}

(* Only consumption and receipts are swept.                                *)
SweptKinds ==
    \A s \in Sessions : \A r \in session[s].swept : row[r].kind \in {"consumption", "receipt"}

(* A row that is not in use holds nothing.                                 *)
FreeRows == \A r \in Rows : row[r].kind = "free" => row[r] = FreeRow

BookInv == SweptKinds /\ FreeRows

(* What handlers do to rows and entries: nothing, while they may sweep,    *)
(* or one of four steps.                                                   *)
SweepsOrNot ==
    /\ UNCHANGED <<row, entry>>
    /\ \A s \in Sessions : session'[s].swept \in {{}, session[s].swept, Unjournaled(s)}

LEMMA RowSteps ==
  ASSUME JournalInv, [Next]_vars
  PROVE  \/ SweepsOrNot
         \/ \E s \in Sessions :
              (\E held \in BOOLEAN : PostStock(s, held)) \/ Commit(s) \/ Abort(s)
         \/ \E e \in Entries : RollBack(e)
<1>1. ASSUME NEW s \in Sessions, NEW kind, NEW good, NEW bad, Loads(s, kind, good, bad)
      PROVE  SweepsOrNot
  <2>1. /\ UNCHANGED <<row, entry>>
        /\ session' = [session EXCEPT ![s] =
                         [Idle EXCEPT !.pc = "loaded", !.kind = kind, !.good = good,
                                      !.bad = bad, !.seen = job]]
    BY <1>1 DEF Loads
  <2>2. session'[s].swept = {} /\ \A t \in Sessions \ {s} : session'[t] = session[t]
    BY <2>1 DEF JournalInv, Shapes, Idle
  <2> QED
    BY <2>1, <2>2 DEF SweepsOrNot
<1>2. ASSUME NEW s \in Sessions, ReadMaterials(s) \/ PostScrap(s) \/ Sweep(s)
      PROVE  SweepsOrNot
  <2>1. /\ UNCHANGED <<row, entry>>
        /\ \A t \in Sessions \ {s} : session'[t] = session[t]
        /\ \/ session'[s] = [session[s] EXCEPT !.pc = "read", !.read = mat]
           \/ session'[s] = [session[s] EXCEPT !.pc = "scrapped"]
           \/ session'[s] = [session[s] EXCEPT !.pc = "swept", !.swept = Unjournaled(s),
                                               !.scrap = SweptScrap(s)]
    BY <1>2 DEF ReadMaterials, PostScrap, Sweep, JournalInv, Shapes
  <2>2. session'[s].swept \in {session[s].swept, Unjournaled(s)}
    BY <2>1 DEF JournalInv, Shapes, SessionFields
  <2> QED
    BY <2>1, <2>2 DEF SweepsOrNot
<1>3. CASE SweepBackfill
  <2>1. /\ UNCHANGED <<row, entry>>
        /\ \A t \in Sessions \ {Script} : session'[t] = session[t]
        /\ session'[Script].swept = Unjournaled(Script)
    BY <1>3 DEF SweepBackfill, JournalInv, Shapes, Idle, Sessions
  <2> QED
    BY <2>1 DEF SweepsOrNot
<1>4. CASE \E t \in Threads :
             \/ LoadSchedule(t)
             \/ LoadStart(t)
             \/ \E good, bad \in 0..Ordered : LoadReport(t, good, bad)
             \/ \E bad \in 1..Ordered : LoadScrap(t, bad)
             \/ PostScrap(t)
  <2>1. PICK t \in Threads : (\E kind, good, bad : Loads(t, kind, good, bad)) \/ PostScrap(t)
    BY <1>4 DEF LoadSchedule, LoadStart, LoadReport, LoadScrap
  <2>2. t \in Sessions
    BY DEF Sessions
  <2> QED
    BY <1>1, <1>2, <2>1, <2>2
<1>5. CASE (\E good, bad \in 0..Ordered : LoadComplete(good, bad)) \/ LoadAccept \/ LoadClose
  <2>1. \E kind, good, bad : Loads(EventLoop, kind, good, bad)
    BY <1>5 DEF LoadComplete, LoadAccept, LoadClose
  <2>2. EventLoop \in Sessions
    BY DEF Sessions
  <2> QED
    BY <1>1, <2>1, <2>2
<1>6. CASE UNCHANGED vars
  BY <1>6 DEF vars, SweepsOrNot
<1> QED
  BY <1>2, <1>3, <1>4, <1>5, <1>6 DEF Next

(* Nothing is swept or in use in the beginning.                            *)
LEMMA BookInvInit == ASSUME Init PROVE BookInv
BY DEF Init, BookInv, SweptKinds, FreeRows, Idle, FreeRow

(* What a commit does to rows and sweeps.                                  *)
LEMMA CommittedBook ==
  ASSUME JournalInv, NEW s \in Sessions, Commit(s)
  PROVE  /\ \A r \in Rows : /\ row'[r].kind = row[r].kind /\ row'[r].cost = row[r].cost
                            /\ row'[r].by = IF r \in Mine(s) THEN NoSession ELSE row[r].by
                            /\ row[r] = FreeRow => row'[r] = FreeRow
         /\ \A t \in Sessions : session'[t].swept \in {{}, session[t].swept}
<1> DEFINE journals == session[s].swept # {}
           e == First(Unused)
<1>1. row' = [r \in Rows |->
                [row[r] EXCEPT
                   !.by = IF r \in Mine(s) THEN NoSession ELSE row[r].by,
                   !.entry = IF journals /\ r \in session[s].swept THEN e ELSE row[r].entry]]
  BY DEF Commit
<1> HIDE DEF e, journals
<1>2. \A r \in Rows : /\ row'[r].kind = row[r].kind /\ row'[r].cost = row[r].cost
                      /\ row'[r].by = IF r \in Mine(s) THEN NoSession ELSE row[r].by
  BY <1>1 DEF JournalInv, Shapes, RowFields
<1>3. ASSUME NEW r \in Rows, row[r] = FreeRow PROVE row'[r] = FreeRow
  <2>1. r \notin session[s].swept /\ r \notin Mine(s)
    BY <1>3, SweptRowsAreKept DEF Mine, FreeRow
  <2>2. row'[r] = [row[r] EXCEPT !.by = row[r].by, !.entry = row[r].entry]
    BY <1>1, <2>1
  <2>3. row'[r] = [FreeRow EXCEPT !.by = FreeRow.by, !.entry = FreeRow.entry]
    BY <1>3, <2>2, Zenon
  <2> QED
    BY <2>3 DEF FreeRow
<1>4. \A t \in Sessions : session'[t].swept \in {{}, session[t].swept}
  BY CommitSessions DEF JournalInv, Idle
<1> QED
  BY <1>2, <1>3, <1>4

LEMMA BookInvStep ==
  ASSUME JournalInv, BookInv, [Next]_vars
  PROVE  BookInv'
<1>1. CASE SweepsOrNot
  <2>1. SweptKinds'
    BY <1>1 DEF SweepsOrNot, BookInv, SweptKinds, Unjournaled
  <2> QED
    BY <1>1, <2>1 DEF SweepsOrNot, BookInv, FreeRows
<1>2. ASSUME NEW s \in Sessions, NEW held \in BOOLEAN, PostStock(s, held) PROVE BookInv'
  <2>1. \A r \in Rows : row'[r] = row[r] \/ (row[r].kind = "free" /\ row'[r].kind # "free")
    BY <1>2, PostedRows DEF JournalInv, Shapes
  <2>2. \A t \in Sessions : session'[t].swept = session[t].swept
    BY <1>2 DEF PostStock, JournalInv, Shapes, SessionFields
  <2>3. SweptKinds'
    BY <2>1, <2>2, SweptRowsAreKept DEF BookInv, SweptKinds
  <2>4. FreeRows'
    BY <2>1 DEF BookInv, FreeRows, FreeRow
  <2> QED
    BY <2>3, <2>4 DEF BookInv
<1>3. ASSUME NEW s \in Sessions, Commit(s) PROVE BookInv'
  <2>1. SweptKinds'
    BY <1>3, CommittedBook, SweptRowsAreKept DEF BookInv, SweptKinds
  <2>2. FreeRows'
    BY <1>3, CommittedBook DEF BookInv, FreeRows
  <2> QED
    BY <2>1, <2>2 DEF BookInv
<1>4. ASSUME NEW s \in Sessions, Abort(s) PROVE BookInv'
  <2>1. /\ row' = [r \in Rows |-> IF r \in Mine(s) THEN FreeRow ELSE row[r]]
        /\ session' = [session EXCEPT ![s] = Idle]
    BY <1>4 DEF Abort
  <2>2. session'[s].swept = {} /\ \A t \in Sessions \ {s} : session'[t] = session[t]
    BY <2>1 DEF JournalInv, Shapes, Idle
  <2>3. \A t \in Sessions \ {s} : \A r \in session[t].swept : row'[r] = row[r]
    BY <2>1, SweptRowsAreKept, SessionsAssumption DEF Mine
  <2>4. SweptKinds'
    BY <2>2, <2>3 DEF BookInv, SweptKinds
  <2>5. FreeRows'
    BY <2>1 DEF BookInv, FreeRows, FreeRow
  <2> QED
    BY <2>4, <2>5 DEF BookInv
<1>5. ASSUME NEW e \in Entries, RollBack(e) PROVE BookInv'
  <2>1. /\ row' = [r \in Rows |-> IF row[r].entry = e THEN [row[r] EXCEPT !.entry = NoEntry]
                                  ELSE row[r]]
        /\ UNCHANGED session
    BY <1>5 DEF RollBack
  <2>2. \A r \in Rows : row'[r].kind = row[r].kind
    BY <2>1 DEF JournalInv, Shapes, RowFields
  <2>3. SweptKinds'
    BY <2>1, <2>2, SweptRowsAreKept DEF BookInv, SweptKinds
  <2>4. \A r \in Rows : row[r].kind = "free" => row'[r] = row[r]
    BY <2>1, BoundsAssumption DEF JournalInv, CommittedRows
  <2>5. FreeRows'
    BY <2>2, <2>4 DEF BookInv, FreeRows, FreeRow
  <2> QED
    BY <2>3, <2>5 DEF BookInv
<1> QED
  BY <1>1, <1>2, <1>3, <1>4, <1>5, RowSteps

-----------------------------------------------------------------------------
(* Steps of the handlers as steps of the book.                             *)

(* Rows and entries at rest are a book at rest.                            *)
LEMMA BookInit == ASSUME Init PROVE Journal!Init
<1>1. Committed = [r \in Rows |-> Journal!NoRow]
  BY DEF Init, Committed, FreeRow, Journal!NoRow
<1>2. Journaled = [r \in Rows |-> NoEntry]
  BY DEF Init, Journaled, FreeRow
<1>3. Booked = [e \in Entries |-> Journal!NotMade]
  BY DEF Init, Booked, FreeEntry, Journal!NotMade
<1> QED
  BY <1>1, <1>2, <1>3 DEF Journal!Init

(* Posting and aborting touch no row that is committed.                    *)
LEMMA PostStockIsUnseen ==
  ASSUME JournalInv, BookInv, NEW s \in Sessions, NEW held \in BOOLEAN, PostStock(s, held)
  PROVE  UNCHANGED <<Committed, Journaled, Booked>>
<1>1. s # NoSession
  BY SessionsAssumption
<1>2. \A r \in Rows :
        \/ row'[r] = row[r]
        \/ row[r] = FreeRow /\ row'[r].by = s /\ row'[r].entry = NoEntry
  BY PostedRows DEF JournalInv, Shapes, BookInv, FreeRows
<1>3. UNCHANGED Committed
  BY <1>1, <1>2 DEF Committed, FreeRow
<1>4. UNCHANGED Journaled
  BY <1>2 DEF Journaled, FreeRow
<1>5. UNCHANGED Booked
  BY DEF PostStock, Booked
<1> QED
  BY <1>3, <1>4, <1>5

LEMMA AbortIsUnseen ==
  ASSUME JournalInv, NEW s \in Sessions, Abort(s)
  PROVE  UNCHANGED <<Committed, Journaled, Booked>>
<1>1. s # NoSession
  BY SessionsAssumption
<1>2. \A r \in Rows :
        \/ row'[r] = row[r]
        \/ row'[r] = FreeRow /\ row[r].by = s /\ row[r].entry = NoEntry
  BY <1>1 DEF Abort, Mine, JournalInv, CommittedRows
<1>3. UNCHANGED Committed
  BY <1>1, <1>2 DEF Committed, FreeRow
<1>4. UNCHANGED Journaled
  BY <1>2 DEF Journaled, FreeRow
<1>5. UNCHANGED Booked
  BY DEF Abort, Booked
<1> QED
  BY <1>3, <1>4, <1>5

(* A rollback takes back an entry with its rows.                           *)
LEMMA RollBackIsVoid ==
  ASSUME JournalInv, NEW e \in Entries, RollBack(e)
  PROVE  Journal!Void(e)
<1>1. /\ entry' = [entry EXCEPT ![e].status = "voided"]
      /\ row' = [r \in Rows |->
                   IF row[r].entry = e THEN [row[r] EXCEPT !.entry = NoEntry] ELSE row[r]]
      /\ entry[e].status = "posted"
  BY DEF RollBack
<1>2. \A r \in Rows : /\ row'[r].kind = row[r].kind /\ row'[r].by = row[r].by
                      /\ row'[r].cost = row[r].cost
                      /\ row'[r].entry = IF row[r].entry = e THEN NoEntry ELSE row[r].entry
  BY <1>1 DEF JournalInv, Shapes, RowFields
<1>3. \A r \in Rows : row[r].entry = e <=> r \in entry[e].rows
  BY <1>1, BoundsAssumption DEF JournalInv, JournaledOnce, Posted
<1>4. Booked[e].status = "posted" /\ Booked[e].rows = entry[e].rows
  BY <1>1 DEF Booked
<1>5. Journaled' = [r \in Rows |-> IF r \in Booked[e].rows THEN NoEntry ELSE Journaled[r]]
  BY <1>2, <1>3, <1>4 DEF Journaled
<1>6. Booked' = [Booked EXCEPT ![e].status = "voided"]
  <2>1. \A f \in Entries : /\ entry'[f].rows = entry[f].rows
                           /\ entry'[f].consumed = entry[f].consumed
                           /\ entry'[f].received = entry[f].received
                           /\ entry'[f].status = IF f = e THEN "voided" ELSE entry[f].status
    BY <1>1 DEF JournalInv, Shapes, EntryFields
  <2> QED
    BY <2>1 DEF Booked
<1>7. UNCHANGED Committed
  BY <1>2 DEF Committed
<1> QED
  BY <1>4, <1>5, <1>6, <1>7 DEF Journal!Void

(* A commit keeps what was committed.                                      *)
LEMMA CommitGrowsLedger ==
  ASSUME JournalInv, NEW s \in Sessions, Commit(s)
  PROVE  Journal!LedgerGrows
<1> SUFFICES ASSUME NEW r \in Rows, Committed[r].kind # "free"
             PROVE  Committed'[r] = Committed[r]
  BY DEF Journal!LedgerGrows
<1>1. row[r].by = NoSession
  BY DEF Committed
<1>2. row'[r].by = NoSession /\ row'[r].kind = row[r].kind /\ row'[r].cost = row[r].cost
  BY <1>1, CommittedBook
<1> QED
  BY <1>1, <1>2 DEF Committed

(* The book's sums are the ledger's.                                       *)
LEMMA SumsAreAlike ==
  ASSUME NEW f, NEW S
  PROVE  Journal!SumFunctionOnSet(f, S) = SumFunctionOnSet(f, S)
BY Zenon DEF SumFunctionOnSet, Journal!SumFunctionOnSet, FoldFunctionOnSet,
   Journal!FoldFunctionOnSet, MapThenFoldSet, Journal!MapThenFoldSet

(* The amounts of an entry are those of its rows once they are committed.  *)
LEMMA CostIsTotal ==
  ASSUME JournalInv, NEW s \in Sessions, Commit(s), NEW kind
  PROVE  CostOf(session[s].swept, kind) = Journal!Total(Committed', session[s].swept, kind)
<1> DEFINE S == session[s].swept
           before == [r \in Rows |-> row[r].cost]
           after == [r \in Rows |-> Committed'[r].cost]
           T == {r \in S : row[r].kind = kind}
           U == {r \in S : Committed'[r].kind = kind}
<1>1. \A r \in S : /\ r \in Rows
                   /\ Committed'[r].kind = row[r].kind /\ Committed'[r].cost = row[r].cost
  <2>1. \A r \in S : r \in Rows /\ row[r].kind # "free" /\ row[r].by \in {s, NoSession}
    BY SweptRowsAreKept
  <2>2. \A r \in S : row'[r].by = NoSession
    BY <2>1, CommittedBook DEF Mine
  <2>3. \A r \in S : row'[r].kind = row[r].kind /\ row'[r].cost = row[r].cost
    BY <2>1, CommittedBook
  <2> QED
    BY <2>1, <2>2, <2>3 DEF Committed
<1>2. T = U
  BY <1>1
<1>3. IsFiniteSet(T) /\ T \subseteq Rows
  <2>1. IsFiniteSet(Rows)
    BY BoundsAssumption, FS_Interval DEF Rows
  <2> QED
    BY <1>1, <2>1, FS_Subset
<1>4. \A r \in T : before[r] = after[r]
  BY <1>1
<1> HIDE DEF T, U, before, after
<1>5. SumFunctionOnSet(before, T) = SumFunctionOnSet(after, T)
  BY <1>3, <1>4, SumSame
<1>6. SumFunctionOnSet(before, T) = SumFunctionOnSet(after, U)
  BY <1>2, <1>5, Zenon
<1>7. CostOf(S, kind) = SumFunctionOnSet(before, T)
  BY Zenon DEF CostOf, before, T
<1>8. Journal!Total(Committed', S, kind) = SumFunctionOnSet(after, U)
  BY SumsAreAlike, Zenon DEF Journal!Total, after, U
<1> QED
  BY <1>6, <1>7, <1>8, Zenon

(* A commit without a sweep adds rows only, one with a sweep makes its     *)
(* entry with them.                                                        *)
LEMMA CommitIsOneStep ==
  ASSUME JournalInv, BookInv, NEW s \in Sessions, Commit(s)
  PROVE  Journal!Next
<1> DEFINE S == session[s].swept
           e == First(Unused)
<1>1. Journal!LedgerGrows
  BY CommitGrowsLedger
<1>2. row' = [r \in Rows |->
                [row[r] EXCEPT
                   !.by = IF r \in Mine(s) THEN NoSession ELSE row[r].by,
                   !.entry = IF S # {} /\ r \in S THEN e ELSE row[r].entry]]
  BY DEF Commit
<1>3. entry' = IF S # {} THEN [entry EXCEPT ![e] = EntryOf(s)] ELSE entry
  BY DEF Commit
<1>4. S # {} => e \in Unused
  <2>1. S # {} => Unused # {}
    BY DEF JournalInv, SweptRows
  <2>2. Unused \subseteq Nat
    BY BoundsAssumption DEF Unused, Entries
  <2> QED
    BY <2>1, <2>2, FirstIsMember
<1> HIDE DEF e
<1>5. Journaled' = [r \in Rows |-> IF r \in S THEN e ELSE Journaled[r]]
  <2>1. \A r \in Rows : row'[r].entry = IF r \in S THEN e ELSE row[r].entry
    BY <1>2 DEF JournalInv, Shapes, RowFields
  <2> QED
    BY <2>1 DEF Journaled
<1>6. CASE S = {}
  <2>1. UNCHANGED <<Journaled, Booked>>
    BY <1>3, <1>5, <1>6 DEF Journaled, Booked
  <2> QED
    BY <1>1, <2>1 DEF Journal!Next, Journal!Record
<1>7. CASE S # {}
  <2>1. e \in Entries /\ entry[e].status = "free"
    BY <1>4, <1>7 DEF Unused
  <2>2. Booked[e].status = "free"
    BY <2>1 DEF Booked
  <2>3. S \in (SUBSET Rows) \ {{}}
    BY <1>7, SweptRowsAreKept
  <2>4. ASSUME NEW r \in S
        PROVE  Committed'[r].kind \in {"consumption", "receipt"} /\ Journaled[r] = NoEntry
    <3>1. r \in Rows /\ row[r].by \in {s, NoSession} /\ row[r].entry = NoEntry
      BY DEF JournalInv, SweptRows
    <3>2. row'[r].by = NoSession /\ row'[r].kind = row[r].kind
      BY <3>1, CommittedBook, SweptRowsAreKept DEF Mine
    <3>3. row[r].kind \in {"consumption", "receipt"}
      BY DEF BookInv, SweptKinds
    <3> QED
      BY <3>1, <3>2, <3>3 DEF Committed, Journaled
  <2>5. Booked' = [Booked EXCEPT ![e] = Journal!Posting(Committed', S)]
    <3>1. entry'[e] = EntryOf(s) /\ \A f \in Entries \ {e} : entry'[f] = entry[f]
      BY <1>3, <1>7, <2>1 DEF JournalInv, Shapes
    <3>2. /\ entry'[e].status = "posted" /\ entry'[e].rows = S
          /\ entry'[e].consumed = CostOf(S, "consumption")
          /\ entry'[e].received = CostOf(S, "receipt")
      BY <3>1 DEF EntryOf
    <3>3. /\ entry'[e].consumed = Journal!Total(Committed', S, "consumption")
          /\ entry'[e].received = Journal!Total(Committed', S, "receipt")
      BY <3>2, CostIsTotal, Zenon
    <3>4. [status |-> entry'[e].status, rows |-> entry'[e].rows,
           consumed |-> entry'[e].consumed, received |-> entry'[e].received]
            = Journal!Posting(Committed', S)
      BY <3>2, <3>3, Zenon DEF Journal!Posting
    <3> HIDE DEF S
    <3>5. Booked'[e] = Journal!Posting(Committed', S)
      BY <2>1, <3>4 DEF Booked
    <3>6. \A f \in Entries \ {e} : Booked'[f] = Booked[f]
      BY <3>1 DEF Booked
    <3>7. Booked' = [f \in Entries |-> Booked'[f]] /\ Booked = [f \in Entries |-> Booked[f]]
      BY DEF Booked
    <3> QED
      BY <2>1, <3>5, <3>6, <3>7
  <2>6. Journal!Journal(e, S)
    BY <1>1, <1>5, <2>2, <2>4, <2>5 DEF Journal!Journal
  <2> QED
    BY <2>1, <2>3, <2>6 DEF Journal!Next
<1> QED
  BY <1>6, <1>7

(* Whatever requests of an order overlap with each other, the backfill     *)
(* script and its rollback, fail or are aborted, what is committed of its  *)
(* ledger and its completion entries could have come about one entry at a  *)
(* time, each covering rows without one and booking what they cost: what   *)
(* create_production_completion_gl_entry promises, for any number of       *)
(* threads, rows and entries and any costs.                                *)
THEOREM EntriesComeWhole == Spec => RefinesJournal
<1> DEFINE Inv == JournalInv /\ BookInv
<1>1. Init => Inv /\ Journal!Init
  BY JournalInvInit, BookInvInit, BookInit
<1>2. Inv /\ [Next]_vars => Inv'
  BY JournalInvStep, BookInvStep
<1>3. Inv /\ [Next]_vars => [Journal!Next]_<<Committed, Journaled, Booked>>
  <2> SUFFICES ASSUME Inv, [Next]_vars
               PROVE  Journal!Next \/ UNCHANGED <<Committed, Journaled, Booked>>
    OBVIOUS
  <2>1. CASE SweepsOrNot
    BY <2>1 DEF SweepsOrNot, Committed, Journaled, Booked
  <2>2. ASSUME NEW s \in Sessions, (\E held \in BOOLEAN : PostStock(s, held)) \/ Abort(s)
        PROVE  UNCHANGED <<Committed, Journaled, Booked>>
    BY <2>2, PostStockIsUnseen, AbortIsUnseen
  <2>3. ASSUME NEW s \in Sessions, Commit(s) PROVE Journal!Next
    BY <2>3, CommitIsOneStep
  <2>4. ASSUME NEW e \in Entries, RollBack(e) PROVE Journal!Next
    <3>1. Journal!Void(e)
      BY <2>4, RollBackIsVoid
    <3> QED
      BY <3>1 DEF Journal!Next
  <2> QED
    BY <2>1, <2>2, <2>3, <2>4, RowSteps
<1> QED
  BY <1>1, <1>2, <1>3, PTL DEF Spec, RefinesJournal, Journal!Spec
=============================================================================
