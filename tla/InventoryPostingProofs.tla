----------------------- MODULE InventoryPostingProofs -----------------------
(***************************************************************************)
(* Whatever the number of requests and of rows, overlapping requests that  *)
(* lock a row before they read it keep every quantity equal to its ledger, *)
(* and behave as if they ran one after another.  They get stuck only       *)
(* behind a request that has failed, and no request goes on for ever.      *)
(***************************************************************************)
EXTENDS InventoryPosting, FiniteLemmas, TLAPS

USE SessionsAssumption, RowsAssumption, NobodyAssumption

-----------------------------------------------------------------------------
(* The inductive invariant.                                                *)

(* Only a request that has not ended waits for a lock or holds one.        *)
EndedIsIdle ==
    \A s \in Sessions :
        /\ want[s].row # Nobody => pc[s] = "open"
        /\ \A r \in Rows : lock[r] = s => pc[s] \in {"open", "failed"}

(* What a session has flushed lies in rows it has locked.                  *)
EffectIsLocked ==
    \A s \in Sessions, r \in Rows : lock[r] # s => effect[s][r] = 0

(* A session that locks first has read the rows it has locked and no       *)
(* others, and its quantities are the committed ones plus what it posted.  *)
DirectIsFresh ==
    \A s \in Sessions, r \in Rows : Kind[s] = "direct" =>
        /\ lock[r] = s => r \in loaded[s] /\ draft[s][r] = inv[r] + effect[s][r]
        /\ lock[r] # s => r \notin loaded[s]

Fresh ==
    /\ TypeOK
    /\ EndedIsIdle
    /\ EffectIsLocked
    /\ DirectIsFresh
    /\ DriftComesFromStaleReads

-----------------------------------------------------------------------------
(* Lemmas on updates.                                                      *)

(* Updating one row of one session leaves the others as they were.         *)
LEMMA UpdateOne ==
    ASSUME NEW f \in [Sessions -> [Rows -> Int]],
           NEW s \in Sessions, NEW r \in Rows, NEW v \in Int
    PROVE  /\ [f EXCEPT ![s][r] = v] \in [Sessions -> [Rows -> Int]]
           /\ [f EXCEPT ![s][r] = v][s][r] = v
           /\ \A s2 \in Sessions, r2 \in Rows :
                 s2 # s \/ r2 # r => [f EXCEPT ![s][r] = v][s2][r2] = f[s2][r2]
<1> DEFINE g == [f EXCEPT ![s][r] = v]
<1>1. /\ g \in [Sessions -> [Rows -> Int]]
      /\ g[s] = [f[s] EXCEPT ![r] = v]
      /\ \A s2 \in Sessions : s2 # s => g[s2] = f[s2]
  OBVIOUS
<1> HIDE DEF g
<1>2. f[s] \in [Rows -> Int]
  OBVIOUS
<1>3. g[s][r] = v /\ \A r2 \in Rows : r2 # r => g[s][r2] = f[s][r2]
  BY <1>1, <1>2
<1>4. QED
  BY <1>1, <1>3 DEF g

(* Requests name a row and a quantity.                                     *)
LEMMA RequestsTyped ==
    /\ NoRequest \in Requests
    /\ NoRequest.row = Nobody
    /\ \A r \in Rows, d \in Int : [row |-> r, delta |-> d] \in Requests
    /\ \A q \in Requests : q.delta \in Int /\ (q.row # Nobody => q.row \in Rows)
BY DEF Requests, NoRequest

(* What a session believes is a quantity.                                  *)
LEMMA BelievesTyped ==
    ASSUME TypeOK, NEW s \in Sessions, NEW r \in Rows
    PROVE  Believes(s, r) \in Int
BY DEF TypeOK, Believes

(* A request that has ended is left without locks and without effect.      *)
LEMMA EndedLemma ==
    ASSUME Fresh, NEW s \in Sessions, NEW where \in {"closed", "done"},
           pc[s] # "done",
           Ended(s, where), lock' = Unlocked(s),
           inv' \in [Rows -> Int], ledger' \in [Rows -> Int],
           \A r \in Rows : lock[r] # s => inv'[r] = inv[r]
    PROVE  TypeOK' /\ EndedIsIdle' /\ EffectIsLocked' /\ DirectIsFresh'
<1> USE DEF Fresh
<1>1. \A r \in Rows : lock'[r] = IF lock[r] = s THEN Nobody ELSE lock[r]
  BY DEF Unlocked
<1>2. /\ pc'[s] = where /\ want'[s] = NoRequest /\ loaded'[s] = {}
      /\ \A r \in Rows : effect'[s][r] = 0 /\ draft'[s][r] = 0
  BY DEF Ended, TypeOK, NoChange
<1>3. \A s2 \in Sessions : s2 # s =>
         /\ pc'[s2] = pc[s2] /\ want'[s2] = want[s2] /\ loaded'[s2] = loaded[s2]
         /\ effect'[s2] = effect[s2] /\ draft'[s2] = draft[s2]
  BY DEF Ended, TypeOK
<1>4. TypeOK'
  <2>1. lock' \in [Rows -> Sessions \cup {Nobody}]
    BY DEF Unlocked, TypeOK
  <2>2. /\ pc' \in [Sessions -> {"idle", "open", "failed", "closed", "done"}]
        /\ todo' \in [Sessions -> 0..MaxSteps]
    BY DEF Ended, TypeOK
  <2>3. want' \in [Sessions -> Requests]
    BY RequestsTyped DEF Ended, TypeOK
  <2>4. loaded' \in [Sessions -> SUBSET Rows]
    BY DEF Ended, TypeOK
  <2>5. NoChange \in [Rows -> Int]
    BY DEF NoChange
  <2>6. seen' \in [Sessions -> [Rows -> Int]]
    BY <2>5 DEF Ended, TypeOK
  <2>7. draft' \in [Sessions -> [Rows -> Int]] /\ effect' \in [Sessions -> [Rows -> Int]]
    BY <2>5 DEF Ended, TypeOK
  <2>8. QED
    BY <2>1, <2>2, <2>3, <2>4, <2>6, <2>7 DEF TypeOK
<1>5. EndedIsIdle'
  BY <1>1, <1>2, <1>3, RequestsTyped DEF EndedIsIdle
<1>6. EffectIsLocked'
  BY <1>1, <1>2, <1>3 DEF EffectIsLocked
<1>7. DirectIsFresh'
  BY <1>1, <1>2, <1>3 DEF DirectIsFresh
<1>8. QED
  BY <1>4, <1>5, <1>6, <1>7

-----------------------------------------------------------------------------
(* The actions.                                                            *)

(* A session that begins has read nothing.                                 *)
LEMMA BeginKeepsFresh ==
    ASSUME Fresh, NEW s \in Sessions, Begin(s)
    PROVE  Fresh'
<1> USE DEF Fresh, Begin
<1>1. TypeOK'
  <2>1. NoChange \in [Rows -> Int]
    BY DEF NoChange
  <2>2. seen' \in [Sessions -> [Rows -> Int]]
    BY <2>1 DEF TypeOK
  <2>3. QED
    BY <2>2 DEF TypeOK
<1>2. EndedIsIdle'
  BY DEF EndedIsIdle, TypeOK
<1>3. EffectIsLocked' /\ DirectIsFresh'
  BY DEF EffectIsLocked, DirectIsFresh
<1>4. DriftComesFromStaleReads'
  BY DEF DriftComesFromStaleReads, TypeOK
<1>5. QED
  BY <1>1, <1>2, <1>3, <1>4

(* A failing request keeps what it read until its session is closed.       *)
LEMMA FailKeepsFresh ==
    ASSUME Fresh, NEW s \in Sessions, Fail(s)
    PROVE  Fresh'
<1> USE DEF Fresh, Fail, Running
<1>1. TypeOK'
  BY DEF TypeOK
<1>2. EndedIsIdle'
  BY RequestsTyped DEF EndedIsIdle, TypeOK
<1>3. EffectIsLocked' /\ DirectIsFresh'
  BY DEF EffectIsLocked, DirectIsFresh
<1>4. DriftComesFromStaleReads'
  BY DEF DriftComesFromStaleReads, TypeOK
<1>5. QED
  BY <1>1, <1>2, <1>3, <1>4

(* A request has a bounded number of postings.                             *)
LEMMA PostTyped ==
    ASSUME TypeOK, NEW s \in Sessions, NEW r \in Rows, NEW d \in Int, Post(s, r, d)
    PROVE  todo' \in [Sessions -> 0..MaxSteps]
<1>1. todo \in [Sessions -> 0..MaxSteps] /\ todo[s] - 1 \in 0..MaxSteps
  BY DEF TypeOK, Post
<1>2. QED
  BY <1>1 DEF Post

(* Asking for a lock, whatever was read before.                            *)
LEMMA WaitKeepsFresh ==
    ASSUME Fresh, NEW s \in Sessions, NEW r \in Rows, NEW d \in Int,
           WaitFor(s, r, d),
           UNCHANGED <<inv, ledger, lock, pc, effect>>,
           todo' \in [Sessions -> 0..MaxSteps],
           seen' \in [Sessions -> [Rows -> Int]],
           loaded' \in [Sessions -> SUBSET Rows],
           draft' \in [Sessions -> [Rows -> Int]],
           \A s2 \in Sessions : Kind[s2] = "direct" =>
               loaded'[s2] = loaded[s2] /\ draft'[s2] = draft[s2]
    PROVE  Fresh'
<1> USE DEF Fresh, WaitFor, Running
<1>1. want' \in [Sessions -> Requests]
  BY RequestsTyped DEF TypeOK
<1>2. TypeOK'
  BY <1>1 DEF TypeOK
<1>3. EndedIsIdle'
  BY DEF EndedIsIdle, TypeOK
<1>4. EffectIsLocked'
  BY DEF EffectIsLocked
<1>5. DirectIsFresh'
  <2> SUFFICES ASSUME NEW s2 \in Sessions, NEW r2 \in Rows, Kind[s2] = "direct"
               PROVE  /\ lock'[r2] = s2 => /\ r2 \in loaded'[s2]
                                           /\ draft'[s2][r2] = inv'[r2] + effect'[s2][r2]
                      /\ lock'[r2] # s2 => r2 \notin loaded'[s2]
    BY Zenon DEF DirectIsFresh
  <2>1. /\ lock[r2] = s2 => r2 \in loaded[s2] /\ draft[s2][r2] = inv[r2] + effect[s2][r2]
        /\ lock[r2] # s2 => r2 \notin loaded[s2]
    BY Zenon DEF DirectIsFresh
  <2>2. /\ inv' = inv /\ lock' = lock /\ effect' = effect
        /\ loaded'[s2] = loaded[s2] /\ draft'[s2] = draft[s2]
    BY Zenon
  <2>3. QED
    BY <2>1, <2>2, Zenon
<1>6. DriftComesFromStaleReads'
  BY DEF DriftComesFromStaleReads
<1>7. QED
  BY <1>2, <1>3, <1>4, <1>5, <1>6

(* A direct posting asks for the lock of a row it has not read.            *)
LEMMA RequestDirectKeepsFresh ==
    ASSUME Fresh, NEW s \in Sessions, NEW r \in Rows, NEW d \in Deltas,
           RequestDirect(s, r, d)
    PROVE  Fresh'
<1>1. Post(s, r, d) /\ d \in Int
  BY DEF RequestDirect
<1>2. todo' \in [Sessions -> 0..MaxSteps]
  BY <1>1, PostTyped DEF Fresh
<1>3. UNCHANGED <<inv, ledger, lock, pc, seen, loaded, draft, effect>>
  BY DEF RequestDirect
<1>4. /\ seen' \in [Sessions -> [Rows -> Int]]
      /\ loaded' \in [Sessions -> SUBSET Rows]
      /\ draft' \in [Sessions -> [Rows -> Int]]
  BY <1>3 DEF Fresh, TypeOK
<1>5. WaitFor(s, r, d)
  BY <1>1 DEF Post
<1>6. QED
  BY <1>1, <1>2, <1>3, <1>4, <1>5, WaitKeepsFresh

(* A posting under the policy has read the row before.                     *)
LEMMA RequestPolicyKeepsFresh ==
    ASSUME Fresh, NEW s \in Sessions, NEW r \in Rows, NEW d \in Deltas,
           RequestPolicy(s, r, d)
    PROVE  Fresh'
<1> DEFINE e == IF d < 0 /\ Believes(s, r) + d < 0 THEN 0 ELSE d
<1>1. Post(s, r, e) /\ e \in Int
  BY DEF RequestPolicy
<1>2. Believes(s, r) \in Int
  BY BelievesTyped DEF Fresh
<1>3. loaded' \in [Sessions -> SUBSET Rows]
  BY DEF RequestPolicy, Fresh, TypeOK
<1>4. draft' \in [Sessions -> [Rows -> Int]]
  BY <1>2, UpdateOne DEF RequestPolicy, Fresh, TypeOK
<1>5. \A s2 \in Sessions : Kind[s2] = "direct" =>
         loaded'[s2] = loaded[s2] /\ draft'[s2] = draft[s2]
  BY DEF RequestPolicy, Fresh, TypeOK
<1> HIDE DEF e
<1>6. UNCHANGED <<inv, ledger, lock, pc, effect>>
  BY DEF RequestPolicy
<1>7. todo' \in [Sessions -> 0..MaxSteps]
  BY <1>1, PostTyped DEF Fresh
<1>8. seen' \in [Sessions -> [Rows -> Int]]
  BY DEF RequestPolicy, Fresh, TypeOK
<1>9. QED
  BY <1>1, <1>3, <1>4, <1>5, <1>6, <1>7, <1>8, WaitKeepsFresh DEF Post

(* The repair asks for the lock of a row it has not read.                  *)
LEMMA RequestRepairKeepsFresh ==
    ASSUME Fresh, NEW s \in Sessions, NEW r \in Rows, RequestRepair(s, r)
    PROVE  Fresh'
<1>1. -seen[s][r] \in Int
  BY DEF Fresh, TypeOK
<1>2. seen' \in [Sessions -> [Rows -> Int]]
  BY UpdateOne DEF RequestRepair, Fresh, TypeOK
<1>3. QED
  BY <1>1, <1>2, WaitKeepsFresh DEF RequestRepair, Fresh, TypeOK

(* A granted row is read, unless it has been read before.                  *)
LEMMA GrantKeepsFresh ==
    ASSUME Fresh, NEW s \in Sessions, Grant(s)
    PROVE  Fresh'
<1> DEFINE r == want[s].row
           d == want[s].delta
           q == Moved(s, Believes(s, r) + d)
<1> USE DEF Fresh
<1>1. r \in Rows /\ d \in Int
  BY RequestsTyped DEF Grant, MayLock, TypeOK
<1>2. Believes(s, r) \in Int
  BY <1>1, BelievesTyped
<1>3. q \in Int
  BY <1>1, <1>2 DEF Moved, Floor0
<1>4. effect[s][r] + d \in Int
  BY <1>1 DEF TypeOK
<1>5. /\ lock[r] \in {Nobody, s}
      /\ lock' = [lock EXCEPT ![r] = s]
      /\ loaded' = [loaded EXCEPT ![s] = @ \cup {r}]
      /\ draft' = [draft EXCEPT ![s][r] = q]
      /\ effect' = [effect EXCEPT ![s][r] = effect[s][r] + d]
      /\ want' = [want EXCEPT ![s] = NoRequest]
      /\ UNCHANGED <<inv, ledger, pc, todo, seen>>
  BY DEF Grant, MayLock
<1>6. pc[s] = "open"
  BY DEF Grant, MayLock, EndedIsIdle
<1>7. /\ draft' \in [Sessions -> [Rows -> Int]]
      /\ draft'[s][r] = q
      /\ \A s2 \in Sessions, r2 \in Rows :
            s2 # s \/ r2 # r => draft'[s2][r2] = draft[s2][r2]
  BY <1>1, <1>3, <1>5, UpdateOne DEF TypeOK
<1>8. /\ effect' \in [Sessions -> [Rows -> Int]]
      /\ effect'[s][r] = effect[s][r] + d
      /\ \A s2 \in Sessions, r2 \in Rows :
            s2 # s \/ r2 # r => effect'[s2][r2] = effect[s2][r2]
  BY <1>1, <1>4, <1>5, UpdateOne DEF TypeOK
<1>9. Kind[s] = "direct" => q = inv[r] + effect[s][r] + d
  BY <1>1, <1>5 DEF Moved, Believes, DirectIsFresh, EffectIsLocked, TypeOK
<1> HIDE DEF r, d, q
<1>10. lock' \in [Rows -> Sessions \cup {Nobody}] /\ lock'[r] = s
       /\ \A r2 \in Rows : r2 # r => lock'[r2] = lock[r2]
  BY <1>1, <1>5 DEF TypeOK
<1>11. loaded' \in [Sessions -> SUBSET Rows] /\ loaded'[s] = loaded[s] \cup {r}
       /\ \A s2 \in Sessions : s2 # s => loaded'[s2] = loaded[s2]
  BY <1>1, <1>5 DEF TypeOK
<1>12. want' \in [Sessions -> Requests] /\ want'[s] = NoRequest
       /\ \A s2 \in Sessions : s2 # s => want'[s2] = want[s2]
  BY <1>5, RequestsTyped DEF TypeOK
<1>13. TypeOK'
  BY <1>5, <1>7, <1>8, <1>10, <1>11, <1>12 DEF TypeOK
<1>14. EndedIsIdle'
  BY <1>1, <1>5, <1>6, <1>10, <1>12, RequestsTyped DEF EndedIsIdle
<1>15. EffectIsLocked'
  BY <1>1, <1>5, <1>8, <1>10 DEF EffectIsLocked
<1>16. DirectIsFresh'
  <2> SUFFICES ASSUME NEW s2 \in Sessions, NEW r2 \in Rows, Kind[s2] = "direct"
               PROVE  /\ lock'[r2] = s2 => /\ r2 \in loaded'[s2]
                                           /\ draft'[s2][r2] = inv'[r2] + effect'[s2][r2]
                      /\ lock'[r2] # s2 => r2 \notin loaded'[s2]
    BY DEF DirectIsFresh
  <2>1. CASE s2 = s /\ r2 = r
    <3>1. inv[r] \in Int /\ effect[s][r] \in Int
      BY <1>1 DEF TypeOK
    <3>2. QED
      BY <2>1, <3>1, <1>1, <1>5, <1>7, <1>8, <1>9, <1>10, <1>11
  <2>2. CASE s2 = s /\ r2 # r
    BY <2>2, <1>1, <1>5, <1>7, <1>8, <1>10, <1>11 DEF DirectIsFresh
  <2>3. CASE s2 # s
    BY <2>3, <1>1, <1>5, <1>7, <1>8, <1>10, <1>11 DEF DirectIsFresh
  <2>4. QED
    BY <2>1, <2>2, <2>3
<1>17. DriftComesFromStaleReads'
  BY <1>5 DEF DriftComesFromStaleReads
<1>18. QED
  BY <1>13, <1>14, <1>15, <1>16, <1>17

(* A commit makes its rows visible and ends its locks.                     *)
LEMMA CommitKeepsFresh ==
    ASSUME Fresh, NEW s \in Sessions, Commit(s)
    PROVE  Fresh'
<1> USE DEF Fresh
<1>1. /\ inv' \in [Rows -> Int] /\ ledger' \in [Rows -> Int]
      /\ \A r \in Rows : inv'[r] = IF lock[r] = s THEN draft[s][r] ELSE inv[r]
      /\ \A r \in Rows : ledger'[r] = ledger[r] + effect[s][r]
  BY DEF Commit, TypeOK
<1>2. TypeOK' /\ EndedIsIdle' /\ EffectIsLocked' /\ DirectIsFresh'
  BY <1>1, EndedLemma DEF Commit, Running
<1>3. DriftComesFromStaleReads'
  <2> SUFFICES ASSUME \A s2 \in Sessions : Kind[s2] # "direct" => pc'[s2] # "done"
               PROVE  inv' = ledger'
    BY DEF DriftComesFromStaleReads
  <2>1. pc'[s] = "done" /\ \A s2 \in Sessions : s2 # s => pc'[s2] = pc[s2]
    BY DEF Commit, Ended, TypeOK
  <2>2. Kind[s] = "direct"
    BY <2>1
  <2>3. inv = ledger
    BY <2>1, <2>2 DEF DriftComesFromStaleReads
  <2>4. \A r \in Rows : inv'[r] = ledger'[r]
    <3> TAKE r \in Rows
    <3>1. inv[r] \in Int /\ effect[s][r] \in Int /\ ledger[r] = inv[r]
      BY <2>3 DEF TypeOK
    <3>2. CASE lock[r] = s
      BY <1>1, <2>2, <3>1, <3>2 DEF DirectIsFresh
    <3>3. CASE lock[r] # s
      BY <1>1, <3>1, <3>3 DEF EffectIsLocked
    <3>4. QED
      BY <3>2, <3>3
  <2>5. QED
    BY <1>1, <2>4
<1>4. QED
  BY <1>2, <1>3

(* A request that ends without committing.                                 *)
LEMMA UndoneKeepsFresh ==
    ASSUME Fresh, NEW s \in Sessions, pc[s] # "done",
           Ended(s, "closed"), lock' = Unlocked(s), UNCHANGED <<inv, ledger>>
    PROVE  Fresh'
<1> USE DEF Fresh
<1>1. TypeOK' /\ EndedIsIdle' /\ EffectIsLocked' /\ DirectIsFresh'
  BY EndedLemma DEF TypeOK
<1>2. DriftComesFromStaleReads'
  BY DEF DriftComesFromStaleReads, Ended, TypeOK
<1>3. QED
  BY <1>1, <1>2

(* Closing a session undoes what it had not committed.                     *)
LEMMA CloseKeepsFresh ==
    ASSUME Fresh, NEW s \in Sessions, Close(s)
    PROVE  Fresh'
BY UndoneKeepsFresh DEF Close, MayClose

(* So does a deadlock resolved against it.                                 *)
LEMMA DeadlockAbortKeepsFresh ==
    ASSUME Fresh, NEW s \in Sessions, DeadlockAbort(s)
    PROVE  Fresh'
<1>1. PICK C \in SUBSET Sessions : s \in C /\ Circle(C)
  BY DEF DeadlockAbort, InCircle
<1>2. Holder(s) \in Sessions
  BY <1>1 DEF Circle
<1>3. want[s].row # Nobody
  BY <1>2 DEF Holder
<1>4. pc[s] = "open"
  BY <1>3 DEF Fresh, EndedIsIdle
<1>5. QED
  BY <1>4, UndoneKeepsFresh DEF DeadlockAbort

-----------------------------------------------------------------------------
(* The theorems.                                                           *)

(* No session has read anything in the beginning.                          *)
LEMMA InitIsFresh == Init => Fresh
<1> SUFFICES ASSUME Init PROVE Fresh
  OBVIOUS
<1>1. TypeOK
  BY RequestsTyped DEF Init, TypeOK, NoChange
<1>2. EndedIsIdle /\ EffectIsLocked /\ DirectIsFresh
  BY RequestsTyped DEF Init, EndedIsIdle, EffectIsLocked, DirectIsFresh, NoChange
<1>3. DriftComesFromStaleReads
  BY DEF Init, DriftComesFromStaleReads
<1>4. QED
  BY <1>1, <1>2, <1>3 DEF Fresh

(* Every step keeps the invariant.                                         *)
LEMMA StepKeepsFresh == Fresh /\ [Next]_vars => Fresh'
<1> SUFFICES ASSUME Fresh, [Next]_vars PROVE Fresh'
  OBVIOUS
<1>1. ASSUME NEW s \in Sessions, Begin(s) PROVE Fresh'
  BY <1>1, BeginKeepsFresh
<1>2. ASSUME NEW s \in Sessions, Fail(s) PROVE Fresh'
  BY <1>2, FailKeepsFresh
<1>3. ASSUME NEW s \in Sessions, Run(s) PROVE Fresh'
  BY <1>3, RequestDirectKeepsFresh, RequestPolicyKeepsFresh, RequestRepairKeepsFresh,
     GrantKeepsFresh, CommitKeepsFresh, CloseKeepsFresh, DeadlockAbortKeepsFresh DEF Run
<1>4. CASE UNCHANGED vars
  BY <1>4 DEF vars, Fresh, TypeOK, EndedIsIdle, EffectIsLocked, DirectIsFresh,
     DriftComesFromStaleReads
<1>5. QED
  BY <1>1, <1>2, <1>3, <1>4 DEF Next

(* The inductive invariant holds.                                          *)
THEOREM AlwaysFresh == Spec => []Fresh
<1>1. QED
  BY InitIsFresh, StepKeepsFresh, PTL DEF Spec

(* Sessions, locks and quantities keep their types.                        *)
THEOREM PostingTypeCorrect == Spec => []TypeOK
<1>1. Fresh => TypeOK
  BY DEF Fresh
<1>2. QED
  BY <1>1, AlwaysFresh, PTL

(* Postings that lock first (physical counts, finished goods written off)  *)
(* lose no update, whatever overlaps them: only a request that read before *)
(* it locked can part a quantity from its ledger.                          *)
THEOREM DirectPostsLoseNothing == Spec => []DriftComesFromStaleReads
<1>1. Fresh => DriftComesFromStaleReads
  BY DEF Fresh
<1>2. QED
  BY <1>1, AlwaysFresh, PTL

(* When every request locks first, the overlapping requests implement the  *)
(* serial book: each takes effect once and at once, or never.              *)
THEOREM DirectPostsAreSerial ==
    ASSUME \A s \in Sessions : Kind[s] = "direct"
    PROVE  Spec => RefinesBook
<1>1. Init => Book!Init
  BY DEF Init, Book!Init, Applied
<1>2. ASSUME Fresh, Fresh', [Next]_vars
      PROVE  [Book!Next]_<<inv, ledger, Applied>>
  <2>1. inv = ledger /\ inv' = ledger'
    BY <1>2 DEF Fresh, DriftComesFromStaleReads
  <2>2. ASSUME NEW s \in Sessions, Commit(s) PROVE Book!Next
    <3>1. pc[s] = "open" /\ pc' = [pc EXCEPT ![s] = "done"]
      BY <2>2 DEF Commit, Running, Ended
    <3>2. s \notin Applied /\ Applied' = Applied \cup {s}
      BY <1>2, <3>1 DEF Applied, Fresh, TypeOK
    <3>3. Book!Apply(s)
      BY <1>2, <2>1, <3>2 DEF Book!Apply, Fresh, TypeOK
    <3>4. QED
      BY <3>3 DEF Book!Next
  <2>3. ASSUME NEW s \in Sessions, Begin(s) \/ Fail(s) PROVE UNCHANGED <<inv, ledger, Applied>>
    BY <1>2, <2>3 DEF Begin, Fail, Running, Applied, Fresh, TypeOK
  <2>4. ASSUME NEW s \in Sessions, Close(s) PROVE UNCHANGED <<inv, ledger, Applied>>
    BY <1>2, <2>4 DEF Close, MayClose, Ended, Applied, Fresh, TypeOK
  <2>5. ASSUME NEW s \in Sessions, DeadlockAbort(s) PROVE UNCHANGED <<inv, ledger, Applied>>
    <3>1. PICK C \in SUBSET Sessions : s \in C /\ Circle(C)
      BY <2>5 DEF DeadlockAbort, InCircle
    <3>2. Holder(s) \in Sessions
      BY <3>1 DEF Circle
    <3>3. pc[s] = "open"
      BY <1>2, <3>2 DEF Holder, Fresh, EndedIsIdle
    <3>4. QED
      BY <1>2, <2>5, <3>3 DEF DeadlockAbort, Ended, Applied, Fresh, TypeOK
  <2>6. ASSUME NEW s \in Sessions, NEW r \in Rows,
               \/ \E d \in Deltas : RequestDirect(s, r, d) \/ RequestPolicy(s, r, d)
               \/ RequestRepair(s, r)
        PROVE  UNCHANGED <<inv, ledger, Applied>>
    BY <2>6 DEF RequestDirect, RequestPolicy, RequestRepair, Applied
  <2>7. ASSUME NEW s \in Sessions, Grant(s) PROVE UNCHANGED <<inv, ledger, Applied>>
    BY <2>7 DEF Grant, Applied
  <2>8. CASE UNCHANGED vars
    BY <2>8 DEF vars, Applied
  <2>9. QED
    BY <1>2, <2>2, <2>3, <2>4, <2>5, <2>6, <2>7, <2>8 DEF Next, Run
<1>3. QED
  BY <1>1, <1>2, AlwaysFresh, PTL DEF Spec, RefinesBook, Book!Spec

-----------------------------------------------------------------------------
(* Who can be stuck.                                                       *)

(* Requests are begun one at a time, so that there are only finitely many, *)
(* however many may ever be sent.                                          *)
Begun == {s \in Sessions : pc[s] # "idle"}

FinitelyManyBegun == IsFiniteSet(Begun)

(* A step begins one request at most.                                      *)
LEMMA OneMoreBegun ==
    ASSUME Fresh, [Next]_vars
    PROVE  Begun' \subseteq Begun \/ \E s \in Sessions : Begun' \subseteq Begun \cup {s}
<1>1. pc \in [Sessions -> {"idle", "open", "failed", "closed", "done"}]
  BY DEF Fresh, TypeOK
<1>2. ASSUME NEW s \in Sessions, Begin(s)
      PROVE  Begun' \subseteq Begun \cup {s}
  BY <1>1, <1>2 DEF Begin, Begun
<1>3. ASSUME NEW s \in Sessions, Fail(s)
      PROVE  Begun' \subseteq Begun \cup {s}
  BY <1>1, <1>3 DEF Fail, Begun
<1>4. ASSUME NEW s \in Sessions, NEW where, Ended(s, where)
      PROVE  Begun' \subseteq Begun \cup {s}
  BY <1>1, <1>4 DEF Ended, Begun
<1>5. ASSUME NEW s \in Sessions, Run(s)
      PROVE  Begun' \subseteq Begun \cup {s}
  <2>1. CASE Commit(s) \/ Close(s) \/ DeadlockAbort(s)
    BY <2>1, <1>4 DEF Commit, Close, DeadlockAbort
  <2>2. ASSUME NEW r \in Rows,
               \/ \E d \in Deltas : RequestDirect(s, r, d) \/ RequestPolicy(s, r, d)
               \/ RequestRepair(s, r)
        PROVE  pc' = pc
    BY <2>2 DEF RequestDirect, RequestPolicy, RequestRepair
  <2>3. ASSUME Grant(s) PROVE pc' = pc
    BY <2>3 DEF Grant
  <2>4. CASE pc' = pc
    BY <2>4 DEF Begun
  <2>5. QED
    BY <1>5, <2>1, <2>2, <2>3, <2>4 DEF Run
<1>6. CASE UNCHANGED vars
  BY <1>6 DEF vars, Begun
<1>7. QED
  BY <1>2, <1>3, <1>5, <1>6 DEF Next

(* Only finitely many requests are ever begun.                             *)
THEOREM AlwaysFinitelyManyBegun == Spec => []FinitelyManyBegun
<1>1. Init => FinitelyManyBegun
  <2>1. Init => Begun = {}
    BY DEF Init, Begun
  <2>2. QED
    BY <2>1, FS_EmptySet DEF FinitelyManyBegun
<1>2. FinitelyManyBegun /\ Fresh /\ [Next]_vars => FinitelyManyBegun'
  <2> SUFFICES ASSUME FinitelyManyBegun, Fresh, [Next]_vars PROVE IsFiniteSet(Begun')
    BY DEF FinitelyManyBegun
  <2>1. \E T : IsFiniteSet(T) /\ Begun' \subseteq T
    BY OneMoreBegun, FS_AddElement DEF FinitelyManyBegun
  <2>2. QED
    BY <2>1, FS_Subset
<1>3. QED
  BY <1>1, <1>2, AlwaysFresh, PTL DEF Spec

(* Among finitely many requests that wait for each other some wait in a    *)
(* circle: the smallest part that waits for nobody outside it.             *)
LEMMA WaitersHaveCircle ==
    ASSUME NEW W \in SUBSET Sessions, IsFiniteSet(W), W # {},
           \A s \in W : Holder(s) \in W
    PROVE  \E s \in W : InCircle(s)
<1> DEFINE F == {C \in SUBSET W : C # {} /\ \A s \in C : Holder(s) \in C}
<1>1. W \in F /\ \A C \in F : IsFiniteSet(C)
  BY FS_Subset
<1>2. PICK C \in F : \A D \in F : D \subseteq C => D = C
  <2> HIDE DEF F
  <2> QED BY <1>1, SmallestSet
<1> DEFINE D == {Holder(s) : s \in C}
<1>3. D \in F /\ D \subseteq C
  BY <1>2
<1>4. Circle(C)
  BY <1>2, <1>3 DEF Circle
<1>5. PICK s \in C : TRUE
  BY <1>2
<1>6. C \in SUBSET Sessions /\ s \in W
  BY <1>2
<1>7. InCircle(s)
  BY <1>4, <1>5, <1>6 DEF InCircle
<1>8. QED
  BY <1>6, <1>7

(* A request that can do nothing waits for another one, which has not      *)
(* ended.                                                                  *)
LEMMA WaitsForAnother ==
    ASSUME Fresh, NEW s \in Sessions, pc[s] = "open", ~MayRun(s)
    PROVE  Holder(s) \in Sessions /\ pc[Holder(s)] \in {"open", "failed"}
<1>1. want[s] \in Requests /\ want[s] # NoRequest
  BY DEF Fresh, TypeOK, MayRun, Running
<1>2. want[s].row \in Rows
  BY <1>1 DEF Requests, NoRequest
<1>3. lock[want[s].row] \in Sessions \ {s}
  BY <1>2 DEF MayRun, MayLock, Fresh, TypeOK
<1>4. Holder(s) = lock[want[s].row]
  BY <1>2, <1>3 DEF Holder
<1>5. QED
  BY <1>2, <1>3, <1>4 DEF Fresh, EndedIsIdle

(* The requests under way wait for each other unless one can go on; the    *)
(* database breaks circles, so that some wait for one that failed.         *)
LEMMA StuckBehindFailure ==
    ASSUME Fresh, FinitelyManyBegun, Stuck
    PROVE  ~LoopFree /\ \E s \in Sessions : Holder(s) # Nobody /\ pc[Holder(s)] = "failed"
<1> DEFINE Open == {s \in Sessions : pc[s] = "open"}
<1>1. \A s \in Sessions : ~MayRun(s)
  BY DEF Stuck
<1>2. \A s \in Sessions : pc[s] = "failed" => ~LoopFree
  BY <1>1 DEF MayRun, MayClose
<1>3. \A s \in Open : Holder(s) \in Sessions /\ pc[Holder(s)] \in {"open", "failed"}
  BY <1>1, WaitsForAnother
<1>4. Open # {}
  <2>1. PICK s \in Sessions : pc[s] \in {"open", "failed"}
    BY DEF Stuck, Underway
  <2>2. QED
    BY <1>2, <2>1 DEF LoopFree
<1>5. Open \in SUBSET Sessions /\ IsFiniteSet(Open)
  <2>1. Open \subseteq Begun
    BY DEF Begun
  <2>2. QED
    BY <2>1, FS_Subset DEF FinitelyManyBegun
<1>6. \E s \in Open : pc[Holder(s)] = "failed"
  <2> SUFFICES ASSUME \A s \in Open : pc[Holder(s)] # "failed" PROVE FALSE
    OBVIOUS
  <2>1. \A s \in Open : Holder(s) \in Open
    BY <1>3
  <2>2. \E s \in Open : InCircle(s)
    <3> HIDE DEF Open
    <3> QED BY <1>4, <1>5, <2>1, WaitersHaveCircle
  <2>3. QED
    BY <1>1, <2>2 DEF MayRun
<1>7. PICK s \in Open : pc[Holder(s)] = "failed"
  BY <1>6
<1>8. Holder(s) \in Sessions /\ Holder(s) # Nobody
  BY <1>3
<1>9. QED
  BY <1>2, <1>7, <1>8

(* Any number of requests is stuck only where an async handler waits for a *)
(* row whose holder has failed: no order of postings blocks them for good. *)
THEOREM StuckOnlyByFailure == Spec => []StuckOnlyBehindFailure
<1>1. Fresh /\ FinitelyManyBegun => StuckOnlyBehindFailure
  BY StuckBehindFailure DEF StuckOnlyBehindFailure
<1>2. QED
  BY <1>1, AlwaysFresh, AlwaysFinitelyManyBegun, PTL

-----------------------------------------------------------------------------
(* No request runs for ever.                                               *)

(* What a repair has still to release.                                     *)
Stranded(s) == {r \in Rows : seen[s][r] > 0}

Waiting(s) == IF want[s] = NoRequest THEN 0 ELSE 1

(* A bound on the steps before a request has ended: it asks for a lock and *)
(* gets it once for each of its postings and releases.                     *)
StepsLeft(s) ==
    CASE pc[s] = "idle" -> 2 * (MaxSteps + Cardinality(Rows)) + 3
      [] pc[s] = "open" -> 2 * (todo[s] + Cardinality(Stranded(s))) + Waiting(s) + 2
      [] pc[s] = "failed" -> 1
      [] OTHER -> 0

OneStepLess(s) ==
    /\ StepsLeft(s)' < StepsLeft(s)
    /\ \A t \in Sessions \ {s} : StepsLeft(t)' = StepsLeft(t)

(* Every step brings its request nearer to its end, and no other one       *)
(* farther from it.  With StuckOnlyByFailure: what is begun ends, unless a *)
(* session that failed is in the way.                                      *)
FinitelyManyLeft == \A s \in Sessions : StepsLeft(s) \in Nat
EveryStepCounts == [][\E s \in Sessions : OneStepLess(s)]_vars

(* There are not more rows to release than rows.                           *)
LEMMA StrandedRows ==
    ASSUME IsFiniteSet(Rows), NEW s \in Sessions
    PROVE  /\ IsFiniteSet(Stranded(s))
           /\ Cardinality(Stranded(s)) \in Nat /\ Cardinality(Rows) \in Nat
           /\ Cardinality(Stranded(s)) <= Cardinality(Rows)
<1>1. Stranded(s) \subseteq Rows
  BY DEF Stranded
<1>2. QED
  BY <1>1, FS_Subset, FS_CardinalityType

(* What is left to a request depends on its own fields only.               *)
LEMMA OthersKeepSteps ==
    ASSUME NEW s \in Sessions,
           \A t \in Sessions \ {s} : /\ pc'[t] = pc[t] /\ todo'[t] = todo[t]
                                     /\ want'[t] = want[t] /\ seen'[t] = seen[t]
    PROVE  \A t \in Sessions \ {s} : StepsLeft(t)' = StepsLeft(t)
<1> SUFFICES ASSUME NEW t \in Sessions \ {s} PROVE StepsLeft(t)' = StepsLeft(t)
  OBVIOUS
<1>1. Stranded(t)' = Stranded(t) /\ Waiting(t)' = Waiting(t)
  BY DEF Stranded, Waiting
<1>2. QED
  BY <1>1 DEF StepsLeft

(* What is left to a request that has been begun.                          *)
LEMMA OpenSteps ==
    ASSUME Fresh, IsFiniteSet(Rows), NEW s \in Sessions, pc[s] = "open"
    PROVE  /\ StepsLeft(s) = 2 * (todo[s] + Cardinality(Stranded(s))) + Waiting(s) + 2
           /\ todo[s] \in 0..MaxSteps /\ Cardinality(Stranded(s)) \in Nat
           /\ Waiting(s) \in 0..1 /\ StepsLeft(s) >= 2
<1>1. todo[s] \in 0..MaxSteps /\ Cardinality(Stranded(s)) \in Nat /\ Waiting(s) \in 0..1
  BY StrandedRows DEF Fresh, TypeOK, Waiting
<1>2. StepsLeft(s) = 2 * (todo[s] + Cardinality(Stranded(s))) + Waiting(s) + 2
  BY DEF StepsLeft
<1>3. QED
  BY <1>1, <1>2

(* The steps left are counted down to zero.                                *)
LEMMA StepsTyped ==
    ASSUME Fresh, IsFiniteSet(Rows), NEW s \in Sessions
    PROVE  StepsLeft(s) \in Nat
<1>1. CASE pc[s] = "idle"
  <2>1. Cardinality(Rows) \in Nat
    BY FS_CardinalityType
  <2>2. QED
    BY <1>1, <2>1 DEF StepsLeft
<1>2. CASE pc[s] = "open"
  BY <1>2, OpenSteps
<1>3. CASE pc[s] \notin {"idle", "open"}
  BY <1>3 DEF StepsLeft
<1>4. QED
  BY <1>1, <1>2, <1>3

(* A request that begins has at most every row to release.                 *)
LEMMA BeginCounts ==
    ASSUME Fresh, Fresh', IsFiniteSet(Rows), NEW s \in Sessions, Begin(s)
    PROVE  OneStepLess(s)
<1>1. pc[s] = "idle" /\ pc'[s] = "open" /\ todo' = todo /\ want' = want
  BY DEF Begin, Fresh, TypeOK
<1>2. StepsLeft(s) = 2 * (MaxSteps + Cardinality(Rows)) + 3
  BY <1>1 DEF StepsLeft
<1>3. /\ Stranded(s)' \subseteq Rows
      /\ StepsLeft(s)' = 2 * (todo'[s] + Cardinality(Stranded(s)')) + Waiting(s)' + 2
      /\ Waiting(s)' = 0
  <2>1. want[s] \in Requests /\ want[s].row = Nobody
    BY <1>1 DEF Fresh, TypeOK, EndedIsIdle
  <2>2. want[s] = NoRequest
    BY <2>1 DEF Requests, NoRequest
  <2>3. QED
    BY <1>1, <2>2 DEF StepsLeft, Stranded, Waiting
<1>4. todo'[s] \in 0..MaxSteps
  BY DEF Fresh, TypeOK
<1>5. /\ Cardinality(Stranded(s)') \in Nat /\ Cardinality(Rows) \in Nat
      /\ Cardinality(Stranded(s)') <= Cardinality(Rows)
  BY <1>3, FS_Subset, FS_CardinalityType
<1>6. StepsLeft(s)' < StepsLeft(s)
  BY <1>2, <1>3, <1>4, <1>5
<1>7. \A t \in Sessions \ {s} : StepsLeft(t)' = StepsLeft(t)
  BY <1>1, OthersKeepSteps DEF Begin, Fresh, TypeOK
<1>8. QED
  BY <1>6, <1>7 DEF OneStepLess

(* A request that asks for a lock waits.                                   *)
LEMMA NowWaiting ==
    ASSUME TypeOK, NEW s \in Sessions, NEW r \in Rows, NEW d, WaitFor(s, r, d)
    PROVE  /\ pc[s] = "open" /\ Waiting(s) = 0 /\ Waiting(s)' = 1
           /\ \A t \in Sessions \ {s} : want'[t] = want[t]
<1>1. want'[s] = [row |-> r, delta |-> d]
  BY DEF WaitFor, TypeOK
<1>2. want'[s] # NoRequest
  BY <1>1 DEF NoRequest
<1>3. pc[s] = "open" /\ want[s] = NoRequest
  BY DEF WaitFor, Running
<1>4. QED
  BY <1>2, <1>3 DEF WaitFor, Waiting, TypeOK

(* It makes one of its postings.                                           *)
LEMMA PostCounts ==
    ASSUME Fresh, Fresh', IsFiniteSet(Rows), NEW s \in Sessions, NEW r \in Rows, NEW d,
           Post(s, r, d), UNCHANGED <<pc, seen>>
    PROVE  OneStepLess(s)
<1>1. /\ pc[s] = "open" /\ Waiting(s) = 0 /\ Waiting(s)' = 1
      /\ \A t \in Sessions \ {s} : want'[t] = want[t]
  BY NowWaiting DEF Post, Fresh
<1>2. /\ todo'[s] = todo[s] - 1
      /\ \A t \in Sessions \ {s} : todo'[t] = todo[t]
  BY DEF Post, Fresh, TypeOK
<1>3. Stranded(s)' = Stranded(s) /\ pc'[s] = "open"
  BY <1>1 DEF Stranded
<1>4. /\ StepsLeft(s) = 2 * (todo[s] + Cardinality(Stranded(s))) + Waiting(s) + 2
      /\ todo[s] \in 0..MaxSteps /\ Cardinality(Stranded(s)) \in Nat
  BY <1>1, OpenSteps
<1>5. StepsLeft(s)' = 2 * (todo'[s] + Cardinality(Stranded(s))) + Waiting(s)' + 2
  BY <1>3 DEF StepsLeft
<1>6. StepsLeft(s)' < StepsLeft(s)
  BY <1>1, <1>2, <1>4, <1>5
<1>7. \A t \in Sessions \ {s} : StepsLeft(t)' = StepsLeft(t)
  BY <1>1, <1>2, OthersKeepSteps
<1>8. QED
  BY <1>6, <1>7 DEF OneStepLess

(* Or one of its releases, after which the row is not asked for again.     *)
LEMMA RepairCounts ==
    ASSUME Fresh, Fresh', IsFiniteSet(Rows), NEW s \in Sessions, NEW r \in Rows,
           RequestRepair(s, r)
    PROVE  OneStepLess(s)
<1>1. /\ pc[s] = "open" /\ Waiting(s) = 0 /\ Waiting(s)' = 1
      /\ \A t \in Sessions \ {s} : want'[t] = want[t]
  BY NowWaiting DEF RequestRepair, Fresh
<1>2. seen[s][r] > 0 /\ pc' = pc /\ todo' = todo /\ seen' = [seen EXCEPT ![s][r] = 0]
  BY DEF RequestRepair
<1>3. /\ seen'[s][r] = 0
      /\ \A s2 \in Sessions, r2 \in Rows : s2 # s \/ r2 # r => seen'[s2][r2] = seen[s2][r2]
  BY <1>2, UpdateOne DEF Fresh, TypeOK
<1>4. \A t \in Sessions \ {s} : seen'[t] = seen[t]
  BY <1>2 DEF Fresh, TypeOK
<1>5. Stranded(s)' = Stranded(s) \ {r} /\ r \in Stranded(s)
  BY <1>2, <1>3 DEF Stranded
<1>6. IsFiniteSet(Stranded(s)) /\ Cardinality(Stranded(s)) \in Nat
  BY StrandedRows
<1>7. Cardinality(Stranded(s) \ {r}) = Cardinality(Stranded(s)) - 1
  BY <1>5, <1>6, FS_RemoveElement
<1>8. /\ StepsLeft(s) = 2 * (todo[s] + Cardinality(Stranded(s))) + Waiting(s) + 2
      /\ todo[s] \in 0..MaxSteps
  BY <1>1, OpenSteps
<1>9. StepsLeft(s)' = 2 * (todo[s] + Cardinality(Stranded(s) \ {r})) + Waiting(s)' + 2
  BY <1>1, <1>2, <1>5 DEF StepsLeft
<1>10. StepsLeft(s)' < StepsLeft(s)
  BY <1>1, <1>6, <1>7, <1>8, <1>9
<1>11. \A t \in Sessions \ {s} : StepsLeft(t)' = StepsLeft(t)
  BY <1>1, <1>2, <1>4, OthersKeepSteps
<1>12. QED
  BY <1>10, <1>11 DEF OneStepLess

(* It waits no longer.                                                     *)
LEMMA GrantCounts ==
    ASSUME Fresh, Fresh', IsFiniteSet(Rows), NEW s \in Sessions, Grant(s)
    PROVE  OneStepLess(s)
<1>1. /\ want[s].row # Nobody /\ want' = [want EXCEPT ![s] = NoRequest]
      /\ pc' = pc /\ todo' = todo /\ seen' = seen
  BY DEF Grant, MayLock
<1>2. pc[s] = "open" /\ want[s] # NoRequest
  BY <1>1, RequestsTyped DEF Fresh, EndedIsIdle
<1>3. want'[s] = NoRequest /\ \A t \in Sessions \ {s} : want'[t] = want[t]
  BY <1>1 DEF Fresh, TypeOK
<1>4. Waiting(s) = 1 /\ Waiting(s)' = 0 /\ Stranded(s)' = Stranded(s)
  BY <1>1, <1>2, <1>3 DEF Waiting, Stranded
<1>5. /\ StepsLeft(s) = 2 * (todo[s] + Cardinality(Stranded(s))) + Waiting(s) + 2
      /\ todo[s] \in 0..MaxSteps /\ Cardinality(Stranded(s)) \in Nat
  BY <1>2, OpenSteps
<1>6. StepsLeft(s)' = 2 * (todo[s] + Cardinality(Stranded(s))) + Waiting(s)' + 2
  BY <1>1, <1>2, <1>4 DEF StepsLeft
<1>7. StepsLeft(s)' < StepsLeft(s)
  BY <1>4, <1>5, <1>6
<1>8. \A t \in Sessions \ {s} : StepsLeft(t)' = StepsLeft(t)
  BY <1>1, <1>3, OthersKeepSteps
<1>9. QED
  BY <1>7, <1>8 DEF OneStepLess

(* It ends, or fails, after which it has only to be closed.                *)
LEMMA EndCounts ==
    ASSUME Fresh, IsFiniteSet(Rows), NEW s \in Sessions,
           \/ pc[s] \in {"open", "failed"} /\ \E where \in {"closed", "done"} : Ended(s, where)
           \/ Fail(s)
    PROVE  OneStepLess(s)
<1>1. pc[s] = "open" => StepsLeft(s) >= 2 /\ StepsLeft(s) \in Int
  BY OpenSteps
<1>2. pc[s] = "failed" => StepsLeft(s) = 1
  BY DEF StepsLeft
<1>3. CASE Fail(s)
  <2>1. pc[s] = "open" /\ pc'[s] = "failed" /\ UNCHANGED <<todo, want, seen>>
        /\ \A t \in Sessions \ {s} : pc'[t] = pc[t]
    BY <1>3 DEF Fail, Running, Fresh, TypeOK
  <2>2. StepsLeft(s)' = 1
    BY <2>1 DEF StepsLeft
  <2>3. \A t \in Sessions \ {s} : StepsLeft(t)' = StepsLeft(t)
    BY <2>1, OthersKeepSteps
  <2>4. QED
    BY <1>1, <2>1, <2>2, <2>3 DEF OneStepLess
<1>4. CASE pc[s] \in {"open", "failed"} /\ \E where \in {"closed", "done"} : Ended(s, where)
  <2>1. /\ pc'[s] \in {"closed", "done"}
        /\ \A t \in Sessions \ {s} : /\ pc'[t] = pc[t] /\ todo'[t] = todo[t]
                                     /\ want'[t] = want[t] /\ seen'[t] = seen[t]
    BY <1>4 DEF Ended, Fresh, TypeOK
  <2>2. StepsLeft(s)' = 0
    BY <2>1 DEF StepsLeft
  <2>3. \A t \in Sessions \ {s} : StepsLeft(t)' = StepsLeft(t)
    BY <2>1, OthersKeepSteps
  <2>4. QED
    BY <1>1, <1>2, <1>4, <2>2, <2>3 DEF OneStepLess
<1>5. QED
  BY <1>3, <1>4

(* One request and one step of it at a time.                               *)
LEMMA StepCounts ==
    ASSUME Fresh, Fresh', IsFiniteSet(Rows), Next
    PROVE  \E s \in Sessions : OneStepLess(s)
<1>1. PICK s \in Sessions : Begin(s) \/ Run(s) \/ Fail(s)
  BY DEF Next
<1>2. CASE Begin(s)
  BY <1>2, BeginCounts
<1>3. CASE Fail(s)
  BY <1>3, EndCounts
<1>4. CASE \E r \in Rows, d \in Deltas : RequestDirect(s, r, d)
  <2>1. PICK r \in Rows, d \in Deltas : RequestDirect(s, r, d)
    BY <1>4
  <2>2. Post(s, r, d) /\ UNCHANGED <<pc, seen>>
    BY <2>1 DEF RequestDirect
  <2>3. QED
    BY <2>2, PostCounts
<1>5. CASE \E r \in Rows, d \in Deltas : RequestPolicy(s, r, d)
  <2>1. PICK r \in Rows, d \in Deltas : RequestPolicy(s, r, d)
    BY <1>5
  <2>2. \E e : Post(s, r, e) /\ UNCHANGED <<pc, seen>>
    BY <2>1 DEF RequestPolicy
  <2>3. QED
    BY <2>2, PostCounts
<1>6. CASE \E r \in Rows : RequestRepair(s, r)
  BY <1>6, RepairCounts
<1>7. CASE Grant(s)
  BY <1>7, GrantCounts
<1>8. CASE Commit(s)
  BY <1>8, EndCounts DEF Commit, Running
<1>9. CASE Close(s)
  BY <1>9, EndCounts DEF Close, MayClose
<1>10. CASE DeadlockAbort(s)
  <2>1. PICK C \in SUBSET Sessions : s \in C /\ Circle(C)
    BY <1>10 DEF DeadlockAbort, InCircle
  <2>2. Holder(s) \in Sessions
    BY <2>1 DEF Circle
  <2>3. pc[s] = "open"
    BY <2>2 DEF Holder, Fresh, EndedIsIdle
  <2>4. QED
    BY <1>10, <2>3, EndCounts DEF DeadlockAbort
<1>11. QED
  BY <1>1, <1>2, <1>3, <1>4, <1>5, <1>6, <1>7, <1>8, <1>9, <1>10 DEF Run

(* For any number of requests, and any finite number of rows, every step   *)
(* uses up one of the finitely many steps of one request.                  *)
THEOREM RequestsUseUpTheirSteps ==
    ASSUME IsFiniteSet(Rows)
    PROVE  Spec => []FinitelyManyLeft /\ EveryStepCounts
<1>1. Fresh => FinitelyManyLeft
  BY StepsTyped DEF FinitelyManyLeft
<1>2. Fresh /\ Fresh' /\ [Next]_vars => [\E s \in Sessions : OneStepLess(s)]_vars
  BY StepCounts
<1>3. QED
  BY <1>1, <1>2, AlwaysFresh, PTL DEF Spec, EveryStepCounts

=============================================================================
