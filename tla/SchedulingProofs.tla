-------------------------- MODULE SchedulingProofs --------------------------
(***************************************************************************)
(* For any machines, windows, routes and times: a printer in maintenance   *)
(* has a window that can give it back, or one that was cancelled after it  *)
(* had begun and before the sync saw it; bookings are disjoint, clear of   *)
(* windows and in the order of the routes, up to their excuses; and the    *)
(* slot that the search suggests is the first that is free.                *)
(*                                                                         *)
(* The plan is argued over rows: what two rows (or a row and a window) owe *)
(* each other is a predicate of the two, which a row that books less keeps *)
(* (Weaker), a booking that fits establishes (BookKeeps), and a block of   *)
(* shares establishes for the rows of the block (BlockKeeps).              *)
(***************************************************************************)
EXTENDS Scheduling, FiniteLemmas, TLAPS

(* A window that answers for the maintenance of m.                         *)
Answers(w, m) == window[w].on = m /\ Begun(w) /\ (Blocking(w) \/ window[w].unflipped)

(* Only a cancelled window is marked as never flipped.                     *)
MarkedIsCancelled ==
    \A w \in Windows : window[w].unflipped => window[w].status = "cancelled"

MaintenanceInv == MaintenanceTypeOK /\ MarkedIsCancelled /\ MaintenanceHasWindow

(* No printer shows maintenance at the start.                              *)
LEMMA MaintenanceInvInit == ASSUME MaintenanceInit PROVE MaintenanceInv
<1>1. /\ FreeWindow \in Window /\ ~FreeWindow.unflipped
      /\ now = 0 /\ 0 \in Times
  BY MaintenanceAssumption DEF FreeWindow, Window, WindowStatuses, MaintenanceInit, Times
<1>2. ASSUME NEW m \in Printers
      PROVE  printer[m] \in Printer /\ printer[m].status # "maintenance"
  <2>1. printer[m] \in [status: {"idle", "busy"}, byHand: {FALSE}]
    BY DEF MaintenanceInit
  <2> QED
    BY <2>1 DEF Printer
<1>3. MaintenanceTypeOK
  BY <1>1, <1>2 DEF MaintenanceInit, MaintenanceTypeOK
<1>4. MarkedIsCancelled
  BY <1>1 DEF MaintenanceInit, MarkedIsCancelled
<1> QED
  BY <1>2, <1>3, <1>4 DEF MaintenanceInv, MaintenanceHasWindow

(* The types of the columns, and the mark, through every step.             *)
LEMMA CreateKeeps ==
  ASSUME MaintenanceInv, NEW w \in Windows, NEW m \in Machines, NEW s \in Times, NEW e \in Times,
         CreateWindow(w, m, s, e)
  PROVE  MaintenanceInv'
<1> USE DEF MaintenanceInv
<1>1. MaintenanceTypeOK'
  BY DEF CreateWindow, MaintenanceTypeOK, Window, FreeWindow, WindowStatuses
<1>2. MarkedIsCancelled'
  BY DEF CreateWindow, MarkedIsCancelled, MaintenanceTypeOK, Window, FreeWindow
<1>3. ASSUME NEW n \in Printers, NEW v \in Windows, Answers(v, n)
      PROVE  Answers(v, n)'
  <2>1. v # w
    BY <1>3 DEF Answers, CreateWindow, Blocking, MarkedIsCancelled
  <2> QED
    BY <1>3, <2>1 DEF Answers, CreateWindow, Begun, Blocking, MaintenanceTypeOK
<1>4. MaintenanceHasWindow'
  BY <1>3 DEF CreateWindow, MaintenanceHasWindow, Answers
<1> QED
  BY <1>1, <1>2, <1>4

(* Whatever ends a window either gives its printer back, or leaves another *)
(* active window on it; other printers are left alone.                     *)
LEMMA RestoreKeeps ==
  ASSUME MaintenanceInv, NEW w \in Windows, Restore(w)
  PROVE  /\ printer' \in [Printers -> Printer]
         /\ \A m \in Printers : printer'[m].status = "maintenance" =>
              /\ printer'[m] = printer[m]
              /\ m = window[w].on => \E v \in Windows \ {w} : v \in ActiveOn(m)
<1> DEFINE n == window[w].on
<1>1. Idle \in Printer /\ Idle.status # "maintenance"
  BY DEF Idle, Printer
<1>2. printer \in [Printers -> Printer]
  BY DEF MaintenanceInv, MaintenanceTypeOK
<1>3. CASE n \in Printers /\ Restored(n, w)
  BY <1>1, <1>2, <1>3 DEF Restore
<1>4. CASE ~(n \in Printers /\ Restored(n, w))
  BY <1>2, <1>4 DEF Restore, Restored, ActiveOn, BlockingOn
<1> QED
  BY <1>3, <1>4

(* A window that ends, with a status under which it no longer blocks.      *)
LEMMA EndKeeps ==
  ASSUME MaintenanceInv, NEW w \in Windows, Blocking(w),
         NEW s \in {"cancelled", "completed"}, NEW u \in BOOLEAN, u => s = "cancelled",
         window' = [window EXCEPT ![w].status = s, ![w].unflipped = u],
         \/ Restore(w)
         \/ UNCHANGED printer /\ (Begun(w) => u),
         UNCHANGED now
  PROVE  MaintenanceInv'
<1> USE DEF MaintenanceInv
<1>1. window \in [Windows -> Window] /\ printer \in [Printers -> Printer]
  BY DEF MaintenanceTypeOK
<1>2. /\ window'[w] = [window[w] EXCEPT !.status = s, !.unflipped = u]
      /\ \A v \in Windows \ {w} : window'[v] = window[v]
  BY <1>1
<1>3. /\ window' \in [Windows -> Window]
      /\ window'[w].on = window[w].on /\ window'[w].from = window[w].from
      /\ window'[w].status = s /\ window'[w].unflipped = u
  <2>1. window[w] \in Window
    BY <1>1
  <2>2. [window[w] EXCEPT !.status = s] \in Window
    BY <2>1 DEF Window, WindowStatuses
  <2>3. [[window[w] EXCEPT !.status = s] EXCEPT !.unflipped = u] \in Window
    BY <2>2 DEF Window
  <2>4. window'[w] \in Window
    BY <1>2, <2>3
  <2>5. window' \in [Windows -> Window]
    BY <1>1, <2>4
  <2> QED
    BY <1>2, <2>1, <2>5 DEF Window
<1>4. MarkedIsCancelled'
  BY <1>2, <1>3 DEF MarkedIsCancelled
<1>5. ASSUME NEW m \in Printers, NEW v \in Windows \ {w}, Answers(v, m)
      PROVE  Answers(v, m)'
  BY <1>2, <1>5 DEF Answers, Begun, Blocking
<1>6. ASSUME NEW m \in Printers, NEW v \in ActiveOn(m)
      PROVE  v \in Windows /\ Answers(v, m)
  BY <1>6 DEF ActiveOn, BlockingOn, Answers
<1>7. CASE Restore(w)
  <2>1. /\ printer' \in [Printers -> Printer]
        /\ \A m \in Printers : printer'[m].status = "maintenance" =>
              /\ printer'[m] = printer[m]
              /\ m = window[w].on => \E v \in Windows \ {w} : v \in ActiveOn(m)
    BY <1>7, RestoreKeeps
  <2>2. ASSUME NEW m \in Printers, printer'[m].status = "maintenance", ~printer'[m].byHand
        PROVE  \E v \in Windows : Answers(v, m)'
    <3>1. CASE m = window[w].on
      BY <1>5, <1>6, <2>1, <2>2, <3>1
    <3>2. CASE m # window[w].on
      <4>1. PICK v \in Windows : Answers(v, m)
        BY <2>1, <2>2 DEF MaintenanceHasWindow, Answers
      <4>2. v # w
        BY <3>2, <4>1 DEF Answers
      <4> QED
        BY <1>5, <4>1, <4>2
    <3> QED
      BY <3>1, <3>2
  <2>3. MaintenanceHasWindow'
    BY <2>2 DEF MaintenanceHasWindow, Answers
  <2> QED
    BY <1>3, <1>4, <2>1, <2>3 DEF MaintenanceTypeOK
<1>8. CASE UNCHANGED printer /\ (Begun(w) => u)
  <2>1. ASSUME NEW m \in Printers, printer'[m].status = "maintenance", ~printer'[m].byHand
        PROVE  \E v \in Windows : Answers(v, m)'
    <3>1. PICK v \in Windows : Answers(v, m)
      BY <1>8, <2>1 DEF MaintenanceHasWindow, Answers
    <3>2. CASE v = w
      BY <1>3, <1>8, <3>1, <3>2 DEF Answers, Begun
    <3> QED
      BY <1>5, <3>1, <3>2
  <2>2. MaintenanceHasWindow'
    BY <2>1 DEF MaintenanceHasWindow, Answers
  <2> QED
    BY <1>1, <1>3, <1>4, <1>8, <2>2 DEF MaintenanceTypeOK
<1> QED
  BY <1>7, <1>8

(* A window that had begun as scheduled is marked when it is cancelled.    *)
LEMMA CancelKeeps ==
  ASSUME MaintenanceInv, NEW w \in Windows, CancelWindow(w)
  PROVE  MaintenanceInv'
<1> DEFINE u == window[w].unflipped \/ (window[w].status = "scheduled" /\ Begun(w))
<1>1. window \in [Windows -> Window]
  BY DEF MaintenanceInv, MaintenanceTypeOK
<1>2. u \in BOOLEAN
  BY <1>1 DEF Window
<1>3. window' = [window EXCEPT ![w].status = "cancelled", ![w].unflipped = u]
  BY <1>1 DEF CancelWindow
<1>4. \/ Restore(w)
      \/ UNCHANGED printer /\ (Begun(w) => u)
  BY DEF CancelWindow, Blocking
<1> HIDE DEF u
<1> QED
  BY <1>2, <1>3, <1>4, EndKeeps DEF CancelWindow

(* The completion also gives back what a sync took without a status.       *)
LEMMA CompleteKeeps ==
  ASSUME MaintenanceInv, NEW w \in Windows, CompleteWindow(w)
  PROVE  MaintenanceInv'
<1>1. window \in [Windows -> Window] /\ ~window[w].unflipped
  BY DEF MaintenanceInv, MaintenanceTypeOK, MarkedIsCancelled, CompleteWindow, Blocking
<1>2. window[w] = [window[w] EXCEPT !.unflipped = FALSE]
  BY <1>1 DEF Window
<1>3. window' = [window EXCEPT ![w].status = "completed", ![w].unflipped = FALSE]
  BY <1>1, <1>2 DEF CompleteWindow, Window
<1>4. \/ Restore(w)
      \/ UNCHANGED printer /\ (Begun(w) => FALSE)
  BY DEF CompleteWindow
<1> QED
  BY <1>3, <1>4, EndKeeps DEF CompleteWindow

(* The sync puts a printer into maintenance only for an active window.     *)
LEMMA SyncKeeps ==
  ASSUME MaintenanceInv, Sync
  PROVE  MaintenanceInv'
<1> USE DEF MaintenanceInv
<1>1. window \in [Windows -> Window] /\ printer \in [Printers -> Printer] /\ now' = now
  BY DEF MaintenanceTypeOK, Sync
<1>2. ASSUME NEW w \in Windows
      PROVE  /\ window'[w] \in Window
             /\ window'[w].on = window[w].on /\ window'[w].from = window[w].from
             /\ window'[w].unflipped = window[w].unflipped
             /\ Blocking(w) => Blocking(w)'
             /\ ~Blocking(w) => window'[w].status = window[w].status
  BY <1>1 DEF Sync, Window, WindowStatuses, Blocking, ActiveOn, BlockingOn
<1>3. window' \in [Windows -> Window]
  BY <1>2 DEF Sync
<1>4. MarkedIsCancelled'
  BY <1>2 DEF MarkedIsCancelled, Blocking
<1>5. ASSUME NEW w \in Windows, NEW m \in Printers, Answers(w, m)
      PROVE  Answers(w, m)'
  BY <1>1, <1>2, <1>5 DEF Answers, Begun
<1>6. ASSUME NEW m \in Printers
      PROVE  /\ printer'[m] \in Printer
             /\ printer'[m].status = "maintenance" =>
                  printer'[m] = printer[m] \/ ActiveOn(m) # {}
  BY <1>1 DEF Sync, Printer, Idle
<1>7. printer' \in [Printers -> Printer]
  BY <1>6 DEF Sync
<1>8. ASSUME NEW m \in Printers, printer'[m].status = "maintenance", ~printer'[m].byHand
      PROVE  \E w \in Windows : Answers(w, m)'
  <2>1. CASE ActiveOn(m) # {}
    BY <1>5, <2>1 DEF ActiveOn, BlockingOn, Answers
  <2>2. CASE printer'[m] = printer[m]
    BY <1>5, <1>8, <2>2 DEF MaintenanceHasWindow, Answers
  <2> QED
    BY <1>6, <1>8, <2>1, <2>2
<1>9. MaintenanceHasWindow'
  BY <1>8 DEF MaintenanceHasWindow, Answers
<1> QED
  BY <1>1, <1>3, <1>4, <1>7, <1>9 DEF MaintenanceTypeOK

(* Telemetry never writes maintenance; a person who does is remembered.    *)
LEMMA WriteKeeps ==
  ASSUME MaintenanceInv, NEW m \in Printers, NEW s \in {"idle", "busy", "maintenance"},
         FlushTelemetry(m, s) \/ SetPrinterStatus(m, s)
  PROVE  MaintenanceInv'
<1> USE DEF MaintenanceInv
<1>1. printer \in [Printers -> Printer] /\ now' = now /\ window' = window
  BY DEF MaintenanceTypeOK, FlushTelemetry, SetPrinterStatus
<1>2. CASE FlushTelemetry(m, s)
  <2>1. /\ s \in {"idle", "busy"}
        /\ printer' = [printer EXCEPT ![m] = [status |-> s, byHand |-> FALSE]]
    BY <1>2 DEF FlushTelemetry
  <2>2. printer' \in [Printers -> Printer]
    BY <1>1, <2>1 DEF Printer
  <2>3. \A n \in Printers : printer'[n].status = "maintenance" => printer'[n] = printer[n]
    BY <1>1, <2>1
  <2> QED
    BY <1>1, <2>2, <2>3 DEF MaintenanceTypeOK, MarkedIsCancelled, MaintenanceHasWindow, Begun, Blocking
<1>3. CASE SetPrinterStatus(m, s)
  <2>1. printer' = [printer EXCEPT ![m] = [status |-> s, byHand |-> TRUE]]
    BY <1>3 DEF SetPrinterStatus
  <2>2. printer' \in [Printers -> Printer]
    BY <1>1, <2>1 DEF Printer
  <2>3. \A n \in Printers : printer'[n].byHand \/ printer'[n] = printer[n]
    BY <1>1, <2>1
  <2> QED
    BY <1>1, <2>2, <2>3 DEF MaintenanceTypeOK, MarkedIsCancelled, MaintenanceHasWindow, Begun, Blocking
<1> QED
  BY <1>2, <1>3

(* What has begun stays so.                                                *)
LEMMA TickKeeps ==
  ASSUME MaintenanceInv, Tick
  PROVE  MaintenanceInv'
<1> USE DEF MaintenanceInv
<1>1. /\ now \in Times /\ now' = now + 1 /\ now' \in Times
      /\ window' = window /\ printer' = printer
  BY MaintenanceAssumption DEF Tick, MaintenanceTypeOK, Times
<1>2. \A w \in Windows : Begun(w) => Begun(w)'
  BY <1>1 DEF Begun, MaintenanceTypeOK, Window, Times
<1>3. MaintenanceTypeOK' /\ MarkedIsCancelled'
  BY <1>1 DEF MaintenanceTypeOK, MarkedIsCancelled
<1>4. MaintenanceHasWindow'
  BY <1>1, <1>2 DEF MaintenanceHasWindow, Blocking
<1> QED
  BY <1>3, <1>4

(* The plan and the orders are no part of it.                              *)
LEMMA PlanKeeps ==
  ASSUME MaintenanceInv, UNCHANGED maintenance
  PROVE  MaintenanceInv'
  BY DEF maintenance, MaintenanceInv, MaintenanceTypeOK, MarkedIsCancelled, MaintenanceHasWindow,
     Begun, Blocking

(* Every step keeps the invariant: of maintenance, of the plan, of time.   *)
LEMMA MaintenanceInvNext == ASSUME MaintenanceInv, [Next]_vars PROVE MaintenanceInv'
<1>1. CASE UNCHANGED maintenance
  BY <1>1, PlanKeeps
<1>2. ASSUME NEW w \in Windows, NEW m \in Machines, NEW s \in Times, NEW e \in Times,
             PlanWindow(w, m, s, e)
      PROVE  MaintenanceInv'
  BY <1>2, CreateKeeps DEF PlanWindow
<1>3. CASE \E w \in Windows : CancelWindow(w) \/ CompleteWindow(w)
  BY <1>3, CancelKeeps, CompleteKeeps
<1>4. CASE Sync \/ Tick
  BY <1>4, SyncKeeps, TickKeeps
<1>5. CASE \E m \in Printers, s \in {"idle", "busy", "maintenance"} :
             FlushTelemetry(m, s) \/ SetPrinterStatus(m, s)
  BY <1>5, WriteKeeps
<1>6. CASE UNCHANGED vars
  BY <1>1, <1>6 DEF vars, maintenance
<1>7. CASE Next
  <2>1. CASE \E o \in Operations :
               \/ \E m \in Machines, s, e \in Times :
                    (\E t \in Threads : CheckSchedule(t, o, m, s, e)) \/ Reschedule(o, m, s, e)
               \/ Unschedule(o) \/ \E m \in Printers : Dispatch(o, m)
    BY <1>1, <2>1 DEF CheckSchedule, Reschedule, Unschedule, Dispatch
  <2>2. CASE \E o \in Operations :
               \/ \E r \in Resources : AssignResource(o, r) \/ StartOn(o, r)
               \/ Start(o) \/ Complete(o) \/ Skip(o)
    BY <1>1, <2>2 DEF AssignResource, StartOn, Start, Complete, Skip
  <2>3. CASE \E t \in Threads : CommitSchedule(t)
    BY <1>1, <2>3 DEF CommitSchedule
  <2>5. CASE \E x \in Orders : ReleaseOrder(x)
    BY <1>1, <2>5 DEF ReleaseOrder
  <2>6. ASSUME NEW x \in Orders, NEW R \in SUBSET Resources, NEW s \in Times, AutoSchedule(x, R, s)
        PROVE  MaintenanceInv'
    <3>1. UNCHANGED maintenance
      BY <2>6, Zenon DEF AutoSchedule
    <3> QED
      BY <1>1, <3>1
  <2>4. CASE \E w \in Windows, m \in Machines, s, e \in Times : PlanWindow(w, m, s, e)
    BY <1>2, <2>4
  <2> QED
    BY <1>3, <1>4, <1>5, <1>7, <2>1, <2>2, <2>3, <2>4, <2>5, <2>6 DEF Next
<1> QED
  BY <1>6, <1>7

(* A printer that shows maintenance, and was not set to it by hand, has a  *)
(* window that has begun and can still be completed or cancelled, or one   *)
(* that cancel_window ended by its status alone (the cancellation, the     *)
(* completion and the sync of maintenance_window_service.py).              *)
THEOREM PrinterComesBack == Spec => []MaintenanceHasWindow
<1>1. Init => MaintenanceInv
  BY MaintenanceInvInit DEF Init
<1>2. MaintenanceInv /\ [Next]_vars => MaintenanceInv'
  BY MaintenanceInvNext
<1>3. MaintenanceInv => MaintenanceHasWindow
  BY DEF MaintenanceInv
<1> QED
  BY <1>1, <1>2, <1>3, PTL DEF Spec

-----------------------------------------------------------------------------
(* The search for the first free slot.                                     *)

BusySlot == [from: Times, to: Times]

(* Every set of times is a finite set of integers.                         *)
LEMMA TimesAreFinite ==
  ASSUME NEW S \in SUBSET Times
  PROVE  IsFiniteSet(S) /\ \A x \in S : x \in Int
<1>1. 0 \in Int /\ Horizon \in Int
  BY MaintenanceAssumption
<1>2. IsFiniteSet(Times)
  BY <1>1, FS_Interval DEF Times
<1>3. IsFiniteSet(S)
  BY <1>2, FS_Subset
<1> QED
  BY <1>1, <1>3 DEF Times

(* The cursor stands at the latest end so far.                             *)
LEMMA CursorIs ==
  ASSUME NEW busy \in SUBSET BusySlot, NEW after \in Times, NEW k \in Int
  PROVE  /\ Cursor(busy, after, k) \in Times
         /\ after <= Cursor(busy, after, k)
         /\ \A b \in busy : b.from < k => b.to <= Cursor(busy, after, k)
         /\ \/ Cursor(busy, after, k) = after
            \/ \E b \in busy : b.from < k /\ b.to = Cursor(busy, after, k)
<1> DEFINE S == {after} \cup {b.to : b \in {c \in busy : c.from < k}}
<1>1. S \subseteq Times /\ after \in S
  BY DEF BusySlot
<1>2. IsFiniteSet(S) /\ \A x \in S : x \in Int
  BY <1>1, TimesAreFinite
<1>3. Max(S) \in S /\ \A x \in S : x <= Max(S)
  BY <1>1, <1>2, MaxIs
<1>4. Cursor(busy, after, k) = Max(S)
  BY DEF Cursor
<1> DEFINE c == Cursor(busy, after, k)
<1>5. c \in S /\ \A x \in S : x <= c
  BY <1>3, <1>4
<1> HIDE DEF c
<1>6. \A b \in busy : b.from < k => b.to \in S
  OBVIOUS
<1>7. c = after \/ \E b \in busy : b.from < k /\ b.to = c
  BY <1>5
<1> HIDE DEF S
<1> QED
  BY <1>1, <1>5, <1>6, <1>7 DEF c

(* The first gap is a slot that is free, and no slot before it is.         *)
LEMMA FirstGapIsEarliest ==
  ASSUME NEW busy \in SUBSET BusySlot, \A b \in busy : b.from < b.to,
         NEW d \in Nat \ {0}, NEW after \in Times
  PROVE  /\ FirstGap(busy, d, after) \in Times
         /\ after <= FirstGap(busy, d, after)
         /\ LET found == FirstGap(busy, d, after)
            IN  /\ \A b \in busy : ~Overlap(b, Slot(found, found + d))
                /\ \A s \in after..found - 1 : \E b \in busy : Overlap(b, Slot(s, s + d))
<1> DEFINE ahead == {b \in busy : b.to > after}
           C(k) == Cursor(ahead, after, k)
           gaps == {b.from : b \in {c \in ahead : c.from - C(c.from) >= d}}
           g == IF gaps = {} THEN Horizon ELSE Min(gaps)
           found == C(g)
<1>1. FirstGap(busy, d, after) = found
  BY DEF FirstGap
<1>2. Horizon \in Nat /\ Horizon \in Times /\ ahead \in SUBSET BusySlot
  BY MaintenanceAssumption DEF Times
<1>3. \A k \in Times : k \in Int /\ k <= Horizon /\ 0 <= k
  BY <1>2 DEF Times
<1>4. \A k \in Times :
        /\ C(k) \in Times /\ after <= C(k)
        /\ \A b \in ahead : b.from < k => b.to <= C(k)
        /\ C(k) = after \/ \E b \in ahead : b.from < k /\ b.to = C(k)
  BY <1>2, <1>3, CursorIs
<1>5. \A b \in busy : b.from \in Times /\ b.to \in Times /\ b.from < b.to
  BY DEF BusySlot
<1> HIDE DEF C
<1>6. gaps \subseteq Times
  BY <1>5
<1>7. /\ g \in Times /\ \A x \in gaps : g <= x
      /\ gaps # {} => g \in gaps
  <2>1. CASE gaps = {}
    BY <1>2, <2>1
  <2>2. CASE gaps # {}
    <3> HIDE DEF gaps
    <3>1. IsFiniteSet(gaps) /\ \A x \in gaps : x \in Int
      BY <1>6, TimesAreFinite
    <3> QED
      BY <1>6, <2>2, <3>1, MinIs
  <2> QED
    BY <2>1, <2>2
<1>8. gaps # {} => g - found >= d
  BY <1>7
<1>9. gaps = {} => g = Horizon
  OBVIOUS
<1>10. \A b \in ahead : b.from < g => b.from - C(b.from) < d
  <2> SUFFICES ASSUME NEW b \in ahead, b.from < g, ~(b.from - C(b.from) < d) PROVE FALSE
    OBVIOUS
  <2>1. b.from - C(b.from) >= d
    BY <1>3, <1>4, <1>5
  <2>2. b.from \in gaps /\ b.from \in Times
    BY <1>5, <2>1
  <2> HIDE DEF gaps, g
  <2>3. g \in Int /\ b.from \in Int /\ g <= b.from
    BY <1>3, <1>7, <2>2
  <2> QED
    BY <2>3
<1> HIDE DEF g, gaps
<1>11. /\ found \in Times /\ after <= found
       /\ \A b \in ahead : b.from < g => b.to <= found
       /\ found = after \/ \E b \in ahead : b.from < g /\ b.to = found
  BY <1>4, <1>7
<1> HIDE DEF found
<1>12. ASSUME NEW b \in busy, Overlap(b, Slot(found, found + d)) PROVE FALSE
  <2>1. b.from < found + d /\ found < b.to
    BY <1>12 DEF Overlap, Slot
  <2>2. b.to > after /\ b \in ahead
    BY <1>3, <1>5, <1>11, <2>1
  <2>3. ~(b.from < g)
    BY <1>3, <1>5, <1>11, <2>1, <2>2
  <2>4. CASE gaps # {}
    BY <1>3, <1>5, <1>7, <1>8, <1>11, <2>1, <2>3, <2>4
  <2>5. CASE gaps = {}
    <3>1. g = Horizon /\ Horizon \in Int /\ b.from \in Int /\ b.to \in Int
      BY <1>2, <1>3, <1>5, <1>9, <2>5
    <3>2. b.to <= Horizon /\ b.from < b.to
      BY <1>3, <1>5
    <3> QED
      BY <2>3, <3>1, <3>2
  <2> QED
    BY <2>4, <2>5
<1>13. ASSUME NEW s \in after..found - 1, \A b \in busy : ~Overlap(b, Slot(s, s + d)) PROVE FALSE
  <2> DEFINE late == {b.from : b \in {c \in ahead : c.from < g /\ c.to > s}}
  <2>1. s \in Int /\ after <= s /\ s < found
    BY <1>3, <1>11
  <2>2. late # {}
    BY <1>3, <1>11, <2>1
  <2>3. IsFiniteSet(late) /\ \A x \in late : x \in Int
    <3>1. late \subseteq Times
      BY <1>5
    <3> HIDE DEF late
    <3> QED
      BY <3>1, TimesAreFinite
  <2>4. Min(late) \in late /\ \A x \in late : Min(late) <= x
    <3> HIDE DEF late
    <3> QED BY <2>2, <2>3, MinIs
  <2>5. PICK b \in ahead : b.from < g /\ b.to > s /\ \A c \in ahead : c.from < g /\ c.to > s => b.from <= c.from
    BY <2>4
  <2>6. b.from >= s + d
    BY <1>3, <1>5, <1>13, <2>1, <2>5 DEF Overlap, Slot
  <2>7. C(b.from) <= s
    <3>1. b.from \in Times
      BY <1>5
    <3>2. CASE C(b.from) = after
      BY <2>1, <3>2
    <3>3. ASSUME NEW c \in ahead, c.from < b.from, c.to = C(b.from) PROVE C(b.from) <= s
      BY <1>3, <1>5, <1>7, <2>1, <2>5, <3>1, <3>3
    <3> QED
      BY <1>4, <3>1, <3>2, <3>3
  <2> QED
    BY <1>3, <1>4, <1>5, <1>10, <2>1, <2>5, <2>6, <2>7
<1> HIDE DEF ahead
<1> QED
  BY <1>1, <1>11, <1>12, <1>13

-----------------------------------------------------------------------------
(* The order of a route.                                                   *)

(* A route is a finite sequence of operations.                             *)
LEMMA RouteIs ==
  ASSUME NEW x \in Orders
  PROVE  /\ Len(Route[x]) \in Nat /\ DOMAIN Route[x] = 1..Len(Route[x])
         /\ Range(Route[x]) \subseteq Operations
         /\ IsFiniteSet(Range(Route[x]))
<1>1. Route[x] \in Seq(Operations)
  BY SchedulingAssumption
<1>2. Len(Route[x]) \in Nat /\ DOMAIN Route[x] = 1..Len(Route[x])
      /\ \A k \in 1..Len(Route[x]) : Route[x][k] \in Operations
  BY <1>1
<1>3. IsFiniteSet(1..Len(Route[x]))
  <2>1. 1 \in Int /\ Len(Route[x]) \in Int
    BY <1>2
  <2> QED
    BY <2>1, FS_Interval
<1>4. Range(Route[x]) = {Route[x][k] : k \in 1..Len(Route[x])}
  BY <1>2 DEF Range
<1>5. IsFiniteSet({Route[x][k] : k \in 1..Len(Route[x])})
  BY <1>3, ImageFinite
<1> QED
  BY <1>2, <1>4, <1>5

(* An operation belongs to one order, and stands at one place of its route.*)
LEMMA PredecessorsAre ==
  ASSUME NEW x \in Orders, NEW k \in 1..Len(Route[x])
  PROVE  /\ OrderOf[Route[x][k]] = x
         /\ Predecessors[Route[x][k]] = {Route[x][j] : j \in 1..k - 1}
<1> DEFINE o == Route[x][k]
<1>1. /\ Len(Route[x]) \in Nat /\ DOMAIN Route[x] = 1..Len(Route[x])
      /\ Range(Route[x]) \subseteq Operations
  BY RouteIs
<1>2. o \in Range(Route[x]) /\ o \in Operations
  BY <1>1 DEF Range
<1>3. \A y \in Orders : o \in Range(Route[y]) => y = x
  BY <1>2, SchedulingAssumption
<1>4. OrderOf[o] = CHOOSE y \in Orders : o \in Range(Route[y])
  BY <1>2 DEF OrderOf
<1>5. OrderOf[o] = x
  BY <1>2, <1>3, <1>4
<1> DEFINE at == CHOOSE j \in DOMAIN Route[x] : Route[x][j] = o
<1>6. at = k
  <2>1. at \in 1..Len(Route[x]) /\ Route[x][at] = Route[x][k]
    BY <1>1
  <2>2. IsInjective(Route[x])
    BY SchedulingAssumption
  <2> HIDE DEF at
  <2>3. at \in DOMAIN Route[x] /\ k \in DOMAIN Route[x]
    BY <1>1, <2>1
  <2> HIDE DEF o
  <2> QED
    BY <2>1, <2>2, <2>3, Zenon DEF IsInjective
<1>7. Predecessors[o] = {Route[x][j] : j \in 1..at - 1}
  <2> DEFINE P(y) == {Route[y][j] : j \in 1..(CHOOSE i \in DOMAIN Route[y] : Route[y][i] = o) - 1}
  <2> HIDE DEF o
  <2>1. Predecessors[o] = P(OrderOf[o])
    BY <1>2, Zenon DEF Predecessors
  <2>2. P(OrderOf[o]) = P(x)
    BY <1>5
  <2>3. P(x) = {Route[x][j] : j \in 1..at - 1}
    BY Zenon
  <2> QED
    BY <2>1, <2>2, <2>3, Zenon
<1> QED
  BY <1>5, <1>6, <1>7

(* What comes before an operation of a route comes in one order.           *)
LEMMA RouteOrder ==
  ASSUME NEW x \in Orders, NEW o \in Range(Route[x])
  PROVE  /\ OrderOf[o] = x /\ o \notin Predecessors[o]
         /\ Predecessors[o] \subseteq Range(Route[x])
         /\ \A q \in Predecessors[o] : Predecessors[q] \subseteq Predecessors[o]
         /\ \A q \in Range(Route[x]) \ {o} : q \in Predecessors[o] \/ o \in Predecessors[q]
<1>1. Len(Route[x]) \in Nat /\ DOMAIN Route[x] = 1..Len(Route[x])
  BY RouteIs
<1>2. \A q \in Range(Route[x]) : \E k \in 1..Len(Route[x]) : q = Route[x][k]
  BY <1>1 DEF Range
<1>3. \A j, k \in 1..Len(Route[x]) : Route[x][j] = Route[x][k] => j = k
  BY <1>1, SchedulingAssumption DEF IsInjective
<1>4. PICK k \in 1..Len(Route[x]) : o = Route[x][k]
  BY <1>2
<1>5. OrderOf[o] = x /\ Predecessors[o] = {Route[x][j] : j \in 1..k - 1}
  BY <1>4, PredecessorsAre
<1>6. o \notin Predecessors[o] /\ Predecessors[o] \subseteq Range(Route[x])
  BY <1>1, <1>3, <1>4, <1>5 DEF Range
<1>7. ASSUME NEW q \in Predecessors[o] PROVE Predecessors[q] \subseteq Predecessors[o]
  <2>1. PICK j \in 1..k - 1 : q = Route[x][j]
    BY <1>5
  <2>2. j \in 1..Len(Route[x]) /\ 1..j - 1 \subseteq 1..k - 1
    BY <1>1
  <2>3. Predecessors[q] = {Route[x][i] : i \in 1..j - 1}
    BY <2>1, <2>2, PredecessorsAre
  <2> QED
    BY <1>5, <2>2, <2>3
<1>8. ASSUME NEW q \in Range(Route[x]) \ {o} PROVE q \in Predecessors[o] \/ o \in Predecessors[q]
  <2>1. PICK j \in 1..Len(Route[x]) : q = Route[x][j]
    BY <1>2
  <2>2. Predecessors[q] = {Route[x][i] : i \in 1..j - 1}
    BY <2>1, PredecessorsAre
  <2>3. j < k \/ k < j
    BY <1>1, <1>4, <2>1
  <2>4. CASE j < k
    BY <1>1, <1>5, <2>1, <2>4
  <2>5. CASE k < j
    BY <1>1, <1>4, <2>2, <2>5
  <2> QED
    BY <2>3, <2>4, <2>5
<1> QED
  BY <1>5, <1>6, <1>7, <1>8

(* No operation comes before itself.                                       *)
LEMMA NoOwnPredecessor ==
  ASSUME NEW o \in Operations
  PROVE  o \notin Predecessors[o] /\ Predecessors[o] \subseteq Operations
<1>1. PICK x \in Orders : o \in Range(Route[x])
  BY SchedulingAssumption
<1> QED
  BY <1>1, RouteOrder, RouteIs

-----------------------------------------------------------------------------
(* The plan.  The promises about bookings are stated of pairs of rows.     *)

Planned(r) == r.status \notin Done /\ r.from < r.to

Clash(r, t) == Planned(r) /\ Planned(t) /\ r.on \cap t.on # {} /\ Overlap(r, t)

PairOK(r, t) == Clash(r, t) => (r.excuse \cup t.excuse) \cap {"moved", "stale", "revived"} # {}

RouteOK(r, t) ==
    Planned(r) /\ Planned(t) /\ t.from < r.to =>
        r.excuse \cap {"pushed", "revived"} # {} \/ "stale" \in t.excuse

WindowOK(r, w) ==
    /\ Planned(r) /\ w.status \in {"scheduled", "in_progress"}
    /\ w.on \in r.on /\ Overlap(r, w)
    => r.excuse \cap {"moved", "stale", "covered"} # {}

PlanOK(f, g) ==
    /\ \A o \in Operations : \A q \in Operations \ {o} : PairOK(f[o], f[q])
    /\ \A q \in Operations : \A o \in Predecessors[q] : RouteOK(f[o], f[q])
    /\ \A o \in Operations, w \in Windows : WindowOK(f[o], g[w])

(* A window that blocks has a length.                                      *)
WindowsOK == \A w \in Windows : Blocking(w) => window[w].from < window[w].to

PlanInv == SchedulingTypeOK /\ WindowsOK /\ PlanOK(op, window)

(* The invariant of the plan gives the two properties of bookings.         *)
LEMMA PlanPromises ==
  ASSUME PlanInv
  PROVE  BookingsDisjoint /\ RoutingOrderKept
<1>1. \A o \in Operations : Booked(o) <=> Planned(op[o])
  BY DEF Booked, Open, Planned
<1>2. ASSUME NEW o \in Operations, NEW m \in Machines, o \in BookedOn(m)
      PROVE  /\ \A q \in BookedOn(m) \ {o} :
                  Overlap(op[o], op[q]) =>
                      \/ Excused(o, {"moved", "stale", "revived"})
                      \/ Excused(q, {"moved", "stale", "revived"})
             /\ \A w \in BlockingOn(m) :
                  Overlap(op[o], window[w]) => Excused(o, {"moved", "stale", "covered"})
  <2>1. ASSUME NEW q \in BookedOn(m) \ {o}, Overlap(op[o], op[q])
        PROVE  Excused(o, {"moved", "stale", "revived"}) \/ Excused(q, {"moved", "stale", "revived"})
    <3>1. q \in Operations \ {o} /\ Planned(op[o]) /\ Planned(op[q]) /\ m \in op[o].on \cap op[q].on
      BY <1>1, <1>2, <2>1 DEF BookedOn
    <3>2. PairOK(op[o], op[q])
      BY <3>1 DEF PlanInv, PlanOK
    <3> QED
      BY <2>1, <3>1, <3>2 DEF PairOK, Clash, Excused
  <2>2. ASSUME NEW w \in BlockingOn(m), Overlap(op[o], window[w])
        PROVE  Excused(o, {"moved", "stale", "covered"})
    <3>1. w \in Windows /\ window[w].status \in {"scheduled", "in_progress"} /\ window[w].on \in op[o].on
      BY <1>2, <2>2 DEF BookedOn, BlockingOn, Blocking
    <3>2. WindowOK(op[o], window[w]) /\ Planned(op[o])
      BY <1>1, <1>2, <3>1 DEF PlanInv, PlanOK, BookedOn
    <3> QED
      BY <2>2, <3>1, <3>2 DEF WindowOK, Excused
  <2> QED
    BY <2>1, <2>2
<1>3. ASSUME NEW q \in Operations, NEW o \in Predecessors[q], Booked(o), Booked(q), op[q].from < op[o].to
      PROVE  Excused(o, {"pushed", "revived"}) \/ Excused(q, {"stale"})
  <2>1. o \in Operations /\ RouteOK(op[o], op[q])
    BY NoOwnPredecessor DEF PlanInv, PlanOK
  <2> QED
    BY <1>1, <1>3, <2>1 DEF RouteOK, Excused
<1> QED
  BY <1>2, <1>3 DEF BookingsDisjoint, RoutingOrderKept

(* A row that books no more than it did, and has its excuses.              *)
Weaker(r, t) ==
    Planned(t) => /\ Planned(r) /\ t.from = r.from /\ t.to = r.to
                  /\ t.on \subseteq r.on \/ "moved" \in t.excuse
                  /\ r.excuse \subseteq t.excuse

(* A booking that was dropped or closed conflicts with nothing it did not  *)
(* conflict with before.                                                   *)
LEMMA WeakerOK ==
  ASSUME NEW r, NEW t, NEW r2, NEW t2, Weaker(r, r2), Weaker(t, t2), NEW w
  PROVE  /\ PairOK(r, t) => PairOK(r2, t2)
         /\ RouteOK(r, t) => RouteOK(r2, t2)
         /\ WindowOK(r, w) => WindowOK(r2, w)
<1>1. PairOK(r, t) => PairOK(r2, t2)
  BY DEF Weaker, PairOK, Clash, Overlap
<1>2. RouteOK(r, t) => RouteOK(r2, t2)
  BY DEF Weaker, RouteOK
<1>3. WindowOK(r, w) => WindowOK(r2, w)
  BY DEF Weaker, WindowOK, Overlap
<1> QED
  BY <1>1, <1>2, <1>3

(* A window that blocks no more than it did.                               *)
Milder(w, v) ==
    v.status \in {"scheduled", "in_progress"} =>
        /\ w.status \in {"scheduled", "in_progress"}
        /\ v.on = w.on /\ v.from = w.from /\ v.to = w.to

(* A step that only drops or closes bookings and windows keeps the plan.   *)
LEMMA WeakerPlan ==
  ASSUME PlanInv, \A o \in Operations : Weaker(op[o], op'[o]),
         \A w \in Windows : Milder(window[w], window'[w])
  PROVE  PlanOK(op', window') /\ WindowsOK'
<1>1. ASSUME NEW o \in Operations, NEW q \in Operations \ {o} PROVE PairOK(op'[o], op'[q])
  <2>1. PairOK(op[o], op[q]) /\ Weaker(op[o], op'[o]) /\ Weaker(op[q], op'[q])
    BY DEF PlanInv, PlanOK
  <2> QED
    BY <2>1, WeakerOK
<1>2. ASSUME NEW q \in Operations, NEW o \in Predecessors[q] PROVE RouteOK(op'[o], op'[q])
  <2>1. RouteOK(op[o], op[q]) /\ Weaker(op[o], op'[o]) /\ Weaker(op[q], op'[q])
    BY NoOwnPredecessor DEF PlanInv, PlanOK
  <2> QED
    BY <2>1, WeakerOK
<1>3. ASSUME NEW o \in Operations, NEW w \in Windows PROVE WindowOK(op'[o], window'[w])
  <2>1. WindowOK(op[o], window[w]) /\ Weaker(op[o], op'[o]) /\ Milder(window[w], window'[w])
    BY DEF PlanInv, PlanOK
  <2>2. WindowOK(op'[o], window[w])
    BY <2>1, WeakerOK
  <2> QED
    BY <2>1, <2>2 DEF WindowOK, Milder, Overlap
<1>4. WindowsOK'
  BY DEF PlanInv, WindowsOK, Milder, Blocking
<1> QED
  BY <1>1, <1>2, <1>3, <1>4 DEF PlanOK

(* A booking that fits, or says why not, keeps the plan in order.          *)
LEMMA BookKeeps ==
  ASSUME PlanInv, NEW o \in Operations, NEW m \in Machines, NEW s \in Times, NEW e \in Times,
         NEW blind \in SUBSET Excuses, Book(o, m, s, e, blind),
         Fits(o, m, s, e) \/ "stale" \in blind,
         Open(o) \/ "revived" \in blind,
         Pushed(o, m, s, e) = {} \/ "pushed" \in blind
  PROVE  op' \in [Operations -> Operation] /\ PlanOK(op', window)
<1> DEFINE X == Excuse(o, m, s, e, blind)
           r == [status |-> "queued", on |-> {m}, from |-> s, to |-> e, excuse |-> X]
<1>1. /\ op \in [Operations -> Operation]
      /\ op' = [op EXCEPT ![o] = r]
      /\ \A q \in Operations : op[q].from \in Times /\ op[q].to \in Times /\ op[q].excuse \subseteq Excuses
      /\ \A t \in Times : t \in Int
  BY MaintenanceAssumption DEF PlanInv, SchedulingTypeOK, Operation, Book, Times
<1>2. /\ ~Fits(o, m, s, e) => "stale" \in X
      /\ ~Open(o) /\ Stays(o, m, s, e) => "revived" \in X
      /\ Pushed(o, m, s, e) # {} => "pushed" \in X
      /\ Stays(o, m, s, e) => op[o].excuse \subseteq X
      /\ X \subseteq Excuses
  BY <1>1 DEF Excuse
<1> HIDE DEF X
<1>3. r \in Operation
  BY <1>2 DEF Operation, OpStatuses
<1>4. /\ r.status = "queued" /\ r.on = {m} /\ r.from = s /\ r.to = e /\ r.excuse = X
      /\ (Planned(r) <=> s < e)
  BY DEF Planned, Done
<1> HIDE DEF r
<1>5. /\ op' \in [Operations -> Operation] /\ op'[o] = r
      /\ \A q \in Operations \ {o} : op'[q] = op[q]
  BY <1>1, <1>3
<1>6. \A q \in Operations : Booked(q) <=> Planned(op[q])
  BY DEF Booked, Open, Planned
<1>7. /\ \A q \in Operations \ {o} : PairOK(op[o], op[q])
      /\ \A q \in Operations : o \in Predecessors[q] => RouteOK(op[o], op[q])
  BY DEF PlanInv, PlanOK
(* A block that it stays in.                                               *)
<1>8. ASSUME NEW q \in Siblings(o), Stays(o, m, s, e), s < e
      PROVE  /\ op[q].from = s /\ op[q].to = e /\ op[o].from = s /\ op[o].to = e
             /\ m \in op[o].on /\ m \in op[q].on /\ q \in Operations \ {o} /\ Planned(op[q])
             /\ Planned(op[o]) \/ "revived" \in X
  <2>1. /\ op[o].from = s /\ op[o].to = e /\ Stored(o) = {m}
        /\ op[q].from = op[o].from /\ op[q].to = op[o].to /\ q \in Operations \ {o} /\ Booked(q)
        /\ Stored(o) \cap op[q].on # {}
    BY <1>8 DEF Siblings, Stays
  <2>2. m \in op[o].on /\ m \in op[q].on
    BY <2>1 DEF Stored
  <2>3. Planned(op[o]) \/ "revived" \in X
    BY <1>2, <1>8, <2>1 DEF Planned, Open
  <2> QED
    BY <1>6, <2>1, <2>2, <2>3
<1>9. ASSUME NEW q \in Operations \ {o} PROVE PairOK(r, op[q])
  <2> SUFFICES ASSUME Clash(r, op[q])
               PROVE  (X \cup op[q].excuse) \cap {"moved", "stale", "revived"} # {}
    BY <1>4 DEF PairOK
  <2>1. s < e /\ Planned(op[q]) /\ m \in op[q].on /\ Overlap(op[q], Slot(s, e))
    BY <1>4 DEF Clash, Overlap, Slot
  <2>2. q \in BookedOn(m)
    BY <1>6, <2>1 DEF BookedOn
  <2>3. CASE Stays(o, m, s, e) /\ q \in Siblings(o)
    <3>1. CASE "revived" \in X
      BY <3>1
    <3>2. CASE Planned(op[o])
      <4>1. Clash(op[o], op[q])
        BY <1>8, <2>1, <2>3, <3>2 DEF Clash, Overlap, Slot
      <4> QED
        BY <1>2, <1>7, <2>3, <4>1 DEF PairOK
    <3> QED
      BY <1>8, <2>1, <2>3, <3>1, <3>2
  <2>4. CASE ~(Stays(o, m, s, e) /\ q \in Siblings(o))
    <3>1. q \in Conflicts(o, m, s, e)
      BY <2>1, <2>2, <2>4 DEF Conflicts, Ignored
    <3> QED
      BY <1>2, <3>1 DEF Fits
  <2> QED
    BY <2>3, <2>4
<1>10. ASSUME NEW q \in Operations \ {o} PROVE PairOK(op[q], r)
  BY <1>9 DEF PairOK, Clash, Overlap
<1>11. ASSUME NEW p \in Predecessors[o], p \in Operations PROVE RouteOK(op[p], r)
  <2> SUFFICES ASSUME Planned(op[p]), Planned(r), r.from < op[p].to PROVE "stale" \in X
    BY <1>4 DEF RouteOK
  <2>1. ~Ready(o, s)
    BY <1>1, <1>4, <1>11 DEF Ready, Planned, Open
  <2> QED
    BY <1>2, <2>1 DEF Fits
<1>12. ASSUME NEW q \in Operations \ {o}, o \in Predecessors[q] PROVE RouteOK(r, op[q])
  <2> SUFFICES ASSUME Planned(r), Planned(op[q]), op[q].from < e
               PROVE  X \cap {"pushed", "revived"} # {} \/ "stale" \in op[q].excuse
    BY <1>4 DEF RouteOK
  <2>1. s < e /\ q \in Successors[o] /\ Booked(q)
    BY <1>4, <1>6, <1>12 DEF Successors
  <2>2. CASE Stays(o, m, s, e) /\ q \in Siblings(o)
    <3>1. CASE Planned(op[o])
      BY <1>2, <1>7, <1>8, <1>12, <2>1, <2>2, <3>1 DEF RouteOK
    <3> QED
      BY <1>8, <2>1, <2>2, <3>1
  <2>3. CASE ~(Stays(o, m, s, e) /\ q \in Siblings(o))
    <3>1. q \in Pushed(o, m, s, e)
      BY <2>1, <2>3 DEF Pushed, Ignored
    <3> QED
      BY <1>2, <3>1
  <2> QED
    BY <2>2, <2>3
<1>13. ASSUME NEW w \in Windows PROVE WindowOK(r, window[w])
  <2> SUFFICES ASSUME Planned(r), window[w].status \in {"scheduled", "in_progress"},
                      window[w].on = m, Overlap(r, window[w])
               PROVE  "stale" \in X
    BY <1>4 DEF WindowOK
  <2>1. w \in WindowConflicts(m, s, e)
    BY <1>4 DEF WindowConflicts, BlockingOn, Blocking, Overlap, Slot
  <2> QED
    BY <1>2, <2>1 DEF Fits
<1>14. \A q \in Operations, w \in Windows : WindowOK(op[q], window[w])
  BY DEF PlanInv, PlanOK
<1>15. \A p \in Operations : \A q \in Operations \ {p} : PairOK(op[p], op[q])
  BY DEF PlanInv, PlanOK
<1>16. \A q \in Operations : \A p \in Predecessors[q] :
         p \in Operations /\ p # q /\ RouteOK(op[p], op[q])
  BY NoOwnPredecessor DEF PlanInv, PlanOK
<1>17. \A p \in Operations : \A q \in Operations \ {p} : PairOK(op'[p], op'[q])
  BY <1>5, <1>9, <1>10, <1>15
<1>18. \A q \in Operations : \A p \in Predecessors[q] : RouteOK(op'[p], op'[q])
  BY <1>5, <1>11, <1>12, <1>16
<1>19. \A q \in Operations, w \in Windows : WindowOK(op'[q], window[w])
  BY <1>5, <1>13, <1>14
<1> QED
  BY <1>5, <1>17, <1>18, <1>19 DEF PlanOK

(* The busy times of a machine are proper slots.                           *)
LEMMA BusyIs ==
  ASSUME PlanInv, NEW m
  PROVE  Busy(m) \in SUBSET BusySlot /\ \A b \in Busy(m) : b.from < b.to
<1>1. ASSUME NEW o \in BookedOn(m)
      PROVE  LET b == Slot(op[o].from, op[o].to) IN b \in BusySlot /\ b.from < b.to
  BY <1>1 DEF BookedOn, Booked, Slot, BusySlot, PlanInv, SchedulingTypeOK, Operation
<1>2. ASSUME NEW w \in BlockingOn(m)
      PROVE  LET b == Slot(window[w].from, window[w].to) IN b \in BusySlot /\ b.from < b.to
  BY <1>2 DEF BlockingOn, Slot, BusySlot, PlanInv, SchedulingTypeOK, MaintenanceTypeOK, Window, WindowsOK
<1>3. \A b \in Busy(m) : \/ \E o \in BookedOn(m) : b = Slot(op[o].from, op[o].to)
                         \/ \E w \in BlockingOn(m) : b = Slot(window[w].from, window[w].to)
  BY DEF Busy
<1> QED
  BY <1>1, <1>2, <1>3

(* The suggested slot begins at a time.                                    *)
LEMMA NextSlotIs ==
  ASSUME PlanInv, NEW m, NEW d \in Nat \ {0}, NEW after \in Times
  PROVE  NextSlot(m, d, after) \in Times
<1> DEFINE busy == Busy(m)
<1>1. busy \in SUBSET BusySlot /\ \A b \in busy : b.from < b.to
  BY BusyIs
<1> HIDE DEF busy
<1>2. FirstGap(busy, d, after) \in Times
  BY <1>1, FirstGapIsEarliest
<1> QED
  BY <1>2 DEF busy, NextSlot

(* The resource with the earliest slot.                                    *)
LEMMA BestExists ==
  ASSUME PlanInv, NEW R, R # {}, NEW d \in Nat \ {0}, NEW after \in Times
  PROVE  \E r \in R : \A q \in R : NextSlot(r, d, after) <= NextSlot(q, d, after)
<1> DEFINE S == {NextSlot(r, d, after) : r \in R}
<1>1. S \in SUBSET Times /\ S # {}
  BY NextSlotIs
<1>2. IsFiniteSet(S) /\ \A x \in S : x \in Int
  BY <1>1, TimesAreFinite
<1> HIDE DEF S
<1>3. Min(S) \in S /\ \A x \in S : Min(S) <= x
  BY <1>1, <1>2, MinIs
<1> QED
  BY <1>3 DEF S

(* Shares of a time, one after the other.                                  *)
LEMMA Shares ==
  ASSUME NEW total \in Nat, NEW n \in Nat \ {0}
  PROVE  /\ total \div n \in Nat
         /\ n * (total \div n) <= total
BY SMT

(* Consecutive shares of a block follow one another.                       *)
LEMMA ShareOrder ==
  ASSUME NEW share \in Nat, NEW j \in Nat, NEW k \in Nat, j + 1 <= k
  PROVE  /\ j * share \in Nat /\ k * share \in Nat
         /\ j * share + share <= k * share
<1>1. PICK i \in Nat : k = j + 1 + i
  <2>1. k - (j + 1) \in Nat /\ k = j + 1 + (k - (j + 1))
    OBVIOUS
  <2> QED BY <2>1
<1>2. k * share = j * share + share + i * share
  BY <1>1
<1>3. j * share \in Nat /\ i * share \in Nat /\ k * share \in Nat
  BY <1>1
<1> QED
  BY <1>2, <1>3

(* The places of operations of a route among some of them.                 *)
LEMMA PlaceOrder ==
  ASSUME NEW x \in Orders, NEW S \in SUBSET Range(Route[x])
  PROVE  /\ IsFiniteSet(S) /\ Cardinality(S) \in Nat
         /\ \A o \in S :
              /\ Cardinality(S \cap Predecessors[o]) \in Nat
              /\ Cardinality(S \cap Predecessors[o]) + 1 <= Cardinality(S)
         /\ \A o, q \in S : o \in Predecessors[q] =>
              Cardinality(S \cap Predecessors[o]) + 1 <= Cardinality(S \cap Predecessors[q])
<1>1. IsFiniteSet(S)
  BY RouteIs, FS_Subset
<1>2. ASSUME NEW T \in SUBSET S, NEW o \in T, S \cap Predecessors[o] \subseteq T
      PROVE  /\ Cardinality(S \cap Predecessors[o]) \in Nat
             /\ Cardinality(S \cap Predecessors[o]) + 1 <= Cardinality(T)
  <2> DEFINE P == S \cap Predecessors[o]
  <2>1. IsFiniteSet(T) /\ IsFiniteSet(P) /\ o \notin P
    BY <1>1, FS_Subset, RouteOrder
  <2>2. P \cup {o} \subseteq T
    BY <1>2
  <2> HIDE DEF P
  <2>3. IsFiniteSet(P \cup {o}) /\ Cardinality(P \cup {o}) = Cardinality(P) + 1
    BY <2>1, FS_AddElement
  <2>4. Cardinality(P \cup {o}) <= Cardinality(T)
    BY <2>1, <2>2, FS_Subset
  <2>5. Cardinality(P) \in Nat
    BY <2>1, FS_CardinalityType
  <2> QED
    BY <2>3, <2>4, <2>5 DEF P
<1>3. \A o, q \in S : o \in Predecessors[q] =>
        /\ o \in S \cap Predecessors[q]
        /\ S \cap Predecessors[o] \subseteq S \cap Predecessors[q]
  BY RouteOrder
<1>4. Cardinality(S) \in Nat
  BY <1>1, FS_CardinalityType
<1>5. \A o \in S : /\ Cardinality(S \cap Predecessors[o]) \in Nat
                   /\ Cardinality(S \cap Predecessors[o]) + 1 <= Cardinality(S)
  BY <1>2
<1>6. \A o, q \in S : o \in Predecessors[q] =>
        Cardinality(S \cap Predecessors[o]) + 1 <= Cardinality(S \cap Predecessors[q])
  BY <1>2, <1>3
<1> QED
  BY <1>1, <1>4, <1>5, <1>6

(* What the shares of a stretch of time are for the operations in it.      *)
LEMMA SharesFit ==
  ASSUME NEW x \in Orders, NEW S \in SUBSET Range(Route[x]), S # {},
         NEW total \in Nat, NEW start \in Times, start + total \in Times,
         NEW share, share = total \div Cardinality(S)
  PROVE  /\ \A o \in S :
              /\ start + Cardinality(S \cap Predecessors[o]) * share \in Times
              /\ start + Cardinality(S \cap Predecessors[o]) * share + share \in Times
         /\ \A o, q \in S : o \in Predecessors[q] =>
              start + Cardinality(S \cap Predecessors[o]) * share + share
                <= start + Cardinality(S \cap Predecessors[q]) * share
<1> DEFINE n == Cardinality(S)
           K(o) == Cardinality(S \cap Predecessors[o])
<1>1. /\ IsFiniteSet(S) /\ n \in Nat
      /\ \A o \in S : K(o) \in Nat /\ K(o) + 1 <= n
      /\ \A o, q \in S : o \in Predecessors[q] => K(o) + 1 <= K(q)
  BY PlaceOrder
<1>2. share = total \div n
  OBVIOUS
<1>3. n # 0
  BY <1>1, FS_EmptySet
<1> HIDE DEF n, K
<1>4. share \in Nat /\ n * share <= total
  BY <1>1, <1>2, <1>3, Shares
<1>5. Horizon \in Nat /\ start \in Nat /\ start + total <= Horizon
  BY MaintenanceAssumption DEF Times
<1>6. ASSUME NEW o \in S
      PROVE  start + K(o) * share \in Times /\ start + K(o) * share + share \in Times
  <2>1. K(o) \in Nat /\ K(o) + 1 <= n /\ n \in Nat
    BY <1>1
  <2>2. K(o) * share \in Nat /\ n * share \in Nat /\ K(o) * share + share <= n * share
    BY <1>4, <2>1, ShareOrder
  <2> QED
    BY <1>4, <1>5, <2>2 DEF Times
<1>7. ASSUME NEW o \in S, NEW q \in S, o \in Predecessors[q]
      PROVE  start + K(o) * share + share <= start + K(q) * share
  <2>1. K(o) \in Nat /\ K(q) \in Nat /\ K(o) + 1 <= K(q)
    BY <1>1, <1>7
  <2>2. K(o) * share \in Nat /\ K(q) * share \in Nat /\ K(o) * share + share <= K(q) * share
    BY <1>4, <2>1, ShareOrder
  <2> QED
    BY <1>4, <1>5, <2>2
<1> QED
  BY <1>6, <1>7 DEF K

(* The rows of S take slots of m one after the other, clear of what is     *)
(* booked and planned there.                                               *)
BookBlock(S, m, B, E) ==
    /\ B \in [S -> Times] /\ E \in [S -> Times]
    /\ \A o \in S : Open(o) /\ ~Booked(o)
    /\ \A o, q \in S : o \in Predecessors[q] => E[o] <= B[q]
    /\ \A o \in S : /\ Conflicts(o, m, B[o], E[o]) = {}
                    /\ WindowConflicts(m, B[o], E[o]) = {}
                    /\ \A q \in Predecessors[o] \ S : Open(q) => op[q].to <= B[o]
    /\ op' = [o \in Operations |->
                IF o \notin S THEN op[o]
                ELSE [status |-> "queued", on |-> {m}, from |-> B[o], to |-> E[o],
                      excuse |-> {z \in {"pushed"} : Pushed(o, m, B[o], E[o]) # {}}]]

(* Booking a block for the operations of an order keeps the plan.          *)
LEMMA BlockKeeps ==
  ASSUME PlanInv, NEW x \in Orders, NEW S \in SUBSET Range(Route[x]), NEW m \in Machines,
         NEW B, NEW E, BookBlock(S, m, B, E)
  PROVE  op' \in [Operations -> Operation] /\ PlanOK(op', window)
<1> USE DEF BookBlock
<1>1. /\ op \in [Operations -> Operation]
      /\ \A q \in Operations : op[q].from \in Times /\ op[q].to \in Times
      /\ \A t \in Times : t \in Int
      /\ S \subseteq Operations
  BY MaintenanceAssumption, RouteIs DEF PlanInv, SchedulingTypeOK, Operation, Times
<1>2. ASSUME NEW o \in S
      PROVE  /\ op'[o] \in Operation
             /\ op'[o].status = "queued" /\ op'[o].on = {m}
             /\ op'[o].from = B[o] /\ op'[o].to = E[o]
             /\ Pushed(o, m, B[o], E[o]) # {} => "pushed" \in op'[o].excuse
             /\ B[o] \in Times /\ E[o] \in Times
  <2> DEFINE X == {z \in {"pushed"} : Pushed(o, m, B[o], E[o]) # {}}
             r == [status |-> "queued", on |-> {m}, from |-> B[o], to |-> E[o], excuse |-> X]
  <2>1. X \subseteq Excuses /\ (Pushed(o, m, B[o], E[o]) # {} => "pushed" \in X)
    BY DEF Excuses
  <2>2. op'[o] = r
    BY <1>1
  <2> HIDE DEF X
  <2> QED
    BY <1>1, <2>1, <2>2 DEF Operation, OpStatuses
<1>3. \A o \in Operations \ S : op'[o] = op[o]
  OBVIOUS
<1>4. op' \in [Operations -> Operation]
  BY <1>1, <1>2, <1>3
<1>5. \A q \in Operations : Booked(q) <=> Planned(op[q])
  BY DEF Booked, Open, Planned
<1>6. ASSUME NEW o \in S, NEW q \in Operations \ S, Planned(op[q])
      PROVE  q \notin Ignored(o, m, B[o], E[o])
  BY <1>5, <1>6 DEF Ignored, Siblings, Booked
<1>7. ASSUME NEW o \in S, NEW q \in Operations \ S PROVE ~Clash(op'[o], op[q])
  <2> SUFFICES ASSUME Clash(op'[o], op[q]) PROVE FALSE
    OBVIOUS
  <2>1. Planned(op[q]) /\ m \in op[q].on /\ Overlap(op[q], Slot(B[o], E[o]))
    BY <1>2 DEF Clash, Overlap, Slot
  <2>2. q \in Conflicts(o, m, B[o], E[o])
    BY <1>5, <1>6, <2>1 DEF Conflicts, BookedOn
  <2> QED
    BY <2>2
<1>8. ASSUME NEW o \in S, NEW q \in S, o # q PROVE ~Overlap(op'[o], op'[q])
  <2>1. o \in Predecessors[q] \/ q \in Predecessors[o]
    BY <1>8, RouteOrder
  <2>2. E[o] <= B[q] \/ E[q] <= B[o]
    BY <2>1
  <2> QED
    BY <1>1, <1>2, <2>2 DEF Overlap
<1>9. ASSUME NEW o \in Operations, NEW q \in Operations \ {o} PROVE PairOK(op'[o], op'[q])
  <2>1. PairOK(op[o], op[q])
    BY DEF PlanInv, PlanOK
  <2>2. CASE o \in S /\ q \in S
    BY <1>8, <2>2 DEF PairOK, Clash
  <2>3. CASE o \in S /\ q \notin S
    BY <1>3, <1>7, <2>3 DEF PairOK
  <2>4. CASE o \notin S /\ q \in S
    BY <1>3, <1>7, <2>4 DEF PairOK, Clash, Overlap
  <2>5. CASE o \notin S /\ q \notin S
    BY <1>3, <2>1, <2>5
  <2> QED
    BY <2>2, <2>3, <2>4, <2>5
<1>10. ASSUME NEW q \in Operations, NEW o \in Predecessors[q] PROVE RouteOK(op'[o], op'[q])
  <2>1. RouteOK(op[o], op[q]) /\ o \in Operations
    BY NoOwnPredecessor DEF PlanInv, PlanOK
  <2>2. CASE o \in S /\ q \in S
    BY <1>1, <1>2, <1>10, <2>2 DEF RouteOK
  <2>3. CASE o \in S /\ q \notin S
    <3> SUFFICES ASSUME Planned(op[q]), op[q].from < E[o] PROVE "pushed" \in op'[o].excuse
      BY <1>2, <1>3, <2>3 DEF RouteOK
    <3>1. q \in Pushed(o, m, B[o], E[o])
      BY <1>5, <1>6, <1>10, <2>1, <2>3 DEF Pushed, Successors
    <3> QED
      BY <1>2, <2>3, <3>1
  <2>4. CASE o \notin S /\ q \in S
    <3> SUFFICES ASSUME Planned(op[o]), B[q] < op[o].to PROVE FALSE
      BY <1>2, <1>3, <2>1, <2>4 DEF RouteOK
    <3>1. op[o].to <= B[q]
      BY <1>5, <1>10, <2>4 DEF Planned, Open
    <3> QED
      BY <1>1, <1>2, <2>1, <2>4, <3>1
  <2>5. CASE o \notin S /\ q \notin S
    BY <1>3, <2>1, <2>5
  <2> QED
    BY <2>2, <2>3, <2>4, <2>5
<1>11. ASSUME NEW o \in Operations, NEW w \in Windows PROVE WindowOK(op'[o], window[w])
  <2>1. CASE o \in S
    <3> SUFFICES ASSUME window[w].status \in {"scheduled", "in_progress"}, window[w].on = m,
                        Overlap(op'[o], window[w])
                 PROVE  FALSE
      BY <1>2, <2>1 DEF WindowOK
    <3>1. w \in WindowConflicts(m, B[o], E[o])
      BY <1>2, <2>1 DEF WindowConflicts, BlockingOn, Blocking, Overlap, Slot
    <3> QED
      BY <2>1, <3>1
  <2>2. CASE o \notin S
    BY <1>3, <2>2 DEF PlanInv, PlanOK
  <2> QED
    BY <2>1, <2>2
<1> QED
  BY <1>4, <1>9, <1>10, <1>11 DEF PlanOK

(* The auto-schedule cuts a free stretch into shares.                      *)
LEMMA AutoKeeps ==
  ASSUME PlanInv, NEW x \in Orders, NEW R \in SUBSET Resources, NEW after \in Times,
         AutoSchedule(x, R, after)
  PROVE  op' \in [Operations -> Operation] /\ PlanOK(op', window)
<1> DEFINE open == {o \in Range(Route[x]) : Open(o)}
           mine == {o \in open : ~Booked(o)}
           total == Duration * Cardinality(open)
           share == total \div Cardinality(mine)
           best == CHOOSE r \in R :
                       \A q \in R : NextSlot(r, total, after) <= NextSlot(q, total, after)
           start == NextSlot(best, total, after)
           Begin(o) == start + Cardinality(mine \cap Predecessors[o]) * share
           End(o) == Begin(o) + share
           B == [o \in mine |-> Begin(o)]
           E == [o \in mine |-> End(o)]
<1>1. /\ R # {} /\ mine # {}
      /\ start + total \in Times
      /\ \A o \in mine :
           /\ Conflicts(o, best, Begin(o), End(o)) = {}
           /\ WindowConflicts(best, Begin(o), End(o)) = {}
           /\ \A q \in Predecessors[o] \ mine : Open(q) => op[q].to <= Begin(o)
      /\ op' = [o \in Operations |->
                  IF o \notin mine THEN op[o]
                  ELSE [status |-> "queued", on |-> {best}, from |-> Begin(o), to |-> End(o),
                        excuse |-> {z \in {"pushed"} : Pushed(o, best, Begin(o), End(o)) # {}}]]
  BY Zenon DEF AutoSchedule
<1>2. mine \in SUBSET Range(Route[x]) /\ open \in SUBSET Range(Route[x])
      /\ (mine # {} => open # {})
      /\ \A o \in mine : Open(o) /\ ~Booked(o)
  OBVIOUS
<1> HIDE DEF open
<1>3. Cardinality(open) \in Nat \ {0}
  BY <1>1, <1>2, PlaceOrder, FS_EmptySet
<1>4. total \in Nat \ {0}
  <2>1. Duration \in Nat \ {0}
    BY SchedulingAssumption
  <2> QED
    BY <1>3, <2>1
<1> HIDE DEF mine, total
<1>5. best \in R
  BY <1>1, <1>4, BestExists, Zenon
<1> HIDE DEF best
<1>6. best \in Machines
  BY <1>5 DEF Machines
<1>7. start \in Times
  BY <1>4, NextSlotIs
<1> HIDE DEF start
<1>8. share = total \div Cardinality(mine)
  OBVIOUS
<1> HIDE DEF share
<1>9. /\ \A o \in mine :
              /\ start + Cardinality(mine \cap Predecessors[o]) * share \in Times
              /\ start + Cardinality(mine \cap Predecessors[o]) * share + share \in Times
      /\ \A o, q \in mine : o \in Predecessors[q] =>
              start + Cardinality(mine \cap Predecessors[o]) * share + share
                <= start + Cardinality(mine \cap Predecessors[q]) * share
  BY <1>1, <1>2, <1>4, <1>7, <1>8, SharesFit
<1>10. /\ B \in [mine -> Times] /\ E \in [mine -> Times]
       /\ \A o, q \in mine : o \in Predecessors[q] => E[o] <= B[q]
  BY <1>9
<1>11. \A o \in mine : B[o] = Begin(o) /\ E[o] = End(o)
  OBVIOUS
<1> HIDE DEF B, E, Begin, End
<1>12. \A o \in mine : /\ Conflicts(o, best, B[o], E[o]) = {}
                       /\ WindowConflicts(best, B[o], E[o]) = {}
                       /\ \A q \in Predecessors[o] \ mine : Open(q) => op[q].to <= B[o]
  BY <1>1, <1>11, Zenon
<1>13. op' = [o \in Operations |->
                IF o \notin mine THEN op[o]
                ELSE [status |-> "queued", on |-> {best}, from |-> B[o], to |-> E[o],
                      excuse |-> {z \in {"pushed"} : Pushed(o, best, B[o], E[o]) # {}}]]
  BY <1>1, <1>11, Zenon
<1>14. BookBlock(mine, best, B, E)
  BY <1>2, <1>10, <1>12, <1>13, Zenon DEF BookBlock
<1> QED
  BY <1>2, <1>6, <1>14, BlockKeeps

-----------------------------------------------------------------------------
(* The whole invariant.                                                    *)

Inv == MaintenanceInv /\ PlanInv

(* Nothing is booked at the start.                                         *)
LEMMA InvInit == ASSUME Init PROVE Inv
<1>1. MaintenanceInv
  BY MaintenanceInvInit DEF Init
<1>2. Unbooked \in Operation /\ ~Planned(Unbooked)
  BY MaintenanceAssumption DEF Unbooked, Operation, OpStatuses, Times, Planned
<1>3. \A o \in Operations : op[o] = Unbooked
  BY DEF Init
<1>4. SchedulingTypeOK
  BY <1>1, <1>2 DEF Init, SchedulingTypeOK, MaintenanceInv, OrderStatuses
<1>5. WindowsOK
  BY DEF Init, MaintenanceInit, FreeWindow, WindowsOK, Blocking
<1>6. \A q \in Operations : Predecessors[q] \subseteq Operations
  BY NoOwnPredecessor
<1>7. PlanOK(op, window)
  BY <1>2, <1>3, <1>6 DEF PlanOK, PairOK, Clash, RouteOK, WindowOK
<1> QED
  BY <1>1, <1>4, <1>5, <1>7 DEF Inv, PlanInv

(* What a step that rebooks leaves to show.                                *)
LEMMA RebookingKeeps ==
  ASSUME Inv, MaintenanceInv', UNCHANGED maintenance,
         op' \in [Operations -> Operation] /\ PlanOK(op', window),
         order' \in [Orders -> OrderStatuses], request' \in [Threads -> Request \cup {NoRequest}]
  PROVE  Inv'
<1>1. SchedulingTypeOK'
  BY DEF MaintenanceInv, SchedulingTypeOK
<1>2. window' = window
  BY DEF maintenance
<1>3. WindowsOK'
  BY <1>2 DEF Inv, PlanInv, WindowsOK, Blocking
<1>4. PlanOK(op', window')
  BY <1>2, Zenon
<1> QED
  BY <1>1, <1>3, <1>4 DEF Inv, PlanInv

(* A handler that does not look at the plan books nothing anew.            *)
LEMMA BlindKeeps ==
  ASSUME Inv, MaintenanceInv', NEW o \in Operations, NEW r \in Operation, Weaker(op[o], r),
         op' = [op EXCEPT ![o] = r], UNCHANGED maintenance, UNCHANGED request,
         UNCHANGED order \/ MarkStarted(o)
  PROVE  Inv'
<1>1. op \in [Operations -> Operation] /\ order \in [Orders -> OrderStatuses]
      /\ request \in [Threads -> Request \cup {NoRequest}]
  BY DEF Inv, PlanInv, SchedulingTypeOK
<1>2. \A q \in Operations : Weaker(op[q], op'[q])
  <2>1. \A q \in Operations \ {o} : op'[q] = op[q]
    BY <1>1
  <2>2. op'[o] = r
    BY <1>1
  <2> QED
    BY <2>1, <2>2 DEF Weaker
<1>3. window' = window /\ \A w \in Windows : Milder(window[w], window'[w])
  BY DEF maintenance, Milder
<1>4. PlanInv
  BY DEF Inv
<1>5. PlanOK(op', window')
  BY <1>2, <1>3, <1>4, WeakerPlan
<1>6. PlanOK(op', window)
  BY <1>3, <1>5, Zenon
<1>7. order' \in [Orders -> OrderStatuses] /\ op' \in [Operations -> Operation]
  BY <1>1 DEF MarkStarted, OrderStatuses
<1> QED
  BY <1>1, <1>6, <1>7, RebookingKeeps

(* The windows alone move.                                                 *)
LEMMA WindowsKeep ==
  ASSUME Inv, MaintenanceInv', UNCHANGED <<op, order, request>>,
         \A w \in Windows : Milder(window[w], window'[w])
  PROVE  Inv'
<1>1. PlanInv
  BY DEF Inv
<1>2. \A o \in Operations : Weaker(op[o], op'[o])
  BY DEF Weaker
<1>3. PlanOK(op', window') /\ WindowsOK'
  BY <1>1, <1>2, WeakerPlan
<1>4. SchedulingTypeOK'
  BY <1>1 DEF PlanInv, MaintenanceInv, SchedulingTypeOK
<1> QED
  BY <1>3, <1>4 DEF Inv, PlanInv

(* A window marks what it is created over.                                 *)
LEMMA PlanWindowKeeps ==
  ASSUME Inv, MaintenanceInv', NEW w \in Windows, NEW m \in Machines, NEW s \in Times, NEW e \in Times,
         PlanWindow(w, m, s, e)
  PROVE  Inv'
<1>1. /\ op \in [Operations -> Operation]
      /\ window \in [Windows -> Window]
      /\ order' = order /\ request' = request
      /\ SchedulingTypeOK /\ WindowsOK /\ PlanOK(op, window)
      /\ s < e
  BY DEF Inv, PlanInv, SchedulingTypeOK, MaintenanceTypeOK, PlanWindow, CreateWindow
<1>2. ASSUME NEW o \in Operations
      PROVE  /\ op'[o] \in Operation
             /\ op'[o].status = op[o].status /\ op'[o].on = op[o].on
             /\ op'[o].from = op[o].from /\ op'[o].to = op[o].to
             /\ op[o].excuse \subseteq op'[o].excuse
             /\ o \in BookedOn(m) /\ Overlap(op[o], Slot(s, e)) => "covered" \in op'[o].excuse
  <2>1. op[o] \in Operation
    BY <1>1
  <2>2. op'[o] = IF o \in BookedOn(m) /\ Overlap(op[o], Slot(s, e))
                   THEN [op[o] EXCEPT !.excuse = @ \cup {"covered"}] ELSE op[o]
    BY Zenon DEF PlanWindow
  <2> QED
    BY <2>1, <2>2 DEF Operation, Excuses
<1>3. op' \in [Operations -> Operation]
  BY <1>2 DEF PlanWindow
<1>4. SchedulingTypeOK'
  BY <1>1, <1>3 DEF SchedulingTypeOK, MaintenanceInv
<1>5. /\ window'[w].on = m /\ window'[w].from = s /\ window'[w].to = e
      /\ \A v \in Windows \ {w} : window'[v] = window[v]
  BY <1>1 DEF PlanWindow, CreateWindow, FreeWindow
<1>6. WindowsOK'
  BY <1>1, <1>5 DEF WindowsOK, Blocking
<1>7. \A o \in Operations : Weaker(op[o], op'[o]) /\ Planned(op'[o]) = Planned(op[o])
  BY <1>2 DEF Weaker, Planned
<1>8. ASSUME NEW o \in Operations, NEW q \in Operations \ {o} PROVE PairOK(op'[o], op'[q])
  <2>1. PairOK(op[o], op[q]) /\ Weaker(op[o], op'[o]) /\ Weaker(op[q], op'[q])
    BY <1>1, <1>7 DEF PlanOK
  <2> QED
    BY <2>1, WeakerOK
<1>9. ASSUME NEW q \in Operations, NEW o \in Predecessors[q] PROVE RouteOK(op'[o], op'[q])
  <2>1. RouteOK(op[o], op[q]) /\ Weaker(op[o], op'[o]) /\ Weaker(op[q], op'[q])
    BY <1>1, <1>7, NoOwnPredecessor DEF PlanOK
  <2> QED
    BY <2>1, WeakerOK
<1>10. ASSUME NEW o \in Operations, NEW v \in Windows PROVE WindowOK(op'[o], window'[v])
  <2>1. CASE v = w
    <3> SUFFICES ASSUME Planned(op'[o]), m \in op'[o].on, Overlap(op'[o], window'[w])
                 PROVE  "covered" \in op'[o].excuse
      BY <1>5, <2>1 DEF WindowOK
    <3>1. Planned(op[o]) /\ m \in op[o].on /\ Overlap(op[o], Slot(s, e))
      BY <1>2, <1>5 DEF Overlap, Slot, Planned
    <3>2. o \in BookedOn(m)
      BY <3>1 DEF BookedOn, Booked, Open, Planned
    <3> QED
      BY <1>2, <3>1, <3>2
  <2>2. CASE v # w
    <3>1. WindowOK(op[o], window[v]) /\ Weaker(op[o], op'[o]) /\ window'[v] = window[v]
      BY <1>1, <1>5, <1>7, <2>2 DEF PlanOK
    <3> QED
      BY <3>1, WeakerOK
  <2> QED
    BY <2>1, <2>2
<1>11. PlanOK(op', window')
  BY <1>8, <1>9, <1>10 DEF PlanOK
<1> QED
  BY <1>4, <1>6, <1>11 DEF Inv, PlanInv

(* What an end of a window or a sync does to windows.                      *)
LEMMA EndsAreMild ==
  ASSUME Inv,
         \/ \E w \in Windows : CancelWindow(w) \/ CompleteWindow(w)
         \/ Sync \/ Tick
         \/ \E m \in Printers, s \in {"idle", "busy", "maintenance"} :
              FlushTelemetry(m, s) \/ SetPrinterStatus(m, s)
  PROVE  \A v \in Windows : Milder(window[v], window'[v])
<1>1. window \in [Windows -> Window]
  BY DEF Inv, MaintenanceInv, MaintenanceTypeOK
<1>2. CASE UNCHANGED window
  BY <1>2 DEF Milder
<1>3. ASSUME NEW w \in Windows, CancelWindow(w) \/ CompleteWindow(w), NEW v \in Windows
      PROVE  Milder(window[v], window'[v])
  BY <1>1, <1>3 DEF CancelWindow, CompleteWindow, Milder, Window
<1>4. ASSUME Sync, NEW v \in Windows PROVE Milder(window[v], window'[v])
  <2>1. window'[v] = IF v \in ActiveOn(window[v].on)
                       THEN [window[v] EXCEPT !.status = "in_progress"] ELSE window[v]
    BY <1>4 DEF Sync
  <2>2. v \in ActiveOn(window[v].on) => window[v].status \in {"scheduled", "in_progress"}
    BY DEF ActiveOn, BlockingOn, Blocking
  <2>3. window[v] \in Window
    BY <1>1
  <2> QED
    BY <2>1, <2>2, <2>3 DEF Milder, Window
<1>5. CASE Tick \/ \E m \in Printers, s \in {"idle", "busy", "maintenance"} :
                     FlushTelemetry(m, s) \/ SetPrinterStatus(m, s)
  BY <1>2, <1>5 DEF Tick, FlushTelemetry, SetPrinterStatus
<1> QED
  BY <1>3, <1>4, <1>5

(* What each handler that does not look at the plan leaves of a row.       *)
LEMMA MovedIsWeaker ==
  ASSUME Inv, NEW o \in Operations, NEW r \in Resources
  PROVE  /\ Moved(o, r) \in Operation /\ Weaker(op[o], Moved(o, r))
         /\ [Moved(o, r) EXCEPT !.status = "running"] \in Operation
         /\ Open(o) => Weaker(op[o], [Moved(o, r) EXCEPT !.status = "running"])
<1>1. op[o] \in Operation /\ r \in Machines
  BY DEF Inv, PlanInv, SchedulingTypeOK, Machines
<1> DEFINE t == Moved(o, r)
<1>2. /\ t \in Operation
      /\ t.status = op[o].status /\ t.from = op[o].from /\ t.to = op[o].to
      /\ op[o].excuse \subseteq t.excuse
      /\ t.on \subseteq op[o].on \/ "moved" \in t.excuse
  BY <1>1 DEF Moved, Operation, Excuses
<1> HIDE DEF t
<1>3. [t EXCEPT !.status = "running"] \in Operation
  BY <1>2 DEF Operation, OpStatuses
<1>4. Weaker(op[o], t)
  BY <1>2 DEF Weaker, Planned
<1>5. Open(o) => Weaker(op[o], [t EXCEPT !.status = "running"])
  BY <1>2 DEF Weaker, Planned, Open, Operation
<1> QED
  BY <1>2, <1>3, <1>4, <1>5 DEF t

(* Closing an operation is a weaker booking.                               *)
LEMMA StatusIsWeaker ==
  ASSUME Inv, NEW o \in Operations, NEW s \in OpStatuses, s \in Done \/ Open(o)
  PROVE  /\ [op[o] EXCEPT !.status = s] \in Operation
         /\ Weaker(op[o], [op[o] EXCEPT !.status = s])
<1>1. op[o] \in Operation
  BY DEF Inv, PlanInv, SchedulingTypeOK
<1> QED
  BY <1>1 DEF Operation, Weaker, Planned, Open

(* The schedule endpoint, between check and commit.                        *)
LEMMA CheckKeeps ==
  ASSUME Inv, MaintenanceInv', NEW t \in Threads, NEW o \in Operations, NEW m \in Machines,
         NEW s \in Times, NEW e \in Times, CheckSchedule(t, o, m, s, e)
  PROVE  Inv'
<1>1. SchedulingTypeOK /\ PlanOK(op, window)
  BY DEF Inv, PlanInv
<1>2. /\ op' = op /\ order' = order /\ UNCHANGED maintenance
      /\ request' = [request EXCEPT ![t] = [op |-> o, machine |-> m, from |-> s, to |-> e]]
  BY DEF CheckSchedule
<1>3. request' \in [Threads -> Request \cup {NoRequest}]
  BY <1>1, <1>2 DEF SchedulingTypeOK, Request
<1>4. op' \in [Operations -> Operation] /\ order' \in [Orders -> OrderStatuses]
  BY <1>1, <1>2 DEF SchedulingTypeOK
<1>5. PlanOK(op', window)
  BY <1>1, <1>2, Zenon
<1> QED
  BY <1>2, <1>3, <1>4, <1>5, RebookingKeeps

(* Committing what a request has checked keeps the invariant.              *)
LEMMA CommitKeeps ==
  ASSUME Inv, MaintenanceInv', NEW t \in Threads, CommitSchedule(t)
  PROVE  Inv'
<1> DEFINE r == request[t]
<1>1. SchedulingTypeOK /\ PlanInv
  BY DEF Inv, PlanInv
<1>2. /\ r \in Request /\ UNCHANGED maintenance /\ order' = order
      /\ Book(r.op, r.machine, r.from, r.to, {"stale", "revived", "pushed"})
      /\ request' = [request EXCEPT ![t] = NoRequest]
  BY <1>1 DEF CommitSchedule, SchedulingTypeOK
<1> HIDE DEF r
<1>3. r.op \in Operations /\ r.machine \in Machines /\ r.from \in Times /\ r.to \in Times
  BY <1>2 DEF Request
<1>4. op' \in [Operations -> Operation] /\ PlanOK(op', window)
  <2>1. {"stale", "revived", "pushed"} \in SUBSET Excuses
    BY DEF Excuses
  <2> QED
    BY <1>1, <1>2, <1>3, <2>1, BookKeeps
<1>5. request' \in [Threads -> Request \cup {NoRequest}] /\ order' \in [Orders -> OrderStatuses]
  BY <1>1, <1>2 DEF SchedulingTypeOK
<1> QED
  BY <1>2, <1>4, <1>5, RebookingKeeps

(* The handlers that check and book at once.                               *)
LEMMA BookingKeeps ==
  ASSUME Inv, MaintenanceInv', NEW o \in Operations, NEW m \in Machines,
         NEW s \in Times, NEW e \in Times,
         Reschedule(o, m, s, e) \/ (m \in Printers /\ s = now /\ e = now + Duration /\ Dispatch(o, m))
  PROVE  Inv'
<1>1. PlanInv /\ SchedulingTypeOK
  BY DEF Inv, PlanInv
<1>2. UNCHANGED maintenance /\ request' = request /\ order' = order
  BY DEF Reschedule, Dispatch
<1>3. Open(o) /\ Fits(o, m, s, e)
  BY DEF Reschedule, Dispatch, Open, Done
<1>4. op' \in [Operations -> Operation] /\ PlanOK(op', window)
  <2>1. CASE Reschedule(o, m, s, e)
    <3>1. Book(o, m, s, e, {}) /\ Pushed(o, m, s, e) = {} /\ {} \in SUBSET Excuses
      BY <2>1 DEF Reschedule
    <3> QED
      BY <1>1, <1>3, <3>1, BookKeeps
  <2>2. CASE s = now /\ e = now + Duration /\ Dispatch(o, m)
    <3>1. Book(o, m, s, e, {"pushed"}) /\ {"pushed"} \in SUBSET Excuses
      BY <2>2 DEF Dispatch, Excuses
    <3> QED
      BY <1>1, <1>3, <3>1, BookKeeps
  <2> QED
    BY <2>1, <2>2
<1>5. request' \in [Threads -> Request \cup {NoRequest}] /\ order' \in [Orders -> OrderStatuses]
  BY <1>1, <1>2 DEF SchedulingTypeOK
<1> QED
  BY <1>2, <1>4, <1>5, RebookingKeeps

(* Scheduling an order automatically keeps it.                             *)
LEMMA AutoScheduleKeeps ==
  ASSUME Inv, MaintenanceInv', NEW x \in Orders, NEW R \in SUBSET Resources, NEW after \in Times,
         AutoSchedule(x, R, after)
  PROVE  Inv'
<1>1. PlanInv /\ SchedulingTypeOK
  BY DEF Inv, PlanInv
<1>2. UNCHANGED <<maintenance, order, request>>
  BY Zenon DEF AutoSchedule
<1>3. op' \in [Operations -> Operation] /\ PlanOK(op', window)
  BY <1>1, AutoKeeps
<1>4. request' \in [Threads -> Request \cup {NoRequest}] /\ order' \in [Orders -> OrderStatuses]
  BY <1>1, <1>2 DEF SchedulingTypeOK
<1> QED
  BY <1>2, <1>3, <1>4, RebookingKeeps

(* The handlers that do not look at the plan.                              *)
LEMMA OthersKeep ==
  ASSUME Inv, MaintenanceInv', NEW o \in Operations,
         \/ Unschedule(o) \/ Start(o) \/ Complete(o) \/ Skip(o)
         \/ \E r \in Resources : AssignResource(o, r) \/ StartOn(o, r)
  PROVE  Inv'
<1>1. op[o] \in Operation
  BY DEF Inv, PlanInv, SchedulingTypeOK
<1>2. CASE Unschedule(o)
  <2>1. Unbooked \in Operation /\ Weaker(op[o], Unbooked)
    BY MaintenanceAssumption DEF Unbooked, Operation, OpStatuses, Times, Planned, Weaker
  <2> QED
    BY <1>2, <2>1, BlindKeeps DEF Unschedule
<1>3. CASE Start(o)
  <2>1. Open(o) /\ "running" \in OpStatuses
    BY <1>3 DEF Start, Open, Done, OpStatuses
  <2>2. op' = [op EXCEPT ![o] = [op[o] EXCEPT !.status = "running"]]
    BY <1>3 DEF Start
  <2> QED
    BY <1>3, <2>1, <2>2, StatusIsWeaker, BlindKeeps DEF Start
<1>4. CASE Complete(o)
  <2>1. "complete" \in Done /\ "complete" \in OpStatuses
    BY DEF Done, OpStatuses
  <2>2. op' = [op EXCEPT ![o] = [op[o] EXCEPT !.status = "complete"]]
    BY <1>4 DEF Complete
  <2> QED
    BY <1>4, <2>1, <2>2, StatusIsWeaker, BlindKeeps DEF Complete
<1>5. CASE Skip(o)
  <2>1. "skipped" \in Done /\ "skipped" \in OpStatuses
    BY DEF Done, OpStatuses
  <2>2. op' = [op EXCEPT ![o] = [op[o] EXCEPT !.status = "skipped"]]
    BY <1>5 DEF Skip
  <2> QED
    BY <1>5, <2>1, <2>2, StatusIsWeaker, BlindKeeps DEF Skip
<1>6. ASSUME NEW r \in Resources, AssignResource(o, r) PROVE Inv'
  BY <1>6, MovedIsWeaker, BlindKeeps DEF AssignResource
<1>7. ASSUME NEW r \in Resources, StartOn(o, r) PROVE Inv'
  <2>1. Open(o)
    BY <1>7 DEF StartOn, Open, Done
  <2> QED
    BY <1>7, <2>1, MovedIsWeaker, BlindKeeps DEF StartOn
<1> QED
  BY <1>2, <1>3, <1>4, <1>5, <1>6, <1>7

(* Releasing an order keeps it.                                            *)
LEMMA ReleaseKeeps ==
  ASSUME Inv, MaintenanceInv', NEW x \in Orders, ReleaseOrder(x)
  PROVE  Inv'
<1>1. SchedulingTypeOK /\ PlanOK(op, window)
  BY DEF Inv, PlanInv
<1>2. UNCHANGED maintenance /\ op' = op /\ request' = request
      /\ order' = [order EXCEPT ![x] = "released"]
  BY DEF ReleaseOrder
<1>3. PlanOK(op', window)
  BY <1>1, <1>2, Zenon
<1> QED
  BY <1>1, <1>2, <1>3, RebookingKeeps DEF SchedulingTypeOK, OrderStatuses

(* Every step keeps it.                                                    *)
LEMMA InvNext == ASSUME Inv, [Next]_vars PROVE Inv'
<1>1. MaintenanceInv'
  BY MaintenanceInvNext DEF Inv
<1>2. CASE UNCHANGED vars
  <2>1. \A w \in Windows : Milder(window[w], window'[w])
    BY <1>2 DEF vars, Milder
  <2> QED
    BY <1>1, <1>2, <2>1, WindowsKeep DEF vars
<1>3. CASE Next
  <2>1. CASE \E o \in Operations, m \in Machines, s, e \in Times, t \in Threads :
               CheckSchedule(t, o, m, s, e)
    BY <1>1, <2>1, CheckKeeps
  <2>2. CASE \E o \in Operations, m \in Machines, s, e \in Times : Reschedule(o, m, s, e)
    BY <1>1, <2>2, BookingKeeps
  <2>3. ASSUME NEW o \in Operations, NEW m \in Printers, Dispatch(o, m) PROVE Inv'
    <3>1. m \in Machines /\ now \in Times /\ now + Duration \in Times
      BY <2>3 DEF Machines, Dispatch, Inv, MaintenanceInv, MaintenanceTypeOK
    <3> QED
      BY <1>1, <2>3, <3>1, BookingKeeps
  <2>4. CASE \E o \in Operations :
               \/ Unschedule(o) \/ Start(o) \/ Complete(o) \/ Skip(o)
               \/ \E r \in Resources : AssignResource(o, r) \/ StartOn(o, r)
    BY <1>1, <2>4, OthersKeep
  <2>5. CASE \E t \in Threads : CommitSchedule(t)
    BY <1>1, <2>5, CommitKeeps
  <2>6. CASE \E x \in Orders : ReleaseOrder(x)
    BY <1>1, <2>6, ReleaseKeeps
  <2>7. CASE \E x \in Orders, R \in SUBSET Resources, s \in Times : AutoSchedule(x, R, s)
    BY <1>1, <2>7, AutoScheduleKeeps
  <2>8. CASE \E w \in Windows, m \in Machines, s, e \in Times : PlanWindow(w, m, s, e)
    BY <1>1, <2>8, PlanWindowKeeps
  <2>9. CASE /\ \/ \E w \in Windows : CancelWindow(w) \/ CompleteWindow(w)
                \/ Sync \/ Tick
                \/ \E m \in Printers, s \in {"idle", "busy", "maintenance"} :
                     FlushTelemetry(m, s) \/ SetPrinterStatus(m, s)
             /\ UNCHANGED <<op, order, request>>
    BY <1>1, <2>9, EndsAreMild, WindowsKeep
  <2> QED
    BY <1>3, <2>1, <2>2, <2>3, <2>4, <2>5, <2>6, <2>7, <2>8, <2>9 DEF Next
<1> QED
  BY <1>2, <1>3

(* Every reachable state satisfies it.                                     *)
LEMMA InvHolds == Spec => []Inv
<1>1. Init => Inv
  BY InvInit
<1>2. Inv /\ [Next]_vars => Inv'
  BY InvNext
<1> QED
  BY <1>1, <1>2, PTL DEF Spec

(* The columns keep their types: no handler books a machine, a time or a   *)
(* row that is not there.                                                  *)
THEOREM SchedulingTyped == Spec => []SchedulingTypeOK
<1>1. Inv => SchedulingTypeOK
  BY DEF Inv, PlanInv
<1> QED
  BY <1>1, InvHolds, PTL

(* No machine is booked twice or inside a window without an excuse,        *)
(* whatever mix of schedule, reschedule, dispatch and auto-schedule books  *)
(* it (resource_scheduling.py and the handlers that call it).              *)
THEOREM NoDoubleBooking == Spec => []BookingsDisjoint
<1>1. Inv => BookingsDisjoint
  BY PlanPromises DEF Inv
<1> QED
  BY <1>1, InvHolds, PTL

(* No operation is booked to begin before one that comes earlier in its    *)
(* routing ends, without an excuse.                                        *)
THEOREM RoutingIsKept == Spec => []RoutingOrderKept
<1>1. Inv => RoutingOrderKept
  BY PlanPromises DEF Inv
<1> QED
  BY <1>1, InvHolds, PTL

(* find_next_available_slot returns a slot that is free, and the first one,*)
(* over any bookings and windows that the handlers can leave.              *)
THEOREM EarliestSlot == Spec => []SuggestedSlotIsEarliest
<1>1. ASSUME PlanInv PROVE SuggestedSlotIsEarliest
  <2> SUFFICES ASSUME NEW m \in Machines, NEW after \in Times, NEW d \in Duration..Duration + 1
               PROVE  LET busy == Busy(m)
                          Free(s) == \A b \in busy : ~Overlap(b, Slot(s, s + d))
                          found == FirstGap(busy, d, after)
                      IN  Free(found) /\ \A s \in after..found - 1 : ~Free(s)
    BY DEF SuggestedSlotIsEarliest
  <2>1. d \in Nat \ {0}
    BY SchedulingAssumption
  <2>2. Busy(m) \in SUBSET BusySlot /\ \A b \in Busy(m) : b.from < b.to
    BY <1>1, BusyIs
  <2> QED
    BY <2>1, <2>2, FirstGapIsEarliest
<1>2. Inv => SuggestedSlotIsEarliest
  BY <1>1 DEF Inv
<1> QED
  BY <1>2, InvHolds, PTL
=============================================================================
