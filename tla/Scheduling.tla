----------------------------- MODULE Scheduling -----------------------------
(***************************************************************************)
(* The plan of the shop floor: operations of production orders booked into *)
(* slots on printers and other machines, between maintenance windows and   *)
(* in the order of their routing.                                          *)
(*                                                                         *)
(* The schedule endpoint is a plain function on the thread pool: it checks *)
(* the slot, and its write shows when it commits.  The other handlers that *)
(* book are async and one action each; those that start, finish and skip   *)
(* an operation do not look at the plan and are one action too.  Whether a *)
(* machine suits the material is left open, and so is every shortage.      *)
(***************************************************************************)
EXTENDS Maintenance, Sequences, Functions, FiniteSetsExt

CONSTANTS
    Orders,     \* production orders
    Operations, \* their operations
    Route,      \* the operations of an order, in sequence
    Duration,   \* the planned time of an operation, in slots
    Threads,    \* the threads that run the schedule endpoint
    NoRequest   \* an idle thread

ASSUME SchedulingAssumption ==
    /\ Route \in [Orders -> Seq(Operations)]
    /\ \A o \in Operations : \E x \in Orders : o \in Range(Route[x])
    /\ \A x \in Orders : IsInjective(Route[x])
    /\ \A x, y \in Orders : x # y => Range(Route[x]) \cap Range(Route[y]) = {}
    /\ Duration \in Nat \ {0}

VARIABLES
    op,      \* production_order_operations
    order,   \* the status of production_orders
    request  \* what a thread has checked and will write

vars == <<now, window, printer, op, order, request>>

OpStatuses == {"pending", "queued", "running", "complete", "skipped"}
Done == {"complete", "skipped"}
(* "draft" stands for scheduled too, "started" for all that comes after.   *)
OrderStatuses == {"draft", "released", "started"}
(* History: why a booking need not fit the plan.  "moved": it was put on a *)
(* machine without a look at the plan; "stale": its slot was taken between *)
(* check and commit; "revived": it was done, and came back into a slot     *)
(* that others had got; "pushed": it runs into a successor that had been   *)
(* booked; "covered": a window was created over it.                        *)
Excuses == {"moved", "stale", "revived", "pushed", "covered"}

Operation == [status: OpStatuses, on: SUBSET Machines, from: Times, to: Times,
              excuse: SUBSET Excuses]
Request == [op: Operations, machine: Machines, from: Times, to: Times]

SchedulingTypeOK ==
    /\ MaintenanceTypeOK
    /\ op \in [Operations -> Operation]
    /\ order \in [Orders -> OrderStatuses]
    /\ request \in [Threads -> Request \cup {NoRequest}]

Unbooked == [status |-> "pending", on |-> {}, from |-> 0, to |-> 0, excuse |-> {}]

-----------------------------------------------------------------------------
(* What the checks of a slot look at.                                      *)

OrderOf == [o \in Operations |-> CHOOSE x \in Orders : o \in Range(Route[x])]
Predecessors ==
    [o \in Operations |->
        LET route == Route[OrderOf[o]]
        IN  {route[j] : j \in 1..(CHOOSE k \in DOMAIN route : route[k] = o) - 1}]
Successors == [o \in Operations |-> {q \in Operations : o \in Predecessors[q]}]

Open(o) == op[o].status \notin Done
Booked(o) == Open(o) /\ op[o].from < op[o].to
BookedOn(m) == {o \in Operations : Booked(o) /\ m \in op[o].on}
Slot(s, e) == [from |-> s, to |-> e]

(* A printer comes before another machine where an operation has both.     *)
Stored(o) == IF op[o].on \cap Printers # {} THEN op[o].on \cap Printers ELSE op[o].on

(* The open operations in the very slot of an operation, done or not, are  *)
(* its block.                                                              *)
Siblings(o) ==
    {q \in Operations \ {o} :
        /\ Booked(q)
        /\ Stored(o) \cap op[q].on # {}
        /\ op[q].from = op[o].from /\ op[q].to = op[o].to}

Stays(o, m, s, e) == Stored(o) = {m} /\ op[o].from = s /\ op[o].to = e

(* What an edit of an operation into a slot ignores: itself, and its block *)
(* when it stays where it is.                                              *)
Ignored(o, m, s, e) == {o} \cup (IF Stays(o, m, s, e) THEN Siblings(o) ELSE {})

Conflicts(o, m, s, e) ==
    {q \in BookedOn(m) \ Ignored(o, m, s, e) : Overlap(op[q], Slot(s, e))}

WindowConflicts(m, s, e) == {w \in BlockingOn(m) : Overlap(window[w], Slot(s, e))}

Ready(o, s) ==
    \A q \in Predecessors[o] : Open(q) => op[q].from < op[q].to /\ op[q].to <= s

Pushed(o, m, s, e) ==
    {q \in Successors[o] \ Ignored(o, m, s, e) : Booked(q) /\ op[q].from < e}

Fits(o, m, s, e) ==
    /\ s < e
    /\ Conflicts(o, m, s, e) = {}
    /\ WindowConflicts(m, s, e) = {}
    /\ Ready(o, s)

-----------------------------------------------------------------------------
(* The search for the first free slot.                                     *)

Busy(m) ==
    {Slot(op[o].from, op[o].to) : o \in BookedOn(m)} \cup
    {Slot(window[w].from, window[w].to) : w \in BlockingOn(m)}

(* Mutant of Cursor: it goes back when one interval holds another.         *)
CursorAtLast(busy, after, k) ==
    LET past == {b \in busy : b.from < k}
    IN  IF past = {} THEN after
        ELSE (CHOOSE b \in past : \A c \in past : c.from <= b.from).to

(* The sweep over the busy intervals, in the order they begin, never moves *)
(* its cursor back: where it stands when it comes to those that begin at k.*)
Cursor(busy, after, k) == Max({after} \cup {b.to : b \in {c \in busy : c.from < k}})

(* The cursor at the first gap that is long enough, or at the end.         *)
FirstGap(busy, d, after) ==
    LET ahead == {b \in busy : b.to > after}
        gaps == {b.from : b \in {c \in ahead : c.from - Cursor(ahead, after, c.from) >= d}}
    IN  Cursor(ahead, after, IF gaps = {} THEN Horizon ELSE Min(gaps))

NextSlot(m, d, after) == FirstGap(Busy(m), d, after)

-----------------------------------------------------------------------------
(* Booking.                                                                *)

(* What excuses a booking by a handler that is blind to some of it; one    *)
(* that stays keeps its excuses.                                           *)
Excuse(o, m, s, e, blind) ==
    {x \in blind :
        \/ x = "stale" /\ ~Fits(o, m, s, e)
        \/ x = "revived" /\ ~Open(o) /\ Stays(o, m, s, e)
        \/ x = "pushed" /\ Pushed(o, m, s, e) # {}} \cup
    (IF Stays(o, m, s, e) THEN op[o].excuse ELSE {})

Book(o, m, s, e, blind) ==
    op' = [op EXCEPT ![o] = [status |-> "queued", on |-> {m}, from |-> s, to |-> e,
                             excuse |-> Excuse(o, m, s, e, blind)]]

(* The status of the operation is not asked.                               *)
CheckSchedule(t, o, m, s, e) ==
    /\ request[t] = NoRequest
    /\ Fits(o, m, s, e)
    /\ request' = [request EXCEPT ![t] = [op |-> o, machine |-> m, from |-> s, to |-> e]]
    /\ UNCHANGED <<maintenance, op, order>>

CommitSchedule(t) ==
    /\ request[t] # NoRequest
    /\ LET r == request[t] IN Book(r.op, r.machine, r.from, r.to, {"stale", "revived", "pushed"})
    /\ request' = [request EXCEPT ![t] = NoRequest]
    /\ UNCHANGED <<maintenance, order>>

(* Mutant of Reschedule: the slot is checked on the machines that the      *)
(* operation leaves.                                                       *)
RescheduleFromHere(o, m, s, e) ==
    /\ op[o].status \in {"pending", "queued"}
    /\ op[o].on # {} /\ \A k \in op[o].on : Fits(o, k, s, e)
    /\ Pushed(o, m, s, e) = {}
    /\ Book(o, m, s, e, {})
    /\ UNCHANGED <<maintenance, order, request>>

(* Mutant of Reschedule: it has no eye for successors either.              *)
RescheduleAlone(o, m, s, e) ==
    /\ op[o].status \in {"pending", "queued"}
    /\ Fits(o, m, s, e)
    /\ Book(o, m, s, e, {})
    /\ UNCHANGED <<maintenance, order, request>>

Reschedule(o, m, s, e) ==
    /\ op[o].status \in {"pending", "queued"}
    /\ Fits(o, m, s, e)
    /\ Pushed(o, m, s, e) = {}
    /\ Book(o, m, s, e, {})
    /\ UNCHANGED <<maintenance, order, request>>

Unschedule(o) ==
    /\ op[o].status \in {"pending", "queued"}
    /\ op[o] # Unbooked
    /\ op' = [op EXCEPT ![o] = Unbooked]
    /\ UNCHANGED <<maintenance, order, request>>

(* The board assigns a pending operation to a printer, from now on.        *)
Dispatch(o, m) ==
    /\ op[o].status = "pending"
    /\ order[OrderOf[o]] = "released"
    /\ printer[m].status # "maintenance"
    /\ ActiveOn(m) = {}
    /\ now + Duration \in Times
    /\ Fits(o, m, now, now + Duration)
    /\ Book(o, m, now, now + Duration, {"pushed"})
    /\ UNCHANGED <<maintenance, order, request>>

(* The open operations without a slot share the time of all open ones, one *)
(* after the other, on the machine where that time is free first.          *)
AutoSchedule(x, R, after) ==
    LET open == {o \in Range(Route[x]) : Open(o)}
        mine == {o \in open : ~Booked(o)}
        total == Duration * Cardinality(open)
        share == total \div Cardinality(mine)
        best == CHOOSE r \in R :
                    \A q \in R : NextSlot(r, total, after) <= NextSlot(q, total, after)
        start == NextSlot(best, total, after)
        Begin(o) == start + Cardinality(mine \cap Predecessors[o]) * share
        End(o) == Begin(o) + share
    IN  /\ R # {} /\ mine # {}
        /\ start + total \in Times
        /\ \A o \in mine :
             /\ Conflicts(o, best, Begin(o), End(o)) = {}
             /\ WindowConflicts(best, Begin(o), End(o)) = {}
             /\ \A q \in Predecessors[o] \ mine : Open(q) => op[q].to <= Begin(o)
        /\ op' = [o \in Operations |->
                    IF o \notin mine THEN op[o]
                    ELSE [status |-> "queued", on |-> {best}, from |-> Begin(o), to |-> End(o),
                          excuse |-> {z \in {"pushed"} : Pushed(o, best, Begin(o), End(o)) # {}}]]
        /\ UNCHANGED <<maintenance, order, request>>

-----------------------------------------------------------------------------
(* Handlers that do not look at the plan.                                  *)

(* Moves an operation to a resource and leaves its slot and its printer.   *)
Moved(o, r) ==
    [op[o] EXCEPT !.on = (@ \cap Printers) \cup {r},
                  !.excuse = IF r \in op[o].on THEN @ ELSE @ \cup {"moved"}]

(* The assignments that come with the dates of an order.                   *)
AssignResource(o, r) ==
    /\ order[OrderOf[o]] = "draft"
    /\ op' = [op EXCEPT ![o] = Moved(o, r)]
    /\ UNCHANGED <<maintenance, order, request>>

ReleaseOrder(x) ==
    /\ order[x] = "draft"
    /\ order' = [order EXCEPT ![x] = "released"]
    /\ UNCHANGED <<maintenance, op, request>>

(* Only the operation right before is asked.                               *)
PreviousDone(o) ==
    \A q \in Predecessors[o] :
        op[q].status \in Done \/ \E p \in Predecessors[o] : q \in Predecessors[p]

(* Every report makes the order follow its operations.                     *)
MarkStarted(o) == order' = [order EXCEPT ![OrderOf[o]] = "started"]

Start(o) ==
    /\ op[o].status \in {"pending", "queued"}
    /\ PreviousDone(o)
    /\ op' = [op EXCEPT ![o].status = "running"]
    /\ MarkStarted(o)
    /\ UNCHANGED <<maintenance, request>>

(* A start on another resource asks what runs there, not what is planned.  *)
StartOn(o, r) ==
    /\ op[o].status \in {"pending", "queued"}
    /\ PreviousDone(o)
    /\ \A q \in Operations : op[q].status = "running" => r \notin op[q].on
    /\ op' = [op EXCEPT ![o] = [Moved(o, r) EXCEPT !.status = "running"]]
    /\ MarkStarted(o)
    /\ UNCHANGED <<maintenance, request>>

Complete(o) ==
    /\ op[o].status = "running"
    /\ op' = [op EXCEPT ![o].status = "complete"]
    /\ MarkStarted(o)
    /\ UNCHANGED <<maintenance, request>>

Skip(o) ==
    /\ op[o].status \in {"pending", "queued"}
    /\ PreviousDone(o)
    /\ op' = [op EXCEPT ![o].status = "skipped"]
    /\ MarkStarted(o)
    /\ UNCHANGED <<maintenance, request>>

(* A window does not ask what is booked.                                   *)
PlanWindow(w, m, s, e) ==
    /\ CreateWindow(w, m, s, e)
    /\ op' = [o \in Operations |->
                IF o \in BookedOn(m) /\ Overlap(op[o], Slot(s, e))
                  THEN [op[o] EXCEPT !.excuse = @ \cup {"covered"}] ELSE op[o]]
    /\ UNCHANGED <<order, request>>

-----------------------------------------------------------------------------

Init ==
    /\ MaintenanceInit
    /\ op = [o \in Operations |-> Unbooked]
    /\ order = [x \in Orders |-> "draft"]
    /\ request = [t \in Threads |-> NoRequest]

Next ==
    \/ \E o \in Operations :
         \/ \E m \in Machines, s, e \in Times :
              \/ \E t \in Threads : CheckSchedule(t, o, m, s, e)
              \/ Reschedule(o, m, s, e)
         \/ Unschedule(o)
         \/ \E m \in Printers : Dispatch(o, m)
         \/ \E r \in Resources : AssignResource(o, r) \/ StartOn(o, r)
         \/ Start(o)
         \/ Complete(o)
         \/ Skip(o)
    \/ \E t \in Threads : CommitSchedule(t)
    \/ \E x \in Orders : ReleaseOrder(x)
    \/ \E x \in Orders, R \in SUBSET Resources, s \in Times : AutoSchedule(x, R, s)
    \/ \E w \in Windows :
         \/ \E m \in Machines, s, e \in Times : PlanWindow(w, m, s, e)
         \/ (CancelWindow(w) \/ CompleteWindow(w)) /\ UNCHANGED <<op, order, request>>
    \/ Sync /\ UNCHANGED <<op, order, request>>
    \/ \E m \in Printers, s \in {"idle", "busy", "maintenance"} :
         (FlushTelemetry(m, s) \/ SetPrinterStatus(m, s)) /\ UNCHANGED <<op, order, request>>
    \/ Tick /\ UNCHANGED <<op, order, request>>

Spec == Init /\ [][Next]_vars

-----------------------------------------------------------------------------

Excused(o, E) == op[o].excuse \cap E # {}

(* No machine is booked twice, by whatever mix of schedule, reschedule,    *)
(* dispatch and auto-schedule, nor booked inside a maintenance window,     *)
(* unless one of the bookings was committed after its slot had been taken, *)
(* moved without a look at the plan, or brought back from done.  A window  *)
(* may also be created over a booking.                                     *)
BookingsDisjoint ==
    \A o \in Operations, m \in Machines :
        o \in BookedOn(m) =>
            /\ \A q \in BookedOn(m) \ {o} :
                  Overlap(op[o], op[q]) =>
                      \/ Excused(o, {"moved", "stale", "revived"})
                      \/ Excused(q, {"moved", "stale", "revived"})
            /\ \A w \in BlockingOn(m) :
                  Overlap(op[o], window[w]) => Excused(o, {"moved", "stale", "covered"})

(* An operation is not booked to begin before one that comes earlier in    *)
(* its routing ends, except where the earlier one was booked by a handler  *)
(* that has no eye for successors (all but reschedule) or brought back     *)
(* from done, or the later one's slot was taken under it.                  *)
RoutingOrderKept ==
    \A q \in Operations : \A o \in Predecessors[q] :
        Booked(o) /\ Booked(q) /\ op[q].from < op[o].to =>
            Excused(o, {"pushed", "revived"}) \/ Excused(q, {"stale"})

(* The slot the search returns is free, and no earlier one is: also where  *)
(* bookings and windows lie over one another.                              *)
SuggestedSlotIsEarliest ==
    \A m \in Machines :
        LET busy == Busy(m)
            Free(s, d) == \A b \in busy : ~Overlap(b, Slot(s, s + d))
        IN  \A after \in Times, d \in Duration..Duration + 1 :
              LET found == FirstGap(busy, d, after)
              IN  Free(found, d) /\ \A s \in after..found - 1 : ~Free(s, d)
=============================================================================
