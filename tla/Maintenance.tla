---------------------------- MODULE Maintenance ----------------------------
(***************************************************************************)
(* Maintenance windows on printers and other machines, and the status of a *)
(* printer that they flip.  A window does not act when its time comes: the *)
(* pages that show printers run the sync, and telemetry overwrites what    *)
(* the sync has written.                                                   *)
(*                                                                         *)
(* The endpoints are async, so an action stands for a whole handler.  Time *)
(* is counted in slots.  Every status of a printer that no window flips    *)
(* (printing, paused, error, offline, unknown) is "busy"; the printer gets *)
(* "available" from no handler, so what a window restores is "idle".       *)
(***************************************************************************)
EXTENDS Integers, FiniteSets

CONSTANTS
    Printers,  \* the printers
    Resources, \* the machines that are no printers
    NoMachine, \* no machine
    Windows,   \* the ids maintenance windows get
    Horizon    \* bound: the last slot of the clock

Machines == Printers \cup Resources

ASSUME MaintenanceAssumption ==
    /\ Printers \cap Resources = {}
    /\ NoMachine \notin Machines
    /\ Horizon \in Nat \ {0}

VARIABLES
    now,     \* the clock
    window,  \* maintenance_windows
    printer  \* printers

maintenance == <<now, window, printer>>

Times == 0..Horizon
WindowStatuses == {"unused", "scheduled", "in_progress", "completed", "cancelled"}

Window == [on: Machines \cup {NoMachine}, from: Times, to: Times, status: WindowStatuses,
           unflipped: BOOLEAN]  \* history: it had begun when it was cancelled as scheduled
Printer == [status: {"idle", "busy", "maintenance"},
            byHand: BOOLEAN]    \* history: a person wrote the status last

MaintenanceTypeOK ==
    /\ now \in Times
    /\ window \in [Windows -> Window]
    /\ printer \in [Printers -> Printer]

FreeWindow == [on |-> NoMachine, from |-> 0, to |-> 0, status |-> "unused", unflipped |-> FALSE]

-----------------------------------------------------------------------------

Overlap(x, y) == x.from < y.to /\ y.from < x.to

Blocking(w) == window[w].status \in {"scheduled", "in_progress"}
BlockingOn(m) == {w \in Windows : window[w].on = m /\ Blocking(w)}
Begun(w) == window[w].from <= now
Over(w) == window[w].to <= now
ActiveOn(m) == {w \in BlockingOn(m) : Begun(w) /\ ~Over(w)}

CreateWindow(w, m, s, e) ==
    /\ window[w].status = "unused"
    /\ s < e
    /\ \A v \in BlockingOn(m) : ~Overlap(window[v], [from |-> s, to |-> e])
    /\ window' = [window EXCEPT ![w] = [FreeWindow EXCEPT
                    !.on = m, !.from = s, !.to = e, !.status = "scheduled"]]
    /\ UNCHANGED <<now, printer>>

(* The status goes back only from maintenance, and only when no window but *)
(* the one that ends is active.                                            *)
Restored(m, w) == printer[m].status = "maintenance" /\ ActiveOn(m) \subseteq {w}

Idle == [status |-> "idle", byHand |-> FALSE]

(* What the end of a window writes to its machine.                         *)
Restore(w) ==
    LET m == window[w].on
    IN  IF m \in Printers /\ Restored(m, w)
          THEN printer' = [printer EXCEPT ![m] = Idle]
          ELSE UNCHANGED printer

CancelWindow(w) ==
    /\ Blocking(w)
    /\ window' = [window EXCEPT ![w].status = "cancelled",
                                ![w].unflipped = @ \/ (window[w].status = "scheduled" /\ Begun(w))]
    /\ IF window[w].status = "in_progress" THEN Restore(w) ELSE UNCHANGED printer
    /\ UNCHANGED now

(* Mutant of CompleteWindow: the completion goes by the status alone.      *)
CompleteWindowByStatus(w) ==
    /\ Blocking(w)
    /\ window' = [window EXCEPT ![w].status = "completed"]
    /\ IF window[w].status = "in_progress" THEN Restore(w) ELSE UNCHANGED printer
    /\ UNCHANGED now

CompleteWindow(w) ==
    /\ Blocking(w)
    /\ window' = [window EXCEPT ![w].status = "completed"]
    /\ IF window[w].status = "in_progress" \/ Begun(w) THEN Restore(w) ELSE UNCHANGED printer
    /\ UNCHANGED now

(* What a page that shows printers does first: windows that have begun     *)
(* take their idle printers; those that are over give them back and stay   *)
(* in progress.                                                            *)
Sync ==
    LET Taken(m) == ActiveOn(m) # {} /\ printer[m].status = "idle"
        GivenBack(m) ==
            /\ printer[m].status = "maintenance" /\ ActiveOn(m) = {}
            /\ \E w \in BlockingOn(m) : window[w].status = "in_progress" /\ Over(w)
    IN  /\ window' = [w \in Windows |->
                        IF w \in ActiveOn(window[w].on)
                          THEN [window[w] EXCEPT !.status = "in_progress"] ELSE window[w]]
        /\ printer' = [m \in Printers |->
                        CASE Taken(m)     -> [status |-> "maintenance", byHand |-> FALSE]
                          [] GivenBack(m) -> Idle
                          [] OTHER        -> printer[m]]
        /\ UNCHANGED now

-----------------------------------------------------------------------------

(* The flush of the telemetry a printer has sent.                          *)
FlushTelemetry(m, s) ==
    /\ s \in {"idle", "busy"}
    /\ printer' = [printer EXCEPT ![m] = [status |-> s, byHand |-> FALSE]]
    /\ UNCHANGED <<now, window>>

SetPrinterStatus(m, s) ==
    /\ printer' = [printer EXCEPT ![m] = [status |-> s, byHand |-> TRUE]]
    /\ UNCHANGED <<now, window>>

Tick ==
    /\ now < Horizon
    /\ now' = now + 1
    /\ UNCHANGED <<window, printer>>

MaintenanceInit ==
    /\ now = 0
    /\ window = [w \in Windows |-> FreeWindow]
    /\ printer \in [Printers -> [status: {"idle", "busy"}, byHand: {FALSE}]]

-----------------------------------------------------------------------------

(* A printer that shows maintenance, and was not set to it by hand, has a  *)
(* window that has begun and can still be completed or cancelled, which    *)
(* gives the printer back.  The exception is a window cancelled after it   *)
(* had begun and before a page was opened: it is still scheduled then, and *)
(* cancel_window, unlike complete_window, goes by the status alone.        *)
MaintenanceHasWindow ==
    \A m \in Printers :
        printer[m].status = "maintenance" /\ ~printer[m].byHand =>
            \E w \in Windows :
                /\ window[w].on = m /\ Begun(w)
                /\ Blocking(w) \/ window[w].unflipped
=============================================================================
