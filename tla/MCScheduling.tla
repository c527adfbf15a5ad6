---------------------------- MODULE MCScheduling ----------------------------
(***************************************************************************)
(* A small instance of Scheduling for TLC.                                 *)
(***************************************************************************)
EXTENDS Scheduling, TLC

CONSTANTS x1, x2, cut, sew, pack

(* One order of two operations and one of one.                             *)
TwoRoutes == x1 :> <<cut, sew>> @@ x2 :> <<pack>>

IdsAreAlike == Permutations(Windows) \cup Permutations(Threads)

UsedWindows == {w \in Windows : window[w].status # "unused"}

Touched == {o \in Operations : op[o] # Unbooked}
Quiet == now = 0 /\ UsedWindows = {} /\ \A m \in Printers : printer[m].status = "idle"

NoRequests == request = [t \in Threads |-> NoRequest]

(* Bound: windows on the printer, and its statuses, without bookings.      *)
WindowsOnly ==
    /\ Touched = {} /\ order = [x \in Orders |-> "draft"] /\ NoRequests
    /\ Cardinality(UsedWindows) > 1 =>
         \A w \in UsedWindows : window[w].on \in Printers /\ window[w].to < Horizon

Beyond == {o \in Touched : op[o].status \notin {"pending", "queued"}}
Odd == Beyond \cup {o \in Touched : op[o].excuse # {}}

(* Bound: two operations at once, in the first two slots; one of them at   *)
(* most has started or has an excuse, and its order alone leaves draft; a  *)
(* thread holds a slot of a plan that has no excuses.                      *)
TwoOperations ==
    /\ Cardinality(Touched) <= 2 /\ Quiet
    /\ \A o \in Touched : op[o].to < Horizon
    /\ \A o \in Beyond : op[o].to <= 1 /\ (op[o].status = "skipped" => Touched = {o})
    /\ Cardinality(Odd) <= 1
    /\ Cardinality({x \in Orders : order[x] # "draft"}) <= 1
    /\ Cardinality(Touched) > 1 =>
         \A x \in Orders : order[x] = "draft" \/ (order[x] = "started" /\ Odd # {})
    /\ \A t \in Threads : request[t] # NoRequest =>
         /\ request[t].to < Horizon /\ Cardinality(Touched \ {request[t].op}) <= 1
         /\ \A o \in Operations : op[o].excuse = {} /\ op[o].status # "running"
         /\ "released" \notin Range(order)

(* Bound: one operation that does not start, and one window or none.       *)
OneOfEach ==
    /\ Cardinality(Touched) <= 1 /\ Cardinality(UsedWindows) <= 1
    /\ \A o \in Touched : o = pack /\ op[o].status \in {"pending", "queued"}
    /\ \A m \in Printers : printer[m].status # "busy" /\ ~printer[m].byHand
    /\ "started" \notin Range(order) /\ order[x1] = "draft"
    /\ Touched # {} /\ UsedWindows = {} => now = 0
    /\ UsedWindows # {} =>
         /\ order[x2] = "draft" /\ now <= 1
         /\ NoRequests \/ (now = 0 /\ Touched = {})
         /\ \A w \in UsedWindows : window[w].to < Horizon
         /\ \A o \in Touched : op[o].to < Horizon

SmallInstance == WindowsOnly \/ TwoOperations \/ OneOfEach
=============================================================================
