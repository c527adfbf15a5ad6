------------------------------ MODULE StockBook ------------------------------
(***************************************************************************)
(* What the canonical poster promises (backend/app/services/               *)
(* inventory_ledger.py): every quantity equals the sum of the ledger rows  *)
(* behind it, and a request changes both at once or not at all, as if      *)
(* requests ran one after another.                                         *)
(***************************************************************************)
EXTENDS Integers

CONSTANTS
    Sessions,   \* requests, each with its database session
    Rows,       \* inventory rows
    Opening     \* the quantity every row opens with, which its ledger records

VARIABLES
    inv,        \* the quantity on every row
    ledger,     \* the sum of the ledger rows behind it
    applied     \* the requests that have taken effect

Init ==
    /\ inv = [r \in Rows |-> Opening]
    /\ ledger = [r \in Rows |-> Opening]
    /\ applied = {}

(* A request takes effect once, and moves every row by what it writes to   *)
(* the ledger.                                                             *)
Apply(s) ==
    /\ s \notin applied
    /\ applied' = applied \cup {s}
    /\ inv' \in [Rows -> Int] /\ ledger' \in [Rows -> Int]
    /\ \A r \in Rows : inv'[r] - inv[r] = ledger'[r] - ledger[r]

Next == \E s \in Sessions : Apply(s)

Spec == Init /\ [][Next]_<<inv, ledger, applied>>

=============================================================================
