----------------------------- MODULE JournalBook -----------------------------
(***************************************************************************)
(* What the poster of completion entries promises (backend/app/services/   *)
(* production_gl_service.py): an entry appears at once with the rows it    *)
(* covers, which no other entry has, and books what these rows cost.  The  *)
(* ledger only grows, and an entry is taken back as a whole.               *)
(***************************************************************************)
EXTENDS Integers, Functions

CONSTANTS
    Rows,       \* inventory transactions of one production order
    Entries,    \* its completion journal entries
    NoEntry

VARIABLES
    ledger,     \* kind and cost of the rows that are committed
    journaled,  \* the entry of every row
    book        \* the entries with their rows and amounts

NoRow == [kind |-> "free", cost |-> 0]
NotMade == [status |-> "free", rows |-> {}, consumed |-> 0, received |-> 0]

Init ==
    /\ ledger = [r \in Rows |-> NoRow]
    /\ journaled = [r \in Rows |-> NoEntry]
    /\ book = [e \in Entries |-> NotMade]

(* What the rows of a kind among S cost.                                   *)
Total(lines, S, kind) ==
    SumFunctionOnSet([r \in Rows |-> lines[r].cost], {r \in S : lines[r].kind = kind})

Posting(lines, S) ==
    [status |-> "posted", rows |-> S,
     consumed |-> Total(lines, S, "consumption"), received |-> Total(lines, S, "receipt")]

(* Rows are added to the ledger and stay as they are.                      *)
LedgerGrows == \A r \in Rows : ledger[r].kind # "free" => ledger'[r] = ledger[r]

Record == LedgerGrows /\ UNCHANGED <<journaled, book>>

(* An entry is made for rows without one, some of them added just now.     *)
Journal(e, S) ==
    /\ LedgerGrows
    /\ book[e].status = "free"
    /\ \A r \in S : ledger'[r].kind \in {"consumption", "receipt"} /\ journaled[r] = NoEntry
    /\ journaled' = [r \in Rows |-> IF r \in S THEN e ELSE journaled[r]]
    /\ book' = [book EXCEPT ![e] = Posting(ledger', S)]

(* Its rows wait for an entry again, and no others do.                     *)
Void(e) ==
    /\ book[e].status = "posted"
    /\ journaled' = [r \in Rows |-> IF r \in book[e].rows THEN NoEntry ELSE journaled[r]]
    /\ book' = [book EXCEPT ![e].status = "voided"]
    /\ UNCHANGED ledger

Next ==
    \/ Record
    \/ \E e \in Entries, S \in (SUBSET Rows) \ {{}} : Journal(e, S)
    \/ \E e \in Entries : Void(e)

Spec == Init /\ [][Next]_<<ledger, journaled, book>>

=============================================================================
