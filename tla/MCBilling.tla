------------------------------ MODULE MCBilling -----------------------------
(***************************************************************************)
(* A small instance of Billing for TLC.                                    *)
(***************************************************************************)
EXTENDS Billing, TLC

(* Payments recorded, or being recorded, for an amount that is not         *)
(* positive.                                                               *)
Nonpositive ==
    {p \in Payments :
        \/ pay[p].status # "unused" /\ ~pay[p].refund /\ pay[p].amount <= 0
        \/ \E s \in Sessions : /\ session[s].pay = p /\ session[s].amount <= 0
                              /\ session[s].pc \in {"loaded", "numbered", "inserted"}}
Odd == Nonpositive \cup {p \in Payments : pay[p].patched}

(* Bound: one payment at most is not positive or has its status patched,   *)
(* and at most two handlers are under way.                                 *)
FewAtATime ==
    /\ Cardinality(Odd) <= 1
    /\ Nonpositive # {} => Cardinality(Existing) <= 1
    /\ Cardinality({s \in Sessions : session[s].pc # "idle"}) <= 2

(* Bound: the third payment or refund meets one invoice and none odd.      *)
ThirdPayment ==
    /\ Cardinality(Existing) <= 1
    /\ Odd = {}
    /\ \A s \in Sessions : session[s].pc \notin {"creating", "sending"}

SmallInstance ==
    /\ FewAtATime
    /\ Cardinality(FreshPayments) + 3 <= Cardinality(Payments) => ThirdPayment
=============================================================================
