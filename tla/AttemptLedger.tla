----------------------------- MODULE AttemptLedger -----------------------------
(* What the claim protocol promises to whoever reads the attempt history, with *)
(* no word of leases, clocks, budgets or requests: each delivery has a ledger   *)
(* of numbered attempts that is only ever appended to. Attempts follow one      *)
(* another, none follows one the provider accepted, and one that follows an     *)
(* unknown outcome carries a reviewer's confirmation.                           *)
EXTENDS Naturals

CONSTANTS Deliveries, Numbers

VARIABLES ledger, confirmed

Final == {"provider_accepted", "failed", "unknown"}

Init ==
    /\ ledger = [d \in Deliveries |-> [n \in Numbers |-> "none"]]
    /\ confirmed = [d \in Deliveries |-> [n \in Numbers |-> FALSE]]

Begin(d, n, c) ==
    /\ ledger[d][n] = "none"
    /\ \A m \in Numbers : m < n => ledger[d][m] \in {"failed", "unknown"}
    /\ \A m \in Numbers : m + 1 = n /\ ledger[d][m] = "unknown" => c
    /\ ledger' = [ledger EXCEPT ![d][n] = "open"]
    /\ confirmed' = [confirmed EXCEPT ![d][n] = c]

End(d, n, outcome) ==
    /\ ledger[d][n] = "open"
    /\ ledger' = [ledger EXCEPT ![d][n] = outcome]
    /\ UNCHANGED confirmed

Next ==
    \E d \in Deliveries, n \in Numbers :
        IF ledger[d][n] = "none"
        THEN \E c \in BOOLEAN : Begin(d, n, c)
        ELSE \E outcome \in Final : End(d, n, outcome)

Spec == Init /\ [][Next]_<<ledger, confirmed>>
================================================================================
