----------------------------- MODULE Settlement -----------------------------
(***************************************************************************)
(* What the approval of transactions promises the bank's customers, with   *)
(* no threads, sessions or locks: a submitted transaction is decided once, *)
(* by an approval that moves its amount in the same step, or by a          *)
(* rejection that moves nothing.  It is the specification                  *)
(* Approvals implements.                                                   *)
(***************************************************************************)
EXTENDS Integers

CONSTANTS Txs, Customers, OpeningBalance, InitialStatus

VARIABLES bal,        \* balance of each customer
          status,     \* "absent", "pending", "approved", "rejected"
          effect      \* what the approval of a transaction adds to each customer

settlementVars == <<bal, status, effect>>

Init ==
    /\ bal = OpeningBalance
    /\ status = InitialStatus
    /\ effect \in [Txs -> [Customers -> Int]]

\* A request is recorded; what it will do is fixed from then on.
Submit(t) ==
    /\ status[t] = "absent"
    /\ status' = [status EXCEPT ![t] = "pending"]
    /\ effect'[t] \in [Customers -> Int]
    /\ effect' = [effect EXCEPT ![t] = effect'[t]]
    /\ UNCHANGED bal

\* Money moves only here, all of it at once, and never below zero.
Approve(t) ==
    /\ status[t] = "pending"
    /\ \A u \in Customers : effect[t][u] < 0 => bal[u] + effect[t][u] >= 0
    /\ bal' = [u \in Customers |-> bal[u] + effect[t][u]]
    /\ status' = [status EXCEPT ![t] = "approved"]
    /\ UNCHANGED effect

Reject(t) ==
    /\ status[t] = "pending"
    /\ status' = [status EXCEPT ![t] = "rejected"]
    /\ UNCHANGED <<bal, effect>>

Next == \E t \in Txs : Submit(t) \/ Approve(t) \/ Reject(t)

Spec == Init /\ [][Next]_settlementVars
=============================================================================
