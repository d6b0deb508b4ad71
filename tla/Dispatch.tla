------------------------------ MODULE Dispatch ------------------------------
(***************************************************************************)
(* What the scheduler promises of each due time, whoever runs it and       *)
(* whatever fails: it is taken at most once, at most one transfer is made  *)
(* of it, and only after it was taken; a due time reported as created has  *)
(* its transfer, and a report is final.                                    *)
(***************************************************************************)
EXTENDS Naturals

CONSTANT Jobs          \* the due times: one per schedule and day

VARIABLES state,       \* open, taken, created or failed
          sent         \* how many transfers were made of it

Init == state = [j \in Jobs |-> "open"] /\ sent = [j \in Jobs |-> 0]

Take(j) ==
    /\ state[j] = "open"
    /\ state' = [state EXCEPT ![j] = "taken"]
    /\ UNCHANGED sent

Send(j) ==
    /\ state[j] = "taken"
    /\ sent[j] = 0
    /\ sent' = [sent EXCEPT ![j] = 1]
    /\ UNCHANGED state

Report(j, outcome) ==
    /\ state[j] = "taken"
    /\ outcome = "created" => sent[j] = 1
    /\ state' = [state EXCEPT ![j] = outcome]
    /\ UNCHANGED sent

Next == \E j \in Jobs :
    \/ Take(j)
    \/ Send(j)
    \/ \E outcome \in {"created", "failed"} : Report(j, outcome)

Spec == Init /\ [][Next]_<<state, sent>>
=============================================================================
