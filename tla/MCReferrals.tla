---------------------------- MODULE MCReferrals -----------------------------
(* A chain of invitations: the admin, user 1, invited 2, and 2 invited 3.    *)
EXTENDS Referrals, TLC

MCOpening == [u \in Users |-> 0]
ChainReferrer == [u \in Users |-> IF u = 1 THEN None ELSE u - 1]

\* Bound: only the last one invited asks for anything, and only for deposits.
Newcomer == 3
NewcomerDeposits ==
    /\ \A r \in Threads : op[r] = "submit" => who[r] = Newcomer
    /\ \A t \in Txs : tx[t].kind = "deposit"

\* Worker threads are interchangeable.
ThreadSymmetry == Permutations(Threads)
=============================================================================
