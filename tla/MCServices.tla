----------------------------- MODULE MCServices -----------------------------
(* Five components that share nothing but the users: each behaviour picks   *)
(* one of them at the start, so that one run explores all of them.          *)
EXTENDS StroWallet, SavedPayments, Paystack, BtcWallets, Desk, TLC

VARIABLE focus    \* the component that acts

MCOpening == [u \in Users |-> 0]
MCBtcAmounts == {1, -1}
MCWallets == [u \in Users |-> IF u = 1 THEN None ELSE 1]

servicesVars == <<accountsVars, stroVars, savedVars, paystackVars, btcVars, deskVars, focus>>

ServicesInit ==
    /\ AccountsInit /\ StroInit /\ SavedInit /\ PaystackInit /\ BtcInit /\ DeskInit
    /\ focus \in {"stro", "saved", "paystack", "btc", "desk"}
    /\ focus # "stro" => real = {}

ServicesNext ==
    /\ UNCHANGED focus
    /\ \/ focus = "stro" /\ StroActivity /\ UNCHANGED <<savedVars, paystackVars, btcVars, deskVars>>
       \/ focus = "saved" /\ SavedActivity /\ UNCHANGED <<stroVars, paystackVars, btcVars, deskVars>>
       \/ focus = "paystack" /\ PaystackActivity /\ UNCHANGED <<stroVars, savedVars, btcVars, deskVars>>
       \/ focus = "btc" /\ BtcActivity /\ UNCHANGED <<stroVars, savedVars, paystackVars, deskVars>>
       \/ focus = "desk" /\ DeskActivity /\ UNCHANGED <<stroVars, savedVars, paystackVars, btcVars>>

ServicesSpec == ServicesInit /\ [][ServicesNext]_servicesVars

\* Types of all of them, and that no row lock outlives the work it protects.
ServicesTypeOK ==
    /\ AccountsTypeOK(StroOps \cup {"btc"})
    /\ StroTypeOK /\ SavedTypeOK /\ PaystackTypeOK /\ BtcTypeOK /\ DeskTypeOK

\* Bound: the desk's cases are one customer's and of one kind, because kinds and
\* customers do not meet there.
OneDesk ==
    /\ \A r \in Threads : file[r].owner \in Customers \cup {None}
    /\ Cardinality({case[a].kind : a \in Cases} \cup {file[r].kind : r \in Threads}) <= 2

\* Bound: one BTC submission at a time, beside any approval.  Two submissions
\* share nothing but the rate, which changes at any moment all the same.
OneSubmission == Cardinality({r \in Threads : deal[r].stage \in {"quote", "insert"}}) <= 1

\* Worker threads, account numbers and transactions are interchangeable.
Interchangeable == Permutations(Threads) \cup Permutations(Numbers) \cup Permutations(BtcTxs)
=============================================================================
