-------------------------------- MODULE Desk --------------------------------
(***************************************************************************)
(* What customers ask for and an admin decides: wallet applications, card  *)
(* applications, KYC submissions and support tickets.  Every one of them   *)
(* is checked on an unlocked read and then written by the ORM, together    *)
(* with what follows from it (a wallets row, users.kyc_status).            *)
(***************************************************************************)
EXTENDS Accounts

CONSTANTS Cases    \* ids of the rows of the four tables

ASSUME DeskAssumption == None \notin Cases

VARIABLES case,       \* the rows
          walletOf,   \* owners of a BTC wallets row (unique per user)
          kyc,        \* users.kyc_status
          file,       \* what each thread has read
          clash       \* history: <<user, kind>> two requests of which overlapped

deskVars == <<case, walletOf, kyc, file, clash>>

Kinds == {"wallet", "card", "kyc", "ticket"}
NoCase == [kind |-> "none", owner |-> None, status |-> "absent", frozen |-> FALSE]
NoFile == [stage |-> "idle", of |-> None, kind |-> "none", owner |-> None, status |-> "absent",
           kyc |-> "none"]

DeskInit ==
    /\ case = [a \in Cases |-> NoCase]
    /\ walletOf = {}
    /\ kyc = [u \in Users |-> "unverified"]
    /\ file = [r \in Threads |-> NoFile]
    /\ clash = {}

\* Another request about the same user and kind is under way.
Noted(u, k) == IF \E r \in Threads : file[r].owner = u /\ file[r].kind = k
               THEN clash \cup {<<u, k>>} ELSE clash

PendingOf(u, k) == {a \in Cases : case[a].owner = u /\ case[a].kind = k /\ case[a].status = "pending"}

\* Refused while one is pending, or when the wallet exists; a ticket is always
\* taken.
ApplyForWallet(u) == u \notin walletOf /\ PendingOf(u, "wallet") = {}
ApplyForCard(u) == PendingOf(u, "card") = {}
SubmitKyc(u) == PendingOf(u, "kyc") = {}

BeginApplication(r, u, k) ==
    /\ file[r].stage = "idle"
    /\ k = "wallet" => ApplyForWallet(u)
    /\ k = "card" => ApplyForCard(u)
    /\ k = "kyc" => SubmitKyc(u)
    /\ file' = [file EXCEPT ![r] = [NoFile EXCEPT !.stage = "apply", !.kind = k, !.owner = u, !.kyc = kyc[u]]]
    /\ clash' = Noted(u, k)
    /\ UNCHANGED <<case, walletOf, kyc>>

\* The ORM writes a column only if the session saw another value in it.
KycAfter(r, new) == IF file[r].kind = "kyc" /\ file[r].kyc # new
                    THEN [kyc EXCEPT ![file[r].owner] = new] ELSE kyc

WriteApplication(r, a) ==
    LET f == file[r]
    IN  /\ f.stage = "apply"
        /\ case[a].status = "absent"
        /\ case' = [case EXCEPT ![a] = [kind |-> f.kind, owner |-> f.owner, frozen |-> FALSE,
                                        status |-> IF f.kind = "ticket" THEN "open" ELSE "pending"]]
        /\ kyc' = KycAfter(r, "pending")
        /\ file' = [file EXCEPT ![r] = NoFile]
        /\ UNCHANGED <<walletOf, clash>>

\* Variant: an application is reviewed whatever its status.
ReviewableAgain(a) == case[a].status # "absent"

\* approve_* and reject_* refuse what is decided, reply what is closed.
Decidable(a) == case[a].status = "pending"
Answerable(a) == case[a].status \in {"open", "answered"}
Reviewable(a) == Decidable(a) \/ Answerable(a)

BeginReview(r, a) ==
    /\ file[r].stage = "idle"
    /\ Reviewable(a)
    /\ file' = [file EXCEPT ![r] = [stage |-> "review", of |-> a, kind |-> case[a].kind,
                                    owner |-> case[a].owner, status |-> case[a].status,
                                    kyc |-> kyc[case[a].owner]]]
    /\ clash' = Noted(case[a].owner, case[a].kind)
    /\ UNCHANGED <<case, walletOf, kyc>>

\* approve_wallet_application inserts a wallets row.
OpensWallet(f, verdict) == f.kind = "wallet" /\ verdict = "approved"

\* The decision and its consequence in one commit; a second wallet of a user is
\* an IntegrityError.  A second reply finds "answered" and writes no status.
WriteReview(r, verdict) ==
    LET f == file[r]
        opens == OpensWallet(f, verdict)
    IN  /\ f.stage = "review"
        /\ (verdict = "answered") <=> (f.kind = "ticket")
        /\ opens => f.owner \notin walletOf
        /\ case' = IF f.status = verdict THEN case ELSE [case EXCEPT ![f.of].status = verdict]
        /\ walletOf' = IF opens THEN walletOf \cup {f.owner} ELSE walletOf
        /\ kyc' = KycAfter(r, IF verdict = "approved" THEN "verified" ELSE "unverified")
        /\ file' = [file EXCEPT ![r] = NoFile]
        /\ UNCHANGED clash

\* close: unconditional.
CloseTicket(a) ==
    /\ case[a].kind = "ticket"
    /\ case' = [case EXCEPT ![a].status = "closed"]
    /\ UNCHANGED <<walletOf, kyc, file, clash>>

\* set_frozen: only an approved card; the flag is its own column.
BeginFreeze(r, a) ==
    /\ file[r].stage = "idle"
    /\ case[a].kind = "card" /\ case[a].status = "approved"
    /\ file' = [file EXCEPT ![r] = [NoFile EXCEPT !.stage = "freeze", !.of = a]]
    /\ UNCHANGED <<case, walletOf, kyc, clash>>

WriteFreeze(r, frozen) ==
    /\ file[r].stage = "freeze"
    /\ case' = [case EXCEPT ![file[r].of].frozen = frozen]
    /\ file' = [file EXCEPT ![r] = NoFile]
    /\ UNCHANGED <<walletOf, kyc, clash>>

\* The request ends without its commit.
AbortDesk(r) ==
    /\ file[r].stage # "idle"
    /\ file' = [file EXCEPT ![r] = NoFile]
    /\ UNCHANGED <<case, walletOf, kyc, clash>>

DeskActivity ==
    /\ \/ \E r \in Threads :
             \/ \E u \in Users, k \in Kinds : BeginApplication(r, u, k)
             \/ \E a \in Cases : WriteApplication(r, a) \/ BeginReview(r, a) \/ BeginFreeze(r, a)
             \/ \E v \in {"approved", "rejected", "answered"} : WriteReview(r, v)
             \/ \E on \in BOOLEAN : WriteFreeze(r, on)
             \/ AbortDesk(r)
       \/ \E a \in Cases : CloseTicket(a)
    /\ UNCHANGED accountsVars

DeskSpec == AccountsInit /\ DeskInit /\ [][DeskActivity]_<<accountsVars, deskVars>>

-----------------------------------------------------------------------------
(* Properties. *)

\* Types of the cases and of the requests in work.
DeskTypeOK ==
    /\ case \in [Cases -> [kind : Kinds \cup {"none"}, owner : Users \cup {None}, frozen : BOOLEAN,
                          status : {"absent", "pending", "approved", "rejected", "open", "answered", "closed"}]]
    /\ walletOf \subseteq Users
    /\ kyc \in [Users -> {"unverified", "pending", "verified"}]
    /\ \A r \in Threads : file[r].stage \in {"review", "freeze"} => file[r].of \in Cases

CasesOf(u, k, s) == {a \in Cases : case[a].owner = u /\ case[a].kind = k /\ case[a].status = s}

\* As long as no two requests about a user's wallet or KYC overlapped, what was
\* decided and what followed agree: a wallet exists exactly when an application
\* for it stands approved, nobody is verified without an approved submission,
\* and "pending" is shown exactly while one waits.  (Overlapping reviews may
\* leave a wallet whose application says "rejected".)
DecisionsAgree ==
    \A u \in Users :
        /\ <<u, "wallet">> \notin clash => (u \in walletOf <=> CasesOf(u, "wallet", "approved") # {})
        /\ <<u, "kyc">> \notin clash =>
               /\ kyc[u] = "verified" => CasesOf(u, "kyc", "approved") # {}
               /\ kyc[u] = "pending" <=> CasesOf(u, "kyc", "pending") # {}
=============================================================================
