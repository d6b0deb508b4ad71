----------------------------- MODULE Referrals ------------------------------
(***************************************************************************)
(* Referral bonuses.  After an approval is committed, the same request     *)
(* checks whether it was the qualifying deposit of an invited customer and *)
(* then inserts the reward with its two pending bonus deposits, one for    *)
(* each side, in a second commit of its own.                               *)
(***************************************************************************)
EXTENDS Approvals

CONSTANTS Referrer,         \* users.referred_by_user_id
          Bonus,            \* REFERRAL_BONUS_AMOUNT
          MinFirstDeposit,  \* REFERRAL_MIN_FIRST_DEPOSIT
          MaxRewards        \* REFERRAL_MAX_REWARDS_PER_USER

ASSUME ReferralsAssumption ==
    /\ Referrer \in [Users -> Users \cup {None}]
    /\ Bonus \in Nat
    /\ MinFirstDeposit \in Nat
    /\ MaxRewards \in Nat

VARIABLE rewards    \* the referral_rewards table

Reward == [referrer : Users, referred : Users, qualifying : Txs,
           forReferrer : Txs, forReferred : Txs]

ReferralsInit == ApprovalsInit /\ rewards = {}

BonusTxs == UNION {{w.forReferrer, w.forReferred} : w \in rewards}

RewardsOf(u) == {w \in rewards : w.referrer = u}

\* Variant: only the invited customer's bonus is known to be one.
IsBonusOfReferred(t) == \E w \in rewards : t = w.forReferred

\* _bonus_transaction_ids
IsBonus(t) == t \in BonusTxs

Rewarded(u) == \E w \in rewards : w.referred = u

\* The checks of on_deposit_approved, all made before the insert.
Qualifies(t) ==
    LET u == tx[t].receiver
    IN  /\ tx[t].kind = "deposit"
        /\ Referrer[u] \notin {None, u}
        /\ tx[t].amount >= MinFirstDeposit
        /\ ~IsBonus(t)
        /\ ~Rewarded(u)
        /\ Cardinality(RewardsOf(Referrer[u])) < MaxRewards
        /\ Bonus > 0

CheckBonus(r) ==
    /\ op[r] = "bonus"
    /\ Qualifies(work[r])
    /\ op' = [op EXCEPT ![r] = "reward"]
    /\ UNCHANGED <<balance, lock, who, view, want, approvalsVars, rewards>>

NoBonus(r) ==
    /\ op[r] = "bonus"
    /\ ~Qualifies(work[r])
    /\ SkipBonus(r)
    /\ UNCHANGED rewards

\* Variant: no unique constraint on referred_id.
AnyReferred(u) == TRUE

\* The unique constraint on referred_id.
UniqueReferred(u) == ~Rewarded(u)

\* Variant: the two deposits go to each other's receiver.
BonusRowsSwapped(t, referrer, referred) ==
    [tx EXCEPT ![t] = NewTx("deposit", Bonus, None, referred),
               ![t + 1] = NewTx("deposit", Bonus, None, referrer)]

BonusRows(t, referrer, referred) ==
    [tx EXCEPT ![t] = NewTx("deposit", Bonus, None, referrer),
               ![t + 1] = NewTx("deposit", Bonus, None, referred)]

\* The reward row and both bonus deposits, in one commit.
GrantBonus(r) ==
    LET referred == tx[work[r]].receiver
        referrer == Referrer[referred]
    IN  /\ op[r] = "reward"
        /\ UniqueReferred(referred)
        /\ \E t \in Txs :
              /\ Fresh(t)
              /\ t + 1 \in Txs
              /\ tx' = BonusRows(t, referrer, referred)
              /\ rewards' = rewards \cup
                    {[referrer |-> referrer, referred |-> referred,
                      qualifying |-> work[r],
                      forReferrer |-> t, forReferred |-> t + 1]}
        /\ Finish(r)
        /\ work' = [work EXCEPT ![r] = None]
        /\ UNCHANGED <<balance, txLock, posted, scan, batch>>

\* The unique referred_id refuses the row, or anything else goes wrong: the
\* bonus step is rolled back and the approval stands.
BonusFails(r) ==
    /\ op[r] = "reward"
    /\ RollBack(r)
    /\ Forget(r)
    /\ UNCHANGED rewards

ReferralsNext ==
    \/ ApprovalActivity /\ UNCHANGED rewards
    \/ \E r \in Threads :
          CheckBonus(r) \/ NoBonus(r) \/ GrantBonus(r) \/ BonusFails(r)

referralsVars == <<allApprovalsVars, rewards>>

ReferralsSpec == ReferralsInit /\ [][ReferralsNext]_referralsVars

-----------------------------------------------------------------------------
\* Every variable has its type.
ReferralsTypeOK ==
    /\ AccountsTypeOK(ApprovalOps \cup {"reward"})
    /\ TransactionsTypeOK
    /\ rewards \subseteq Reward

\* An invited customer brings one reward, earned by an approved deposit of
\* theirs that is large enough, however many of their deposits are approved at
\* once.
RewardOnce ==
    /\ \A v, w \in rewards : v.referred = w.referred => v = w
    /\ \A w \in rewards :
          /\ tx[w.qualifying].status = "approved"
          /\ tx[w.qualifying].receiver = w.referred
          /\ tx[w.qualifying].amount >= MinFirstDeposit

\* A bonus is never what earns a reward, even along a chain of invitations
\* where the bonus is large enough to qualify.
BonusEarnsNothing == \A w \in rewards : w.qualifying \notin BonusTxs

\* A reward always comes with its two deposits, of the bonus amount and to the
\* two people, and no deposit pays for two rewards or both sides.
RewardsIntact ==
    /\ \A w \in rewards :
          /\ \A t \in {w.forReferrer, w.forReferred} :
                tx[t].status # "absent" /\ tx[t].kind = "deposit" /\ tx[t].amount = Bonus
          /\ tx[w.forReferrer].receiver = w.referrer
          /\ tx[w.forReferred].receiver = w.referred
    /\ Cardinality(BonusTxs) = 2 * Cardinality(rewards)
=============================================================================
