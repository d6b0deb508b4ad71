--------------------------- MODULE ReferralsProofs ---------------------------
(***************************************************************************)
(* Proofs about Referrals: the reward row and its two deposits stay what   *)
(* they were inserted as, an invited customer brings one of them, and a    *)
(* bonus never earns another.                                              *)
(***************************************************************************)
EXTENDS Referrals, ApprovalsProofs, FiniteSetTheorems

ReferralOps == ApprovalOps \cup {"reward"}

-----------------------------------------------------------------------------
(* The inductive invariant. *)

\* A request that reaches the bonus step has approved its transaction.
BonusOfApproved ==
    \A r \in Threads :
        op[r] \in {"bonus", "reward"} => work[r] \in Txs /\ tx[work[r]].status = "approved"

\* What CheckBonus found still holds of the deposit when GrantBonus inserts:
\* not that nobody was rewarded for it meanwhile, the unique constraint does that.
StillQualifies ==
    \A r \in Threads :
        op[r] = "reward" =>
            /\ tx[work[r]].kind = "deposit"
            /\ tx[work[r]].amount >= MinFirstDeposit
            /\ Referrer[tx[work[r]].receiver] \in Users
            /\ work[r] \notin BonusTxs

ReferralsInv ==
    /\ Typed(ReferralOps)
    /\ rewards \subseteq Reward /\ IsFiniteSet(rewards)
    /\ Consecutive
    /\ BonusOfApproved
    /\ StillQualifies
    /\ RewardOnce
    /\ BonusEarnsNothing
    /\ RewardsIntact

-----------------------------------------------------------------------------
(* Lemmas. *)

LEMMA InitReferrals == ReferralsInit => ReferralsInv
<1> SUFFICES ASSUME ReferralsInit
             PROVE  ReferralsInv
  OBVIOUS
<1>1. ApprovalsInit /\ rewards = {} /\ op = [r \in Threads |-> "idle"]
  BY DEF ReferralsInit, ApprovalsInit, AccountsInit
<1>2. BonusTxs = {} /\ IsFiniteSet(rewards)
  BY <1>1, FS_EmptySet DEF BonusTxs
<1>3. Cardinality({}) = 0
  BY FS_EmptySet
<1> QED
  BY <1>1, <1>2, <1>3, InitTyped, InitConsecutive
     DEF ReferralsInv, BonusOfApproved, StillQualifies, RewardOnce, BonusEarnsNothing,
         RewardsIntact

\* Every reward names recorded rows.
LEMMA BonusRecorded ==
    ASSUME rewards \subseteq Reward, RewardsIntact
    PROVE  \A t \in BonusTxs : t \in Txs /\ tx[t].status # "absent"
<1> SUFFICES ASSUME NEW t \in BonusTxs
             PROVE  t \in Txs /\ tx[t].status # "absent"
  OBVIOUS
<1>1. PICK w \in rewards : t \in {w.forReferrer, w.forReferred}
  BY DEF BonusTxs
<1>2. w \in Reward
  OBVIOUS
<1> QED
  BY <1>1, <1>2 DEF RewardsIntact, Reward

\* A step that adds no reward keeps the invariant when the requests that have
\* qualified do.
LEMMA NoRewardKeepsInv ==
    ASSUME ReferralsInv, UNCHANGED rewards, Typed(ReferralOps)', Grows, InOrder,
           BonusOfApproved', StillQualifies'
    PROVE  ReferralsInv'
<1>1. Consecutive'
  BY InOrderConsecutive DEF ReferralsInv
<1>2. BonusTxs' = BonusTxs
  BY DEF BonusTxs
<1>3. \A t \in Txs : tx[t].status # "absent" =>
         /\ tx'[t].status # "absent" /\ tx'[t].kind = tx[t].kind
         /\ tx'[t].amount = tx[t].amount /\ tx'[t].receiver = tx[t].receiver
         /\ tx[t].status = "approved" => tx'[t].status = "approved"
  BY DEF Grows, ReferralsInv, Typed, TransactionsTypeOK, TxRow
<1>4. \A w \in rewards : w.qualifying \in Txs /\ w.forReferrer \in Txs /\ w.forReferred \in Txs
  BY DEF ReferralsInv, Reward
<1>5. RewardOnce'
  BY <1>3, <1>4 DEF ReferralsInv, RewardOnce
<1>6. BonusEarnsNothing'
  BY <1>2 DEF ReferralsInv, BonusEarnsNothing
<1>7. RewardsIntact'
  <2>1. Cardinality(BonusTxs') = 2 * Cardinality(rewards')
    BY <1>2 DEF ReferralsInv, RewardsIntact
  <2> QED
    BY <1>3, <1>4, <2>1 DEF ReferralsInv, RewardsIntact
<1> QED
  BY <1>1, <1>5, <1>6, <1>7 DEF ReferralsInv

LEMMA ActivityKeepsReferrals ==
    ASSUME ReferralsInv, UNCHANGED rewards,
           \/ ApprovalActivity \/ (\E r \in Threads : SkipBonus(r))
           \/ UNCHANGED allApprovalsVars
    PROVE  ReferralsInv'
<1>1. Typed(ReferralOps) /\ ApprovalOps \subseteq ReferralOps
  BY DEF ReferralsInv, ReferralOps
<1>2. Typed(ReferralOps)' /\ Grows
  BY <1>1, ActivityTyped
<1>3. InOrder /\ Proceeds
  BY <1>1, ActivityProceeds
<1>4. BonusOfApproved'
  BY <1>2, <1>3 DEF ReferralsInv, BonusOfApproved, Proceeds, Grows
<1>5. StillQualifies'
  <2> SUFFICES ASSUME NEW r \in Threads, op'[r] = "reward"
               PROVE  /\ tx'[work'[r]].kind = "deposit"
                      /\ tx'[work'[r]].amount >= MinFirstDeposit
                      /\ Referrer[tx'[work'[r]].receiver] \in Users
                      /\ work'[r] \notin BonusTxs'
    BY DEF StillQualifies
  <2>1. op[r] = "reward" /\ work'[r] = work[r]
    BY <1>3 DEF Proceeds
  <2>2. work[r] \in Txs /\ tx[work[r]].status = "approved"
    BY <2>1 DEF ReferralsInv, BonusOfApproved
  <2>3. /\ tx'[work[r]].kind = tx[work[r]].kind
        /\ tx'[work[r]].amount = tx[work[r]].amount
        /\ tx'[work[r]].receiver = tx[work[r]].receiver
    BY <1>1, <1>2, <2>2 DEF Grows, Typed, TransactionsTypeOK, TxRow
  <2>4. BonusTxs' = BonusTxs
    BY DEF BonusTxs
  <2> QED
    BY <2>1, <2>3, <2>4 DEF ReferralsInv, StillQualifies
<1> QED
  BY <1>2, <1>3, <1>4, <1>5, NoRewardKeepsInv

LEMMA CheckBonusKeepsReferrals ==
    ASSUME ReferralsInv, NEW r \in Threads, CheckBonus(r)
    PROVE  ReferralsInv'
<1>1. /\ op[r] = "bonus" /\ Qualifies(work[r]) /\ op' = [op EXCEPT ![r] = "reward"]
      /\ UNCHANGED <<balance, lock, who, view, want, tx, txLock, posted, work, scan, batch>>
      /\ UNCHANGED rewards
  BY DEF CheckBonus, approvalsVars
<1>2. Typed(ReferralOps)'
  BY <1>1 DEF ReferralsInv, Typed, AccountsTypeOK, TransactionsTypeOK, RowsWellFormed,
              WellFormed, Named, Assigned, ReferralOps
<1>3. Grows /\ InOrder
  BY <1>1, SameRowsGrow DEF ReferralsInv, Typed, InOrder
<1>4. work[r] \in Txs /\ tx[work[r]].status = "approved"
  BY <1>1 DEF ReferralsInv, BonusOfApproved
<1>5. op'[r] = "reward" /\ \A s \in Threads \ {r} : op'[s] = op[s]
  BY <1>1 DEF ReferralsInv, Typed, AccountsTypeOK
<1>6. BonusOfApproved'
  BY <1>1, <1>4, <1>5 DEF ReferralsInv, BonusOfApproved
<1>7. BonusTxs' = BonusTxs
  BY <1>1 DEF BonusTxs
<1>8. StillQualifies'
  <2>1. tx[work[r]].kind = "deposit" /\ tx[work[r]].receiver \in Users
    BY <1>1, <1>4 DEF Qualifies, ReferralsInv, Typed, RowsWellFormed, WellFormed
  <2>2. Referrer[tx[work[r]].receiver] \in Users
    BY <1>1, <2>1, ReferralsAssumption DEF Qualifies
  <2>3. tx[work[r]].amount >= MinFirstDeposit /\ work[r] \notin BonusTxs
    BY <1>1 DEF Qualifies, IsBonus
  <2> QED
    BY <1>1, <1>5, <1>7, <2>1, <2>2, <2>3 DEF ReferralsInv, StillQualifies
<1> QED
  BY <1>1, <1>2, <1>3, <1>6, <1>8, NoRewardKeepsInv

LEMMA BonusFailsKeepsReferrals ==
    ASSUME ReferralsInv, NEW r \in Threads, BonusFails(r)
    PROVE  ReferralsInv'
<1>1. RollBack(r) /\ Forget(r) /\ UNCHANGED rewards
  BY DEF BonusFails
<1>2. Typed(ReferralOps)' /\ Grows
  BY <1>1, EndingsTyped DEF ReferralsInv
<1>3. /\ op' = [op EXCEPT ![r] = "idle"] /\ work' = [work EXCEPT ![r] = None]
      /\ UNCHANGED tx
  BY <1>1 DEF RollBack, Forget, Finish
<1>4. op'[r] = "idle" /\ \A s \in Threads \ {r} : op'[s] = op[s] /\ work'[s] = work[s]
  BY <1>3 DEF ReferralsInv, Typed, AccountsTypeOK, TransactionsTypeOK
<1>5. InOrder /\ BonusTxs' = BonusTxs
  BY <1>1, <1>3 DEF InOrder, BonusTxs
<1>6. BonusOfApproved' /\ StillQualifies'
  BY <1>3, <1>4, <1>5 DEF ReferralsInv, BonusOfApproved, StillQualifies
<1> QED
  BY <1>1, <1>2, <1>5, <1>6, NoRewardKeepsInv

\* The step that inserts a reward: the two rows it takes were both absent.
LEMMA GrantRows ==
    ASSUME ReferralsInv, NEW r \in Threads, GrantBonus(r)
    PROVE  \E t \in Txs :
              LET referred == tx[work[r]].receiver
                  referrer == Referrer[referred]
              IN  /\ t + 1 \in Txs
                  /\ tx[t].status = "absent" /\ tx[t + 1].status = "absent"
                  /\ \A s \in Txs : s < t => tx[s].status # "absent"
                  /\ tx' = BonusRows(t, referrer, referred)
                  /\ tx'[t] = NewTx("deposit", Bonus, None, referrer)
                  /\ tx'[t + 1] = NewTx("deposit", Bonus, None, referred)
                  /\ \A s \in Txs \ {t, t + 1} : tx'[s] = tx[s]
                  /\ rewards' = rewards \cup
                        {[referrer |-> referrer, referred |-> referred,
                          qualifying |-> work[r],
                          forReferrer |-> t, forReferred |-> t + 1]}
<1> DEFINE referred == tx[work[r]].receiver
           referrer == Referrer[referred]
<1>1. PICK t \in Txs :
         /\ Fresh(t) /\ t + 1 \in Txs
         /\ tx' = BonusRows(t, referrer, referred)
         /\ rewards' = rewards \cup
               {[referrer |-> referrer, referred |-> referred, qualifying |-> work[r],
                 forReferrer |-> t, forReferred |-> t + 1]}
  BY DEF GrantBonus
<1>2. tx[t].status = "absent" /\ \A s \in Txs : s < t => tx[s].status # "absent"
  BY <1>1 DEF Fresh
<1>3. tx[t + 1].status = "absent"
  <2>1. t < t + 1
    BY DEF Txs
  <2> QED
    BY <1>1, <1>2, <2>1 DEF ReferralsInv, Consecutive
<1>4. t # t + 1
  BY DEF Txs
<1>5. /\ tx'[t] = NewTx("deposit", Bonus, None, referrer)
      /\ tx'[t + 1] = NewTx("deposit", Bonus, None, referred)
      /\ \A s \in Txs \ {t, t + 1} : tx'[s] = tx[s]
  BY <1>1, <1>4 DEF BonusRows, ReferralsInv, Typed, TransactionsTypeOK
<1> QED
  BY <1>1, <1>2, <1>3, <1>5

LEMMA GrantBonusKeepsReferrals ==
    ASSUME ReferralsInv, NEW r \in Threads, GrantBonus(r)
    PROVE  ReferralsInv'
<1> USE NoneIsNobody
<1> DEFINE referred == tx[work[r]].receiver
           referrer == Referrer[referred]
<1>1. PICK t \in Txs :
         /\ t + 1 \in Txs
         /\ tx[t].status = "absent" /\ tx[t + 1].status = "absent"
         /\ \A s \in Txs : s < t => tx[s].status # "absent"
         /\ tx'[t] = NewTx("deposit", Bonus, None, referrer)
         /\ tx'[t + 1] = NewTx("deposit", Bonus, None, referred)
         /\ \A s \in Txs \ {t, t + 1} : tx'[s] = tx[s]
         /\ tx' = BonusRows(t, referrer, referred)
         /\ rewards' = rewards \cup
               {[referrer |-> referrer, referred |-> referred, qualifying |-> work[r],
                 forReferrer |-> t, forReferred |-> t + 1]}
  BY GrantRows
<1> DEFINE new == [referrer |-> referrer, referred |-> referred, qualifying |-> work[r],
                   forReferrer |-> t, forReferred |-> t + 1]
<1>2. /\ op[r] = "reward" /\ ~Rewarded(referred)
      /\ Finish(r)
      /\ work' = [work EXCEPT ![r] = None]
      /\ UNCHANGED <<balance, txLock, posted, scan, batch>>
  BY DEF GrantBonus, UniqueReferred
<1>3. /\ work[r] \in Txs /\ tx[work[r]].status = "approved"
      /\ tx[work[r]].kind = "deposit" /\ tx[work[r]].amount >= MinFirstDeposit
      /\ referrer \in Users /\ work[r] \notin BonusTxs
  BY <1>2 DEF ReferralsInv, BonusOfApproved, StillQualifies
<1>4. referred \in Users
  BY <1>3 DEF ReferralsInv, Typed, RowsWellFormed, WellFormed
<1>5. new \in Reward
  BY <1>1, <1>3, <1>4 DEF Reward
<1>6. tx'[t] \in TxRow /\ tx'[t + 1] \in TxRow
      /\ WellFormed(tx'[t]) /\ WellFormed(tx'[t + 1])
      /\ tx'[t].status # "absent" /\ tx'[t + 1].status # "absent"
  BY SMTT(30), <1>1, <1>3, <1>4, ReferralsAssumption DEF NewTx, TxRow, Kinds, Statuses, WellFormed
<1>7. \A s \in Txs : tx[s].status # "absent" => tx'[s] = tx[s] /\ s # t /\ s # t + 1
  BY <1>1
<1>8. Grows
  BY <1>7 DEF Grows, ReferralsInv, Typed, TransactionsTypeOK, TxRow
<1>9. /\ op' = [op EXCEPT ![r] = "idle"] /\ who' = [who EXCEPT ![r] = None]
      /\ view' = [view EXCEPT ![r] = EmptyView] /\ want' = [want EXCEPT ![r] = None]
      /\ lock' = [u \in Users |-> IF lock[u] = r THEN None ELSE lock[u]]
  BY <1>2 DEF Finish, Released
<1>10. op'[r] = "idle" /\ \A s \in Threads \ {r} : op'[s] = op[s] /\ work'[s] = work[s]
  BY <1>2, <1>9 DEF ReferralsInv, Typed, AccountsTypeOK, TransactionsTypeOK
<1>11. Typed(ReferralOps)'
  <2>1. EmptyView \in [Users -> Int]
    BY DEF EmptyView, NotLoaded
  <2>2. AccountsTypeOK(ReferralOps)'
    BY <1>2, <1>9, <2>1 DEF ReferralsInv, Typed, AccountsTypeOK
  <2>3. tx' \in [Txs -> TxRow]
    BY <1>1, <1>6 DEF BonusRows, ReferralsInv, Typed, TransactionsTypeOK
  <2>4. TransactionsTypeOK'
    BY <1>2, <2>3 DEF ReferralsInv, Typed, TransactionsTypeOK
  <2>5. OthersServe(r)
    BY <1>9, <1>10 DEF OthersServe, ReferralsInv, Typed, AccountsTypeOK
  <2>6. \A s \in Txs : tx[s].status = "absent" => tx'[s] = tx[s] \/ WellFormed(tx'[s])
    BY <1>1, <1>6
  <2> QED
    BY <1>8, <1>10, <2>2, <2>4, <2>5, <2>6, ThreadStepTyped DEF ReferralsInv
<1>12. Consecutive'
  <2> SUFFICES ASSUME NEW q \in Txs, NEW s \in Txs, s < q, tx'[q].status # "absent"
               PROVE  tx'[s].status # "absent"
    BY DEF Consecutive
  <2>1. CASE q \in {t, t + 1}
    <3>1. s < t \/ s = t
      BY <2>1 DEF Txs
    <3> QED
      BY <1>1, <1>6, <1>7, <3>1
  <2>2. CASE q \notin {t, t + 1}
    <3>1. tx[s].status # "absent"
      BY <1>1, <2>2 DEF ReferralsInv, Consecutive
    <3> QED
      BY <1>7, <3>1
  <2> QED
    BY <2>1, <2>2
<1>13. BonusTxs' = BonusTxs \cup {t, t + 1}
  <2>1. rewards' = rewards \cup {new} /\ new.forReferrer = t /\ new.forReferred = t + 1
    BY <1>1
  <2> HIDE DEF new
  <2>2. BonusTxs' = UNION {{w.forReferrer, w.forReferred} : w \in rewards \cup {new}}
    BY <2>1 DEF BonusTxs
  <2>3. @ = BonusTxs \cup {new.forReferrer, new.forReferred}
    BY DEF BonusTxs
  <2> QED
    BY <2>1, <2>2, <2>3
<1>14. \A s \in BonusTxs : s \in Txs /\ tx[s].status # "absent"
  BY BonusRecorded DEF ReferralsInv
<1>15. t \notin BonusTxs /\ t + 1 \notin BonusTxs
  BY <1>1, <1>14
<1>16. new \notin rewards /\ \A w \in rewards : w.referred # referred
  BY <1>2 DEF Rewarded
<1>17. rewards' \subseteq Reward /\ IsFiniteSet(rewards')
       /\ Cardinality(rewards') = Cardinality(rewards) + 1 /\ Cardinality(rewards) \in Nat
  BY <1>1, <1>5, <1>16, FS_AddElement, FS_CardinalityType DEF ReferralsInv
<1>18. BonusOfApproved'
  BY <1>8, <1>10 DEF ReferralsInv, BonusOfApproved, Grows
<1>19. StillQualifies'
  <2> SUFFICES ASSUME NEW s \in Threads, op'[s] = "reward"
               PROVE  /\ tx'[work'[s]].kind = "deposit"
                      /\ tx'[work'[s]].amount >= MinFirstDeposit
                      /\ Referrer[tx'[work'[s]].receiver] \in Users
                      /\ work'[s] \notin BonusTxs'
    BY DEF StillQualifies
  <2>1. op[s] = "reward" /\ work'[s] = work[s]
    BY <1>10
  <2>2. work[s] \in Txs /\ tx[work[s]].status # "absent"
    BY <2>1 DEF ReferralsInv, BonusOfApproved
  <2>3. tx'[work[s]] = tx[work[s]] /\ work[s] \notin {t, t + 1}
    BY <1>7, <2>2
  <2> QED
    BY <1>13, <2>1, <2>3 DEF ReferralsInv, StillQualifies
<1>20. \A w \in rewards : /\ w \in Reward /\ w.qualifying \in Txs
                          /\ w.forReferrer \in Txs /\ w.forReferred \in Txs
                          /\ tx[w.qualifying].status # "absent"
                          /\ tx[w.forReferrer].status # "absent"
                          /\ tx[w.forReferred].status # "absent"
  BY DEF ReferralsInv, Reward, RewardOnce, RewardsIntact
<1>21. /\ new.referrer = referrer /\ new.referred = referred /\ new.qualifying = work[r]
       /\ new.forReferrer = t /\ new.forReferred = t + 1
  OBVIOUS
<1>22. RewardOnce'
  <2>1. \A v, w \in rewards' : v.referred = w.referred => v = w
    <3>1. \A v, w \in rewards : v.referred = w.referred => v = w
      BY DEF ReferralsInv, RewardOnce
    <3>2. \A v \in rewards' : v \in rewards \/ v = new
      BY <1>1
    <3>3. \A w \in rewards : w.referred # new.referred
      BY <1>16, <1>21
    <3> HIDE DEF new
    <3> QED
      BY <3>1, <3>2, <3>3
  <2>2. \A w \in rewards' : /\ tx'[w.qualifying].status = "approved"
                            /\ tx'[w.qualifying].receiver = w.referred
                            /\ tx'[w.qualifying].amount >= MinFirstDeposit
    <3> SUFFICES ASSUME NEW w \in rewards'
                 PROVE  /\ tx'[w.qualifying].status = "approved"
                        /\ tx'[w.qualifying].receiver = w.referred
                        /\ tx'[w.qualifying].amount >= MinFirstDeposit
      OBVIOUS
    <3>1. CASE w \in rewards
      BY <1>7, <1>20, <3>1 DEF ReferralsInv, RewardOnce
    <3>2. CASE w = new
      BY <1>3, <1>7, <1>21, <3>2
    <3> QED
      BY <1>1, <3>1, <3>2
  <2> QED
    BY <2>1, <2>2 DEF RewardOnce
<1>23. BonusEarnsNothing'
  <2> SUFFICES ASSUME NEW w \in rewards'
               PROVE  w.qualifying \notin BonusTxs \cup {t, t + 1}
    BY <1>13 DEF BonusEarnsNothing
  <2>1. CASE w \in rewards
    BY <1>7, <1>20, <2>1 DEF ReferralsInv, BonusEarnsNothing
  <2>2. CASE w = new
    BY <1>3, <1>7, <1>21, <2>2
  <2> QED
    BY <1>1, <2>1, <2>2
<1>24. RewardsIntact'
  <2>1. \A w \in rewards' :
           /\ \A q \in {w.forReferrer, w.forReferred} :
                 tx'[q].status # "absent" /\ tx'[q].kind = "deposit" /\ tx'[q].amount = Bonus
           /\ tx'[w.forReferrer].receiver = w.referrer
           /\ tx'[w.forReferred].receiver = w.referred
    <3> SUFFICES ASSUME NEW w \in rewards'
                 PROVE
           /\ \A q \in {w.forReferrer, w.forReferred} :
                 tx'[q].status # "absent" /\ tx'[q].kind = "deposit" /\ tx'[q].amount = Bonus
           /\ tx'[w.forReferrer].receiver = w.referrer
           /\ tx'[w.forReferred].receiver = w.referred
      OBVIOUS
    <3>1. CASE w \in rewards
      <4>1. tx'[w.forReferrer] = tx[w.forReferrer] /\ tx'[w.forReferred] = tx[w.forReferred]
        BY <1>7, <1>20, <3>1
      <4> QED
        BY <3>1, <4>1 DEF ReferralsInv, RewardsIntact
    <3>2. CASE w = new
      <4>1. \A q \in {t, t + 1} :
               tx'[q].status # "absent" /\ tx'[q].kind = "deposit" /\ tx'[q].amount = Bonus
        <5>1. \A sender, receiver :
                 LET x == NewTx("deposit", Bonus, sender, receiver)
                 IN  x.status # "absent" /\ x.kind = "deposit" /\ x.amount = Bonus
          BY DEF NewTx
        <5>2. \A q \in {t, t + 1} : \E receiver : tx'[q] = NewTx("deposit", Bonus, None, receiver)
          BY <1>1
        <5> QED
          BY <5>1, <5>2
      <4>2. tx'[t].receiver = referrer /\ tx'[t + 1].receiver = referred
        BY <1>1 DEF NewTx
      <4>3. /\ w.referrer = referrer /\ w.referred = referred
            /\ w.forReferrer = t /\ w.forReferred = t + 1
        BY <1>21, <3>2
      <4> HIDE DEF referrer, referred, new
      <4> QED
        BY <4>1, <4>2, <4>3
    <3> QED
      BY <1>1, <3>1, <3>2
  <2>2. Cardinality(BonusTxs') = 2 * Cardinality(rewards')
    <3>1. IsFiniteSet(BonusTxs)
      <4>1. IsFiniteSet(Txs)
        BY ApprovalsAssumption, FS_Interval DEF Txs
      <4> QED
        BY <1>14, <4>1, FS_Subset
    <3> DEFINE B1 == BonusTxs \cup {t}
    <3>2. IsFiniteSet(B1) /\ Cardinality(B1) = Cardinality(BonusTxs) + 1
      BY <1>15, <3>1, FS_AddElement
    <3>3. t + 1 \notin B1 /\ BonusTxs' = B1 \cup {t + 1}
      BY <1>13, <1>15 DEF Txs
    <3> HIDE DEF B1
    <3>4. Cardinality(BonusTxs') = Cardinality(B1) + 1
      BY <3>2, <3>3, FS_AddElement
    <3>5. Cardinality(BonusTxs) = 2 * Cardinality(rewards)
      BY DEF ReferralsInv, RewardsIntact
    <3> QED
      BY <1>17, <3>2, <3>4, <3>5
  <2> QED
    BY <2>1, <2>2 DEF RewardsIntact
<1> QED
  BY <1>11, <1>12, <1>17, <1>18, <1>19, <1>22, <1>23, <1>24 DEF ReferralsInv

LEMMA ReferralsStep == ReferralsInv /\ [ReferralsNext]_referralsVars => ReferralsInv'
<1> SUFFICES ASSUME ReferralsInv, [ReferralsNext]_referralsVars
             PROVE  ReferralsInv'
  OBVIOUS
<1>1. CASE ApprovalActivity /\ UNCHANGED rewards
  BY <1>1, ActivityKeepsReferrals
<1>2. ASSUME NEW r \in Threads, CheckBonus(r) \/ GrantBonus(r) \/ BonusFails(r)
      PROVE  ReferralsInv'
  BY <1>2, CheckBonusKeepsReferrals, GrantBonusKeepsReferrals, BonusFailsKeepsReferrals
<1>3. ASSUME NEW r \in Threads, NoBonus(r)
      PROVE  ReferralsInv'
  <2>1. SkipBonus(r) /\ UNCHANGED rewards
    BY <1>3 DEF NoBonus
  <2> QED
    BY <2>1, ActivityKeepsReferrals
<1>4. CASE UNCHANGED referralsVars
  BY <1>4, ActivityKeepsReferrals DEF referralsVars
<1> QED
  BY <1>1, <1>2, <1>3, <1>4 DEF ReferralsNext

LEMMA ReferralsInvariance == ReferralsSpec => []ReferralsInv
BY InitReferrals, ReferralsStep, PTL DEF ReferralsSpec

-----------------------------------------------------------------------------
(* The theorems. *)

\* Every variable keeps its type, the rewards table among them.
THEOREM ReferralsTypeCorrect == ReferralsSpec => []ReferralsTypeOK
<1>1. ReferralsInv => ReferralsTypeOK
  BY DEF ReferralsInv, ReferralsTypeOK, Typed, ReferralOps
<1> QED
  BY <1>1, ReferralsInvariance, PTL

\* An invited customer brings one reward, for an approved deposit of theirs of
\* at least the minimum, however many requests of theirs pass the checks of
\* on_deposit_approved together.
THEOREM OneRewardEach == ReferralsSpec => []RewardOnce
<1>1. ReferralsInv => RewardOnce
  BY DEF ReferralsInv
<1> QED
  BY <1>1, ReferralsInvariance, PTL

\* A deposit that is itself a bonus never earns one, whatever the amounts and
\* however long the chain of invitations: _bonus_transaction_ids was read before
\* the insert, but a bonus row is only ever a row of its own commit.
THEOREM NoBonusOnBonus == ReferralsSpec => []BonusEarnsNothing
<1>1. ReferralsInv => BonusEarnsNothing
  BY DEF ReferralsInv
<1> QED
  BY <1>1, ReferralsInvariance, PTL

\* Every reward has its two deposits, of the bonus amount and to its two people,
\* and shares them with no other.
THEOREM RewardsComplete == ReferralsSpec => []RewardsIntact
<1>1. ReferralsInv => RewardsIntact
  BY DEF ReferralsInv
<1> QED
  BY <1>1, ReferralsInvariance, PTL
=============================================================================
