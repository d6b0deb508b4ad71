-------------------------- MODULE SchedulerProofs ---------------------------
(***************************************************************************)
(* What the scheduler promises of each due time (module Dispatch) holds    *)
(* for any number of schedules, passes and deaths, and for any calendar.   *)
(*                                                                         *)
(* The claim is the one gate: the pass that gets through it is the only    *)
(* one that ever has the due time in hand.  This, and that a claim left    *)
(* behind is the trace of a death, does not depend on where next_run_at    *)
(* moves: a pass may list any pair of a schedule and a day.                *)
(*                                                                         *)
(* That the rows stay well-typed and monthly schedules on their anchor     *)
(* does: NextFuture is a recursion over days, shown to have a solution     *)
(* because Advance only goes forward, and to end on the anchor because     *)
(* Advance does (both by a least counterexample).                          *)
(***************************************************************************)
EXTENDS Scheduler, SumProofs, TLAPS

Outcomes == {"created", "failed"}

\* The run rows, the transfers and the fields of a pass.
DispatchTyped ==
    /\ runs \in [Keys -> {"none", "claimed"} \cup Outcomes]
    /\ sent \in [Keys -> Nat]
    /\ DOMAIN pass = Runners
    /\ \A r \in Runners : /\ DOMAIN pass[r] = {"stage", "at", "todo", "key", "got"}
                          /\ pass[r].stage = "record" => pass[r].got \in Outcomes

\* The pass has a claimed due time in hand.
Holds(r, k) == pass[r].stage \in {"send", "record"} /\ pass[r].key = k

\* A due time in hand is claimed, is one pass's, and has no transfer before the
\* pass made it; one nobody claimed has none.
InHand ==
    /\ \A k \in Keys : runs[k] = "none" => sent[k] = 0
    /\ \A r \in Runners, k \in Keys : Holds(r, k) =>
          /\ runs[k] = "claimed"
          /\ pass[r].stage = "send" => sent[k] = 0
          /\ pass[r].stage = "record" /\ pass[r].got = "created" => sent[k] = 1
    /\ \A q, r \in Runners, k \in Keys : Holds(q, k) /\ Holds(r, k) => q = r

DispatchInv == DispatchTyped /\ InHand

\* The state of module Dispatch, read off the run rows.
RunState == [k \in Keys |-> IF runs[k] = "none" THEN "open"
                            ELSE IF runs[k] = "claimed" THEN "taken" ELSE runs[k]]

LEMMA DispatchInitInv == SchedulerInit => DispatchInv
BY DEF SchedulerInit, DispatchInv, DispatchTyped, InHand, Holds, IdlePass, Outcomes

\* A step that leaves a runner with nothing in hand, and the rest as it was.
LEMMA HandsEmptied ==
    ASSUME DispatchInv, NEW r \in Runners, UNCHANGED <<runs, sent>>,
           DOMAIN pass' = Runners,
           DOMAIN pass'[r] = {"stage", "at", "todo", "key", "got"},
           pass'[r].stage \in {"idle", "pass"},
           \A q \in Runners \ {r} : pass'[q] = pass[q]
    PROVE  DispatchInv'
BY DEF DispatchInv, DispatchTyped, InHand, Holds

\* A pair that is no due time of the table is nowhere written.
LEMMA WriteOutside ==
    ASSUME NEW S, NEW T, NEW f \in [S -> T], NEW k, k \notin S, NEW v
    PROVE  [f EXCEPT ![k] = v] = f
OBVIOUS

LEMMA ClaimKeeps ==
    ASSUME DispatchInv, NEW r \in Runners, NEW k, Claim(r, k)
    PROVE  /\ DispatchInv'
           /\ k \in Keys => TheDispatch!Take(k)
           /\ k \notin Keys => UNCHANGED <<runs, sent>>
<1>1. runs[k] = "none" /\ runs' = [runs EXCEPT ![k] = "claimed"] /\ UNCHANGED sent
  BY DEF Claim, Claimable
<1>2. /\ DOMAIN pass' = Runners
      /\ DOMAIN pass'[r] = {"stage", "at", "todo", "key", "got"}
      /\ pass'[r].stage = "send" /\ pass'[r].key = k
      /\ \A q \in Runners \ {r} : pass'[q] = pass[q]
  BY DEF Claim, DispatchInv, DispatchTyped
<1>3. k \notin Keys => UNCHANGED <<runs, sent>>
  BY <1>1 DEF DispatchInv, DispatchTyped
<1>4. DispatchTyped'
  BY <1>1, <1>2 DEF DispatchInv, DispatchTyped
<1>5. InHand'
  BY <1>1, <1>2 DEF DispatchInv, DispatchTyped, InHand, Holds
<1>6. k \in Keys => TheDispatch!Take(k)
  BY <1>1 DEF DispatchInv, DispatchTyped, TheDispatch!Take
<1> QED
  BY <1>3, <1>4, <1>5, <1>6 DEF DispatchInv

LEMMA SendKeeps ==
    ASSUME DispatchInv, NEW r \in Runners, NEW made \in BOOLEAN, NEW got \in Outcomes,
           SendTransfer(r, made, got)
    PROVE  /\ DispatchInv'
           /\ \/ UNCHANGED <<runs, sent>>
              \/ pass[r].key \in Keys /\ TheDispatch!Send(pass[r].key)
<1> DEFINE k == pass[r].key
<1>1. /\ Holds(r, k) /\ pass[r].stage = "send"
      /\ sent' = IF made THEN [sent EXCEPT ![k] = @ + 1] ELSE sent
      /\ got = "created" => made
      /\ UNCHANGED runs
  BY DEF SendTransfer, Holds
<1>2. /\ DOMAIN pass' = Runners
      /\ DOMAIN pass'[r] = {"stage", "at", "todo", "key", "got"}
      /\ pass'[r].stage = "record" /\ pass'[r].key = k /\ pass'[r].got = got
      /\ \A q \in Runners \ {r} : pass'[q] = pass[q]
  BY DEF SendTransfer, DispatchInv, DispatchTyped
<1>3. k \in Keys => runs[k] = "claimed" /\ sent[k] = 0
  BY <1>1 DEF DispatchInv, InHand
<1>4. DispatchTyped'
  <2>1. sent' \in [Keys -> Nat]
    <3>1. sent \in [Keys -> Nat]
      BY DEF DispatchInv, DispatchTyped
    <3>2. CASE k \in Keys
      BY <1>1, <3>1, <3>2
    <3>3. CASE k \notin Keys
      BY <1>1, <3>1, <3>3, WriteOutside
    <3> QED
      BY <3>2, <3>3
  <2> QED
    BY <1>1, <1>2, <2>1 DEF DispatchInv, DispatchTyped
<1>5. InHand'
  BY <1>1, <1>2, <1>3 DEF DispatchInv, DispatchTyped, InHand, Holds
<1>6. k \notin Keys => UNCHANGED sent
  BY <1>1 DEF DispatchInv, DispatchTyped
<1>7. k \in Keys /\ made => TheDispatch!Send(k)
  <2> SUFFICES ASSUME k \in Keys, made
               PROVE  TheDispatch!Send(k)
    OBVIOUS
  <2>1. sent[k] = 0 /\ runs[k] = "claimed"
    BY <1>3
  <2>2. sent' = [sent EXCEPT ![k] = 1]
    BY <1>1, <2>1
  <2>3. RunState' = RunState /\ RunState[k] = "taken"
    BY <1>1, <2>1 DEF RunState
  <2> QED
    BY <2>1, <2>2, <2>3 DEF TheDispatch!Send, RunState
<1> QED
  BY <1>1, <1>4, <1>5, <1>6, <1>7 DEF DispatchInv

LEMMA RecordKeeps ==
    ASSUME DispatchInv, NEW r \in Runners, RecordOutcome(r)
    PROVE  /\ DispatchInv'
           /\ \/ UNCHANGED <<runs, sent>>
              \/ /\ pass[r].key \in Keys
                 /\ \E outcome \in Outcomes : TheDispatch!Report(pass[r].key, outcome)
<1> DEFINE k == pass[r].key
<1>1. /\ Holds(r, k) /\ pass[r].stage = "record"
      /\ runs' = [runs EXCEPT ![k] = pass[r].got]
      /\ UNCHANGED sent
  BY DEF RecordOutcome, Holds
<1>2. /\ DOMAIN pass' = Runners
      /\ DOMAIN pass'[r] = {"stage", "at", "todo", "key", "got"}
      /\ pass'[r].stage = "pass"
      /\ \A q \in Runners \ {r} : pass'[q] = pass[q]
  BY DEF RecordOutcome, DispatchInv, DispatchTyped
<1>3. pass[r].got \in Outcomes
  BY <1>1 DEF DispatchInv, DispatchTyped
<1>4. k \in Keys => /\ runs[k] = "claimed"
                    /\ pass[r].got = "created" => sent[k] = 1
                    /\ \A q \in Runners \ {r} : ~Holds(q, k)
  BY <1>1 DEF DispatchInv, InHand
<1>5. DispatchTyped'
  BY <1>1, <1>2, <1>3 DEF DispatchInv, DispatchTyped
<1>6. InHand'
  BY <1>1, <1>2, <1>3, <1>4 DEF DispatchInv, DispatchTyped, InHand, Holds, Outcomes
<1>7. k \notin Keys => UNCHANGED runs
  BY <1>1 DEF DispatchInv, DispatchTyped
<1>8. k \in Keys => TheDispatch!Report(k, pass[r].got)
  BY <1>1, <1>3, <1>4 DEF DispatchInv, DispatchTyped, Outcomes, TheDispatch!Report
<1>9. k \notin Keys => UNCHANGED <<runs, sent>>
  BY <1>1, <1>7
<1>10. k \in Keys => \E outcome \in Outcomes : TheDispatch!Report(k, outcome)
  BY <1>3, <1>8 DEF TheDispatch!Report
<1>11. DispatchInv'
  BY <1>5, <1>6 DEF DispatchInv
<1> QED
  BY <1>9, <1>10, <1>11

\* Every other step leaves run rows and transfers alone.
LEMMA OtherKeeps ==
    ASSUME DispatchInv,
           \/ \E r \in Runners :
                 \/ \E scope \in Scopes(r) : BeginPass(r, scope)
                 \/ \E k \in pass[r].todo : Skip(r, k)
                 \/ EndPass(r) \/ Die(r)
           \/ OwnerStep \/ Tick
           \/ UNCHANGED schedulerVars
    PROVE  DispatchInv' /\ UNCHANGED <<runs, sent>>
<1>1. ASSUME NEW r \in Runners,
             \/ \E scope \in Scopes(r) : BeginPass(r, scope)
             \/ \E k \in pass[r].todo : Skip(r, k)
             \/ EndPass(r) \/ Die(r)
      PROVE  DispatchInv' /\ UNCHANGED <<runs, sent>>
  <2>1. UNCHANGED <<runs, sent>>
    BY <1>1 DEF BeginPass, Skip, EndPass, Die
  <2>2. /\ DOMAIN pass' = Runners
        /\ DOMAIN pass'[r] = {"stage", "at", "todo", "key", "got"}
        /\ pass'[r].stage \in {"idle", "pass"}
        /\ \A q \in Runners \ {r} : pass'[q] = pass[q]
    <3> USE DEF IdlePass, DispatchInv, DispatchTyped
    <3>1. CASE \E scope \in Scopes(r) : BeginPass(r, scope)
      BY <3>1 DEF BeginPass
    <3>2. CASE \E k \in pass[r].todo : Skip(r, k)
      BY <3>2 DEF Skip
    <3>3. CASE EndPass(r) \/ Die(r)
      BY <3>3 DEF EndPass, Die
    <3> QED
      BY <1>1, <3>1, <3>2, <3>3
  <2> QED
    BY <2>1, <2>2, HandsEmptied
<1>2. ASSUME OwnerStep \/ Tick \/ UNCHANGED schedulerVars
      PROVE  DispatchInv' /\ UNCHANGED <<runs, sent>>
  <2>1. UNCHANGED <<runs, sent, pass>>
    BY <1>2 DEF OwnerStep, BeginCreate, WriteCreate, BeginResume, WriteResume, AbandonForm,
                Pause, Cancel, Tick, schedulerVars
  <2> QED
    BY <2>1 DEF DispatchInv, DispatchTyped, InHand, Holds
<1> QED
  BY <1>1, <1>2

\* Each step keeps the invariant and is a step of Dispatch or a stutter.
LEMMA DispatchStep ==
    ASSUME DispatchInv, [SchedulerNext]_schedulerVars
    PROVE  DispatchInv' /\ [TheDispatch!Next]_<<RunState, sent>>
<1>1. ASSUME NEW r \in Runners, NEW k \in pass[r].todo, Claim(r, k)
      PROVE  DispatchInv' /\ [TheDispatch!Next]_<<RunState, sent>>
  BY <1>1, ClaimKeeps DEF TheDispatch!Next, RunState
<1>2. ASSUME NEW r \in Runners, NEW made \in BOOLEAN, NEW got \in {"created", "failed"},
             SendTransfer(r, made, got)
      PROVE  DispatchInv' /\ [TheDispatch!Next]_<<RunState, sent>>
  BY <1>2, SendKeeps DEF TheDispatch!Next, RunState, Outcomes
<1>3. ASSUME NEW r \in Runners, RecordOutcome(r)
      PROVE  DispatchInv' /\ [TheDispatch!Next]_<<RunState, sent>>
  BY <1>3, RecordKeeps DEF TheDispatch!Next, RunState, Outcomes
<1>4. ASSUME \/ \E r \in Runners :
                   \/ \E scope \in Scopes(r) : BeginPass(r, scope)
                   \/ \E k \in pass[r].todo : Skip(r, k)
                   \/ EndPass(r) \/ Die(r)
             \/ OwnerStep \/ Tick
             \/ UNCHANGED schedulerVars
      PROVE  DispatchInv' /\ [TheDispatch!Next]_<<RunState, sent>>
  BY <1>4, OtherKeeps DEF RunState
<1> QED
  BY <1>1, <1>2, <1>3, <1>4 DEF SchedulerNext, PassStep

-----------------------------------------------------------------------------
(* The theorems. *)

\* A due time in hand is one pass's, and its run row and its transfer tell how
\* far the pass has come, in every state.
THEOREM DispatchInvariance == SchedulerSpec => []DispatchInv
BY DispatchInitInv, DispatchStep, PTL DEF SchedulerSpec

\* However many passes run one due time, and wherever they die, it is claimed
\* once, sent at most once, and reported as created only with its transfer.
THEOREM SchedulerImplementsDispatch == SchedulerSpec => ImplementsDispatch
<1>1. SchedulerInit => TheDispatch!Init
  BY DEF SchedulerInit, TheDispatch!Init
<1> QED
  BY <1>1, DispatchStep, DispatchInvariance, PTL
  DEF SchedulerSpec, ImplementsDispatch, TheDispatch!Spec, RunState

-----------------------------------------------------------------------------
(* Claims that nobody works on. *)

\* Claimed, and in no pass's hand.  What the run rows and the keys show as
\* abandoned is among them.
Lost == {k \in Keys : runs[k] = "claimed" /\ \A r \in Runners : ~Holds(r, k)}

LostBounded == IsFiniteSet(Lost) /\ deaths \in Nat /\ Cardinality(Lost) <= deaths

\* No step but a death loses a claim, and a death loses one at most.
LEMMA LostStep ==
    ASSUME DispatchInv, [SchedulerNext]_schedulerVars
    PROVE  \/ Lost' \subseteq Lost /\ deaths' = deaths
           \/ deaths' = deaths + 1 /\ \E k : Lost' \subseteq Lost \cup {k}
<1> USE DEF DispatchInv, DispatchTyped
<1>1. ASSUME NEW r \in Runners, NEW k \in pass[r].todo, Claim(r, k)
      PROVE  Lost' \subseteq Lost /\ deaths' = deaths
  <2>1. /\ \A q \in Runners \ {r} : pass'[q] = pass[q]
        /\ pass'[r].stage = "send" /\ pass'[r].key = k /\ pass[r].stage = "pass"
        /\ runs' = [runs EXCEPT ![k] = "claimed"]
        /\ deaths' = deaths
    BY <1>1 DEF Claim
  <2>2. SUFFICES ASSUME NEW j \in Keys, runs'[j] = "claimed",
                        \A q \in Runners : ~Holds(q, j)'
                 PROVE  runs[j] = "claimed" /\ \A q \in Runners : ~Holds(q, j)
    BY <2>1 DEF Lost
  <2>3. j # k
    BY <2>1, <2>2 DEF Holds
  <2>4. runs[j] = "claimed"
    BY <2>1, <2>2, <2>3
  <2>5. \A q \in Runners : ~Holds(q, j)
    BY <2>1, <2>2 DEF Holds
  <2> QED
    BY <2>4, <2>5
<1>2. ASSUME NEW r \in Runners, NEW made \in BOOLEAN, NEW got \in Outcomes,
             SendTransfer(r, made, got)
      PROVE  Lost' \subseteq Lost /\ deaths' = deaths
  <2>1. /\ \A q \in Runners \ {r} : pass'[q] = pass[q]
        /\ pass'[r].stage = "record" /\ pass'[r].key = pass[r].key
        /\ UNCHANGED <<runs, deaths>>
    BY <1>2 DEF SendTransfer
  <2> QED
    BY <2>1 DEF Lost, Holds
<1>3. ASSUME NEW r \in Runners, RecordOutcome(r)
      PROVE  Lost' \subseteq Lost /\ deaths' = deaths
  <2>1. /\ \A q \in Runners \ {r} : pass'[q] = pass[q]
        /\ runs' = [runs EXCEPT ![pass[r].key] = pass[r].got]
        /\ pass[r].got \in Outcomes /\ deaths' = deaths
    BY <1>3 DEF RecordOutcome
  <2>2. SUFFICES ASSUME NEW j \in Keys, runs'[j] = "claimed",
                        \A q \in Runners : ~Holds(q, j)'
                 PROVE  runs[j] = "claimed" /\ \A q \in Runners : ~Holds(q, j)
    BY <2>1 DEF Lost
  <2>3. j # pass[r].key
    BY <2>1, <2>2 DEF Outcomes
  <2>4. runs[j] = "claimed"
    BY <2>1, <2>2, <2>3
  <2>5. \A q \in Runners : ~Holds(q, j)
    BY <2>1, <2>2, <2>3 DEF Holds
  <2> QED
    BY <2>4, <2>5
<1>4. ASSUME NEW r \in Runners, Die(r)
      PROVE  deaths' = deaths + 1 /\ Lost' \subseteq Lost \cup {pass[r].key}
  <2>1. /\ \A q \in Runners \ {r} : pass'[q] = pass[q]
        /\ UNCHANGED runs /\ deaths' = deaths + 1
    BY <1>4 DEF Die
  <2> QED
    BY <2>1 DEF Lost, Holds
<1>5. ASSUME NEW r \in Runners,
             \/ \E scope \in Scopes(r) : BeginPass(r, scope)
             \/ \E k \in pass[r].todo : Skip(r, k)
             \/ EndPass(r)
      PROVE  Lost' \subseteq Lost /\ deaths' = deaths
  <2>1. /\ \A q \in Runners \ {r} : pass'[q] = pass[q]
        /\ pass[r].stage \in {"idle", "pass"} /\ UNCHANGED <<runs, deaths>>
    BY <1>5 DEF BeginPass, Skip, EndPass
  <2> QED
    BY <2>1 DEF Lost, Holds
<1>6. ASSUME OwnerStep \/ Tick \/ UNCHANGED schedulerVars
      PROVE  Lost' \subseteq Lost /\ deaths' = deaths
  <2>1. UNCHANGED <<runs, pass, deaths>>
    BY <1>6 DEF OwnerStep, BeginCreate, WriteCreate, BeginResume, WriteResume, AbandonForm,
                Pause, Cancel, Tick, schedulerVars
  <2> QED
    BY <2>1 DEF Lost, Holds
<1> QED
  BY <1>1, <1>2, <1>3, <1>4, <1>5, <1>6 DEF SchedulerNext, PassStep, Outcomes

LEMMA LostKept ==
    ASSUME LostBounded, DispatchInv, [SchedulerNext]_schedulerVars
    PROVE  LostBounded'
<1>1. ASSUME Lost' \subseteq Lost, deaths' = deaths
      PROVE  LostBounded'
  BY <1>1, FS_Subset, FS_CardinalityType DEF LostBounded
<1>2. ASSUME deaths' = deaths + 1, NEW k, Lost' \subseteq Lost \cup {k}
      PROVE  LostBounded'
  <2>1. /\ IsFiniteSet(Lost \cup {k})
        /\ Cardinality(Lost \cup {k}) \in Nat
        /\ Cardinality(Lost \cup {k}) <= Cardinality(Lost) + 1
    <3>1. IsFiniteSet(Lost)
      BY DEF LostBounded
    <3>2. /\ IsFiniteSet(Lost \cup {k})
          /\ Cardinality(Lost \cup {k}) = IF k \in Lost THEN Cardinality(Lost)
                                                        ELSE Cardinality(Lost) + 1
      BY <3>1, FS_AddElement
    <3>3. Cardinality(Lost) \in Nat
      BY <3>1, FS_CardinalityType
    <3> QED
      BY <3>2, <3>3
  <2>2. /\ IsFiniteSet(Lost') /\ Cardinality(Lost') \in Nat
        /\ Cardinality(Lost') <= Cardinality(Lost \cup {k})
    BY <1>2, <2>1, FS_Subset, FS_CardinalityType
  <2>3. Cardinality(Lost) \in Nat
    BY FS_CardinalityType DEF LostBounded
  <2> QED
    BY <1>2, <2>1, <2>2, <2>3 DEF LostBounded
<1> QED
  BY <1>1, <1>2, LostStep

\* A run row that stays "claimed" is the trace of a death, however many passes
\* run at once and whatever goes wrong in a transfer.
THEOREM ClaimsHaveExplanations == SchedulerSpec => []ClaimsExplained
<1>1. SchedulerInit => LostBounded
  <2>1. SchedulerInit => Lost = {} /\ deaths = 0
    BY DEF SchedulerInit, Lost
  <2> QED
    BY <2>1, FS_EmptySet DEF LostBounded
<1>2. LostBounded => ClaimsExplained
  <2>1. Abandoned \subseteq Lost
    BY DEF Abandoned, Lost, Holds
  <2> QED
    BY <2>1, FS_Subset, FS_CardinalityType DEF LostBounded, ClaimsExplained
<1> QED
  BY <1>1, <1>2, LostKept, DispatchInvariance, PTL DEF SchedulerSpec

-----------------------------------------------------------------------------
(* Recursion over days.  The facts are about sets and functions, and each   *)
(* is proved on a least element.                                            *)

LEMMA LeastNatural ==
    ASSUME NEW A \in SUBSET Nat, A # {}
    PROVE  \E m \in A : \A a \in A : m <= a
<1>1. PICK n \in A : TRUE
  OBVIOUS
<1> DEFINE I == 0..n
           C == {S \in SUBSET I : \E a \in A : a <= n /\ S = 0..a}
<1>2. IsFiniteSet(I) /\ C \in SUBSET SUBSET I
  BY FS_Interval
<1>3. C # {}
  <2>1. I \in C
    BY <1>1
  <2> QED
    BY <2>1
<1> HIDE DEF C, I
<1>4. PICK T \in C : \A U \in C : U \subseteq T => U = T
  BY <1>2, <1>3, SmallestSubset
<1>5. PICK m \in A : m <= n /\ T = 0..m
  BY <1>4 DEF C
<1>6. ASSUME NEW a \in A, a < m
      PROVE  FALSE
  <2>1. 0..a \in C /\ 0..a \subseteq T
    BY <1>5, <1>6 DEF C, I
  <2>2. 0..a = 0..m
    BY <1>4, <1>5, <2>1
  <2> QED
    BY <1>6, <2>2
<1> QED
  BY <1>6

LEMMA LeastInteger ==
    ASSUME NEW E \in SUBSET Int, E # {}, NEW lo \in Int, \A e \in E : lo <= e
    PROVE  \E m \in E : \A e \in E : m <= e
<1> DEFINE A == {a \in Nat : a + lo \in E}
<1>1. PICK e0 \in E : TRUE
  OBVIOUS
<1>2. e0 - lo \in A
  BY <1>1
<1>3. PICK m \in A : \A a \in A : m <= a
  BY <1>2, LeastNatural
<1>4. ASSUME NEW e \in E
      PROVE  m + lo <= e
  <2>1. e - lo \in A
    OBVIOUS
  <2>2. m <= e - lo
    BY <1>3, <2>1
  <2> QED
    BY <1>3, <2>2
<1> QED
  BY <1>3, <1>4

LEMMA GreatestInteger ==
    ASSUME NEW E \in SUBSET Int, E # {}, NEW hi \in Int, \A e \in E : e <= hi
    PROVE  \E m \in E : \A e \in E : e <= m
<1> DEFINE A == {a \in Int : -a \in E}
<1>1. A # {}
  <2>1. PICK e0 \in E : TRUE
    OBVIOUS
  <2>2. -(-e0) = e0 /\ -e0 \in Int
    OBVIOUS
  <2> QED
    BY <2>2
<1>2. \A a \in A : -hi <= a
  OBVIOUS
<1>3. PICK m \in A : \A a \in A : m <= a
  <2>1. A \in SUBSET Int
    OBVIOUS
  <2>2. PICK lo \in Int : lo = -hi
    OBVIOUS
  <2> HIDE DEF A
  <2> QED
    BY <1>1, <1>2, <2>1, <2>2, LeastInteger
<1>4. ASSUME NEW e \in E
      PROVE  e <= -m
  <2>1. -(-e) = e
    OBVIOUS
  <2>2. -e \in A
    BY <2>1
  <2>3. m <= -e
    BY <1>3, <2>2
  <2> QED
    BY <1>3, <2>3
<1> QED
  BY <1>3, <1>4

\* A step function that only goes forward reaches past t from every day: the
\* recursion that follows it has a solution.
LEMMA ForwardRecursion ==
    ASSUME NEW t \in Nat, NEW adv \in [0..t -> Nat], \A e \in 0..t : e < adv[e]
    PROVE  \E f : f = [e \in Nat |-> IF e > t THEN e ELSE f[adv[e]]]
<1> DEFINE Solves(f, m) == \A e \in Nat : e + m > t => f[e] = IF e > t THEN e ELSE f[adv[e]]
           Solved == {m \in 0..(t + 1) : \E f \in [Nat -> Nat] : Solves(f, m)}
           Unsolved == (0..(t + 1)) \ Solved
<1>1. 0 \in Solved
  <2> DEFINE id == [e \in Nat |-> e]
  <2>1. id \in [Nat -> Nat] /\ Solves(id, 0)
    OBVIOUS
  <2> HIDE DEF id, Solves
  <2>2. \E f \in [Nat -> Nat] : Solves(f, 0)
    BY <2>1
  <2>3. 0 \in 0..(t + 1)
    OBVIOUS
  <2> QED
    BY <2>2, <2>3
<1>2. ASSUME NEW m \in 0..t, m \in Solved
      PROVE  m + 1 \in Solved
  <2>1. PICK f \in [Nat -> Nat] : Solves(f, m)
    BY <1>2
  <2>2. PICK n \in 0..t : n + m = t
    <3>1. t - m \in 0..t /\ (t - m) + m = t
      OBVIOUS
    <3> QED
      BY <3>1
  <2> DEFINE g == [f EXCEPT ![n] = f[adv[n]]]
  <2>3. g \in [Nat -> Nat] /\ \A e \in Nat : e # n => g[e] = f[e]
    BY <2>2
  <2>4. g[n] = f[adv[n]] /\ adv[n] \in Nat /\ adv[n] # n
    <3>1. n \in Nat /\ adv[n] \in Nat /\ n < adv[n]
      BY <2>2
    <3>2. \A a \in Nat : n < a => a # n
      BY <3>1
    <3> QED
      BY <3>1, <3>2
  <2> HIDE DEF g
  <2>5. ASSUME NEW e \in Nat, e + (m + 1) > t
        PROVE  g[e] = IF e > t THEN e ELSE g[adv[e]]
    <3>1. CASE e = n
      BY <3>1, <2>2, <2>3, <2>4
    <3>2. CASE e # n /\ e > t
      BY <3>2, <2>1, <2>3, <2>5
    <3>3. CASE e # n /\ e <= t
      <4>1. e + m > t /\ n < e
        BY <3>3, <2>2, <2>5
      <4>2. f[e] = f[adv[e]]
        BY <3>3, <4>1, <2>1
      <4>3. adv[e] \in Nat /\ e < adv[e]
        BY <3>3
      <4>4. adv[e] # n
        <5>1. n \in Nat /\ n < e
          BY <4>1, <2>2
        <5>2. \A a \in Nat : e < a => a # n
          BY <5>1
        <5> QED
          BY <4>3, <5>2
      <4> QED
        BY <3>3, <4>2, <4>3, <4>4, <2>3
    <3> QED
      BY <3>1, <3>2, <3>3
  <2>6. Solves(g, m + 1)
    BY <2>5
  <2> HIDE DEF Solves
  <2>7. \E h \in [Nat -> Nat] : Solves(h, m + 1)
    BY <2>3, <2>6
  <2>8. m + 1 \in 0..(t + 1)
    OBVIOUS
  <2> QED
    BY <2>7, <2>8
<1>3. Unsolved = {}
  <2> SUFFICES ASSUME Unsolved # {} PROVE FALSE
    OBVIOUS
  <2>0. Unsolved \in SUBSET Nat
    BY DEF Unsolved
  <2>1. PICK m \in Unsolved : \A a \in Unsolved : m <= a
    <3> HIDE DEF Unsolved
    <3> QED
      BY <2>0, LeastNatural
  <2> HIDE DEF Solved
  <2>2. m \in 0..(t + 1) /\ m # 0
    BY <2>1, <1>1
  <2>3. m - 1 \in 0..t /\ (m - 1) + 1 = m
    BY <2>2
  <2>4. m - 1 \in Solved
    BY <2>1, <2>3
  <2> QED
    BY <1>2, <2>1, <2>3, <2>4
<1>4. t + 1 \in Solved
  <2> HIDE DEF Solved
  <2> QED
    BY <1>3
<1>5. PICK f \in [Nat -> Nat] : Solves(f, t + 1)
  BY <1>4
<1>6. \A e \in Nat : f[e] = IF e > t THEN e ELSE f[adv[e]]
  BY <1>5
<1> QED
  BY <1>6

\* Such a recursion started in a set its steps lead into ends in that set, after t.
LEMMA RecursionEnds ==
    ASSUME NEW t \in Nat, NEW adv \in [0..t -> Nat], \A e \in 0..t : e < adv[e],
           NEW f, f = [e \in Nat |-> IF e > t THEN e ELSE f[adv[e]]],
           NEW G \in SUBSET Nat, \A e \in G : e <= t => adv[e] \in G
    PROVE  \A e \in G : f[e] \in G /\ f[e] > t
<1> DEFINE Bad == {m \in 0..t : \E e \in G : e + m = t /\ ~(f[e] \in G /\ f[e] > t)}
<1>0. \A e \in Nat : f[e] = IF e > t THEN e ELSE f[adv[e]]
  OBVIOUS
<1>1. Bad = {}
  <2> SUFFICES ASSUME Bad # {} PROVE FALSE
    OBVIOUS
  <2>0. Bad \in SUBSET Nat
    OBVIOUS
  <2>1. PICK m \in Bad : \A a \in Bad : m <= a
    <3> HIDE DEF Bad
    <3> QED
      BY <2>0, LeastNatural
  <2>2. PICK e \in G : e + m = t /\ ~(f[e] \in G /\ f[e] > t)
    BY <2>1
  <2>3. m \in 0..t /\ e \in 0..t /\ e \in Nat
    BY <2>1, <2>2
  <2>4. f[e] = f[adv[e]] /\ adv[e] \in G /\ adv[e] \in Nat /\ e < adv[e]
    BY <1>0, <2>3
  <2>5. ~(f[adv[e]] \in G /\ f[adv[e]] > t)
    BY <2>2, <2>4
  <2>6. adv[e] <= t
    BY <1>0, <2>4, <2>5
  <2>7. t - adv[e] \in 0..t /\ adv[e] + (t - adv[e]) = t /\ t - adv[e] < m
    BY <2>2, <2>3, <2>4, <2>6
  <2>8. t - adv[e] \in Bad
    BY <2>4, <2>5, <2>7
  <2> HIDE DEF Bad
  <2>9. m <= t - adv[e]
    BY <2>1, <2>8
  <2> QED
    BY <2>3, <2>4, <2>7, <2>9
<1>2. ASSUME NEW e \in G
      PROVE  f[e] \in G /\ f[e] > t
  <2>1. CASE e > t
    BY <1>0, <2>1
  <2>2. CASE e <= t
    <3>1. t - e \in 0..t /\ e + (t - e) = t
      BY <2>2
    <3> QED
      BY <1>1, <3>1
  <2> QED
    BY <2>1, <2>2
<1> QED
  BY <1>2

-----------------------------------------------------------------------------
(* The calendar, for the days and months SchedulerAssumption covers.        *)

Anchored(d, anchor) == DayOfMonth(d) = LesserOf(anchor, MonthEndOf(d) - MonthBefore(d))

LEMMA MonthBeforeIs ==
    ASSUME NEW d \in Int, NEW e \in MonthEnds, e < d
    PROVE  /\ MonthBefore(d) \in MonthEnds /\ MonthBefore(d) \in Int
           /\ MonthBefore(d) < d
           /\ \A f \in MonthEnds : f < d => f <= MonthBefore(d)
<1> DEFINE E == {f \in MonthEnds : f < d}
<1>0. MonthEnds \subseteq Int
  BY SchedulerAssumption
<1>1. E \in SUBSET Int /\ E # {} /\ \A f \in E : f <= d
  <2>1. e \in E
    OBVIOUS
  <2>2. \A f \in E : f \in Int /\ f < d
    BY <1>0
  <2> HIDE DEF E
  <2> QED
    BY <2>1, <2>2
<1>2. \E m \in E : \A f \in E : f <= m
  <2> HIDE DEF E
  <2> QED
    BY <1>1, GreatestInteger
<1>3. MonthBefore(d) = CHOOSE m \in E : \A f \in E : f <= m
  BY DEF MonthBefore
<1>4. MonthBefore(d) \in E /\ \A f \in E : f <= MonthBefore(d)
  <2> HIDE DEF E
  <2> QED
    BY <1>2, <1>3
<1> QED
  BY <1>1, <1>4

LEMMA MonthEndOfIs ==
    ASSUME NEW d \in Int, NEW e \in MonthEnds, d <= e
    PROVE  /\ MonthEndOf(d) \in MonthEnds /\ MonthEndOf(d) \in Int
           /\ d <= MonthEndOf(d)
           /\ \A f \in MonthEnds : d <= f => MonthEndOf(d) <= f
<1> DEFINE E == {f \in MonthEnds : f >= d}
<1>0. MonthEnds \subseteq Int
  BY SchedulerAssumption
<1>1. E \in SUBSET Int /\ E # {} /\ \A f \in E : d <= f
  BY <1>0
<1>2. \E m \in E : \A f \in E : m <= f
  <2> HIDE DEF E
  <2> QED
    BY <1>1, LeastInteger
<1>3. MonthEndOf(d) = CHOOSE m \in E : \A f \in E : m <= f
  BY DEF MonthEndOf
<1>4. MonthEndOf(d) \in E /\ \A f \in E : MonthEndOf(d) <= f
  <2> HIDE DEF E
  <2> QED
    BY <1>2, <1>3
<1> QED
  BY <1>1, <1>4

\* A day of the month that begins after month end m and ends with month end n.
LEMMA WithinMonth ==
    ASSUME NEW m \in MonthEnds, NEW n \in MonthEnds, NEW d \in Int, m < d, d <= n,
           \A f \in MonthEnds : m < f => n <= f
    PROVE  MonthBefore(d) = m /\ MonthEndOf(d) = n
<1>0. m \in Int /\ n \in Int
  BY SchedulerAssumption
<1>1. MonthBefore(d) = m
  <2>1. MonthBefore(d) \in MonthEnds /\ MonthBefore(d) \in Int /\ MonthBefore(d) < d
        /\ m <= MonthBefore(d)
    BY MonthBeforeIs
  <2>2. ~(m < MonthBefore(d))
    BY <1>0, <2>1
  <2> QED
    BY <1>0, <2>1, <2>2
<1>2. MonthEndOf(d) = n
  <2>1. MonthEndOf(d) \in MonthEnds /\ MonthEndOf(d) \in Int /\ d <= MonthEndOf(d)
        /\ MonthEndOf(d) <= n
    BY MonthEndOfIs
  <2>2. n <= MonthEndOf(d)
    BY <1>0, <2>1
  <2> QED
    BY <1>0, <2>1, <2>2
<1> QED
  BY <1>1, <1>2

\* The anchor kept at creation is the day of the month of the first due time.
LEMMA FirstAnchored ==
    ASSUME NEW d \in Days
    PROVE  DayOfMonth(d) \in Nat \ {0} /\ Anchored(d, DayOfMonth(d))
<1>1. PICK e \in MonthEnds : e < 1
  BY SchedulerAssumption
<1>2. PICK f \in MonthEnds : LastDay <= f
  BY SchedulerAssumption
<1>3. d \in Nat /\ 1 <= d /\ d <= LastDay /\ LastDay \in Nat /\ e \in Int /\ f \in Int
  BY SchedulerAssumption DEF Days
<1>4. MonthBefore(d) \in Int /\ MonthBefore(d) < d
  BY <1>1, <1>3, MonthBeforeIs
<1>5. MonthEndOf(d) \in Int /\ d <= MonthEndOf(d)
  BY <1>2, <1>3, MonthEndOfIs
<1>6. DayOfMonth(d) = d - MonthBefore(d)
  BY DEF DayOfMonth
<1> HIDE DEF Days
<1> QED
  BY <1>3, <1>4, <1>5, <1>6 DEF Anchored, LesserOf

Rows == [status : Statuses, next : Nat \ {0}, frequency : Frequencies,
         anchor : Nat \ {0}, end : Nat]

\* The next occurrence is later, and a monthly one is on its anchor.
LEMMA AdvanceLater ==
    ASSUME NEW d \in 0..LastDay, NEW row \in Rows, row.frequency # "once"
    PROVE  /\ Advance(d, row) \in Nat /\ d < Advance(d, row)
           /\ row.frequency = "monthly" => Anchored(Advance(d, row), row.anchor)
<1>0. /\ d \in Nat /\ d <= LastDay /\ LastDay \in Nat /\ Week \in Nat \ {0}
      /\ row.anchor \in Nat \ {0}
      /\ row.frequency \in {"daily", "weekly", "monthly"}
  BY SchedulerAssumption DEF Rows, Frequencies, Recurring
<1>1. CASE row.frequency \in {"daily", "weekly"}
  BY <1>0, <1>1 DEF Advance
<1>2. CASE row.frequency = "monthly"
  <2>1. PICK e \in MonthEnds, f \in MonthEnds : LastDay <= e /\ e < f
    BY SchedulerAssumption
  <2>2. e \in Int /\ f \in Int
    BY SchedulerAssumption
  <2>3. PICK first \in MonthEnds : first = MonthEndOf(d) /\ first \in Int /\ d <= first /\ first <= e
    BY <1>0, <2>1, <2>2, MonthEndOfIs
  <2>4. first + 1 \in Int /\ first + 1 <= f
    BY <2>1, <2>2, <2>3
  <2>5. PICK last \in MonthEnds :
            /\ last = MonthEndOf(first + 1) /\ last \in Int /\ first + 1 <= last
            /\ \A g \in MonthEnds : first + 1 <= g => last <= g
    BY <2>4, MonthEndOfIs
  <2>6. Advance(d, row) = first + LesserOf(row.anchor, last - first)
    BY <1>2, <2>3, <2>5 DEF Advance
  <2>7. PICK n \in Int : n = Advance(d, row) /\ first < n /\ n <= last
                         /\ n - first = LesserOf(row.anchor, last - first)
    BY <1>0, <2>3, <2>5, <2>6 DEF LesserOf
  <2>8. \A g \in MonthEnds : first < g => last <= g
    BY <2>3, <2>5, SchedulerAssumption
  <2>9. MonthBefore(n) = first /\ MonthEndOf(n) = last
    BY <2>7, <2>8, WithinMonth
  <2>10. Anchored(n, row.anchor)
    BY <2>7, <2>9 DEF Anchored, DayOfMonth
  <2> QED
    BY <1>0, <2>3, <2>7, <2>10
<1> QED
  BY <1>0, <1>1, <1>2

\* What is computed for a recurring schedule is a day after t, and for a monthly
\* one a day on its anchor, however many occurrences are skipped.
LEMMA NextFutureIs ==
    ASSUME NEW d \in 0..LastDay, NEW row \in Rows, row.frequency # "once",
           NEW t \in 0..LastDay
    PROVE  /\ NextFuture(d, row, t) \in Nat /\ t < NextFuture(d, row, t)
           /\ row.frequency = "monthly" => Anchored(NextFuture(d, row, t), row.anchor)
<1> DEFINE adv == [e \in 0..t |-> Advance(e, row)]
           G == {e \in Nat : row.frequency = "monthly" => Anchored(e, row.anchor)}
           Solution(f) == f = [e \in Nat |-> IF e > t THEN e ELSE f[Advance(e, row)]]
           Steps(f) == f = [e \in Nat |-> IF e > t THEN e ELSE f[adv[e]]]
<1>0. t \in Nat /\ 0..t \subseteq 0..LastDay /\ LastDay \in Nat
  BY SchedulerAssumption
<1>1. \A e \in 0..t : adv[e] \in Nat /\ e < adv[e] /\ adv[e] \in G
  BY <1>0, AdvanceLater
<1>2. adv \in [0..t -> Nat]
  BY <1>1
<1>3. \A f : Solution(f) <=> Steps(f)
  <2>1. ASSUME NEW f, NEW e \in Nat
        PROVE  (IF e > t THEN e ELSE f[Advance(e, row)]) = (IF e > t THEN e ELSE f[adv[e]])
    <3>1. e <= t => adv[e] = Advance(e, row)
      BY <1>0
    <3> QED
      BY <1>0, <3>1
  <2>2. ASSUME NEW f
        PROVE  [e \in Nat |-> IF e > t THEN e ELSE f[Advance(e, row)]]
                  = [e \in Nat |-> IF e > t THEN e ELSE f[adv[e]]]
    BY <2>1
  <2> QED
    BY <2>2
<1>4. NextFuture(d, row, t) = (CHOOSE f : Solution(f))[Advance(d, row)]
  BY DEF NextFuture
<1> HIDE DEF adv
<1>5. \E f : Steps(f)
  BY <1>0, <1>1, <1>2, ForwardRecursion
<1> HIDE DEF Solution
<1>6. PICK f : f = (CHOOSE h : Solution(h)) /\ Solution(f)
  BY <1>3, <1>5
<1>7. Steps(f)
  BY <1>3, <1>6
<1> HIDE DEF G
<1>8. G \in SUBSET Nat
  BY DEF G
<1>9. \A e \in G : f[e] \in G /\ f[e] > t
  <2>1. f = [e \in Nat |-> IF e > t THEN e ELSE f[adv[e]]]
    BY <1>7
  <2>2. \A e \in 0..t : e < adv[e]
    BY <1>1
  <2>3. \A e \in G : e <= t => adv[e] \in G
    BY <1>0, <1>1, <1>8
  <2> HIDE DEF Steps
  <2> QED
    BY <1>0, <1>2, <1>8, <2>1, <2>2, <2>3, RecursionEnds
<1>10. Advance(d, row) \in G
  BY AdvanceLater DEF G
<1>11. NextFuture(d, row, t) \in G /\ NextFuture(d, row, t) > t
  BY <1>4, <1>6, <1>9, <1>10
<1> QED
  BY <1>0, <1>11 DEF G

-----------------------------------------------------------------------------
(* Types, and the anchor of monthly schedules. *)

AnchoredRows == {row \in Rows : row.frequency = "monthly" => Anchored(row.next, row.anchor)}

Passes == [stage : {"idle", "pass", "send", "record"}, at : 0..LastDay, todo : SUBSET Keys,
           key : Keys \cup {None}, got : {"none", "created", "failed"}]

Users == {Owner[s] : s \in Schedules}

Forms == [stage : {"idle", "create", "resume"}, of : Schedules \cup Users \cup {None},
          write : AnchoredRows, moved : BOOLEAN]

\* A resume writes back a row of the schedule it read: the frequency and the
\* anchor of a row are never changed, and no row is deleted.
Resumes(c) ==
    form[c].stage = "resume" =>
        LET s == form[c].of
        IN  /\ s \in Schedules
            /\ sched[s].status # "absent" /\ form[c].write.status # "absent"
            /\ sched[s].frequency = form[c].write.frequency
            /\ sched[s].anchor = form[c].write.anchor

RowsInv ==
    /\ now \in 0..LastDay
    /\ deaths \in 0..MaxDeaths
    /\ sched \in [Schedules -> AnchoredRows]
    /\ pass \in [Runners -> Passes]
    /\ \A r \in Runners : pass[r].stage \in {"send", "record"} => pass[r].key \in Keys
    /\ form \in [Clients -> Forms]
    /\ \A c \in Clients : Resumes(c)

LEMMA NoRowAnchored == NoRow \in AnchoredRows
BY DEF NoRow, AnchoredRows, Rows, Statuses, Frequencies, Recurring, NoEnd

LEMMA RowsInit == SchedulerInit => RowsInv
<1> SUFFICES ASSUME SchedulerInit PROVE RowsInv
  OBVIOUS
<1>1. now \in 0..LastDay /\ deaths \in 0..MaxDeaths
  BY SchedulerAssumption DEF SchedulerInit
<1>2. IdlePass \in Passes
  BY SchedulerAssumption DEF IdlePass, Passes
<1>3. IdleForm \in Forms
  BY NoRowAnchored DEF IdleForm, Forms
<1>4. /\ sched \in [Schedules -> AnchoredRows] /\ pass \in [Runners -> Passes]
      /\ form \in [Clients -> Forms]
  BY <1>2, <1>3, NoRowAnchored DEF SchedulerInit
<1>5. \A r \in Runners : pass[r].stage = "idle"
  BY DEF SchedulerInit, IdlePass
<1>6. \A c \in Clients : form[c].stage = "idle"
  BY DEF SchedulerInit, IdleForm
<1> QED
  BY <1>1, <1>4, <1>5, <1>6 DEF RowsInv, Resumes

\* A runner's record changes, and nothing else the invariant reads but deaths.
LEMMA PassKeeps ==
    ASSUME RowsInv, NEW r \in Runners, NEW p \in Passes,
           p.stage \in {"send", "record"} => p.key \in Keys,
           pass' = [pass EXCEPT ![r] = p],
           UNCHANGED <<now, sched, form>>, deaths' \in 0..MaxDeaths
    PROVE  RowsInv'
BY DEF RowsInv, Resumes

\* A request's record changes.
LEMMA FormKeeps ==
    ASSUME RowsInv, NEW c \in Clients, NEW f \in Forms,
           form' = [form EXCEPT ![c] = f], Resumes(c)',
           UNCHANGED <<now, sched, pass, deaths>>
    PROVE  RowsInv'
<1>1. form' \in [Clients -> Forms] /\ \A d \in Clients \ {c} : form'[d] = form[d]
  BY DEF RowsInv
<1>2. \A d \in Clients : Resumes(d)'
  BY <1>1 DEF RowsInv, Resumes
<1> QED
  BY <1>1, <1>2 DEF RowsInv

\* A row moves on: same frequency and anchor, and it does not become absent.
LEMMA RowKeeps ==
    ASSUME RowsInv, NEW s \in Schedules, NEW row \in AnchoredRows,
           row.status # "absent" \/ sched[s].status = "absent",
           (row.frequency = sched[s].frequency /\ row.anchor = sched[s].anchor)
             \/ sched[s].status = "absent",
           sched' = [sched EXCEPT ![s] = row]
    PROVE  /\ sched' \in [Schedules -> AnchoredRows]
           /\ \A c \in Clients : UNCHANGED form[c] => Resumes(c)'
<1>1. sched' \in [Schedules -> AnchoredRows] /\ sched'[s] = row
      /\ \A q \in Schedules \ {s} : sched'[q] = sched[q]
  BY DEF RowsInv
<1>2. ASSUME NEW c \in Clients, UNCHANGED form[c]
      PROVE  Resumes(c)'
  <2>1. Resumes(c)
    BY DEF RowsInv
  <2> QED
    BY <1>1, <1>2, <2>1 DEF Resumes
<1> QED
  BY <1>1, <1>2

\* The fields of a row after a status and a due time are written to it.
LEMMA RowWritten ==
    ASSUME NEW row \in Rows, NEW status \in Statuses, NEW next \in Nat \ {0},
           row.frequency = "monthly" => Anchored(next, row.anchor)
    PROVE  /\ [row EXCEPT !.next = next, !.status = status] \in AnchoredRows
           /\ [row EXCEPT !.status = status, !.next = next] \in AnchoredRows
BY DEF AnchoredRows, Rows

LEMMA BeginPassRows ==
    ASSUME RowsInv, NEW r \in Runners, NEW scope, BeginPass(r, scope)
    PROVE  RowsInv'
<1>1. PICK some \in SUBSET {s \in Schedules : Due(s) /\ Owner[s] \in scope} :
         pass' = [pass EXCEPT ![r] = [IdlePass EXCEPT !.stage = "pass", !.at = now,
                                         !.todo = {<<s, sched[s].next>> : s \in some}]]
  BY DEF BeginPass
<1>2. {<<s, sched[s].next>> : s \in some} \subseteq Keys
  <2> SUFFICES ASSUME NEW s \in some PROVE <<s, sched[s].next>> \in Keys
    OBVIOUS
  <2>1. s \in Schedules /\ sched[s].next <= now
    BY <1>1 DEF Due
  <2>2. sched[s].next \in Nat \ {0} /\ now \in 0..LastDay
    BY <2>1 DEF RowsInv, AnchoredRows, Rows
  <2>3. sched[s].next \in Days
    BY <2>1, <2>2, SchedulerAssumption DEF Days
  <2> QED
    BY <2>1, <2>3 DEF Keys
<1>3. PICK p : p = [IdlePass EXCEPT !.stage = "pass", !.at = now,
                                    !.todo = {<<s, sched[s].next>> : s \in some}]
  OBVIOUS
<1>4. p \in Passes /\ p.stage = "pass"
  BY <1>2, <1>3 DEF IdlePass, Passes, RowsInv
<1>5. pass' = [pass EXCEPT ![r] = p]
  BY <1>1, <1>3
<1>6. UNCHANGED <<now, sched, form>> /\ deaths' \in 0..MaxDeaths
  BY DEF BeginPass, RowsInv
<1> QED
  BY <1>4, <1>5, <1>6, PassKeeps

\* A claimed row moves to its next due time, on its anchor, or ends.
LEMMA MovedAnchored ==
    ASSUME NEW row \in AnchoredRows, NEW d \in Days, NEW t \in 0..LastDay,
           row.status = "active"
    PROVE  /\ Moved(row, d, t) \in AnchoredRows
           /\ Moved(row, d, t).status # "absent"
           /\ Moved(row, d, t).frequency = row.frequency
           /\ Moved(row, d, t).anchor = row.anchor
<1>0. row \in Rows /\ (row.frequency = "monthly" => Anchored(row.next, row.anchor))
  BY DEF AnchoredRows
<1>1. CASE row.frequency = "once"
  <2>1. Moved(row, d, t) = [row EXCEPT !.status = "completed"]
    BY <1>1 DEF Moved
  <2> QED
    BY <1>0, <1>1, <2>1 DEF AnchoredRows, Rows, Statuses
<1>2. CASE row.frequency # "once"
  <2>1. d \in 0..LastDay /\ t \in Nat
    BY SchedulerAssumption DEF Days
  <2>2. PICK next : next = NextFuture(d, row, t)
    OBVIOUS
  <2>3. next \in Nat \ {0} /\ (row.frequency = "monthly" => Anchored(next, row.anchor))
    BY <1>0, <1>2, <2>1, <2>2, NextFutureIs
  <2>4. PICK status \in {"active", "completed"} :
           Moved(row, d, t) = [row EXCEPT !.next = next, !.status = status]
    BY <1>2, <2>2 DEF Moved
  <2>5. status \in Statuses
    BY DEF Statuses
  <2>6. Moved(row, d, t) \in AnchoredRows
    <3>1. [row EXCEPT !.next = next, !.status = status] \in AnchoredRows
      BY <1>0, <2>3, <2>5, RowWritten
    <3> QED
      BY <2>4, <3>1
  <2> QED
    BY <1>0, <2>4, <2>6 DEF Rows
<1> QED
  BY <1>1, <1>2

LEMMA ClaimRows ==
    ASSUME RowsInv, NEW r \in Runners, NEW k, Claim(r, k)
    PROVE  RowsInv'
<1>1. k \in Keys /\ pass[r] \in Passes
  BY DEF RowsInv, Claim, Earliest, Passes
<1>2. k[1] \in Schedules /\ k[2] \in Days /\ pass[r].at \in 0..LastDay
  BY <1>1 DEF Keys, Passes
<1>3. sched[k[1]] \in AnchoredRows /\ sched[k[1]].status = "active"
  BY <1>2 DEF RowsInv, Claim, Claimable
<1>4. PICK row : row = Moved(sched[k[1]], k[2], pass[r].at)
  OBVIOUS
<1>5. /\ row \in AnchoredRows /\ row.status # "absent"
      /\ row.frequency = sched[k[1]].frequency /\ row.anchor = sched[k[1]].anchor
  BY <1>2, <1>3, <1>4, MovedAnchored
<1>6. sched' = [sched EXCEPT ![k[1]] = row]
  BY <1>4 DEF Claim
<1>7. UNCHANGED <<now, form, deaths>>
  BY DEF Claim
<1>8. sched' \in [Schedules -> AnchoredRows] /\ \A c \in Clients : Resumes(c)'
  BY <1>2, <1>5, <1>6, <1>7, RowKeeps
<1>9. PICK p : p = [pass[r] EXCEPT !.stage = "send", !.key = k, !.todo = @ \ {k}]
  OBVIOUS
<1>10. p \in Passes /\ p.key = k
  BY <1>1, <1>9 DEF Passes
<1>11. pass' = [pass EXCEPT ![r] = p]
  BY <1>9 DEF Claim, RowsInv
<1>12. /\ pass' \in [Runners -> Passes]
       /\ \A q \in Runners : pass'[q].stage \in {"send", "record"} => pass'[q].key \in Keys
  BY <1>1, <1>10, <1>11 DEF RowsInv
<1> QED
  BY <1>7, <1>8, <1>12 DEF RowsInv

LEMMA OtherPassRows ==
    ASSUME RowsInv, NEW r \in Runners,
           \/ \E k \in pass[r].todo : Skip(r, k)
           \/ \E made \in BOOLEAN, got \in Outcomes : SendTransfer(r, made, got)
           \/ RecordOutcome(r) \/ EndPass(r) \/ Die(r)
    PROVE  RowsInv'
<1>0. pass[r] \in Passes /\ deaths \in 0..MaxDeaths /\ pass \in [Runners -> Passes]
      /\ (pass[r].stage \in {"send", "record"} => pass[r].key \in Keys)
  BY DEF RowsInv
<1>1. UNCHANGED <<now, sched, form>>
  BY DEF Skip, SendTransfer, RecordOutcome, EndPass, Die
<1>2. deaths' \in 0..MaxDeaths
  BY <1>0, SchedulerAssumption DEF Skip, SendTransfer, RecordOutcome, EndPass, Die
<1>3. ASSUME NEW p \in Passes, pass' = [pass EXCEPT ![r] = p],
             p.stage \in {"send", "record"} => p.key \in Keys
      PROVE  RowsInv'
  BY <1>1, <1>2, <1>3, PassKeeps
<1>4. ASSUME NEW k \in pass[r].todo, Skip(r, k)
      PROVE  RowsInv'
  <2>1. PICK p : p = [pass[r] EXCEPT !.todo = @ \ {k}]
    OBVIOUS
  <2>2. p \in Passes /\ p.stage = pass[r].stage /\ p.key = pass[r].key
    BY <1>0, <2>1 DEF Passes
  <2>3. pass' = [pass EXCEPT ![r] = p]
    BY <1>0, <1>4, <2>1 DEF Skip
  <2> QED
    BY <1>0, <1>3, <2>2, <2>3
<1>5. ASSUME NEW made \in BOOLEAN, NEW got \in Outcomes, SendTransfer(r, made, got)
      PROVE  RowsInv'
  <2>1. PICK p : p = [pass[r] EXCEPT !.stage = "record", !.got = got]
    OBVIOUS
  <2>2. p \in Passes /\ p.key = pass[r].key /\ pass[r].stage = "send"
    BY <1>0, <1>5, <2>1 DEF Passes, Outcomes, SendTransfer
  <2>3. pass' = [pass EXCEPT ![r] = p]
    BY <1>0, <1>5, <2>1 DEF SendTransfer
  <2> QED
    BY <1>0, <1>3, <2>2, <2>3
<1>6. ASSUME RecordOutcome(r)
      PROVE  RowsInv'
  <2>1. PICK p : p = [pass[r] EXCEPT !.stage = "pass", !.key = None, !.got = "none"]
    OBVIOUS
  <2>2. p \in Passes /\ p.stage = "pass"
    BY <1>0, <2>1 DEF Passes
  <2>3. pass' = [pass EXCEPT ![r] = p]
    BY <1>0, <1>6, <2>1 DEF RecordOutcome
  <2> QED
    BY <1>3, <2>2, <2>3
<1>7. ASSUME EndPass(r) \/ Die(r)
      PROVE  RowsInv'
  <2>1. pass' = [pass EXCEPT ![r] = IdlePass]
    BY <1>7 DEF EndPass, Die
  <2>2. IdlePass \in Passes /\ IdlePass.stage = "idle"
    BY SchedulerAssumption DEF IdlePass, Passes
  <2> QED
    BY <1>3, <2>1, <2>2
<1> QED
  BY <1>4, <1>5, <1>6, <1>7

LEMMA BeginCreateRows ==
    ASSUME RowsInv, NEW c \in Clients, NEW s \in Schedules, NEW plan \in Plans[s],
           BeginCreate(c, Owner[s], plan)
    PROVE  RowsInv'
<1>1. /\ plan.frequency \in Frequencies /\ plan.first \in Days /\ plan.end \in Nat
      /\ plan.first \in Nat \ {0}
  BY SchedulerAssumption DEF Frequencies, Recurring, Days
<1>2. PICK row : row = [status |-> "active", next |-> plan.first, frequency |-> plan.frequency,
                        anchor |-> DayOfMonth(plan.first), end |-> plan.end]
  OBVIOUS
<1>3. row \in AnchoredRows
  BY <1>1, <1>2, FirstAnchored DEF AnchoredRows, Rows, Statuses
<1>4. PICK f : f = [stage |-> "create", of |-> Owner[s], moved |-> FALSE, write |-> row]
  OBVIOUS
<1>5. f \in Forms /\ f.stage = "create"
  BY <1>3, <1>4 DEF Forms, Users
<1>6. form' = [form EXCEPT ![c] = f] /\ UNCHANGED <<now, sched, pass, deaths>>
  BY <1>2, <1>4 DEF BeginCreate
<1>7. Resumes(c)'
  BY <1>5, <1>6 DEF RowsInv, Resumes
<1> QED
  BY <1>5, <1>6, <1>7, FormKeeps

LEMMA BeginResumeRows ==
    ASSUME RowsInv, NEW c \in Clients, NEW s \in Schedules, BeginResume(c, s)
    PROVE  RowsInv'
<1>1. PICK row : row = sched[s]
  OBVIOUS
<1>2. /\ row \in AnchoredRows /\ row \in Rows
      /\ row.next \in Nat \ {0} /\ now \in 0..LastDay /\ LastDay \in Nat
      /\ row.frequency = "monthly" => Anchored(row.next, row.anchor)
  BY <1>1, SchedulerAssumption DEF RowsInv, AnchoredRows, Rows
<1>3. PICK next : next = IF row.next > now THEN row.next ELSE NextFuture(row.next, row, now)
  OBVIOUS
<1>4. row.status = "paused" /\ (row.next > now \/ row.frequency # "once")
  BY <1>1 DEF BeginResume, Resumable
<1>5. next \in Nat \ {0} /\ (row.frequency = "monthly" => Anchored(next, row.anchor))
  <2>1. CASE row.next > now
    BY <1>2, <1>3, <2>1
  <2>2. CASE ~(row.next > now)
    <3>1. row.next \in 0..LastDay /\ row.frequency # "once" /\ now \in Nat
      BY <1>2, <1>4, <2>2
    <3> QED
      BY <1>2, <1>3, <2>2, <3>1, NextFutureIs
  <2> QED
    BY <2>1, <2>2
<1>6. PICK status \in {"active", "completed"} :
         status = IF Ended(row, next) THEN "completed" ELSE "active"
  OBVIOUS
<1>7. PICK w : w = [row EXCEPT !.next = next, !.status = status]
  OBVIOUS
<1>8. /\ w \in AnchoredRows /\ w.status # "absent"
      /\ w.frequency = row.frequency /\ w.anchor = row.anchor
  <2>1. status \in Statuses
    BY DEF Statuses
  <2>2. w \in AnchoredRows
    BY <1>2, <1>5, <1>7, <2>1, RowWritten
  <2> QED
    BY <1>2, <1>7, <2>2 DEF Rows
<1>9. PICK moved \in BOOLEAN : moved = (next # row.next /\ ~Ended(row, next))
  BY DEF Ended
<1>10. PICK f : f = [stage |-> "resume", of |-> s, moved |-> moved, write |-> w]
  OBVIOUS
<1>11. f \in Forms
  BY <1>8, <1>10 DEF Forms
<1>12. form' = [form EXCEPT ![c] = f] /\ UNCHANGED <<now, sched, pass, deaths>>
  BY <1>1, <1>3, <1>6, <1>7, <1>9, <1>10 DEF BeginResume
<1>13. Resumes(c)'
  BY <1>1, <1>4, <1>8, <1>10, <1>12 DEF RowsInv, Resumes
<1> QED
  BY <1>11, <1>12, <1>13, FormKeeps

\* The rows of requests that end: the client's record is idle afterwards.
LEMMA FormEnds ==
    ASSUME RowsInv, NEW c \in Clients, form' = [form EXCEPT ![c] = IdleForm]
    PROVE  /\ form' \in [Clients -> Forms]
           /\ form'[c].stage = "idle"
           /\ \A d \in Clients \ {c} : UNCHANGED form[d]
<1>1. IdleForm \in Forms /\ IdleForm.stage = "idle"
  BY NoRowAnchored DEF IdleForm, Forms
<1> QED
  BY <1>1 DEF RowsInv

LEMMA WriteFormRows ==
    ASSUME RowsInv, NEW c \in Clients,
           (\E s \in Schedules : WriteCreate(c, s)) \/ WriteResume(c) \/ AbandonForm(c)
    PROVE  RowsInv'
<1>0. form' = [form EXCEPT ![c] = IdleForm] /\ UNCHANGED <<now, pass, deaths>>
  BY DEF WriteCreate, WriteResume, AbandonForm
<1>1. /\ form' \in [Clients -> Forms] /\ form'[c].stage = "idle"
      /\ \A d \in Clients \ {c} : UNCHANGED form[d]
  BY <1>0, FormEnds
<1>2. form[c] \in Forms /\ form[c].write \in AnchoredRows
  BY DEF RowsInv, Forms
<1>3. Resumes(c)'
  BY <1>1 DEF Resumes
<1>4. ASSUME sched' \in [Schedules -> AnchoredRows],
             \A d \in Clients : UNCHANGED form[d] => Resumes(d)'
      PROVE  RowsInv'
  <2>1. \A d \in Clients : Resumes(d)'
    BY <1>1, <1>3, <1>4
  <2> QED
    BY <1>0, <1>1, <1>4, <2>1 DEF RowsInv
<1>5. ASSUME NEW s \in Schedules, WriteCreate(c, s)
      PROVE  RowsInv'
  <2>1. PICK row : row = form[c].write
    OBVIOUS
  <2>2. sched[s].status = "absent" /\ sched' = [sched EXCEPT ![s] = row]
    BY <1>5, <2>1 DEF WriteCreate
  <2> QED
    BY <1>2, <1>4, <2>1, <2>2, RowKeeps
<1>6. ASSUME WriteResume(c)
      PROVE  RowsInv'
  <2>1. PICK s \in Schedules : s = form[c].of
    BY <1>6 DEF RowsInv, Resumes, WriteResume
  <2>2. PICK w : w = form[c].write
    OBVIOUS
  <2>3. /\ sched[s].status # "absent" /\ w.status # "absent"
        /\ sched[s].frequency = w.frequency /\ sched[s].anchor = w.anchor
    BY <1>6, <2>1, <2>2 DEF RowsInv, Resumes, WriteResume
  <2>4. /\ w \in Rows /\ (w.frequency = "monthly" => Anchored(w.next, w.anchor))
        /\ sched[s] \in Rows
        /\ (sched[s].frequency = "monthly" => Anchored(sched[s].next, sched[s].anchor))
    BY <1>2, <2>2 DEF RowsInv, AnchoredRows
  <2>5. PICK next : next = IF form[c].moved THEN w.next ELSE sched[s].next
    OBVIOUS
  <2>6. next \in Nat \ {0} /\ (sched[s].frequency = "monthly" => Anchored(next, sched[s].anchor))
        /\ w.status \in Statuses
    BY <2>3, <2>4, <2>5 DEF Rows
  <2>7. PICK row : row = [sched[s] EXCEPT !.status = w.status, !.next = next]
    OBVIOUS
  <2>8. row \in AnchoredRows
    BY <2>4, <2>6, <2>7, RowWritten
  <2>9. /\ row.status # "absent" /\ row.frequency = sched[s].frequency
        /\ row.anchor = sched[s].anchor
    BY <2>3, <2>4, <2>7 DEF Rows
  <2>10. sched' = [sched EXCEPT ![s] = row]
    BY <1>6, <2>1, <2>2, <2>5, <2>7 DEF WriteResume, RowsInv
  <2> QED
    BY <1>4, <2>8, <2>9, <2>10, RowKeeps
<1>7. ASSUME AbandonForm(c)
      PROVE  RowsInv'
  <2>1. UNCHANGED sched
    BY <1>7 DEF AbandonForm
  <2>2. \A d \in Clients : UNCHANGED form[d] => Resumes(d)'
    BY <2>1 DEF RowsInv, Resumes
  <2> QED
    BY <1>4, <2>1, <2>2 DEF RowsInv
<1> QED
  BY <1>5, <1>6, <1>7

LEMMA StopRows ==
    ASSUME RowsInv, NEW s \in Schedules, Pause(s) \/ Cancel(s)
    PROVE  RowsInv'
<1>1. PICK status \in {"paused", "cancelled"} : sched' = [sched EXCEPT ![s].status = status]
  BY DEF Pause, Cancel
<1>2. UNCHANGED <<now, pass, form, deaths>>
  BY DEF Pause, Cancel
<1>3. sched[s] \in AnchoredRows /\ sched \in [Schedules -> AnchoredRows]
  BY DEF RowsInv
<1>4. PICK row : row = [sched[s] EXCEPT !.status = status]
  OBVIOUS
<1>5. /\ row \in AnchoredRows /\ row.status # "absent"
      /\ row.frequency = sched[s].frequency /\ row.anchor = sched[s].anchor
  BY <1>3, <1>4 DEF AnchoredRows, Rows, Statuses
<1>6. sched' = [sched EXCEPT ![s] = row]
  BY <1>1, <1>3, <1>4
<1>7. sched' \in [Schedules -> AnchoredRows] /\ \A c \in Clients : Resumes(c)'
  BY <1>2, <1>5, <1>6, RowKeeps
<1> QED
  BY <1>2, <1>7 DEF RowsInv

LEMMA RowsStep ==
    ASSUME RowsInv, [SchedulerNext]_schedulerVars
    PROVE  RowsInv'
<1>1. ASSUME NEW r \in Runners, PassStep(r) \/ Die(r)
      PROVE  RowsInv'
  <2>1. ASSUME NEW scope, BeginPass(r, scope)
        PROVE  RowsInv'
    BY <2>1, BeginPassRows
  <2>2. ASSUME NEW k, Claim(r, k)
        PROVE  RowsInv'
    BY <2>2, ClaimRows
  <2> QED
    BY <1>1, <2>1, <2>2, OtherPassRows DEF PassStep, Outcomes
<1>2. ASSUME OwnerStep
      PROVE  RowsInv'
  BY <1>2, BeginCreateRows, BeginResumeRows, WriteFormRows, StopRows DEF OwnerStep
<1>3. ASSUME Tick
      PROVE  RowsInv'
  <2>1. now' \in 0..LastDay
    BY <1>3, SchedulerAssumption DEF Tick, RowsInv
  <2> QED
    BY <1>3, <2>1 DEF Tick, RowsInv, Resumes
<1>4. ASSUME UNCHANGED schedulerVars
      PROVE  RowsInv'
  BY <1>4 DEF schedulerVars, RowsInv, Resumes
<1> QED
  BY <1>1, <1>2, <1>3, <1>4 DEF SchedulerNext

LEMMA RowsInvariance == SchedulerSpec => []RowsInv
BY RowsInit, RowsStep, PTL DEF SchedulerSpec

\* Rows, passes and requests keep their types, for any calendar: a pass lists
\* and claims only due times, which are days that have come.
THEOREM SchedulerTypeCorrect == SchedulerSpec => []SchedulerTypeOK
<1>1. RowsInv /\ DispatchInv => SchedulerTypeOK
  BY DEF RowsInv, DispatchInv, DispatchTyped, Outcomes, SchedulerTypeOK, AnchoredRows, Rows, Passes
<1> QED
  BY <1>1, RowsInvariance, DispatchInvariance, PTL

\* A monthly schedule stays on its anchor day, or on the last day of a shorter
\* month, however many months a pass or a resume skips and however resumes overlap.
THEOREM MonthlyNeverDrifts == SchedulerSpec => []MonthlyOnAnchor
<1>1. RowsInv => MonthlyOnAnchor
  BY DEF RowsInv, AnchoredRows, Anchored, MonthlyOnAnchor
<1> QED
  BY <1>1, RowsInvariance, PTL

-----------------------------------------------------------------------------
(* Schedules that are stopped.  The passes need DispatchInv (a pass writes  *)
(* the run row it holds), the owners' requests RowsInv (a write goes to the *)
(* schedule the request read).                                              *)

\* What StopsHold says of one schedule.
Held(s) ==
    /\ sched'[s].status # "active"
    /\ sched[s].status # "paused" => Quiet(s)' /\ sched'[s].status = sched[s].status
    /\ \A d \in Days : runs[<<s, d>>] = "none" => runs'[<<s, d>>] = "none"

LEMMA StoppedByPasses ==
    ASSUME DispatchInv, RowsInv, NEW s \in Schedules, Quiet(s),
           NEW r \in Runners, PassStep(r) \/ Die(r)
    PROVE  Held(s)
<1>1. /\ sched \in [Schedules -> AnchoredRows] /\ DOMAIN runs = Keys
      /\ \A d \in Days : <<s, d>> \in Keys
  BY DEF RowsInv, DispatchInv, DispatchTyped, Keys
<1>2. ASSUME NEW k \in pass[r].todo, Claim(r, k)
      PROVE  Held(s)
  <2>1. /\ k[1] # s /\ UNCHANGED form
        /\ runs' = [runs EXCEPT ![k] = "claimed"]
        /\ sched' = [sched EXCEPT ![k[1]] = Moved(sched[k[1]], k[2], pass[r].at)]
    BY <1>2 DEF Claim, Claimable, Quiet
  <2>2. sched'[s] = sched[s] /\ \A d \in Days : runs'[<<s, d>>] = runs[<<s, d>>]
    BY <1>1, <2>1
  <2> QED
    BY <2>1, <2>2 DEF Held, Quiet
<1>3. ASSUME RecordOutcome(r)
      PROVE  Held(s)
  <2>1. /\ \A k \in Keys : runs[k] = "none" => pass[r].key # k
        /\ runs' = [runs EXCEPT ![pass[r].key] = pass[r].got]
        /\ UNCHANGED <<sched, form>>
    BY <1>3 DEF RecordOutcome, DispatchInv, InHand, Holds
  <2> QED
    BY <1>1, <2>1 DEF Held, Quiet
<1>4. UNCHANGED <<sched, form, runs>> => Held(s)
  BY DEF Held, Quiet
<1> QED
  BY <1>2, <1>3, <1>4 DEF PassStep, BeginPass, Skip, SendTransfer, EndPass, Die

LEMMA StoppedByOwners ==
    ASSUME RowsInv, NEW s \in Schedules, Quiet(s), OwnerStep
    PROVE  Held(s)
<1>1. /\ sched \in [Schedules -> AnchoredRows] /\ form \in [Clients -> Forms]
      /\ UNCHANGED runs
  BY DEF RowsInv, OwnerStep, BeginCreate, WriteCreate, BeginResume, WriteResume, AbandonForm,
         Pause, Cancel
<1>2. ASSUME NEW c \in Clients, UNCHANGED sched,
             form'[c].stage = "resume" => form'[c].of # s \/ sched[s].status = "paused",
             \A d \in Clients \ {c} : form'[d] = form[d]
      PROVE  Held(s)
  BY <1>1, <1>2 DEF Held, Quiet
<1>3. ASSUME NEW c \in Clients, NEW q \in Schedules, NEW plan \in Plans[q],
             BeginCreate(c, Owner[q], plan)
      PROVE  Held(s)
  BY <1>1, <1>2, <1>3 DEF BeginCreate
<1>4. ASSUME NEW c \in Clients, NEW q \in Schedules, BeginResume(c, q)
      PROVE  Held(s)
  <2>1. /\ UNCHANGED sched /\ sched[q].status = "paused"
        /\ form'[c].of = q /\ \A d \in Clients \ {c} : form'[d] = form[d]
    BY <1>1, <1>4 DEF BeginResume, Resumable
  <2> QED
    BY <1>2, <2>1
<1>5. ASSUME NEW c \in Clients, AbandonForm(c)
      PROVE  Held(s)
  BY <1>1, <1>2, <1>5 DEF AbandonForm, IdleForm
<1>6. ASSUME NEW c \in Clients, NEW q, q # s, NEW row, sched' = [sched EXCEPT ![q] = row],
             form' = [form EXCEPT ![c] = IdleForm]
      PROVE  Held(s)
  BY <1>1, <1>6 DEF Held, Quiet, IdleForm
<1>7. ASSUME NEW c \in Clients, NEW q \in Schedules, WriteCreate(c, q)
      PROVE  Held(s)
  <2>1. q # s
    BY <1>7 DEF WriteCreate, Quiet
  <2> QED
    BY <1>6, <1>7, <2>1 DEF WriteCreate
<1>8. ASSUME NEW c \in Clients, WriteResume(c)
      PROVE  Held(s)
  <2>1. form[c].of # s
    BY <1>8 DEF WriteResume, Quiet
  <2>2. /\ form' = [form EXCEPT ![c] = IdleForm]
        /\ \E row : sched' = [sched EXCEPT ![form[c].of] = row]
    <3>1. form[c].of \in Schedules
      BY <1>8 DEF RowsInv, Resumes, WriteResume
    <3>2. PICK q : q = form[c].of
      OBVIOUS
    <3>3. PICK w, next : w = form[c].write.status /\ next = IF form[c].moved THEN form[c].write.next
                                                            ELSE sched[q].next
      OBVIOUS
    <3>4. sched' = [sched EXCEPT ![q] = [sched[q] EXCEPT !.status = w, !.next = next]]
      BY <1>1, <1>8, <3>1, <3>2, <3>3 DEF WriteResume, AnchoredRows, Rows
    <3> QED
      BY <1>8, <3>2, <3>4 DEF WriteResume
  <2> QED
    BY <1>6, <2>1, <2>2
<1>9. ASSUME NEW q \in Schedules, Pause(q) \/ Cancel(q)
      PROVE  Held(s)
  <2>1. UNCHANGED form /\ \A p \in Schedules : p # q => sched'[p] = sched[p]
    BY <1>1, <1>9 DEF Pause, Cancel
  <2>2. CASE q # s
    BY <1>1, <2>1, <2>2 DEF Held, Quiet
  <2>3. CASE q = s
    <3>1. sched'[s].status = "cancelled" /\ sched[s].status = "paused"
      BY <1>1, <1>9, <2>3 DEF Pause, Cancel, Open, Quiet, AnchoredRows, Rows
    <3> QED
      BY <1>1, <3>1 DEF Held
  <2> QED
    BY <2>2, <2>3
<1> QED
  BY <1>3, <1>4, <1>5, <1>7, <1>8, <1>9 DEF OwnerStep

\* A stopped schedule that no request is about stays out of every pass's reach,
\* and one that is over stays over, whatever passes listed before.
THEOREM StoppedSchedulesHold == SchedulerSpec => StopsHold
<1>1. ASSUME DispatchInv, RowsInv, [SchedulerNext]_schedulerVars
      PROVE  [\A s \in Schedules : Quiet(s) =>
                 /\ sched'[s].status # "active"
                 /\ sched[s].status # "paused" => Quiet(s)' /\ sched'[s].status = sched[s].status
                 /\ \A d \in Days : runs[<<s, d>>] = "none" => runs'[<<s, d>>] = "none"]_schedulerVars
  <2>1. ASSUME NEW s \in Schedules, Quiet(s)
        PROVE  Held(s)
    <3>1. Tick \/ UNCHANGED schedulerVars => Held(s)
      BY <2>1 DEF Tick, schedulerVars, Held, Quiet
    <3> QED
      BY <1>1, <2>1, <3>1, StoppedByPasses, StoppedByOwners DEF SchedulerNext
  <2> QED
    BY <2>1 DEF Held
<1> QED
  BY <1>1, DispatchInvariance, RowsInvariance, PTL DEF SchedulerSpec, StopsHold
=============================================================================
