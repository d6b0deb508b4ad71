--------------------------- MODULE ServicesProofs ---------------------------
(***************************************************************************)
(* What the services around the bank guarantee for any number of           *)
(* customers, requests and rows.  One section per service; they share      *)
(* nothing but the users.                                                  *)
(***************************************************************************)
EXTENDS MCServices, SumProofs, FiniteSetTheorems, TLAPS

-----------------------------------------------------------------------------
(* Card payments take no lock: each stage of a credit knows a fact that     *)
(* nothing takes back (the charge, then the deposit).                       *)

\* What a credit in work knows.
CreditsKnow ==
    \A r \in Threads :
        /\ credit[r].stage \in {"deposit", "mark"} => credit[r].of \in paid
        /\ credit[r].stage = "mark" => deposits[credit[r].of] > 0

PaystackInv == PaystackTypeOK /\ CreditsKnow /\ EveryDepositIsPaid

LEMMA PaystackInitInv == PaystackInit => PaystackInv
BY DEF PaystackInit, PaystackInv, PaystackTypeOK, CreditsKnow, EveryDepositIsPaid, NoCredit

LEMMA PaystackStepInv ==
    PaystackInv /\ [PaystackActivity]_<<accountsVars, paystackVars>> => PaystackInv'
<1> SUFFICES ASSUME PaystackInv, [PaystackActivity]_<<accountsVars, paystackVars>>
             PROVE  PaystackInv'
  OBVIOUS
<1> USE DEF PaystackInv, PaystackTypeOK, CreditsKnow, EveryDepositIsPaid, NoCredit
<1>1. ASSUME NEW p \in Payments, InitializePayment(p)
      PROVE  PaystackInv'
  BY <1>1 DEF InitializePayment
<1>2. ASSUME NEW p \in Payments, CustomerPays(p)
      PROVE  PaystackInv'
  BY <1>2 DEF CustomerPays
<1>3. ASSUME NEW r \in Threads, NEW p \in Payments, BeginCredit(r, p)
      PROVE  PaystackInv'
  BY <1>3 DEF BeginCredit
<1>4. ASSUME NEW r \in Threads, AskPaystack(r)
      PROVE  PaystackInv'
  BY <1>4 DEF AskPaystack, Charged
<1>5. ASSUME NEW r \in Threads, MarkFailed(r)
      PROVE  PaystackInv'
  BY <1>5 DEF MarkFailed
<1>6. ASSUME NEW r \in Threads, MakeDeposit(r)
      PROVE  PaystackInv'
  BY <1>6 DEF MakeDeposit
<1>7. ASSUME NEW r \in Threads, MarkSuccess(r)
      PROVE  PaystackInv'
  BY <1>7 DEF MarkSuccess
<1>8. ASSUME NEW r \in Threads, AbortCredit(r)
      PROVE  PaystackInv'
  BY <1>8 DEF AbortCredit
<1>9. CASE UNCHANGED <<accountsVars, paystackVars>>
  BY <1>9 DEF paystackVars
<1> QED
  BY <1>1, <1>2, <1>3, <1>4, <1>5, <1>6, <1>7, <1>8, <1>9 DEF PaystackActivity

\* However the browser's and the webhook's credits of a payment interleave, and
\* wherever they are cut short: a deposit is made of a confirmed charge only, and
\* a payment marked "success" has its deposit.
THEOREM CreditsAreBacked == PaystackSpec => []EveryDepositIsPaid
<1>1. PaystackInv => EveryDepositIsPaid
  BY DEF PaystackInv
<1> QED
  BY <1>1, PaystackInitInv, PaystackStepInv, PTL DEF PaystackSpec

-----------------------------------------------------------------------------
(* Saved payments.  The row lock carries the argument: what a tap read of   *)
(* the last stamp under the lock is still so when it stamps, and the last   *)
(* stamp in the row is the last one committed unless an undo came after it. *)

MarkRow == [kind : {"stamp", "undo"}, at : Nat]
Stages == {"idle", "save", "locked", "stamp", "send", "undo"}

SavedRow == [status : {"absent", "kept", "deleted"}, owner : Users \cup {None},
             last : Nat \cup {Never}]
TapRow == [stage : Stages, of : Saved \cup {None}, user : Users \cup {None},
           at : Nat \cup {Never}, last : Nat \cup {Never}]

SavedTyped ==
    /\ clock \in Nat
    /\ saved \in [Saved -> SavedRow]
    /\ savedLock \in [Saved -> Threads \cup {None}]
    /\ tap \in [Threads -> TapRow]
    /\ marks \in [Saved -> Seq(MarkRow)]

\* What a tap under way knows: the row exists; while it holds the row's lock it
\* has the row's stamp; once it has read the clock the window has passed.
TapsKnow ==
    \A r \in Threads :
        /\ tap[r].stage \in {"locked", "stamp", "send", "undo"} =>
              tap[r].of \in Saved /\ saved[tap[r].of].status # "absent"
        /\ tap[r].stage \in {"locked", "stamp"} =>
              savedLock[tap[r].of] = r /\ tap[r].last = saved[tap[r].of].last
        /\ tap[r].stage = "stamp" =>
              tap[r].at \in Nat /\ (tap[r].last # Never => tap[r].at - tap[r].last >= Window)

\* The stamp in a row is the last one committed, unless it was undone.
LastStamp ==
    \A s \in Saved :
        /\ saved[s].status = "absent" => marks[s] = <<>>
        /\ marks[s] # <<>> /\ marks[s][Len(marks[s])].kind = "stamp" =>
              saved[s].last = marks[s][Len(marks[s])].at

SavedInv == SavedTyped /\ TapsKnow /\ LastStamp /\ TapsApart

LEMMA NoTapTyped == NoTap \in TapRow
BY DEF NoTap, TapRow, Stages

LEMMA NoThreadIsNone == None \notin Threads /\ None \notin Saved /\ Window \in Nat
BY AccountsAssumption, SavedAssumption

LEMMA SavedInitInv == SavedInit => SavedInv
BY NoThreadIsNone
DEF SavedInit, SavedInv, SavedTyped, SavedRow, TapRow, TapsKnow, LastStamp, TapsApart, NoSaved,
    NoTap, Never, Stages

\* One more mark: the others stay where they are.
LEMMA Marked ==
    ASSUME NEW m \in Seq(MarkRow), NEW x \in MarkRow
    PROVE  /\ Append(m, x) \in Seq(MarkRow)
           /\ Len(Append(m, x)) = Len(m) + 1
           /\ Append(m, x) # <<>>
           /\ Append(m, x)[Len(m) + 1] = x
           /\ \A i \in 1..Len(m) : Append(m, x)[i] = m[i]
OBVIOUS

-----------------------------------------------------------------------------
\* A step that ends a tap, or begins one that holds nothing.
LEMMA IdleStepKeeps ==
    ASSUME SavedInv, NEW r \in Threads, UNCHANGED <<clock, saved, marks>>,
           tap' \in [Threads -> TapRow],
           tap'[r].stage \in {"idle", "save"},
           \A q \in Threads \ {r} : tap'[q] = tap[q],
           savedLock' \in [Saved -> Threads \cup {None}],
           \A s \in Saved : savedLock'[s] # savedLock[s] => savedLock[s] = r
    PROVE  SavedInv'
<1>1. SavedTyped'
  BY DEF SavedInv, SavedTyped
<1>2. TapsKnow'
  <2>1. \A q \in Threads \ {r}, s \in Saved : savedLock[s] = q => savedLock'[s] = q
    OBVIOUS
  <2> QED
    BY <2>1 DEF SavedInv, TapsKnow
<1> QED
  BY <1>1, <1>2 DEF SavedInv, LastStamp, TapsApart

LEMMA WriteSaveKeeps ==
    ASSUME SavedInv, NEW r \in Threads, NEW s \in Saved, WriteSave(r, s)
    PROVE  SavedInv'
<1> DEFINE row == [status |-> "kept", owner |-> tap[r].user, last |-> Never]
<1>1. /\ saved[s].status = "absent"
      /\ saved' = [saved EXCEPT ![s] = row]
      /\ tap' = [tap EXCEPT ![r] = NoTap]
      /\ UNCHANGED <<clock, savedLock, marks>>
  BY DEF WriteSave
<1>2. marks[s] = <<>>
  BY <1>1 DEF SavedInv, LastStamp
<1>3. SavedTyped'
  <2>1. row \in SavedRow
    BY DEF SavedInv, SavedTyped, SavedRow, TapRow
  <2> QED
    BY <1>1, <2>1, NoTapTyped DEF SavedInv, SavedTyped
<1>4. TapsKnow'
  BY <1>1 DEF SavedInv, SavedTyped, TapsKnow, NoTap
<1>5. LastStamp' /\ TapsApart'
  BY <1>1, <1>2 DEF SavedInv, SavedTyped, LastStamp, TapsApart
<1> QED
  BY <1>3, <1>4, <1>5 DEF SavedInv

LEMMA DeleteKeeps ==
    ASSUME SavedInv, NEW s \in Saved, DeleteSaved(s)
    PROVE  SavedInv'
<1>1. /\ saved[s].status = "kept" /\ savedLock[s] = None
      /\ saved' = [saved EXCEPT ![s].status = "deleted"]
      /\ UNCHANGED <<clock, savedLock, tap, marks>>
  BY DEF DeleteSaved, Kept, RowFree
<1>2. SavedTyped'
  <2>1. [saved[s] EXCEPT !.status = "deleted"] \in SavedRow
    BY DEF SavedInv, SavedTyped, SavedRow
  <2> QED
    BY <1>1, <2>1 DEF SavedInv, SavedTyped
<1>3. TapsKnow'
  BY <1>1, NoThreadIsNone DEF SavedInv, SavedTyped, TapsKnow
<1>4. LastStamp' /\ TapsApart'
  BY <1>1 DEF SavedInv, SavedTyped, LastStamp, TapsApart
<1> QED
  BY <1>2, <1>3, <1>4 DEF SavedInv

LEMMA LockTapKeeps ==
    ASSUME SavedInv, NEW r \in Threads, NEW s \in Saved, LockTap(r, s)
    PROVE  SavedInv'
<1>1. /\ saved[s].status = "kept" /\ savedLock[s] = None
      /\ savedLock' = [savedLock EXCEPT ![s] = r]
      /\ tap' = [tap EXCEPT ![r] = [NoTap EXCEPT !.stage = "locked", !.of = s, !.last = saved[s].last]]
      /\ UNCHANGED <<clock, saved, marks>>
  BY DEF LockTap, Kept, RowFree
<1>2. SavedTyped'
  <2>1. saved[s].last \in Nat \cup {Never}
    BY DEF SavedInv, SavedTyped, SavedRow
  <2>2. [NoTap EXCEPT !.stage = "locked", !.of = s, !.last = saved[s].last] \in TapRow
    BY <2>1, NoTapTyped DEF TapRow, Stages
  <2> QED
    BY <1>1, <2>2 DEF SavedInv, SavedTyped
<1>3. TapsKnow'
  <2>1. /\ tap'[r].stage = "locked" /\ tap'[r].of = s /\ tap'[r].last = saved[s].last
        /\ \A q \in Threads \ {r} : tap'[q] = tap[q]
    BY <1>1 DEF SavedInv, SavedTyped, NoTap
  <2> QED
    BY <1>1, <2>1, NoThreadIsNone DEF SavedInv, SavedTyped, TapsKnow
<1> QED
  BY <1>1, <1>2, <1>3 DEF SavedInv, LastStamp, TapsApart

LEMMA ReadClockKeeps ==
    ASSUME SavedInv, NEW r \in Threads, ReadClock(r)
    PROVE  SavedInv'
<1>1. CASE tap[r].last # Never /\ clock - tap[r].last < Window
  <2>1. /\ tap' = [tap EXCEPT ![r] = NoTap] /\ savedLock' = Unlocked(tap[r].of)
        /\ savedLock[tap[r].of] = r /\ UNCHANGED <<clock, saved, marks>>
    BY <1>1 DEF ReadClock, SavedInv, TapsKnow
  <2> QED
    BY <2>1, IdleStepKeeps, NoTapTyped DEF SavedInv, SavedTyped, Unlocked, NoTap
<1>2. CASE ~(tap[r].last # Never /\ clock - tap[r].last < Window)
  <2>1. /\ tap[r].stage = "locked"
        /\ tap' = [tap EXCEPT ![r].stage = "stamp", ![r].at = clock]
        /\ UNCHANGED <<clock, saved, savedLock, marks>>
    BY <1>2 DEF ReadClock
  <2>2. SavedTyped'
    <3>1. [tap[r] EXCEPT !.stage = "stamp", !.at = clock] \in TapRow
      BY DEF SavedInv, SavedTyped, TapRow, Stages
    <3> QED
      BY <2>1, <3>1 DEF SavedInv, SavedTyped
  <2>3. TapsKnow'
    BY <1>2, <2>1, NoThreadIsNone DEF SavedInv, SavedTyped, TapRow, TapsKnow, Never
  <2> QED
    BY <2>1, <2>2, <2>3 DEF SavedInv, LastStamp, TapsApart
<1> QED
  BY <1>1, <1>2

\* The stamp: a window after the last one that was not undone.
LEMMA StampKeeps ==
    ASSUME SavedInv, NEW r \in Threads, StampTap(r)
    PROVE  SavedInv'
<1> DEFINE s == tap[r].of
           x == [kind |-> "stamp", at |-> tap[r].at]
<1>1. /\ tap[r].stage = "stamp"
      /\ saved' = [saved EXCEPT ![s].last = tap[r].at]
      /\ savedLock' = [savedLock EXCEPT ![s] = None]
      /\ marks' = [marks EXCEPT ![s] = Append(@, x)]
      /\ tap' = [tap EXCEPT ![r].stage = "send"]
      /\ UNCHANGED clock
  BY DEF StampTap, Unlocked, Mark
<1>2. /\ s \in Saved /\ saved[s].status # "absent" /\ savedLock[s] = r
      /\ tap[r].last = saved[s].last
      /\ tap[r].at \in Nat
      /\ tap[r].last # Never => tap[r].at - tap[r].last >= Window
  BY <1>1 DEF SavedInv, TapsKnow
<1>3. x \in MarkRow /\ marks[s] \in Seq(MarkRow)
  BY <1>2 DEF SavedInv, SavedTyped, MarkRow
<1>4. SavedTyped'
  <2>1. [saved[s] EXCEPT !.last = tap[r].at] \in SavedRow
    BY <1>2 DEF SavedInv, SavedTyped, SavedRow
  <2>2. [tap[r] EXCEPT !.stage = "send"] \in TapRow
    BY DEF SavedInv, SavedTyped, TapRow, Stages
  <2>3. saved' \in [Saved -> SavedRow] /\ tap' \in [Threads -> TapRow]
    BY <1>1, <1>2, <2>1, <2>2 DEF SavedInv, SavedTyped
  <2>4. marks' \in [Saved -> Seq(MarkRow)]
    BY <1>1, <1>2, <1>3, Marked DEF SavedInv, SavedTyped
  <2> QED
    BY <1>1, <2>3, <2>4 DEF SavedInv, SavedTyped
<1>5. TapsKnow'
  BY <1>1, <1>2 DEF SavedInv, SavedTyped, TapsKnow
<1>6. LastStamp'
  BY <1>1, <1>2, <1>3, Marked DEF SavedInv, SavedTyped, LastStamp
<1>7. TapsApart'
  <2>1. SUFFICES ASSUME NEW i \in 1..Len(marks[s]),
                        marks'[s][i].kind = "stamp", marks'[s][i + 1].kind = "stamp"
                 PROVE  marks'[s][i + 1].at - marks'[s][i].at >= Window
    <3>1. marks \in [Saved -> Seq(MarkRow)]
      BY DEF SavedInv, SavedTyped
    <3>2. \A q \in Saved \ {s} : marks'[q] = marks[q]
      BY <1>1, <3>1
    <3>3. Len(marks'[s]) - 1 = Len(marks[s])
      BY <1>1, <1>2, <1>3, <3>1, Marked
    <3> QED
      BY <3>2, <3>3 DEF SavedInv, TapsApart
  <2>2. /\ marks'[s] = Append(marks[s], x)
        /\ Len(marks[s]) \in Nat
    BY <1>1, <1>2, <1>3 DEF SavedInv, SavedTyped
  <2>3. CASE i < Len(marks[s])
    <3>1. marks'[s][i] = marks[s][i] /\ marks'[s][i + 1] = marks[s][i + 1]
      BY <1>3, <2>2, <2>3, Marked
    <3> QED
      <4>1. i \in 1..(Len(marks[s]) - 1)
        BY <2>2, <2>3
      <4>2. \A j \in 1..(Len(marks[s]) - 1) :
               marks[s][j].kind = "stamp" /\ marks[s][j + 1].kind = "stamp" =>
                   marks[s][j + 1].at - marks[s][j].at >= Window
        BY <1>2 DEF SavedInv, TapsApart
      <4> QED
        BY <2>1, <3>1, <4>1, <4>2
  <2>4. CASE i = Len(marks[s])
    <3>1. marks'[s][i] = marks[s][i] /\ marks'[s][i + 1] = x
      BY <1>3, <2>2, <2>4, Marked
    <3>2. marks[s] # <<>> /\ marks[s][i] \in MarkRow
      BY <1>3, <2>2, <2>4
    <3>3. saved[s].last = marks[s][i].at /\ marks[s][i].at \in Nat
      BY <1>2, <2>1, <2>4, <3>1, <3>2 DEF SavedInv, LastStamp, MarkRow
    <3> QED
      BY <1>2, <3>1, <3>3 DEF Never
  <2> QED
    BY <2>2, <2>3, <2>4
<1> QED
  BY <1>4, <1>5, <1>6, <1>7 DEF SavedInv

LEMMA SendTapKeeps ==
    ASSUME SavedInv, NEW r \in Threads, NEW raised \in BOOLEAN, SendTap(r, raised)
    PROVE  SavedInv'
<1>1. /\ tap[r].stage = "send"
      /\ UNCHANGED <<clock, saved, savedLock, marks>>
      /\ \/ tap' = [tap EXCEPT ![r].stage = "undo"]
         \/ tap' = [tap EXCEPT ![r] = NoTap]
  BY DEF SendTap
<1>2. SavedTyped'
  <2>1. [tap[r] EXCEPT !.stage = "undo"] \in TapRow
    BY DEF SavedInv, SavedTyped, TapRow, Stages
  <2>2. tap' \in [Threads -> TapRow]
    BY <1>1, <2>1, NoTapTyped DEF SavedInv, SavedTyped
  <2> QED
    BY <1>1, <2>2 DEF SavedInv, SavedTyped
<1>3. TapsKnow'
  <2>1. /\ tap'[r].of = tap[r].of \/ tap'[r].stage = "idle"
        /\ tap'[r].stage \in {"undo", "idle"}
        /\ \A q \in Threads \ {r} : tap'[q] = tap[q]
    BY <1>1 DEF SavedInv, SavedTyped, TapRow, NoTap
  <2> QED
    BY <1>1, <2>1 DEF SavedInv, TapsKnow
<1> QED
  BY <1>1, <1>2, <1>3 DEF SavedInv, LastStamp, TapsApart

\* The undo: whatever it puts back, the next stamp is no pair with the last.
LEMMA UndoKeeps ==
    ASSUME SavedInv, NEW r \in Threads, UndoStamp(r)
    PROVE  SavedInv'
<1> DEFINE s == tap[r].of
           x == [kind |-> "undo", at |-> clock]
<1>1. /\ tap[r].stage = "undo" /\ savedLock[s] = None
      /\ saved' = IF Kept(s) THEN [saved EXCEPT ![s].last = tap[r].last] ELSE saved
      /\ marks' = [marks EXCEPT ![s] = Append(@, x)]
      /\ tap' = [tap EXCEPT ![r] = NoTap]
      /\ UNCHANGED <<clock, savedLock>>
  BY DEF UndoStamp, RowFree, Mark
<1>2. s \in Saved /\ saved[s].status # "absent"
  BY <1>1 DEF SavedInv, TapsKnow
<1>3. x \in MarkRow /\ marks[s] \in Seq(MarkRow)
  BY <1>2 DEF SavedInv, SavedTyped, MarkRow
<1>4. /\ saved' \in [Saved -> SavedRow]
      /\ \A q \in Saved : saved'[q].status = saved[q].status
      /\ \A q \in Saved \ {s} : saved'[q] = saved[q]
  <2>1. [saved[s] EXCEPT !.last = tap[r].last] \in SavedRow
    <3>1. saved[s] \in SavedRow
      BY <1>2 DEF SavedInv, SavedTyped
    <3>2. tap[r].last \in Nat \cup {Never}
      BY DEF SavedInv, SavedTyped, TapRow
    <3> QED
      BY <3>1, <3>2 DEF SavedRow
  <2>2. CASE Kept(s)
    BY <1>1, <1>2, <2>1, <2>2 DEF SavedInv, SavedTyped, SavedRow
  <2>3. CASE ~Kept(s)
    BY <1>1, <2>3 DEF SavedInv, SavedTyped
  <2> QED
    BY <2>2, <2>3
<1>5. SavedTyped'
  BY <1>1, <1>2, <1>3, <1>4, Marked, NoTapTyped DEF SavedInv, SavedTyped
<1>6. TapsKnow'
  BY <1>1, <1>2, <1>4, NoThreadIsNone DEF SavedInv, SavedTyped, TapsKnow, NoTap
<1>7. LastStamp'
  BY <1>1, <1>2, <1>3, <1>4, Marked DEF SavedInv, SavedTyped, LastStamp
<1>8. TapsApart'
  <2>1. SUFFICES ASSUME NEW i \in 1..Len(marks[s]),
                        marks'[s][i].kind = "stamp", marks'[s][i + 1].kind = "stamp"
                 PROVE  marks'[s][i + 1].at - marks'[s][i].at >= Window
    <3>1. marks \in [Saved -> Seq(MarkRow)]
      BY DEF SavedInv, SavedTyped
    <3>2. \A q \in Saved \ {s} : marks'[q] = marks[q]
      BY <1>1, <3>1
    <3>3. Len(marks'[s]) - 1 = Len(marks[s])
      BY <1>1, <1>2, <1>3, <3>1, Marked
    <3> QED
      BY <3>2, <3>3 DEF SavedInv, TapsApart
  <2>2. marks'[s] = Append(marks[s], x) /\ Len(marks[s]) \in Nat
    BY <1>1, <1>2, <1>3 DEF SavedInv, SavedTyped
  <2>3. i # Len(marks[s])
    BY <1>3, <2>1, <2>2, Marked
  <2>4. marks'[s][i] = marks[s][i] /\ marks'[s][i + 1] = marks[s][i + 1]
    BY <1>3, <2>2, <2>3, Marked
  <2> QED
    BY <1>2, <2>1, <2>2, <2>3, <2>4 DEF SavedInv, TapsApart
<1> QED
  BY <1>5, <1>6, <1>7, <1>8 DEF SavedInv

LEMMA AbortTapKeeps ==
    ASSUME SavedInv, NEW r \in Threads, AbortTap(r)
    PROVE  SavedInv'
<1>1. /\ tap' = [tap EXCEPT ![r] = NoTap]
      /\ savedLock' = [s \in Saved |-> IF savedLock[s] = r THEN None ELSE savedLock[s]]
      /\ UNCHANGED <<clock, saved, marks>>
  BY DEF AbortTap
<1> QED
  BY <1>1, IdleStepKeeps, NoTapTyped DEF SavedInv, SavedTyped, NoTap

LEMMA SavedStepInv == SavedInv /\ [SavedActivity]_savedVars => SavedInv'
<1> SUFFICES ASSUME SavedInv, [SavedActivity]_savedVars
             PROVE  SavedInv'
  OBVIOUS
<1>1. CASE UNCHANGED savedVars
  BY <1>1 DEF savedVars, SavedInv, SavedTyped, TapsKnow, LastStamp, TapsApart
<1>2. ASSUME NEW r \in Threads, NEW u \in Users, BeginSave(r, u)
      PROVE  SavedInv'
  <2>1. [NoTap EXCEPT !.stage = "save", !.user = u] \in TapRow
    BY <1>2 DEF NoTap, TapRow, Stages
  <2>2. tap' \in [Threads -> TapRow] /\ tap'[r].stage = "save"
    BY <1>2, <2>1 DEF BeginSave, SavedInv, SavedTyped, NoTap
  <2> QED
    BY <1>2, <2>2, IdleStepKeeps DEF BeginSave, SavedInv, SavedTyped
<1>3. ASSUME NEW r \in Threads, NEW s \in Saved, WriteSave(r, s) \/ LockTap(r, s)
      PROVE  SavedInv'
  BY <1>3, WriteSaveKeeps, LockTapKeeps
<1>4. ASSUME NEW r \in Threads, ReadClock(r) \/ StampTap(r) \/ UndoStamp(r) \/ AbortTap(r)
      PROVE  SavedInv'
  BY <1>4, ReadClockKeeps, StampKeeps, UndoKeeps, AbortTapKeeps
<1>5. ASSUME NEW r \in Threads, NEW raised \in BOOLEAN, SendTap(r, raised)
      PROVE  SavedInv'
  BY <1>5, SendTapKeeps
<1>6. ASSUME NEW s \in Saved, DeleteSaved(s)
      PROVE  SavedInv'
  BY <1>6, DeleteKeeps
<1>7. ASSUME Second
      PROVE  SavedInv'
  BY <1>7 DEF Second, SavedInv, SavedTyped, TapsKnow, LastStamp, TapsApart
<1> QED
  BY <1>1, <1>2, <1>3, <1>4, <1>5, <1>6, <1>7 DEF SavedActivity

-----------------------------------------------------------------------------
(* The theorems. *)

\* Types, what taps know and what rows remember, in every state.
THEOREM SavedInvariance == SavedSpec => []SavedInv
BY SavedInitInv, SavedStepInv, PTL DEF SavedSpec

\* Two stamps of a saved payment with no undo between them are a window apart,
\* however many taps arrive at once.
THEOREM TapsStayApart == SavedSpec => []TapsApart
<1>1. SavedInv => TapsApart
  BY DEF SavedInv
<1> QED
  BY <1>1, SavedInvariance, PTL

-----------------------------------------------------------------------------
(* StroWallet.  The state of a row alone decides what a step may do to it,  *)
(* so the invariant speaks of single rows: a deposit exactly when the row   *)
(* says so, and nothing verified that did not happen.  Applications for one *)
(* row may overlap, so an answer may find it in any status; the unique      *)
(* index alone keeps numbers apart, and a row that is settled is out of     *)
(* reach of every step but an operator's.                                   *)

AcctsTyped ==
    acct \in [Users -> [status : {"none", "pending", "active", "failed", "suspended"},
                        number : Numbers \cup {None}, live : BOOLEAN]]

EventsTyped ==
    event \in [Sessions ->
        [status : {"absent", "invalid", "unmatched", "received", "unverified", "rejected",
                   "verified", "deposit_created"},
         owner : Users \cup {None}, attempts : Nat, deposits : Nat]]

StroTyped ==
    /\ op \in [Threads -> StroOps \cup {"idle"}]
    /\ who \in [Threads -> Users \cup {None}]
    /\ real \subseteq Sessions
    /\ StroTypeOK

\* An account has a number, and a number belongs to one row.
NumbersHeld ==
    /\ \A u \in Users : acct[u].status \in {"active", "suspended"} => acct[u].number # None
    /\ \A u, v \in Users : acct[u].number # None /\ acct[u].number = acct[v].number => u = v

StroInv == StroTyped /\ DepositedOnce /\ NumbersHeld

LEMMA NoneIsNothing == None \notin Users /\ None \notin Sessions /\ None \notin Numbers
BY AccountsAssumption, StroAssumption

LEMMA StroInitInv == AccountsInit /\ StroInit => StroInv
BY NoneIsNothing
DEF AccountsInit, StroInit, StroInv, StroTyped, StroTypeOK, StroOps, DepositedOnce, NumbersHeld,
    NoAcct, NoEvent, NoTask

\* A thread that is done leaves its types and everybody else's work alone.
LEMMA DoneKeeps ==
    ASSUME StroTyped, NEW r \in Threads, Done(r)
    PROVE  /\ op' \in [Threads -> StroOps \cup {"idle"}]
           /\ who' \in [Threads -> Users \cup {None}]
           /\ task' \in [Threads -> [of : Sessions \cup {None}, manual : BOOLEAN, before : Nat]]
           /\ op'[r] = "idle"
           /\ \A s \in Threads \ {r} : op'[s] = op[s] /\ who'[s] = who[s] /\ task'[s] = task[s]
BY DEF StroTyped, StroTypeOK, Done, Turn, NoTask, StroOps

-----------------------------------------------------------------------------
(* Accounts. *)

LEMMA BeginApplyKeeps ==
    ASSUME StroInv, NEW r \in Threads, NEW u \in Users, NEW live \in BOOLEAN, BeginApply(r, u, live)
    PROVE  StroInv'
<1>1. StroTyped'
  BY DEF StroInv, StroTyped, StroTypeOK, StroOps, BeginApply, Turn
<1>2. NumbersHeld'
  BY DEF StroInv, StroTyped, StroTypeOK, NumbersHeld, BeginApply
<1> QED
  BY <1>1, <1>2 DEF StroInv, DepositedOnce, BeginApply

LEMMA ApplyEndKeeps ==
    ASSUME StroInv, NEW r \in Threads,
           (\E n \in Numbers : FinishApply(r, n)) \/ FailApply(r)
    PROVE  StroInv'
<1>1. who[r] \in Users /\ op[r] = "provision"
  BY DEF StroInv, StroTyped, StroTypeOK, StroOps, FinishApply, FailApply
<1>2. Done(r) /\ UNCHANGED <<event, real>>
  BY DEF FinishApply, FailApply
<1>3. /\ op' \in [Threads -> StroOps \cup {"idle"}]
      /\ who' \in [Threads -> Users \cup {None}]
      /\ task' \in [Threads -> [of : Sessions \cup {None}, manual : BOOLEAN, before : Nat]]
      /\ op'[r] = "idle"
      /\ \A s \in Threads \ {r} : op'[s] = op[s] /\ who'[s] = who[s] /\ task'[s] = task[s]
  BY <1>2, DoneKeeps DEF StroInv
<1>4. /\ AcctsTyped'
      /\ \A v \in Users \ {who[r]} : acct'[v] = acct[v]
      /\ \/ acct'[who[r]].status = "failed" /\ acct'[who[r]].number \in {None, acct[who[r]].number}
         \/ /\ acct'[who[r]].number # None
            /\ \A v \in Users \ {who[r]} : acct[v].number # acct'[who[r]].number
  <2>1. AcctsTyped
    BY DEF StroInv, StroTyped, StroTypeOK, AcctsTyped
  <2>2. \/ acct' = [acct EXCEPT ![who[r]].status = "failed"]
        \/ \E n \in Numbers : acct' = [acct EXCEPT
              ![who[r]].status = IF \E v \in Users \ {who[r]} : acct[v].number = n
                                 THEN "failed" ELSE "active",
              ![who[r]].number = IF \E v \in Users \ {who[r]} : acct[v].number = n
                                 THEN None ELSE n]
    BY DEF FinishApply, FailApply
  <2>3. CASE acct' = [acct EXCEPT ![who[r]].status = "failed"]
    BY <1>1, <2>1, <2>3 DEF AcctsTyped
  <2>4. ASSUME NEW n \in Numbers, \E v \in Users \ {who[r]} : acct[v].number = n,
               acct' = [acct EXCEPT ![who[r]].status = "failed", ![who[r]].number = None]
        PROVE  AcctsTyped' /\ (\A v \in Users \ {who[r]} : acct'[v] = acct[v])
               /\ acct'[who[r]].status = "failed" /\ acct'[who[r]].number = None
    BY <1>1, <2>1, <2>4 DEF AcctsTyped
  <2>5. ASSUME NEW n \in Numbers, \A v \in Users \ {who[r]} : acct[v].number # n,
               acct' = [acct EXCEPT ![who[r]].status = "active", ![who[r]].number = n]
        PROVE  AcctsTyped' /\ (\A v \in Users \ {who[r]} : acct'[v] = acct[v])
               /\ acct'[who[r]].number = n
    BY <1>1, <2>1, <2>5 DEF AcctsTyped
  <2> QED
    <3>1. ASSUME NEW n \in Numbers,
                 acct' = [acct EXCEPT
                    ![who[r]].status = IF \E v \in Users \ {who[r]} : acct[v].number = n
                                       THEN "failed" ELSE "active",
                    ![who[r]].number = IF \E v \in Users \ {who[r]} : acct[v].number = n
                                       THEN None ELSE n]
          PROVE  /\ AcctsTyped' /\ (\A v \in Users \ {who[r]} : acct'[v] = acct[v])
                 /\ \/ acct'[who[r]].status = "failed" /\ acct'[who[r]].number = None
                    \/ /\ acct'[who[r]].number # None
                       /\ \A v \in Users \ {who[r]} : acct[v].number # acct'[who[r]].number
      <4>1. CASE \E v \in Users \ {who[r]} : acct[v].number = n
        BY <2>4, <3>1, <4>1
      <4>2. CASE \A v \in Users \ {who[r]} : acct[v].number # n
        <5>1. n # None
          BY NoneIsNothing
        <5>2. acct' = [acct EXCEPT ![who[r]].status = "active", ![who[r]].number = n]
          BY <3>1, <4>2
        <5> QED
          BY <2>5, <4>2, <5>1, <5>2
      <4> QED
        BY <4>1, <4>2
    <3> QED
      BY <2>2, <2>3, <3>1
<1>5. StroTyped'
  BY <1>2, <1>3, <1>4 DEF StroInv, StroTyped, StroTypeOK, AcctsTyped, StroOps
<1>6. NumbersHeld'
  BY <1>1, <1>4 DEF StroInv, NumbersHeld
<1> QED
  BY <1>2, <1>5, <1>6 DEF StroInv, DepositedOnce

LEMMA SuspendKeeps ==
    ASSUME StroInv, NEW u \in Users, Suspend(u)
    PROVE  StroInv'
<1>1. StroTyped' /\ NumbersHeld'
  BY DEF StroInv, StroTyped, StroTypeOK, NumbersHeld, Suspend, accountsVars
<1> QED
  BY <1>1 DEF StroInv, DepositedOnce, Suspend

-----------------------------------------------------------------------------
(* Events: steps that leave the accounts alone. *)

LEMMA AccountsKept ==
    ASSUME StroInv, UNCHANGED acct
    PROVE  NumbersHeld'
BY DEF StroInv, NumbersHeld

LEMMA DeliverKeeps ==
    ASSUME StroInv, NEW r \in Threads, NEW e \in Sessions, NEW n \in Numbers, NEW good \in BOOLEAN,
           Deliver(r, e, n, good)
    PROVE  StroInv'
<1> DEFINE row == IF event[e].status = "absent" THEN Recorded(n, good) ELSE event[e]
<1>1. Recorded(n, good) \in
          [status : {"invalid", "unmatched", "received"}, owner : Users \cup {None},
           attempts : Nat, deposits : {0}]
  BY NoneIsNothing DEF Recorded, NoEvent, Owners
<1>2. event' = [event EXCEPT ![e] = row]
  BY DEF Deliver
<1>3. DepositedOnce'
  BY <1>1, <1>2 DEF StroInv, StroTyped, StroTypeOK, DepositedOnce, Deliver
<1>4. EventsTyped'
  BY <1>1, <1>2 DEF StroInv, StroTyped, StroTypeOK, EventsTyped
<1>5. CASE row.status \in Processable
  <2>1. /\ Turn(r, "stro_read") /\ task' = [task EXCEPT ![r] = [NoTask EXCEPT !.of = e]]
        /\ op[r] = "idle" /\ UNCHANGED <<who, acct, real>>
    BY <1>5 DEF Deliver
  <2>2. StroTyped'
    BY <1>4, <2>1 DEF StroInv, StroTyped, StroTypeOK, EventsTyped, StroOps, Turn, NoTask
  <2>3. NumbersHeld'
    BY <2>1, AccountsKept
  <2> QED
    BY <1>3, <2>2, <2>3 DEF StroInv
<1>6. CASE row.status \notin Processable
  <2>1. UNCHANGED <<op, who, task, acct, real>> /\ op[r] = "idle"
    BY <1>6 DEF Deliver
  <2>2. StroTyped'
    BY <1>4, <2>1 DEF StroInv, StroTyped, StroTypeOK, EventsTyped
  <2>3. NumbersHeld'
    BY <2>1, AccountsKept
  <2> QED
    BY <1>3, <2>2, <2>3 DEF StroInv
<1> QED
  BY <1>5, <1>6

LEMMA RetryKeeps ==
    ASSUME StroInv, NEW r \in Threads, NEW e \in Sessions, Retry(r, e)
    PROVE  StroInv'
<1>1. StroTyped'
  BY DEF StroInv, StroTyped, StroTypeOK, StroOps, Retry, Turn
<1>2. NumbersHeld'
  BY AccountsKept DEF Retry
<1> QED
  BY <1>1, <1>2 DEF StroInv, DepositedOnce, Retry

\* A task's step that stays within the task, or ends it, and leaves the event a
\* row of the same owner keeps the types and the accounts.
LEMMA TaskStepKeeps ==
    ASSUME StroInv, NEW r \in Threads, UNCHANGED <<acct, real>>,
           op[r] \in {"stro_read", "stro_count", "stro_ask", "stro_deposit"},
           EventsTyped',
           \/ Done(r)
           \/ /\ \E o \in {"stro_count", "stro_ask", "stro_deposit"} : Turn(r, o)
              /\ UNCHANGED who
              /\ task' \in [Threads -> [of : Sessions \cup {None}, manual : BOOLEAN, before : Nat]]
              /\ \A s \in Threads : task'[s].of = task[s].of
    PROVE  StroTyped' /\ NumbersHeld'
<1>1. CASE Done(r)
  <2>1. StroTyped'
    <3>1. /\ op' \in [Threads -> StroOps \cup {"idle"}]
          /\ who' \in [Threads -> Users \cup {None}]
          /\ task' \in [Threads -> [of : Sessions \cup {None}, manual : BOOLEAN, before : Nat]]
          /\ op'[r] = "idle"
          /\ \A s \in Threads \ {r} : op'[s] = op[s] /\ who'[s] = who[s] /\ task'[s] = task[s]
      BY <1>1, DoneKeeps DEF StroInv
    <3>2. \A s \in Threads : op[s] \in StroOps =>
             IF op[s] = "provision" THEN who[s] \in Users ELSE task[s].of \in Sessions
      BY DEF StroInv, StroTyped, StroTypeOK
    <3>3. \A s \in Threads : op'[s] \in StroOps =>
             IF op'[s] = "provision" THEN who'[s] \in Users ELSE task'[s].of \in Sessions
      BY <3>1, <3>2 DEF StroOps
    <3> QED
      BY <3>1, <3>3 DEF StroInv, StroTyped, StroTypeOK, EventsTyped
  <2>2. NumbersHeld'
    BY AccountsKept
  <2> QED
    BY <2>1, <2>2
<1>2. ASSUME NEW o \in {"stro_count", "stro_ask", "stro_deposit"}, Turn(r, o), UNCHANGED who,
             task' \in [Threads -> [of : Sessions \cup {None}, manual : BOOLEAN, before : Nat]],
             \A s \in Threads : task'[s].of = task[s].of
      PROVE  StroTyped' /\ NumbersHeld'
  <2>1. op' = [op EXCEPT ![r] = o]
    BY <1>2 DEF Turn
  <2>2. op' \in [Threads -> StroOps \cup {"idle"}]
    BY <2>1 DEF StroInv, StroTyped, StroOps
  <2>3. \A s \in Threads : op'[s] \in StroOps =>
           IF op'[s] = "provision" THEN who'[s] \in Users ELSE task'[s].of \in Sessions
    BY <1>2, <2>1 DEF StroInv, StroTyped, StroTypeOK, StroOps
  <2>4. StroTyped'
    BY <1>2, <2>2, <2>3 DEF StroInv, StroTyped, StroTypeOK, EventsTyped
  <2>5. NumbersHeld'
    BY AccountsKept
  <2> QED
    BY <2>4, <2>5
<1> QED
  BY <1>1, <1>2

\* A write guarded by MayFinish finds an event that was not verified.
LEMMA MayFinishUnverified ==
    ASSUME StroInv, NEW r \in Threads, task[r].of \in Sessions, MayFinish(r)
    PROVE  /\ event[task[r].of].status \in {"received", "unverified", "rejected"}
           /\ event[task[r].of].deposits = 0
BY DEF StroInv, DepositedOnce, MayFinish, Allowed, ManualStates, AutoStates

LEMMA ReadEventKeeps ==
    ASSUME StroInv, NEW r \in Threads, ReadEvent(r)
    PROVE  StroInv'
<1>1. op[r] = "stro_read" /\ task[r].of \in Sessions /\ UNCHANGED <<acct, event, real>>
  BY DEF StroInv, StroTyped, StroTypeOK, StroOps, ReadEvent
<1>2. \/ Done(r)
      \/ /\ \E o \in {"stro_count", "stro_deposit"} : Turn(r, o)
         /\ UNCHANGED who
         /\ \/ UNCHANGED task
            \/ task' = [task EXCEPT ![r].before = event[task[r].of].attempts]
  BY DEF ReadEvent
<1>3. event[task[r].of].attempts \in Nat
  BY <1>1 DEF StroInv, StroTyped, StroTypeOK
<1>4. ~Done(r) =>
         /\ task' \in [Threads -> [of : Sessions \cup {None}, manual : BOOLEAN, before : Nat]]
         /\ \A s \in Threads : task'[s].of = task[s].of
  <2>1. task \in [Threads -> [of : Sessions \cup {None}, manual : BOOLEAN, before : Nat]]
    BY DEF StroInv, StroTyped, StroTypeOK
  <2>2. CASE UNCHANGED task
    BY <2>1, <2>2
  <2>3. CASE task' = [task EXCEPT ![r].before = event[task[r].of].attempts]
    BY <1>3, <2>1, <2>3
  <2> QED
    BY <1>2, <2>2, <2>3
<1>5. StroTyped' /\ NumbersHeld'
  BY <1>1, <1>2, <1>4, TaskStepKeeps DEF StroInv, StroTyped, StroTypeOK, EventsTyped
<1> QED
  BY <1>1, <1>5 DEF StroInv, DepositedOnce

\* The steps that may write the event's status or count an attempt, but not a
\* deposit.
LEMMA AskingKeeps ==
    ASSUME StroInv, NEW r \in Threads,
           \/ CountAttempt(r) \/ Unmatch(r) \/ Unreachable(r)
           \/ \E p \in Replies : Answered(r, p)
    PROVE  StroInv'
<1> DEFINE e == task[r].of
<1>1. op[r] \in {"stro_count", "stro_ask"} /\ e \in Sessions /\ UNCHANGED <<acct, real>>
  BY DEF StroInv, StroTyped, StroTypeOK, StroOps, CountAttempt, Unmatch, Unreachable, Answered
<1>2. \/ UNCHANGED event
      \/ MayFinish(r) /\ event' = [event EXCEPT ![e].attempts = @ + 1]
      \/ MayFinish(r) /\ \E st \in {"unmatched", "unverified", "rejected"} :
                            event' = [event EXCEPT ![e].status = st]
      \/ MayFinish(r) /\ e \in real /\ event' = [event EXCEPT ![e].status = "verified"]
  <2>1. CASE CountAttempt(r)
    BY <2>1 DEF CountAttempt
  <2>2. CASE Unmatch(r)
    BY <2>2 DEF Unmatch
  <2>3. CASE Unreachable(r)
    BY <2>3 DEF Unreachable
  <2>4. ASSUME NEW p \in Replies, Answered(r, p)
        PROVE  \/ UNCHANGED event
               \/ MayFinish(r) /\ \E st \in {"unverified", "rejected"} :
                                     event' = [event EXCEPT ![e].status = st]
               \/ MayFinish(r) /\ e \in real /\ event' = [event EXCEPT ![e].status = "verified"]
    BY <2>4 DEF Answered, Honest, Confirms
  <2> QED
    BY <2>1, <2>2, <2>3, <2>4
<1>3. EventsTyped' /\ DepositedOnce'
  <2>1. EventsTyped /\ DepositedOnce /\ UNCHANGED real
    BY <1>1 DEF StroInv, StroTyped, StroTypeOK, EventsTyped
  <2>2. CASE UNCHANGED event
    BY <2>1, <2>2 DEF EventsTyped, DepositedOnce
  <2>3. CASE MayFinish(r) /\ event' = [event EXCEPT ![e].attempts = @ + 1]
    BY <1>1, <2>1, <2>3 DEF EventsTyped, DepositedOnce
  <2>4. ASSUME MayFinish(r),
               NEW st \in {"unmatched", "unverified", "rejected", "verified"},
               st = "verified" => e \in real,
               event' = [event EXCEPT ![e].status = st]
        PROVE  EventsTyped' /\ DepositedOnce'
    <3>1. event[e].status # "deposit_created" /\ event[e].deposits = 0
      BY <1>1, <2>4, MayFinishUnverified
    <3> QED
      BY <1>1, <2>1, <2>4, <3>1 DEF EventsTyped, DepositedOnce
  <2> QED
    BY <1>2, <2>2, <2>3, <2>4
<1>4. \/ Done(r)
      \/ (\E o \in {"stro_ask", "stro_deposit"} : Turn(r, o)) /\ UNCHANGED <<who, task>>
  BY DEF CountAttempt, Unmatch, Unreachable, Answered
<1>5. StroTyped' /\ NumbersHeld'
  BY <1>1, <1>3, <1>4, TaskStepKeeps DEF StroInv, StroTyped, StroTypeOK
<1> QED
  BY <1>3, <1>5 DEF StroInv

LEMMA CreateDepositKeeps ==
    ASSUME StroInv, NEW r \in Threads, CreateDeposit(r)
    PROVE  StroInv'
<1> DEFINE e == task[r].of
<1>1. op[r] = "stro_deposit" /\ e \in Sessions /\ Done(r) /\ UNCHANGED <<acct, real>>
  BY DEF StroInv, StroTyped, StroTypeOK, StroOps, CreateDeposit
<1>2. \/ UNCHANGED event
      \/ /\ event[e].status = "verified" /\ event[e].deposits = 0
         /\ event' = [event EXCEPT ![e].status = "deposit_created", ![e].deposits = @ + 1]
  BY DEF CreateDeposit, DepositWanted
<1>3. /\ EventsTyped'
      /\ DepositedOnce'
  BY <1>1, <1>2 DEF StroInv, StroTyped, StroTypeOK, EventsTyped, DepositedOnce
<1>4. StroTyped' /\ NumbersHeld'
  BY <1>1, <1>3, TaskStepKeeps
<1> QED
  BY <1>3, <1>4 DEF StroInv

LEMMA AbortStroKeeps ==
    ASSUME StroInv, NEW r \in Threads, AbortStro(r)
    PROVE  StroInv'
<1>1. Done(r) /\ UNCHANGED <<acct, event, real>>
  BY DEF AbortStro
<1>2. StroTyped'
  BY <1>1, DoneKeeps DEF StroInv, StroTyped, StroTypeOK, StroOps
<1>3. NumbersHeld'
  BY <1>1, AccountsKept
<1> QED
  BY <1>1, <1>2, <1>3 DEF StroInv, DepositedOnce

LEMMA StroStepInv == StroInv /\ [StroActivity]_<<accountsVars, stroVars>> => StroInv'
<1> SUFFICES ASSUME StroInv, [StroActivity]_<<accountsVars, stroVars>>
             PROVE  StroInv'
  OBVIOUS
<1>1. CASE UNCHANGED <<accountsVars, stroVars>>
  <2>1. UNCHANGED <<op, who, acct, event, real, task>>
    BY <1>1 DEF accountsVars, stroVars
  <2>2. StroTyped'
    BY <2>1 DEF StroInv, StroTyped, StroTypeOK
  <2> QED
    BY <2>1, <2>2 DEF StroInv, DepositedOnce, NumbersHeld
<1>2. ASSUME NEW r \in Threads, NEW u \in Users, NEW live \in BOOLEAN, BeginApply(r, u, live)
      PROVE  StroInv'
  BY <1>2, BeginApplyKeeps
<1>3. ASSUME NEW r \in Threads, (\E n \in Numbers : FinishApply(r, n)) \/ FailApply(r)
      PROVE  StroInv'
  BY <1>3, ApplyEndKeeps
<1>4. ASSUME NEW u \in Users, Suspend(u)
      PROVE  StroInv'
  BY <1>4, SuspendKeeps
<1>5. ASSUME NEW r \in Threads, NEW e \in Sessions, NEW n \in Numbers, NEW good \in BOOLEAN,
             Deliver(r, e, n, good)
      PROVE  StroInv'
  BY <1>5, DeliverKeeps
<1>6. ASSUME NEW r \in Threads, NEW e \in Sessions, Retry(r, e)
      PROVE  StroInv'
  BY <1>6, RetryKeeps
<1>7. ASSUME NEW r \in Threads, ReadEvent(r)
      PROVE  StroInv'
  BY <1>7, ReadEventKeeps
<1>8. ASSUME NEW r \in Threads, \/ CountAttempt(r) \/ Unmatch(r) \/ Unreachable(r)
                                \/ \E p \in Replies : Answered(r, p)
      PROVE  StroInv'
  BY <1>8, AskingKeeps
<1>9. ASSUME NEW r \in Threads, CreateDeposit(r) \/ AbortStro(r)
       PROVE  StroInv'
  BY <1>9, CreateDepositKeeps, AbortStroKeeps
<1> QED
  BY <1>1, <1>2, <1>3, <1>4, <1>5, <1>6, <1>7, <1>8, <1>9 DEF StroActivity

-----------------------------------------------------------------------------
(* The theorems. *)

\* The types and the invariants of rows hold in every state,
\* whatever is delivered, retried, applied for or cut short.
THEOREM StroInvariance == StroSpec => []StroInv
BY StroInitInv, StroStepInv, PTL DEF StroSpec

\* Exactly-once, for any number of deliveries, tasks and retries: an announced
\* transfer becomes at most one deposit, only if it really happened.
THEOREM DepositsAreSingle == StroSpec => []DepositedOnce
<1>1. StroInv => DepositedOnce
  BY DEF StroInv
<1> QED
  BY <1>1, StroInvariance, PTL

\* What one step may do to a verified event: nothing, or make its deposit.
LEMMA VerifiedStep ==
    ASSUME StroInv, StroActivity, NEW e \in Sessions,
           event[e].status \in {"verified", "deposit_created"}
    PROVE  event'[e].status \in {event[e].status, "deposit_created"}
<1> DEFINE Lasts == event'[e].status \in {event[e].status, "deposit_created"}
<1>1. event \in [Sessions -> [status : {"absent", "invalid", "unmatched", "received", "unverified",
                                        "rejected", "verified", "deposit_created"},
                              owner : Users \cup {None}, attempts : Nat, deposits : Nat]]
  BY DEF StroInv, StroTyped, StroTypeOK
<1>2. ASSUME NEW r \in Threads, NEW f \in Sessions, NEW n \in Numbers, NEW good \in BOOLEAN,
             Deliver(r, f, n, good)
      PROVE  Lasts
  BY <1>1, <1>2 DEF Deliver
<1>3. ASSUME NEW r \in Threads, \/ CountAttempt(r) \/ Unmatch(r) \/ Unreachable(r)
                                \/ \E p \in Replies : Answered(r, p)
      PROVE  Lasts
  <2>1. task[r].of \in Sessions
    BY <1>3 DEF StroInv, StroTyped, StroTypeOK, StroOps, CountAttempt, Unmatch, Unreachable, Answered
  <2>2. MayFinish(r) => task[r].of # e
    BY <2>1, MayFinishUnverified
  <2>3. \/ UNCHANGED event
        \/ MayFinish(r) /\ event' = [event EXCEPT ![task[r].of].attempts = @ + 1]
        \/ MayFinish(r) /\ \E st \in {"unmatched", "unverified", "rejected", "verified"} :
                              event' = [event EXCEPT ![task[r].of].status = st]
    BY <1>3 DEF CountAttempt, Unmatch, Unreachable, Answered
  <2> QED
    BY <1>1, <2>1, <2>2, <2>3
<1>4. ASSUME NEW r \in Threads, CreateDeposit(r)
      PROVE  Lasts
  BY <1>1, <1>4 DEF CreateDeposit
<1>5. UNCHANGED event => Lasts
  OBVIOUS
<1> QED
  BY <1>2, <1>3, <1>4, <1>5
  DEF StroActivity, BeginApply, FinishApply, FailApply, Retry, ReadEvent, AbortStro, Suspend

\* However many verifications overlap, none moves a verified event anywhere but
\* to its deposit.
THEOREM VerifiedEventsStand == StroSpec => VerifiedStands
<1>1. StroInv /\ [StroActivity]_<<accountsVars, stroVars>> =>
          [\A e \in Sessions : event[e].status \in {"verified", "deposit_created"} =>
              event'[e].status \in {event[e].status, "deposit_created"}]_event
  BY VerifiedStep DEF stroVars
<1> QED
  BY <1>1, StroInvariance, PTL DEF StroSpec, VerifiedStands

\* What one step may do to a settled row: an operator's suspension or reinstatement.
LEMMA SettledStep ==
    ASSUME StroInv, StroActivity, NEW u \in Users, Settled(u)
    PROVE  Settled(u)' /\ acct'[u].number = acct[u].number
<1> DEFINE Stands == Settled(u)' /\ acct'[u].number = acct[u].number
<1>1. /\ AcctsTyped
      /\ op \in [Threads -> StroOps \cup {"idle"}] /\ who \in [Threads -> Users \cup {None}]
  BY DEF StroInv, StroTyped, StroTypeOK, AcctsTyped
<1>2. ASSUME NEW r \in Threads, NEW v \in Users, NEW live \in BOOLEAN, BeginApply(r, v, live)
      PROVE  Stands
  <2>1. v # u
    BY <1>2 DEF Settled, BeginApply, MayApply
  <2> QED
    BY <1>1, <1>2, <2>1 DEF Settled, BeginApply, Turn, AcctsTyped
<1>3. ASSUME NEW r \in Threads, (\E n \in Numbers : FinishApply(r, n)) \/ FailApply(r)
      PROVE  Stands
  <2>1. who[r] # u
    BY <1>3 DEF Settled, FinishApply, FailApply
  <2>2. acct'[u] = acct[u]
    BY <1>1, <1>3, <2>1 DEF FinishApply, FailApply, AcctsTyped
  <2>3. Done(r)
    BY <1>3 DEF FinishApply, FailApply
  <2> QED
    BY <1>1, <2>2, <2>3 DEF Settled, Done, Turn
<1>4. ASSUME NEW v \in Users, Suspend(v)
      PROVE  Stands
  BY <1>1, <1>4 DEF Settled, Suspend, AcctsTyped, accountsVars
<1>5. ASSUME NEW r \in Threads, UNCHANGED acct,
             \/ Done(r)
             \/ (\E o \in StroOps \ {"provision"} : Turn(r, o)) /\ UNCHANGED who
             \/ UNCHANGED <<op, who>>
      PROVE  Stands
  BY <1>1, <1>5 DEF Settled, Done, Turn
<1>6. ASSUME NEW r \in Threads,
             \/ \E e \in Sessions, n \in Numbers, good \in BOOLEAN : Deliver(r, e, n, good)
             \/ \E e \in Sessions : Retry(r, e)
      PROVE  Stands
  BY <1>5, <1>6 DEF Deliver, Retry, StroOps
<1>7. ASSUME NEW r \in Threads,
             \/ ReadEvent(r) \/ CountAttempt(r) \/ Unmatch(r) \/ Unreachable(r)
             \/ CreateDeposit(r) \/ AbortStro(r)
             \/ \E p \in Replies : Answered(r, p)
      PROVE  Stands
  <2>1. /\ UNCHANGED acct
        /\ \/ Done(r)
           \/ (\E o \in StroOps \ {"provision"} : Turn(r, o)) /\ UNCHANGED who
    BY <1>7 DEF ReadEvent, CountAttempt, Unmatch, Unreachable, CreateDeposit, AbortStro, Answered,
                StroOps
  <2> QED
    BY <1>5, <2>1
<1> QED
  BY <1>2, <1>3, <1>4, <1>6, <1>7 DEF StroActivity

\* However many applications are under way, no two accounts share a number, and a
\* settled account stays one, with its number.
THEOREM NumbersStand == StroSpec => NumberStands
<1>1. ASSUME StroInv, StroInv', [StroActivity]_<<accountsVars, stroVars>>
      PROVE  [\A u \in Users :
                 /\ acct'[u].number # None =>
                        \A v \in Users \ {u} : acct'[v].number # acct'[u].number
                 /\ Settled(u) => Settled(u)' /\ acct'[u].number = acct[u].number]_<<acct, op, who>>
  <2>1. CASE UNCHANGED <<accountsVars, stroVars>>
    BY <2>1 DEF accountsVars, stroVars
  <2>2. CASE StroActivity
    BY <1>1, <2>2, SettledStep DEF StroInv, NumbersHeld
  <2> QED
    BY <1>1, <2>1, <2>2
<1> QED
  BY <1>1, StroInvariance, PTL DEF StroSpec, NumberStands

-----------------------------------------------------------------------------
(* The desk.  What was decided and what followed agree because, as long as  *)
(* no two requests about <<u, k>> overlapped, there is one at most, and     *)
(* what it has read of the row, the wallet and the user is still so.        *)

\* What a thread may have read.
FileRow == [stage : {"idle", "apply", "review", "freeze"}, of : Cases \cup {None},
            kind : Kinds \cup {"none"}, owner : Users \cup {None},
            status : {"absent", "pending", "approved", "rejected", "open", "answered", "closed"},
            kyc : {"none", "unverified", "pending", "verified"}]

\* Thread r works on a request of user u and kind k.
WorksOn(r, u, k) == file[r].owner = u /\ file[r].kind = k

\* The statuses a row of a kind goes through.
Course(k) == IF k = "none" THEN {"absent"}
             ELSE IF k = "ticket" THEN {"open", "answered", "closed"}
             ELSE {"pending", "approved", "rejected"}

DeskTyped ==
    /\ DeskTypeOK
    /\ file \in [Threads -> FileRow]

\* A row that was written has an owner, and a status of its kind.
CasesWhole ==
    \A a \in Cases :
        /\ case[a].status \in Course(case[a].kind)
        /\ case[a].kind \in Kinds => case[a].owner \in Users

\* What a request in work has read of the row and its owner never changes.
FilesKnow ==
    \A r \in Threads :
        /\ file[r].stage = "apply" => file[r].kind \in Kinds /\ file[r].owner \in Users
        /\ file[r].stage = "review" =>
              /\ file[r].kind \in Kinds /\ file[r].owner \in Users
              /\ WorksOn(r, case[file[r].of].owner, case[file[r].of].kind)
              /\ file[r].kind # "ticket" => file[r].status = "pending"
        /\ file[r].stage \in {"idle", "freeze"} => file[r].owner = None

\* As long as no two requests about <<u, k>> overlapped, one is in work at most,
\* what it has read is still so, and at most one application waits.
Undisturbed(u, k) ==
    /\ \A r, s \in Threads : WorksOn(r, u, k) /\ WorksOn(s, u, k) => r = s
    /\ k # "ticket" =>
          /\ \A a, b \in PendingOf(u, k) : a = b
          /\ \A r \in Threads : WorksOn(r, u, k) =>
                \/ file[r].stage = "apply" /\ PendingOf(u, k) = {}
                \/ file[r].stage = "review" /\ case[file[r].of].status = "pending"
    /\ k = "kyc" => \A r \in Threads : WorksOn(r, u, k) => file[r].kyc = kyc[u]

DeskInv ==
    /\ DeskTyped /\ CasesWhole /\ FilesKnow
    /\ \A u \in Users, k \in Kinds : <<u, k>> \notin clash => Undisturbed(u, k)
    /\ DecisionsAgree

LEMMA NoneIsNoCase == None \notin Users /\ None \notin Threads /\ None \notin Cases
BY AccountsAssumption, DeskAssumption

LEMMA DeskInitInv == DeskInit => DeskInv
<1> SUFFICES ASSUME DeskInit
             PROVE  DeskInv
  OBVIOUS
<1> USE NoneIsNoCase
<1>1. DeskTyped
  BY DEF DeskInit, DeskTyped, DeskTypeOK, NoCase, NoFile, FileRow, Kinds
<1>2. CasesWhole
  BY DEF DeskInit, CasesWhole, NoCase, Course, Kinds
<1>3. FilesKnow
  BY DEF DeskInit, FilesKnow, NoFile
<1>4. \A u \in Users, k \in Kinds : Undisturbed(u, k)
  BY DEF DeskInit, Undisturbed, WorksOn, PendingOf, NoCase, NoFile, Kinds
<1>5. DecisionsAgree
  BY DEF DeskInit, DecisionsAgree, CasesOf, NoCase, Kinds
<1> QED
  BY <1>1, <1>2, <1>3, <1>4, <1>5 DEF DeskInv

\* A step that changes no row of <<u, k>> changes nothing that is said of them.
LEMMA Elsewhere ==
    ASSUME NEW u \in Users, NEW k \in Kinds,
           \A a \in Cases : \/ case'[a] = case[a]
                            \/ /\ ~ (case[a].owner = u /\ case[a].kind = k)
                               /\ ~ (case'[a].owner = u /\ case'[a].kind = k)
    PROVE  /\ PendingOf(u, k)' = PendingOf(u, k)
           /\ \A s : CasesOf(u, k, s)' = CasesOf(u, k, s)
BY DEF PendingOf, CasesOf

\* The requests about <<u, k>> stay undisturbed when no row, wallet or status of
\* theirs changes and every thread keeps its file, or is done.
LEMMA UndisturbedKeeps ==
    ASSUME NEW u \in Users, NEW k \in Kinds, Undisturbed(u, k), FilesKnow,
           \A r \in Threads : file'[r] = file[r] \/ ~ WorksOn(r, u, k)',
           PendingOf(u, k)' = PendingOf(u, k),
           \A r \in Threads : file[r].stage = "review" /\ WorksOn(r, u, k) =>
                                 case'[file[r].of].status = case[file[r].of].status,
           k = "kyc" => kyc'[u] = kyc[u]
    PROVE  Undisturbed(u, k)'
<1>1. \A r \in Threads : WorksOn(r, u, k)' => file'[r] = file[r] /\ WorksOn(r, u, k)
  BY DEF WorksOn
<1>2. \A r, s \in Threads : WorksOn(r, u, k)' /\ WorksOn(s, u, k)' => r = s
  BY <1>1 DEF Undisturbed
<1>3. ASSUME k # "ticket"
      PROVE  /\ \A a, b \in PendingOf(u, k)' : a = b
             /\ \A r \in Threads : WorksOn(r, u, k)' =>
                   \/ file'[r].stage = "apply" /\ PendingOf(u, k)' = {}
                   \/ file'[r].stage = "review" /\ case'[file'[r].of].status = "pending"
  BY <1>1, <1>3 DEF Undisturbed
<1>4. ASSUME k = "kyc"
      PROVE  \A r \in Threads : WorksOn(r, u, k)' => file'[r].kyc = kyc'[u]
  BY <1>1, <1>4 DEF Undisturbed
<1> QED
  BY <1>2, <1>3, <1>4 DEF Undisturbed

\* A customer and a kind are in clash from the moment a second request begins.
LEMMA NotedBy ==
    ASSUME NEW u, NEW k, clash' = Noted(u, k)
    PROVE  /\ clash \subseteq clash'
           /\ <<u, k>> \notin clash' => \A r \in Threads : ~ WorksOn(r, u, k)
BY DEF Noted, WorksOn

LEMMA BeginApplicationKeeps ==
    ASSUME DeskInv, NEW r \in Threads, NEW u \in Users, NEW k \in Kinds, BeginApplication(r, u, k)
    PROVE  DeskInv'
<1> USE NoneIsNoCase
<1> DEFINE f == [NoFile EXCEPT !.stage = "apply", !.kind = k, !.owner = u, !.kyc = kyc[u]]
<1>0. /\ file' = [file EXCEPT ![r] = f]
      /\ UNCHANGED <<case, walletOf, kyc>>
      /\ clash' = Noted(u, k)
      /\ file[r].stage = "idle"
      /\ k # "ticket" => PendingOf(u, k) = {}
  BY DEF BeginApplication, ApplyForWallet, ApplyForCard, SubmitKyc, Kinds
<1>1. /\ file \in [Threads -> FileRow]
      /\ kyc \in [Users -> {"unverified", "pending", "verified"}]
  BY DEF DeskInv, DeskTyped, DeskTypeOK
<1>2. f \in FileRow /\ f.stage = "apply" /\ f.kind = k /\ f.owner = u /\ f.kyc = kyc[u]
  BY <1>1 DEF FileRow, NoFile
<1> HIDE DEF f
<1>3. /\ file' \in [Threads -> FileRow]
      /\ \A s \in Threads : file'[s] = IF s = r THEN f ELSE file[s]
  BY <1>0, <1>1, <1>2
<1>4. DeskTyped'
  BY <1>0, <1>2, <1>3 DEF DeskInv, DeskTyped, DeskTypeOK
<1>5. CasesWhole'
  BY <1>0 DEF DeskInv, CasesWhole
<1>6. FilesKnow'
  BY <1>0, <1>2, <1>3 DEF DeskInv, FilesKnow, WorksOn
<1>7. ASSUME NEW v \in Users, NEW j \in Kinds, <<v, j>> \notin clash'
      PROVE  Undisturbed(v, j)'
  <2>1. Undisturbed(v, j)
    BY <1>0, <1>7, NotedBy DEF DeskInv
  <2>2. PendingOf(v, j)' = PendingOf(v, j)
    BY <1>0 DEF PendingOf
  <2>3. CASE v = u /\ j = k
    <3>1. \A s \in Threads : ~ WorksOn(s, u, k)
      BY <1>0, <1>7, <2>3, NotedBy
    <3>2. \A s \in Threads : WorksOn(s, u, k)' => s = r
      BY <1>3, <3>1 DEF WorksOn
    <3> QED
      BY <1>0, <1>2, <1>3, <2>1, <2>2, <2>3, <3>2 DEF Undisturbed
  <2>4. CASE ~ (v = u /\ j = k)
    <3>1. \A s \in Threads : file'[s] = file[s] \/ ~ WorksOn(s, v, j)'
      BY <1>2, <1>3, <2>4 DEF WorksOn
    <3> QED
      BY <1>0, <2>1, <2>2, <3>1, UndisturbedKeeps DEF DeskInv
  <2> QED
    BY <2>3, <2>4
<1>8. DecisionsAgree'
  <2>1. \A v, j, s : CasesOf(v, j, s)' = CasesOf(v, j, s)
    BY <1>0 DEF CasesOf
  <2>2. \A x : x \notin clash' => x \notin clash
    BY <1>0, NotedBy
  <2> QED
    BY <1>0, <2>1, <2>2 DEF DeskInv, DecisionsAgree
<1> QED
  BY <1>4, <1>5, <1>6, <1>7, <1>8 DEF DeskInv

LEMMA BeginReviewKeeps ==
    ASSUME DeskInv, NEW r \in Threads, NEW a \in Cases, BeginReview(r, a)
    PROVE  DeskInv'
<1> USE NoneIsNoCase
<1>a. /\ case[a].status \in {"pending", "open", "answered"}
      /\ case[a].status \in Course(case[a].kind)
      /\ case[a].kind \in Kinds \cup {"none"}
      /\ case[a].kind \in Kinds => case[a].owner \in Users
  BY DEF BeginReview, Reviewable, Decidable, Answerable, DeskInv, DeskTyped, DeskTypeOK, CasesWhole
<1>b. PICK u \in Users, k \in Kinds : u = case[a].owner /\ k = case[a].kind
  BY <1>a DEF Course
<1> DEFINE f == [stage |-> "review", of |-> a, kind |-> k, owner |-> u, status |-> case[a].status,
                       kyc |-> kyc[u]]
<1>0. /\ file' = [file EXCEPT ![r] = f]
      /\ UNCHANGED <<case, walletOf, kyc>>
      /\ clash' = Noted(u, k)
      /\ file[r].stage = "idle"
  BY <1>b DEF BeginReview
<1>1. /\ file \in [Threads -> FileRow]
      /\ kyc \in [Users -> {"unverified", "pending", "verified"}]
  BY DEF DeskInv, DeskTyped, DeskTypeOK
<1>2. k # "ticket" => case[a].status = "pending"
  BY <1>a, <1>b DEF Course, Kinds
<1>3. f \in FileRow /\ f.stage = "review" /\ f.kind = k /\ f.owner = u /\ f.kyc = kyc[u] /\ f.of = a
      /\ f.status = case[a].status
  BY <1>a, <1>b, <1>1, <1>2 DEF FileRow
<1> HIDE DEF f
<1>4. /\ file' \in [Threads -> FileRow]
      /\ \A s \in Threads : file'[s] = IF s = r THEN f ELSE file[s]
  BY <1>0, <1>1, <1>3
<1>5. DeskTyped'
  BY <1>0, <1>3, <1>4 DEF DeskInv, DeskTyped, DeskTypeOK
<1>6. CasesWhole'
  BY <1>0 DEF DeskInv, CasesWhole
<1>7. FilesKnow'
  BY <1>0, <1>b, <1>2, <1>3, <1>4 DEF DeskInv, FilesKnow, WorksOn
<1>8. ASSUME NEW v \in Users, NEW j \in Kinds, <<v, j>> \notin clash'
      PROVE  Undisturbed(v, j)'
  <2>1. Undisturbed(v, j)
    BY <1>0, <1>8, NotedBy DEF DeskInv
  <2>2. PendingOf(v, j)' = PendingOf(v, j)
    BY <1>0 DEF PendingOf
  <2>3. CASE v = u /\ j = k
    <3>1. \A s \in Threads : ~ WorksOn(s, u, k)
      BY <1>0, <1>8, <2>3, NotedBy
    <3>2. \A s \in Threads : WorksOn(s, u, k)' => s = r
      BY <1>4, <3>1 DEF WorksOn
    <3> QED
      BY <1>0, <1>2, <1>3, <1>4, <2>1, <2>2, <2>3, <3>2 DEF Undisturbed
  <2>4. CASE ~ (v = u /\ j = k)
    <3>1. \A s \in Threads : file'[s] = file[s] \/ ~ WorksOn(s, v, j)'
      BY <1>3, <1>4, <2>4 DEF WorksOn
    <3> QED
      BY <1>0, <2>1, <2>2, <3>1, UndisturbedKeeps DEF DeskInv
  <2> QED
    BY <2>3, <2>4
<1>9. DecisionsAgree'
  <2>1. \A v, j, s : CasesOf(v, j, s)' = CasesOf(v, j, s)
    BY <1>0 DEF CasesOf
  <2>2. \A x : x \notin clash' => x \notin clash
    BY <1>0, NotedBy
  <2> QED
    BY <1>0, <2>1, <2>2 DEF DeskInv, DecisionsAgree
<1> QED
  BY <1>5, <1>6, <1>7, <1>8, <1>9 DEF DeskInv

\* A thread that puts its file away leaves everybody else's.
LEMMA FileClosed ==
    ASSUME DeskTyped, NEW r \in Threads, file' = [file EXCEPT ![r] = NoFile]
    PROVE  /\ file' \in [Threads -> FileRow]
           /\ \A s \in Threads : file'[s] = IF s = r THEN NoFile ELSE file[s]
           /\ \A s \in Threads : \A v \in Users, j \in Kinds :
                 WorksOn(s, v, j)' => s # r /\ WorksOn(s, v, j)
BY NoneIsNoCase DEF DeskTyped, NoFile, FileRow, WorksOn

LEMMA WriteApplicationKeeps ==
    ASSUME DeskInv, NEW r \in Threads, NEW a \in Cases, WriteApplication(r, a)
    PROVE  DeskInv'
<1> USE NoneIsNoCase
<1>a. file[r].stage = "apply" /\ file[r].owner \in Users /\ file[r].kind \in Kinds
  BY DEF WriteApplication, DeskInv, FilesKnow
<1>b. PICK u \in Users, k \in Kinds : u = file[r].owner /\ k = file[r].kind
  BY <1>a
<1> DEFINE row == [kind |-> k, owner |-> u, frozen |-> FALSE,
                   status |-> IF k = "ticket" THEN "open" ELSE "pending"]
<1>0. /\ file[r].stage = "apply"
      /\ case[a].status = "absent"
      /\ case' = [case EXCEPT ![a] = row]
      /\ kyc' = KycAfter(r, "pending")
      /\ file' = [file EXCEPT ![r] = NoFile]
      /\ UNCHANGED <<walletOf, clash>>
  BY <1>b DEF WriteApplication
<1>1. /\ u \in Users /\ k \in Kinds
      /\ WorksOn(r, u, k)
      /\ DeskTypeOK /\ DeskTyped
      /\ case[a].kind = "none"
  BY <1>0, <1>b DEF DeskInv, FilesKnow, WorksOn, DeskTyped, DeskTypeOK, CasesWhole, Course, Kinds
<1>2. /\ \A b \in Cases : case'[b] = IF b = a THEN row ELSE case[b]
      /\ row.kind = k /\ row.owner = u /\ row.status = (IF k = "ticket" THEN "open" ELSE "pending")
      /\ row \in [kind : Kinds \cup {"none"}, owner : Users \cup {None}, frozen : BOOLEAN,
                  status : {"absent", "pending", "approved", "rejected", "open", "answered", "closed"}]
  BY <1>0, <1>1 DEF DeskTypeOK
<1>3. /\ kyc' \in [Users -> {"unverified", "pending", "verified"}]
      /\ \A v \in Users : kyc'[v] = IF k = "kyc" /\ v = u /\ file[r].kyc # "pending" THEN "pending" ELSE kyc[v]
  BY <1>0, <1>1, <1>b DEF DeskTypeOK, KycAfter
<1>4. /\ file' \in [Threads -> FileRow]
      /\ \A s \in Threads : file'[s] = IF s = r THEN NoFile ELSE file[s]
      /\ \A s \in Threads : \A v \in Users, j \in Kinds :
            WorksOn(s, v, j)' => s # r /\ WorksOn(s, v, j)
  BY <1>0, <1>1, FileClosed
<1>5. case' \in [Cases -> [kind : Kinds \cup {"none"}, owner : Users \cup {None}, frozen : BOOLEAN,
                  status : {"absent", "pending", "approved", "rejected", "open", "answered", "closed"}]]
  BY <1>0, <1>1, <1>2 DEF DeskTypeOK
<1> HIDE DEF row
<1>6. DeskTyped'
  BY <1>0, <1>1, <1>3, <1>4, <1>5 DEF DeskTyped, DeskTypeOK, NoFile
<1>7. CasesWhole'
  BY <1>1, <1>2 DEF DeskInv, CasesWhole, Course, Kinds
<1>8. FilesKnow'
  <2>1. \A s \in Threads : file[s].stage = "review" => file[s].of \in Cases /\ file[s].of # a
    BY <1>1 DEF DeskInv, FilesKnow, DeskTypeOK, WorksOn, Kinds
  <2> QED
    BY <1>2, <1>4, <2>1 DEF DeskInv, FilesKnow, WorksOn, NoFile
<1>9. \A v \in Users, j \in Kinds : ~ (v = u /\ j = k) =>
         PendingOf(v, j)' = PendingOf(v, j) /\ \A s : CasesOf(v, j, s)' = CasesOf(v, j, s)
  BY <1>1, <1>2, Elsewhere DEF Kinds
<1>10. ASSUME <<u, k>> \notin clash, k # "ticket"
       PROVE  /\ PendingOf(u, k)' = {a}
              /\ \A s \in {"approved", "rejected"} : CasesOf(u, k, s)' = CasesOf(u, k, s)
              /\ k = "kyc" => kyc'[u] = "pending"
  <2>1. PendingOf(u, k) = {} /\ (k = "kyc" => file[r].kyc = kyc[u])
    BY <1>0, <1>1, <1>10 DEF DeskInv, Undisturbed
  <2>2. PendingOf(u, k)' = {a}
    BY <1>2, <1>10, <2>1 DEF PendingOf
  <2>3. \A s \in {"approved", "rejected"} : CasesOf(u, k, s)' = CasesOf(u, k, s)
    BY <1>0, <1>2, <1>10 DEF CasesOf
  <2> QED
    BY <1>1, <1>3, <2>1, <2>2, <2>3
<1>11. ASSUME NEW v \in Users, NEW j \in Kinds, <<v, j>> \notin clash'
       PROVE  Undisturbed(v, j)'
  <2>1. Undisturbed(v, j)
    BY <1>0, <1>11 DEF DeskInv
  <2>2. CASE v = u /\ j = k
    <3>1. \A s \in Threads : ~ WorksOn(s, u, k)'
      BY <1>1, <1>4, <2>1, <2>2 DEF Undisturbed
    <3> QED
      BY <1>0, <1>10, <1>11, <2>2, <3>1 DEF Undisturbed
  <2>3. CASE ~ (v = u /\ j = k)
    <3>1. \A s \in Threads : file'[s] = file[s] \/ ~ WorksOn(s, v, j)'
      BY <1>4
    <3>2. \A s \in Threads : file[s].stage = "review" => file[s].of # a
      BY <1>1 DEF DeskInv, FilesKnow, DeskTypeOK, WorksOn, Kinds
    <3>3. \A s \in Threads : file[s].stage = "review" => file[s].of \in Cases
      BY <1>1 DEF DeskTypeOK
    <3>4. \A s \in Threads : file[s].stage = "review" /\ WorksOn(s, v, j) =>
                                 case'[file[s].of].status = case[file[s].of].status
      BY <1>2, <3>2, <3>3
    <3>5. j = "kyc" => kyc'[v] = kyc[v]
      BY <1>3, <2>3
    <3>6. FilesKnow
      BY DEF DeskInv
    <3> QED
      BY <1>9, <2>1, <2>3, <3>1, <3>4, <3>5, <3>6, UndisturbedKeeps
  <2> QED
    BY <2>2, <2>3
<1>12. DecisionsAgree'
  <2> SUFFICES ASSUME NEW v \in Users
               PROVE  /\ <<v, "wallet">> \notin clash => (v \in walletOf <=> CasesOf(v, "wallet", "approved")' # {})
                      /\ <<v, "kyc">> \notin clash =>
                            /\ kyc'[v] = "verified" => CasesOf(v, "kyc", "approved")' # {}
                            /\ kyc'[v] = "pending" <=> CasesOf(v, "kyc", "pending")' # {}
    BY <1>0 DEF DecisionsAgree
  <2>0. "wallet" \in Kinds /\ "kyc" \in Kinds
    BY DEF Kinds
  <2>1. ASSUME <<v, "wallet">> \notin clash
        PROVE  v \in walletOf <=> CasesOf(v, "wallet", "approved")' # {}
    <3>1. CasesOf(v, "wallet", "approved")' = CasesOf(v, "wallet", "approved")
      BY <1>9, <1>10, <2>0, <2>1
    <3> QED
      BY <2>1, <3>1 DEF DeskInv, DecisionsAgree
  <2>2. ASSUME <<v, "kyc">> \notin clash
        PROVE  /\ kyc'[v] = "verified" => CasesOf(v, "kyc", "approved")' # {}
               /\ kyc'[v] = "pending" <=> CasesOf(v, "kyc", "pending")' # {}
    <3>1. CASE v = u /\ k = "kyc"
      <4>1. CasesOf(v, "kyc", "pending")' = PendingOf(u, k)'
        BY <3>1 DEF CasesOf, PendingOf
      <4> QED
        BY <1>10, <2>2, <3>1, <4>1
    <3>2. CASE ~ (v = u /\ k = "kyc")
      <4>1. kyc'[v] = kyc[v]
        BY <1>3, <3>2
      <4>2. \A s : CasesOf(v, "kyc", s)' = CasesOf(v, "kyc", s)
        BY <1>9, <2>0, <3>2
      <4> QED
        BY <2>2, <4>1, <4>2 DEF DeskInv, DecisionsAgree
    <3> QED
      BY <3>1, <3>2
  <2> QED
    BY <2>1, <2>2
<1> QED
  BY <1>6, <1>7, <1>8, <1>11, <1>12 DEF DeskInv

LEMMA WriteReviewKeeps ==
    ASSUME DeskInv, NEW r \in Threads, NEW verdict \in {"approved", "rejected", "answered"},
           WriteReview(r, verdict)
    PROVE  DeskInv'
<1> USE NoneIsNoCase
<1>a. /\ file[r].stage = "review" /\ file[r].of \in Cases
      /\ file[r].owner \in Users /\ file[r].kind \in Kinds
      /\ case[file[r].of].owner = file[r].owner /\ case[file[r].of].kind = file[r].kind
      /\ DeskTypeOK /\ DeskTyped
  BY DEF WriteReview, DeskInv, FilesKnow, WorksOn, DeskTyped, DeskTypeOK
<1>b. PICK u \in Users, k \in Kinds, a \in Cases :
         u = file[r].owner /\ k = file[r].kind /\ a = file[r].of
  BY <1>a
<1>0. /\ (verdict = "answered") <=> (k = "ticket")
      /\ case' = IF file[r].status = verdict THEN case ELSE [case EXCEPT ![a].status = verdict]
      /\ walletOf' = IF k = "wallet" /\ verdict = "approved" THEN walletOf \cup {u} ELSE walletOf
      /\ kyc' = KycAfter(r, IF verdict = "approved" THEN "verified" ELSE "unverified")
      /\ file' = [file EXCEPT ![r] = NoFile]
      /\ UNCHANGED clash
  BY <1>b DEF WriteReview, OpensWallet
<1>1. WorksOn(r, u, k) /\ case[a].owner = u /\ case[a].kind = k
  BY <1>a, <1>b DEF WorksOn
<1>2. /\ case' \in [Cases -> [kind : Kinds \cup {"none"}, owner : Users \cup {None}, frozen : BOOLEAN,
                  status : {"absent", "pending", "approved", "rejected", "open", "answered", "closed"}]]
      /\ \A b \in Cases : b # a => case'[b] = case[b]
      /\ case'[a].owner = u /\ case'[a].kind = k
      /\ case'[a].status = (IF file[r].status = verdict THEN case[a].status ELSE verdict)
  BY <1>0, <1>1, <1>a DEF DeskTypeOK
<1>3. /\ kyc' \in [Users -> {"unverified", "pending", "verified"}]
      /\ \A v \in Users : ~ (v = u /\ k = "kyc") => kyc'[v] = kyc[v]
      /\ k = "kyc" /\ <<u, k>> \notin clash =>
            kyc'[u] = IF verdict = "approved" THEN "verified" ELSE "unverified"
  <2>1. k = "kyc" /\ <<u, k>> \notin clash => file[r].kyc = kyc[u]
    BY <1>1 DEF DeskInv, Undisturbed
  <2> DEFINE new == IF verdict = "approved" THEN "verified" ELSE "unverified"
  <2>2. kyc' = IF k = "kyc" /\ file[r].kyc # new THEN [kyc EXCEPT ![u] = new] ELSE kyc
    BY <1>0, <1>b DEF KycAfter
  <2>3. new \in {"unverified", "pending", "verified"}
    OBVIOUS
  <2>4. kyc \in [Users -> {"unverified", "pending", "verified"}]
    BY <1>a DEF DeskTypeOK
  <2> HIDE DEF new
  <2>5. /\ kyc' \in [Users -> {"unverified", "pending", "verified"}]
        /\ \A v \in Users : ~ (v = u /\ k = "kyc") => kyc'[v] = kyc[v]
        /\ k = "kyc" /\ <<u, k>> \notin clash => kyc'[u] = new
    BY <2>1, <2>2, <2>3, <2>4
  <2> QED
    BY <2>5 DEF new
<1>4. /\ file' \in [Threads -> FileRow]
      /\ \A s \in Threads : file'[s] = IF s = r THEN NoFile ELSE file[s]
      /\ \A s \in Threads : \A v \in Users, j \in Kinds :
            WorksOn(s, v, j)' => s # r /\ WorksOn(s, v, j)
  BY <1>0, <1>a, FileClosed
<1>5. walletOf' \subseteq Users /\ walletOf \subseteq walletOf'
  BY <1>0, <1>a DEF DeskTypeOK
<1>6. DeskTyped'
  BY <1>2, <1>3, <1>4, <1>5, <1>a DEF DeskTyped, DeskTypeOK, NoFile
<1>7. \A b \in Cases : case'[b].owner = case[b].owner /\ case'[b].kind = case[b].kind
  BY <1>1, <1>2
<1>8. CasesWhole'
  BY <1>0, <1>1, <1>2 DEF DeskInv, CasesWhole, Course, Kinds
<1>9. FilesKnow'
  <2>1. \A s \in Threads : file[s].stage = "review" => file[s].of \in Cases
    BY <1>a DEF DeskTypeOK
  <2> QED
    BY <1>4, <1>7, <2>1 DEF DeskInv, FilesKnow, WorksOn, NoFile
<1>10. \A v \in Users, j \in Kinds : ~ (v = u /\ j = k) =>
         PendingOf(v, j)' = PendingOf(v, j) /\ \A s : CasesOf(v, j, s)' = CasesOf(v, j, s)
  BY <1>1, <1>2, Elsewhere
<1>11. ASSUME <<u, k>> \notin clash, k # "ticket"
       PROVE  /\ PendingOf(u, k)' = {}
              /\ \A s : s \in {"approved", "rejected"} =>
                    CasesOf(u, k, s)' = IF s = verdict THEN CasesOf(u, k, s) \cup {a} ELSE CasesOf(u, k, s)
  <2>1. Undisturbed(u, k)
    BY <1>11 DEF DeskInv
  <2>2. case[a].status = "pending" /\ file[r].status = "pending" /\ verdict \in {"approved", "rejected"}
    BY <1>0, <1>1, <1>11, <1>a, <1>b, <2>1 DEF Undisturbed, DeskInv, FilesKnow
  <2>3. case'[a].status = verdict
    BY <1>2, <2>2
  <2>4. \A b \in PendingOf(u, k) : b = a
    BY <1>1, <1>11, <2>1, <2>2 DEF Undisturbed, PendingOf
  <2>5. PendingOf(u, k)' = {}
    BY <1>2, <1>7, <2>2, <2>3, <2>4 DEF PendingOf
  <2> QED
    BY <1>1, <1>2, <2>2, <2>3, <2>5 DEF CasesOf
<1>12. ASSUME NEW v \in Users, NEW j \in Kinds, <<v, j>> \notin clash'
       PROVE  Undisturbed(v, j)'
  <2>1. Undisturbed(v, j)
    BY <1>0, <1>12 DEF DeskInv
  <2>2. CASE v = u /\ j = k
    <3>1. \A s \in Threads : ~ WorksOn(s, u, k)'
      BY <1>1, <1>4, <2>1, <2>2 DEF Undisturbed
    <3> QED
      BY <1>0, <1>11, <1>12, <2>2, <3>1 DEF Undisturbed
  <2>3. CASE ~ (v = u /\ j = k)
    <3>1. \A s \in Threads : file'[s] = file[s] \/ ~ WorksOn(s, v, j)'
      BY <1>4
    <3>2. FilesKnow
      BY DEF DeskInv
    <3>3. \A s \in Threads : file[s].stage = "review" /\ WorksOn(s, v, j) =>
             file[s].of \in Cases /\ file[s].of # a
      BY <1>1, <1>a, <2>3, <3>2 DEF FilesKnow, DeskTypeOK, WorksOn
    <3>4. \A s \in Threads : file[s].stage = "review" /\ WorksOn(s, v, j) =>
                                 case'[file[s].of].status = case[file[s].of].status
      BY <1>2, <3>3
    <3>5. j = "kyc" => kyc'[v] = kyc[v]
      BY <1>3, <2>3
    <3> QED
      BY <1>10, <2>1, <2>3, <3>1, <3>2, <3>4, <3>5, UndisturbedKeeps
  <2> QED
    BY <2>2, <2>3
<1>13. DecisionsAgree'
  <2> SUFFICES ASSUME NEW v \in Users
               PROVE  /\ <<v, "wallet">> \notin clash => (v \in walletOf' <=> CasesOf(v, "wallet", "approved")' # {})
                      /\ <<v, "kyc">> \notin clash =>
                            /\ kyc'[v] = "verified" => CasesOf(v, "kyc", "approved")' # {}
                            /\ kyc'[v] = "pending" <=> CasesOf(v, "kyc", "pending")' # {}
    BY <1>0 DEF DecisionsAgree
  <2>0. "wallet" \in Kinds /\ "kyc" \in Kinds
    BY DEF Kinds
  <2>a. verdict \in {"approved", "rejected", "answered"}
    OBVIOUS
  <2>1. ASSUME <<v, "wallet">> \notin clash
        PROVE  v \in walletOf' <=> CasesOf(v, "wallet", "approved")' # {}
    <3>0. v \in walletOf <=> CasesOf(v, "wallet", "approved") # {}
      BY <2>1 DEF DeskInv, DecisionsAgree
    <3>1. CASE v = u /\ k = "wallet"
      <4>1. CasesOf(v, "wallet", "approved")' =
               IF verdict = "approved" THEN CasesOf(v, "wallet", "approved") \cup {a}
               ELSE CasesOf(v, "wallet", "approved")
        BY <1>11, <2>1, <3>1
      <4> QED
        BY <1>0, <3>0, <3>1, <4>1
    <3>2. CASE ~ (v = u /\ k = "wallet")
      <4>1. CasesOf(v, "wallet", "approved")' = CasesOf(v, "wallet", "approved")
        BY <1>10, <2>0, <3>2
      <4>2. v \in walletOf' <=> v \in walletOf
        BY <1>0, <3>2
      <4> QED
        BY <3>0, <4>1, <4>2
    <3> QED
      BY <3>1, <3>2
  <2>2. ASSUME <<v, "kyc">> \notin clash
        PROVE  /\ kyc'[v] = "verified" => CasesOf(v, "kyc", "approved")' # {}
               /\ kyc'[v] = "pending" <=> CasesOf(v, "kyc", "pending")' # {}
    <3>1. CASE v = u /\ k = "kyc"
      <4>1. CasesOf(v, "kyc", "pending")' = PendingOf(v, "kyc")'
        BY DEF CasesOf, PendingOf
      <4>2. PendingOf(v, "kyc")' = {}
        BY <1>11, <2>2, <3>1
      <4>3. verdict = "approved" => CasesOf(v, "kyc", "approved")' # {}
        BY <1>11, <2>2, <3>1
      <4> QED
        BY <1>3, <2>2, <3>1, <4>1, <4>2, <4>3
    <3>2. CASE ~ (v = u /\ k = "kyc")
      <4>1. kyc'[v] = kyc[v]
        BY <1>3, <3>2
      <4>2. \A s : CasesOf(v, "kyc", s)' = CasesOf(v, "kyc", s)
        BY <1>10, <2>0, <3>2
      <4> QED
        BY <2>2, <4>1, <4>2 DEF DeskInv, DecisionsAgree
    <3> QED
      BY <3>1, <3>2
  <2> QED
    BY <2>1, <2>2
<1> QED
  BY <1>6, <1>8, <1>9, <1>12, <1>13 DEF DeskInv

\* A step that leaves owner, kind, wallets and users as they are, and the status
\* of everything but tickets, and at most puts a file away.
LEMMA AsideKeeps ==
    ASSUME DeskInv,
           case' \in [Cases -> [kind : Kinds \cup {"none"}, owner : Users \cup {None}, frozen : BOOLEAN,
                      status : {"absent", "pending", "approved", "rejected", "open", "answered", "closed"}]],
           \A a \in Cases : /\ case'[a].owner = case[a].owner /\ case'[a].kind = case[a].kind
                            /\ \/ case'[a].status = case[a].status
                               \/ case[a].kind = "ticket" /\ case'[a].status = "closed",
           file' \in [Threads -> FileRow],
           \A r \in Threads : \/ file'[r] = file[r] \/ file'[r] = NoFile
                              \/ file'[r].stage = "freeze" /\ file'[r].owner = None /\ file'[r].of \in Cases,
           UNCHANGED <<walletOf, kyc, clash>>
    PROVE  DeskInv'
<1> USE NoneIsNoCase
<1>1. DeskTyped /\ DeskTypeOK
  BY DEF DeskInv, DeskTyped
<1>2. DeskTyped'
  BY <1>1 DEF DeskTyped, DeskTypeOK, NoFile
<1>3. CasesWhole'
  BY DEF DeskInv, CasesWhole, Course, Kinds
<1>4. \A r \in Threads : file[r].stage = "review" => file[r].of \in Cases
  BY <1>1 DEF DeskTypeOK
<1>5. FilesKnow'
  BY <1>4 DEF DeskInv, FilesKnow, WorksOn, NoFile
<1>6. \A u, k, s : k # "ticket" => CasesOf(u, k, s)' = CasesOf(u, k, s)
  BY DEF CasesOf
<1>7. ASSUME NEW u \in Users, NEW k \in Kinds, <<u, k>> \notin clash'
      PROVE  Undisturbed(u, k)'
  <2>1. Undisturbed(u, k)
    BY <1>7 DEF DeskInv
  <2>2. \A r \in Threads : file'[r] = file[r] \/ ~ WorksOn(r, u, k)'
    BY DEF WorksOn, NoFile
  <2>3. PendingOf(u, k)' = PendingOf(u, k)
    <3>1. \A a \in Cases : a \in PendingOf(u, k)' <=> a \in PendingOf(u, k)
      BY DEF PendingOf, DeskInv, CasesWhole, Course
    <3>2. PendingOf(u, k)' \subseteq Cases /\ PendingOf(u, k) \subseteq Cases
      BY DEF PendingOf
    <3> QED
      BY <3>1, <3>2
  <2>4. CASE k # "ticket"
    <3>1. \A r \in Threads : file[r].stage = "review" /\ WorksOn(r, u, k) =>
                                 case'[file[r].of].status = case[file[r].of].status
      BY <1>4, <2>4 DEF DeskInv, FilesKnow, WorksOn
    <3> QED
      BY <2>1, <2>2, <2>3, <3>1, UndisturbedKeeps DEF DeskInv
  <2>5. CASE k = "ticket"
    <3>1. \A r \in Threads : WorksOn(r, u, k)' => WorksOn(r, u, k)
      BY <2>2 DEF WorksOn
    <3> QED
      BY <2>1, <2>5, <3>1 DEF Undisturbed
  <2> QED
    BY <2>4, <2>5
<1>8. DecisionsAgree'
  <2>1. \A u \in Users : /\ CasesOf(u, "wallet", "approved")' = CasesOf(u, "wallet", "approved")
                        /\ CasesOf(u, "kyc", "approved")' = CasesOf(u, "kyc", "approved")
                        /\ CasesOf(u, "kyc", "pending")' = CasesOf(u, "kyc", "pending")
    BY <1>6
  <2>2. DecisionsAgree /\ UNCHANGED <<walletOf, kyc, clash>>
    BY DEF DeskInv
  <2>3. ASSUME NEW u \in Users
        PROVE  /\ <<u, "wallet">> \notin clash' =>
                      (u \in walletOf' <=> CasesOf(u, "wallet", "approved")' # {})
               /\ <<u, "kyc">> \notin clash' =>
                      /\ kyc'[u] = "verified" => CasesOf(u, "kyc", "approved")' # {}
                      /\ kyc'[u] = "pending" <=> CasesOf(u, "kyc", "pending")' # {}
    BY <2>1, <2>2 DEF DecisionsAgree
  <2> QED
    BY <2>3 DEF DecisionsAgree
<1> QED
  BY <1>2, <1>3, <1>5, <1>7, <1>8 DEF DeskInv

LEMMA TicketFreezeAbortKeep ==
    ASSUME DeskInv,
           \/ \E a \in Cases : CloseTicket(a)
           \/ \E r \in Threads : \/ \E a \in Cases : BeginFreeze(r, a)
                                 \/ \E on \in BOOLEAN : WriteFreeze(r, on)
                                 \/ AbortDesk(r)
    PROVE  DeskInv'
<1> USE NoneIsNoCase
<1>1. DeskTypeOK /\ DeskTyped /\ file \in [Threads -> FileRow] /\ NoFile \in FileRow
  BY DEF DeskInv, DeskTyped, NoFile, FileRow
<1>2. ASSUME NEW a \in Cases, CloseTicket(a)
      PROVE  DeskInv'
  BY <1>1, <1>2, AsideKeeps DEF CloseTicket, DeskTypeOK
<1>3. ASSUME NEW r \in Threads, NEW a \in Cases, BeginFreeze(r, a)
      PROVE  DeskInv'
  <2>1. [NoFile EXCEPT !.stage = "freeze", !.of = a] \in FileRow
    BY DEF NoFile, FileRow
  <2>2. [NoFile EXCEPT !.stage = "freeze", !.of = a].owner = None
    BY DEF NoFile
  <2> QED
    BY <1>1, <1>3, <2>1, <2>2, AsideKeeps DEF BeginFreeze, DeskTypeOK, NoFile
<1>4. ASSUME NEW r \in Threads, NEW on \in BOOLEAN, WriteFreeze(r, on)
      PROVE  DeskInv'
  <2>1. file[r].of \in Cases
    BY <1>1, <1>4 DEF WriteFreeze, DeskTypeOK
  <2> QED
    BY <1>1, <1>4, <2>1, AsideKeeps DEF WriteFreeze, DeskTypeOK
<1>5. ASSUME NEW r \in Threads, AbortDesk(r)
      PROVE  DeskInv'
  BY <1>1, <1>5, AsideKeeps DEF AbortDesk, DeskTypeOK
<1> QED
  BY <1>2, <1>3, <1>4, <1>5

LEMMA DeskStepInv == DeskInv /\ [DeskActivity]_<<accountsVars, deskVars>> => DeskInv'
<1> SUFFICES ASSUME DeskInv, [DeskActivity]_<<accountsVars, deskVars>>
             PROVE  DeskInv'
  OBVIOUS
<1>1. CASE UNCHANGED <<accountsVars, deskVars>>
  <2>1. UNCHANGED <<case, walletOf, kyc, file, clash>>
    BY <1>1 DEF deskVars
  <2> QED
    BY <2>1, AsideKeeps DEF DeskInv, DeskTyped, DeskTypeOK
<1>2. ASSUME NEW r \in Threads, NEW u \in Users, NEW k \in Kinds, BeginApplication(r, u, k)
      PROVE  DeskInv'
  BY <1>2, BeginApplicationKeeps
<1>3. ASSUME NEW r \in Threads, NEW a \in Cases, WriteApplication(r, a) \/ BeginReview(r, a)
      PROVE  DeskInv'
  BY <1>3, WriteApplicationKeeps, BeginReviewKeeps
<1>4. ASSUME NEW r \in Threads, NEW v \in {"approved", "rejected", "answered"}, WriteReview(r, v)
      PROVE  DeskInv'
  BY <1>4, WriteReviewKeeps
<1> QED
  BY <1>1, <1>2, <1>3, <1>4, TicketFreezeAbortKeep DEF DeskActivity

\* For any number of customers, requests and admins: as long as no two requests
\* about a customer's wallet or KYC overlapped, a wallet exists exactly when an
\* application for it stands approved, nobody is verified without an approved
\* submission, and "pending" is shown exactly while one waits.
THEOREM DecisionsStand == DeskSpec => []DecisionsAgree
<1>1. DeskInv => DecisionsAgree
  BY DEF DeskInv
<1> QED
  BY <1>1, DeskInitInv, DeskStepInv, PTL DEF DeskSpec

-----------------------------------------------------------------------------
(* BTC wallets.  A wallet row is written by the thread that holds its lock, *)
(* which its transaction names; a customer's users row is read when it is   *)
(* locked, so what a withdrawal credits is added to the balance as it is.   *)

BtxRow == [kind : {"none", "deposit", "withdrawal", "transfer"}, amount : Int,
           rate : Rates \cup {0}, from : Users \cup {None}, to : Users \cup {None},
           status : {"absent", "pending", "approved", "rejected"}]

DealRow == [stage : {"idle", "quote", "insert", "lock", "credit"}, of : BtcTxs \cup {None},
            tx : BtxRow, todo : Seq(Users)]

BtcTyped ==
    /\ AccountsTypeOK({"btc"})
    /\ BtcTypeOK
    /\ walletLock \in [Users -> Threads \cup {None}]
    /\ btxLock \in [BtcTxs -> Threads \cup {None}]
    /\ deal \in [Threads -> DealRow]
    /\ \A r \in Threads : op[r] = "idle" => deal[r] = NoDeal
    /\ \A t \in BtcTxs : btxLock[t] # None => deal[btxLock[t]].stage \in {"lock", "credit"}

\* The wallets a transaction names are there, and they are two.
Sound(x) ==
    /\ x.kind \in {"deposit", "withdrawal", "transfer"}
    /\ IF x.kind = "deposit" THEN x.from = None ELSE x.from \in Users /\ wallet[x.from] # NoWallet
    /\ IF x.kind = "withdrawal" THEN x.to = None ELSE x.to \in Users /\ wallet[x.to] # NoWallet
    /\ x.kind = "transfer" => x.from # x.to

TxsSound == \A t \in BtcTxs : btx[t].status # "absent" => Sound(btx[t])

\* What a thread at work knows: of its request before the insert, of the rows it
\* has locked while it approves, that an admin approves, and that the funds seen
\* under the lock suffice.
Asked(r) == deal[r].stage \in {"quote", "insert"} => Sound(deal[r].tx)

Holds(r) ==
    deal[r].stage \in {"lock", "credit"} =>
        /\ deal[r].of \in BtcTxs
        /\ btxLock[deal[r].of] = r
        /\ btx[deal[r].of].status = "pending"
        /\ btx[deal[r].of] = deal[r].tx
        /\ \A u \in Users : u \in {deal[r].tx.from, deal[r].tx.to} =>
              walletLock[u] = r \/ \E i \in 1..Len(deal[r].todo) : deal[r].todo[i] = u

Credits(r) ==
    /\ deal[r].stage = "lock" => who[r] \in Admins
    /\ deal[r].stage = "credit" =>
          /\ deal[r].tx.kind = "withdrawal"
          /\ deal[r].todo = <<>>
          /\ Covered(deal[r].tx)
          /\ lock[deal[r].tx.from] = r
          /\ deal[r].tx.from \in Customers => view[r][deal[r].tx.from] = balance[deal[r].tx.from]

DealsKnow == \A r \in Threads : Asked(r) /\ Holds(r) /\ Credits(r)

\* No balance of a customer or a wallet has other sources than approvals.
Funded ==
    /\ IsFiniteSet(Approved)
    /\ \A u \in Users : wallet[u] = NoWallet => OpeningWallet[u] = NoWallet
    /\ BtcExplained

BtcInv == BtcTyped /\ TxsSound /\ DealsKnow /\ Funded

LEMMA NoneIsNoBtx ==
    /\ None \notin Users /\ None \notin Threads /\ None \notin BtcTxs
    /\ NoWallet \notin Int
BY AccountsAssumption, BtcAssumption DEF NoWallet

LEMMA NoBtxTyped == NoBtx \in BtxRow /\ NoDeal \in DealRow
BY DEF NoBtx, NoDeal, BtxRow, DealRow

\* Nothing approved, nothing moved.
LEMMA NothingApproved ==
    ASSUME Approved = {}, NEW u
    PROVE  Moved(u) = 0 /\ Taken(u) = 0 /\ Earned(u) = 0 /\ Cashed(u) = {}
<1>1. Into(u) = {} /\ OutOf(u) = {} /\ Cashed(u) = {}
  BY DEF Into, OutOf, Cashed
<1>2. {t \in Into(u) : btx[t].amount < 0} = {}
  BY <1>1
<1>3. \A f : SumFunctionOnSet(f, {}) = 0
  BY SumOfNone
<1> QED
  BY <1>1, <1>2, <1>3 DEF Moved, Taken, Earned

LEMMA BtcInitInv == AccountsInit /\ BtcInit => BtcInv
<1> SUFFICES ASSUME AccountsInit, BtcInit
             PROVE  BtcInv
  OBVIOUS
<1> USE NoneIsNoBtx, AccountsAssumption, BtcAssumption
<1>1. AccountsTypeOK({"btc"})
  BY DEF AccountsInit, AccountsTypeOK, EmptyView, NotLoaded
<1>3. BtcTypeOK
  BY NoBtxTyped DEF BtcInit, BtcTypeOK, BtxRow, NoWallet
<1>4. BtcTyped
  BY <1>1, <1>3, NoBtxTyped DEF BtcInit, BtcTyped
<1>5. TxsSound
  BY DEF BtcInit, TxsSound, NoBtx
<1>6. DealsKnow
  BY DEF BtcInit, DealsKnow, Asked, Holds, Credits, NoDeal
<1>7. Approved = {}
  BY DEF BtcInit, Approved, NoBtx
<1>8. \A u \in Users : Moved(u) = 0 /\ Taken(u) = 0 /\ Earned(u) = 0 /\ Cashed(u) = {}
  BY <1>7, NothingApproved
<1>9. BtcExplained
  <2>1. ASSUME NEW u \in Users, wallet[u] # NoWallet
        PROVE  wallet[u] = First(u) + Moved(u) /\ wallet[u] >= Taken(u)
    <3>1. wallet[u] = OpeningWallet[u] /\ OpeningWallet[u] \in Nat
      BY <2>1 DEF BtcInit, NoWallet
    <3> QED
      BY <1>8, <2>1, <3>1 DEF First
  <2>2. ASSUME NEW u \in Customers
        PROVE  Gained(u) = 0 /\ Coin * Cardinality(Cashed(u)) = 0
    <3>1. u \in Users /\ balance[u] = Opening[u] /\ Opening[u] \in Nat /\ Coin \in Nat
      BY DEF Customers, AccountsInit
    <3>2. PICK e : e = balance[u] - Opening[u]
      OBVIOUS
    <3>3. e = 0 /\ Coin * 0 = 0
      BY <3>1, <3>2
    <3>4. Gained(u) = Coin * e - Earned(u)
      BY <3>2 DEF Gained
    <3>5. Coin * e = 0
      BY Zenon, <3>3
    <3>6. Earned(u) = 0 /\ Cardinality(Cashed(u)) = 0
      BY <1>8, <3>1, FS_EmptySet
    <3>7. Gained(u) = 0
      BY <3>4, <3>5, <3>6
    <3> QED
      BY <3>3, <3>6, <3>7
  <2>3. \A t \in BtcTxs : posted[t] = 0
    BY DEF BtcInit
  <2> QED
    BY <1>7, <2>1, <2>2, <2>3 DEF BtcExplained
<1>10. Funded
  BY <1>7, <1>9, FS_EmptySet DEF Funded, BtcInit
<1> QED
  BY <1>4, <1>5, <1>6, <1>10 DEF BtcInv

\* Sums over approved transactions, before and after one more is approved.
LEMMA OneMore ==
    ASSUME NEW S, IsFiniteSet(S), NEW t, t \notin S, NEW T, T = S \/ T = S \cup {t},
           NEW f, NEW g, \A x \in T : f[x] \in Int /\ g[x] = f[x]
    PROVE  /\ SumFunctionOnSet(f, S) \in Int
           /\ SumFunctionOnSet(g, T) = SumFunctionOnSet(f, S) + (IF t \in T THEN f[t] ELSE 0)
<1>1. SumFunctionOnSet(f, S) \in Int
  BY SumTakeOut
<1>2. IsFiniteSet(T)
  BY FS_AddElement
<1>3. SumFunctionOnSet(g, T) = SumFunctionOnSet(f, T)
  BY <1>2, SumSame
<1>4. CASE T = S
  BY <1>1, <1>3, <1>4
<1>5. CASE T = S \cup {t}
  BY <1>1, <1>3, <1>5, SumAdd
<1> QED
  BY <1>1, <1>4, <1>5

LEMMA AmountsTyped ==
    ASSUME BtcTyped, NEW t \in BtcTxs
    PROVE  /\ btx[t] \in BtxRow
           /\ btx[t].amount \in Int /\ btx[t].rate \in Nat
           /\ btx[t].amount * btx[t].rate \in Int
<1>1. btx[t] \in BtxRow
  BY DEF BtcTyped, BtcTypeOK, BtxRow
<1>2. btx[t].amount \in Int /\ btx[t].rate \in Rates \cup {0}
  BY <1>1 DEF BtxRow
<1>3. Rates \cup {0} \subseteq Nat
  BY BtcAssumption
<1>4. btx[t].rate \in Nat
  BY <1>2, <1>3
<1> QED
  BY <1>1, <1>2, <1>4

Worth == [t \in BtcTxs |-> btx[t].amount * btx[t].rate]
Debts(u) == {t \in Into(u) : btx[t].amount < 0}

\* The sums of a customer, over the transactions that count.
LEMMA SumsNamed ==
    ASSUME NEW u
    PROVE  /\ Moved(u) = SumFunctionOnSet(Paid, Into(u)) - SumFunctionOnSet(Paid, OutOf(u))
           /\ Taken(u) = SumFunctionOnSet(Paid, Debts(u))
           /\ Earned(u) = SumFunctionOnSet(Worth, Cashed(u))
           /\ Into(u) \subseteq Approved /\ OutOf(u) \subseteq Approved
           /\ Debts(u) \subseteq Approved /\ Cashed(u) \subseteq Approved
BY DEF Moved, Taken, Earned, Worth, Debts, Into, OutOf, Cashed

\* They are integers.
LEMMA SumsTyped ==
    ASSUME BtcTyped, IsFiniteSet(Approved), NEW u
    PROVE  /\ Moved(u) \in Int /\ Taken(u) \in Int /\ Earned(u) \in Int
           /\ IsFiniteSet(Into(u)) /\ IsFiniteSet(OutOf(u))
           /\ IsFiniteSet(Debts(u)) /\ IsFiniteSet(Cashed(u))
           /\ Cardinality(Cashed(u)) \in Nat
<1>1. /\ IsFiniteSet(Into(u)) /\ IsFiniteSet(OutOf(u))
      /\ IsFiniteSet(Debts(u)) /\ IsFiniteSet(Cashed(u))
  BY SumsNamed, FS_Subset
<1>2. \A x \in Approved : Paid[x] \in Int /\ Worth[x] \in Int
  BY AmountsTyped DEF Approved, Paid, Worth
<1>3. /\ SumFunctionOnSet(Paid, Into(u)) \in Int /\ SumFunctionOnSet(Paid, OutOf(u)) \in Int
      /\ SumFunctionOnSet(Paid, Debts(u)) \in Int /\ SumFunctionOnSet(Worth, Cashed(u)) \in Int
  BY <1>1, <1>2, SumsNamed, SumTakeOut
<1>4. Cardinality(Cashed(u)) \in Nat
  BY <1>1, FS_CardinalityType
<1> QED
  BY <1>1, <1>3, <1>4, SumsNamed

\* Approving a pending transaction adds it to what was moved and earned.
LEMMA SumsGrow ==
    ASSUME BtcTyped, IsFiniteSet(Approved), NEW t \in BtcTxs, btx[t].status = "pending",
           btx' = [btx EXCEPT ![t].status = "approved"], NEW u \in Users
    PROVE  /\ Moved(u)' = Moved(u) + (IF btx[t].to = u THEN btx[t].amount ELSE 0)
                                   - (IF btx[t].from = u THEN btx[t].amount ELSE 0)
           /\ Taken(u)' = Taken(u) + (IF btx[t].to = u /\ btx[t].amount < 0 THEN btx[t].amount ELSE 0)
           /\ Earned(u)' = Earned(u) + (IF btx[t].kind = "withdrawal" /\ btx[t].from = u
                                        THEN btx[t].amount * btx[t].rate ELSE 0)
           /\ Cardinality(Cashed(u))' = Cardinality(Cashed(u))
                                   + (IF btx[t].kind = "withdrawal" /\ btx[t].from = u THEN 1 ELSE 0)
<1> DEFINE Paid2 == Paid'
           Worth2 == Worth'
           Into2 == Into(u)'
           OutOf2 == OutOf(u)'
           Debts2 == Debts(u)'
           Cashed2 == Cashed(u)'
<1>1. btx \in [BtcTxs -> BtxRow]
  BY DEF BtcTyped, BtcTypeOK, BtxRow
<1>2. \A x \in BtcTxs : /\ btx'[x].amount = btx[x].amount /\ btx'[x].rate = btx[x].rate
                        /\ btx'[x].from = btx[x].from /\ btx'[x].to = btx[x].to
                        /\ btx'[x].kind = btx[x].kind
                        /\ btx'[x].status = IF x = t THEN "approved" ELSE btx[x].status
  BY <1>1 DEF BtxRow
<1>3. \A x \in BtcTxs : /\ Paid[x] = btx[x].amount /\ Paid2[x] = Paid[x] /\ Paid[x] \in Int
                        /\ Worth[x] = btx[x].amount * btx[x].rate /\ Worth2[x] = Worth[x]
                        /\ Worth[x] \in Int
  <2>1. \A x \in BtcTxs : btx[x].amount \in Int /\ btx[x].amount * btx[x].rate \in Int
    BY AmountsTyped
  <2> QED
    BY <1>2, <2>1 DEF Paid, Worth
<1>4. Approved' = Approved \cup {t} /\ t \notin Approved /\ Approved \subseteq BtcTxs
  BY <1>2 DEF Approved
<1>5. /\ Into2 = IF btx[t].to = u THEN Into(u) \cup {t} ELSE Into(u)
      /\ OutOf2 = IF btx[t].from = u THEN OutOf(u) \cup {t} ELSE OutOf(u)
  BY <1>2, <1>4 DEF Into, OutOf
<1>6. /\ Debts2 = IF btx[t].to = u /\ btx[t].amount < 0 THEN Debts(u) \cup {t} ELSE Debts(u)
      /\ Cashed2 = IF btx[t].kind = "withdrawal" /\ btx[t].from = u THEN Cashed(u) \cup {t} ELSE Cashed(u)
  BY <1>2, <1>4 DEF Into, OutOf, Debts, Cashed
<1>7. /\ t \notin Into(u) /\ t \notin OutOf(u) /\ t \notin Debts(u) /\ t \notin Cashed(u)
      /\ Into2 \subseteq BtcTxs /\ OutOf2 \subseteq BtcTxs /\ Debts2 \subseteq BtcTxs /\ Cashed2 \subseteq BtcTxs
  BY <1>4, <1>5, <1>6, SumsNamed
<1>8. /\ IsFiniteSet(Into(u)) /\ IsFiniteSet(OutOf(u)) /\ IsFiniteSet(Debts(u)) /\ IsFiniteSet(Cashed(u))
  BY SumsTyped
<1>9. /\ Moved(u)' = SumFunctionOnSet(Paid2, Into2) - SumFunctionOnSet(Paid2, OutOf2)
      /\ Taken(u)' = SumFunctionOnSet(Paid2, Debts2)
      /\ Earned(u)' = SumFunctionOnSet(Worth2, Cashed2)
      /\ Cardinality(Cashed(u))' = Cardinality(Cashed2)
  BY DEF Moved, Taken, Earned, Worth, Debts
<1> HIDE DEF Paid2, Worth2, Into2, OutOf2, Debts2, Cashed2
<1>10. /\ SumFunctionOnSet(Paid, Into(u)) \in Int
       /\ SumFunctionOnSet(Paid2, Into2) = SumFunctionOnSet(Paid, Into(u)) + (IF t \in Into2 THEN Paid[t] ELSE 0)
  <2>1. \A x \in Into2 : Paid[x] \in Int /\ Paid2[x] = Paid[x]
    BY <1>3, <1>7
  <2>2. t \notin Into(u) /\ (Into2 = Into(u) \/ Into2 = Into(u) \cup {t})
    BY <1>5, <1>7
  <2> QED
    BY <1>8, <2>1, <2>2, OneMore
<1>11. /\ SumFunctionOnSet(Paid, OutOf(u)) \in Int
       /\ SumFunctionOnSet(Paid2, OutOf2) = SumFunctionOnSet(Paid, OutOf(u)) + (IF t \in OutOf2 THEN Paid[t] ELSE 0)
  <2>1. \A x \in OutOf2 : Paid[x] \in Int /\ Paid2[x] = Paid[x]
    BY <1>3, <1>7
  <2>2. t \notin OutOf(u) /\ (OutOf2 = OutOf(u) \/ OutOf2 = OutOf(u) \cup {t})
    BY <1>5, <1>7
  <2> QED
    BY <1>8, <2>1, <2>2, OneMore
<1>12. SumFunctionOnSet(Paid2, Debts2) = SumFunctionOnSet(Paid, Debts(u)) + (IF t \in Debts2 THEN Paid[t] ELSE 0)
  <2>1. \A x \in Debts2 : Paid[x] \in Int /\ Paid2[x] = Paid[x]
    BY <1>3, <1>7
  <2>2. t \notin Debts(u) /\ (Debts2 = Debts(u) \/ Debts2 = Debts(u) \cup {t})
    BY <1>6, <1>7
  <2> QED
    BY <1>8, <2>1, <2>2, OneMore
<1>13. SumFunctionOnSet(Worth2, Cashed2) = SumFunctionOnSet(Worth, Cashed(u)) + (IF t \in Cashed2 THEN Worth[t] ELSE 0)
  <2>1. \A x \in Cashed2 : Worth[x] \in Int /\ Worth2[x] = Worth[x]
    BY <1>3, <1>7
  <2>2. t \notin Cashed(u) /\ (Cashed2 = Cashed(u) \/ Cashed2 = Cashed(u) \cup {t})
    BY <1>6, <1>7
  <2> QED
    BY <1>8, <2>1, <2>2, OneMore
<1>14. /\ t \in Into2 <=> btx[t].to = u
       /\ t \in OutOf2 <=> btx[t].from = u
       /\ t \in Debts2 <=> (btx[t].to = u /\ btx[t].amount < 0)
       /\ t \in Cashed2 <=> (btx[t].kind = "withdrawal" /\ btx[t].from = u)
  BY <1>5, <1>6, <1>7
<1>15. Paid[t] = btx[t].amount /\ Paid[t] \in Int /\ Worth[t] = btx[t].amount * btx[t].rate
  BY <1>3
<1>16. Cardinality(Cashed2) = Cardinality(Cashed(u))
                               + (IF btx[t].kind = "withdrawal" /\ btx[t].from = u THEN 1 ELSE 0)
  <2>1. Cardinality(Cashed(u)) \in Nat
    BY SumsTyped
  <2>2. CASE Cashed2 = Cashed(u)
    BY <1>7, <1>14, <2>1, <2>2
  <2>3. CASE Cashed2 = Cashed(u) \cup {t}
    BY <1>7, <1>8, <1>14, <2>3, FS_AddElement
  <2> QED
    BY <1>6, <2>2, <2>3
<1>17. Moved(u)' = Moved(u) + (IF btx[t].to = u THEN btx[t].amount ELSE 0)
                            - (IF btx[t].from = u THEN btx[t].amount ELSE 0)
  BY <1>9, <1>10, <1>11, <1>14, <1>15, SumsNamed
<1> QED
  BY <1>9, <1>12, <1>13, <1>14, <1>15, <1>16, <1>17, SumsNamed

\* Nothing is moved or earned by a step that leaves the approved transactions.
LEMMA SumsKeep ==
    ASSUME BtcTyped, IsFiniteSet(Approved), Approved' = Approved,
           \A t \in Approved : btx'[t] = btx[t], NEW u \in Users
    PROVE  Moved(u)' = Moved(u) /\ Taken(u)' = Taken(u) /\ Earned(u)' = Earned(u) /\ Cashed(u)' = Cashed(u)
<1> DEFINE Paid2 == Paid'
           Worth2 == Worth'
<1>1. \A x \in Approved : /\ Paid[x] \in Int /\ Paid2[x] = Paid[x]
                          /\ Worth[x] \in Int /\ Worth2[x] = Worth[x]
  <2>1. \A x \in BtcTxs : btx[x].amount \in Int /\ btx[x].amount * btx[x].rate \in Int
    BY AmountsTyped
  <2> QED
    BY <2>1 DEF Paid, Worth, Approved
<1>2. Into(u)' = Into(u) /\ OutOf(u)' = OutOf(u)
  BY DEF Into, OutOf
<1>3. Debts(u)' = Debts(u) /\ Cashed(u)' = Cashed(u)
  BY DEF Debts, Cashed, Into, OutOf
<1>4. /\ Moved(u)' = SumFunctionOnSet(Paid2, Into(u)) - SumFunctionOnSet(Paid2, OutOf(u))
      /\ Taken(u)' = SumFunctionOnSet(Paid2, Debts(u))
      /\ Earned(u)' = SumFunctionOnSet(Worth2, Cashed(u))
  <2>1. /\ Moved(u)' = SumFunctionOnSet(Paid2, Into(u)') - SumFunctionOnSet(Paid2, OutOf(u)')
        /\ Taken(u)' = SumFunctionOnSet(Paid2, Debts(u)')
        /\ Earned(u)' = SumFunctionOnSet(Worth2, Cashed(u)')
    BY DEF Moved, Taken, Earned, Worth, Debts
  <2> QED
    BY <1>2, <1>3, <2>1
<1> HIDE DEF Paid2, Worth2
<1>5. IsFiniteSet(Into(u)) /\ IsFiniteSet(OutOf(u)) /\ IsFiniteSet(Debts(u)) /\ IsFiniteSet(Cashed(u))
  BY SumsTyped
<1>6. SumFunctionOnSet(Paid2, Into(u)) = SumFunctionOnSet(Paid, Into(u))
  BY <1>1, <1>5, SumsNamed, SumSame
<1>7. SumFunctionOnSet(Paid2, OutOf(u)) = SumFunctionOnSet(Paid, OutOf(u))
  BY <1>1, <1>5, SumsNamed, SumSame
<1>8. SumFunctionOnSet(Paid2, Debts(u)) = SumFunctionOnSet(Paid, Debts(u))
  BY <1>1, <1>5, SumsNamed, SumSame
<1>9. SumFunctionOnSet(Worth2, Cashed(u)) = SumFunctionOnSet(Worth, Cashed(u))
  BY <1>1, <1>5, SumsNamed, SumSame
<1> QED
  BY <1>3, <1>4, <1>6, <1>7, <1>8, <1>9, SumsNamed

\* What negative amounts took is not positive.
LEMMA TakenIsLess ==
    ASSUME BtcTyped, IsFiniteSet(Approved), NEW u
    PROVE  Taken(u) <= 0
<1> DEFINE zero == [x \in BtcTxs |-> 0]
           given == [x \in BtcTxs |-> 0 - btx[x].amount]
<1>1. IsFiniteSet(Debts(u)) /\ Debts(u) \subseteq BtcTxs /\ Taken(u) = SumFunctionOnSet(Paid, Debts(u))
  BY SumsTyped, SumsNamed DEF Approved
<1>2. \A x \in Debts(u) : /\ Paid[x] \in Int /\ given[x] \in Nat
                          /\ zero[x] = Paid[x] + given[x] /\ zero[x] = 0
  <2>1. \A x \in Debts(u) : btx[x].amount \in Int /\ btx[x].amount < 0
    BY <1>1, AmountsTyped DEF Debts
  <2> QED
    BY <1>1, <2>1 DEF Paid
<1> HIDE DEF zero, given
<1>3. SumFunctionOnSet(given, Debts(u)) \in Nat /\ SumFunctionOnSet(zero, Debts(u)) = 0
  BY <1>1, <1>2, SumNat, SumZero
<1>4. SumFunctionOnSet(zero, Debts(u)) = SumFunctionOnSet(Paid, Debts(u)) + SumFunctionOnSet(given, Debts(u))
  BY <1>1, <1>2, SumPlus
<1>5. Taken(u) \in Int
  BY SumsTyped
<1> QED
  BY <1>1, <1>3, <1>4, <1>5

\* No approved transaction names a customer who has no wallet.
LEMMA NothingMoved ==
    ASSUME TxsSound, NEW u \in Users, wallet[u] = NoWallet
    PROVE  Moved(u) = 0 /\ Taken(u) = 0
<1>1. \A t \in Approved : btx[t].to # u /\ btx[t].from # u
  BY NoneIsNoBtx DEF TxsSound, Sound, Approved
<1>2. Into(u) = {} /\ OutOf(u) = {} /\ Debts(u) = {}
  BY <1>1 DEF Into, OutOf, Debts
<1>3. SumFunctionOnSet(Paid, {}) = 0
  BY SumOfNone
<1> QED
  BY <1>2, <1>3, SumsNamed

\* Rounding to whole kobo misses at most half of one.
LEMMA NearestHalf ==
    ASSUME NEW n \in Int, NEW d \in Nat \ {0}
    PROVE  /\ Nearest(n, d) \in Int
           /\ -d <= 2 * (d * Nearest(n, d) - n)
           /\ 2 * (d * Nearest(n, d) - n) <= d
<1>1. CASE n >= 0
  <2> DEFINE q == Nearest(n, d)
  <2>1. q \in Nat /\ 2 * d * q <= 2 * n + d /\ 2 * n + d < 2 * d * q + 2 * d
    BY <1>1, NearestPositive
  <2> HIDE DEF q
  <2>2. 2 * d * q = 2 * (d * q) /\ d * q \in Int
    BY <2>1
  <2>3. -d <= 2 * (d * q - n) /\ 2 * (d * q - n) <= d
    BY <2>1, <2>2
  <2> QED
    BY <2>1, <2>3 DEF q
<1>2. CASE n < 0
  <2> DEFINE m == -n
             q == Nearest(m, d)
  <2>1. m \in Nat /\ m # 0 /\ d - 2 * n = 2 * m + d
    BY <1>2
  <2>2. q \in Nat /\ 2 * d * q <= 2 * m + d /\ 2 * m + d < 2 * d * q + 2 * d
    BY <2>1, NearestPositive
  <2>3. Nearest(n, d) = -q
    BY <1>2, <2>1 DEF Nearest
  <2>4. n = -m
    OBVIOUS
  <2> HIDE DEF q, m
  <2>5. 2 * d * q = 2 * (d * q) /\ d * q \in Int /\ d * (-q) = -(d * q)
    BY <2>2
  <2>6. -d <= 2 * (d * (-q) - n) /\ 2 * (d * (-q) - n) <= d
    BY <2>1, <2>2, <2>4, <2>5
  <2> QED
    BY <2>2, <2>3, <2>6
<1> QED
  BY <1>1, <1>2

-----------------------------------------------------------------------------

\* A thread that keeps its deal, its view and the rows it has locked still knows
\* what it knew: nobody else writes a row it has locked.
LEMMA OthersDeals ==
    ASSUME BtcInv, NEW s \in Threads, deal'[s] = deal[s], view'[s] = view[s], who'[s] = who[s],
           \A x : Sound(x) => Sound(x)',
           \A t \in BtcTxs : btxLock[t] = s => btxLock'[t] = s /\ btx'[t] = btx[t],
           \A u \in Users : walletLock[u] = s => walletLock'[u] = s,
           \A u \in Users : walletLock[u] = s /\ wallet[u] # NoWallet => wallet'[u] = wallet[u],
           \A u \in Users : lock[u] = s => lock'[u] = s /\ balance'[u] = balance[u]
    PROVE  Asked(s)' /\ Holds(s)' /\ Credits(s)'
<1> USE NoneIsNoBtx
<1>1. Asked(s) /\ Holds(s) /\ Credits(s) /\ TxsSound /\ deal[s] \in DealRow
  BY DEF BtcInv, DealsKnow, BtcTyped, BtcTypeOK
<1>2. Asked(s)'
  BY <1>1 DEF Asked
<1>3. Holds(s)'
  BY <1>1 DEF Holds
<1>4. ASSUME deal[s].stage = "credit"
      PROVE  /\ deal[s].tx.from \in Users
             /\ walletLock[deal[s].tx.from] = s
             /\ deal[s].tx.amount <= wallet[deal[s].tx.from]
             /\ wallet[deal[s].tx.from] # NoWallet
  <2>1. Sound(deal[s].tx) /\ deal[s].tx.kind = "withdrawal"
    BY <1>1, <1>4 DEF Holds, Credits, TxsSound
  <2>2. deal[s].tx.from \in Users /\ wallet[deal[s].tx.from] # NoWallet
    BY <2>1 DEF Sound
  <2>3. deal[s].todo = <<>> /\ ~ \E i \in 1..Len(<<>>) : TRUE
    BY <1>1, <1>4 DEF Credits
  <2>4. walletLock[deal[s].tx.from] = s
    BY <1>1, <1>4, <2>2, <2>3 DEF Holds
  <2>5. deal[s].tx.amount <= wallet[deal[s].tx.from]
    BY <1>1, <1>4, <2>1 DEF Credits, Covered, DealRow, BtxRow
  <2> QED
    BY <2>2, <2>4, <2>5
<1>5. deal[s].stage = "credit" => Covered(deal[s].tx)'
  BY <1>4 DEF Covered
<1>6. Credits(s)'
  BY <1>1, <1>4, <1>5 DEF Credits
<1> QED
  BY <1>2, <1>3, <1>6

\* The end of a deal: the thread is idle, its locks are free, nobody else's are
\* touched.
LEMMA DealDoneTyped ==
    ASSUME BtcTyped, NEW r \in Threads, DealDone(r)
    PROVE  /\ lock' \in [Users -> Threads \cup {None}] /\ op' \in [Threads -> {"btc", "idle"}]
           /\ who' \in [Threads -> Users \cup {None}] /\ view' \in [Threads -> [Users -> Int]]
           /\ want' \in [Threads -> Users \cup {None}]
           /\ walletLock' \in [Users -> Threads \cup {None}]
           /\ btxLock' \in [BtcTxs -> Threads \cup {None}]
           /\ deal' \in [Threads -> DealRow]
           /\ deal'[r] = NoDeal
           /\ \A s \in Threads : op'[s] = "idle" => deal'[s] = NoDeal
           /\ \A t \in BtcTxs : btxLock'[t] # None =>
                 deal'[btxLock'[t]].of = t /\ deal'[btxLock'[t]].stage \in {"lock", "credit"}
           /\ \A u \in Users : walletLock'[u] # None => deal'[walletLock'[u]].stage \in {"lock", "credit"}
           /\ \A s \in Threads : s # r =>
                 /\ deal'[s] = deal[s] /\ view'[s] = view[s] /\ who'[s] = who[s]
                 /\ \A t \in BtcTxs : btxLock[t] = s => btxLock'[t] = s
                 /\ \A u \in Users : walletLock[u] = s => walletLock'[u] = s
                 /\ \A u \in Users : lock[u] = s => lock'[u] = s
<1> USE NoneIsNoBtx
<1>1. /\ deal' = [deal EXCEPT ![r] = NoDeal]
      /\ walletLock' = [u \in Users |-> IF walletLock[u] = r THEN None ELSE walletLock[u]]
      /\ btxLock' = [t \in BtcTxs |-> IF btxLock[t] = r THEN None ELSE btxLock[t]]
      /\ lock' = [u \in Users |-> IF lock[u] = r THEN None ELSE lock[u]]
      /\ op' = [op EXCEPT ![r] = "idle"]
      /\ who' = [who EXCEPT ![r] = None]
      /\ view' = [view EXCEPT ![r] = EmptyView]
      /\ want' = [want EXCEPT ![r] = None]
  BY DEF DealDone, Finish, Released
<1>2. /\ AccountsTypeOK({"btc"}) /\ BtcTypeOK
      /\ walletLock \in [Users -> Threads \cup {None}] /\ btxLock \in [BtcTxs -> Threads \cup {None}]
      /\ deal \in [Threads -> DealRow]
      /\ \A s \in Threads : op[s] = "idle" => deal[s] = NoDeal
  BY DEF BtcTyped
<1>3. EmptyView \in [Users -> Int]
  BY DEF EmptyView, NotLoaded
<1>4. /\ lock' \in [Users -> Threads \cup {None}] /\ op' \in [Threads -> {"btc", "idle"}]
      /\ who' \in [Threads -> Users \cup {None}] /\ view' \in [Threads -> [Users -> Int]]
      /\ want' \in [Threads -> Users \cup {None}]
  BY <1>1, <1>2, <1>3 DEF AccountsTypeOK
<1>5. /\ walletLock' \in [Users -> Threads \cup {None}]
      /\ btxLock' \in [BtcTxs -> Threads \cup {None}]
      /\ deal' \in [Threads -> DealRow]
      /\ deal'[r] = NoDeal
      /\ \A s \in Threads : op'[s] = "idle" => deal'[s] = NoDeal
  BY <1>1, <1>2, NoBtxTyped DEF AccountsTypeOK
<1>6. \A s \in Threads : s # r =>
                 /\ deal'[s] = deal[s] /\ view'[s] = view[s] /\ who'[s] = who[s]
                 /\ \A t \in BtcTxs : btxLock[t] = s => btxLock'[t] = s
                 /\ \A u \in Users : walletLock[u] = s => walletLock'[u] = s
                 /\ \A u \in Users : lock[u] = s => lock'[u] = s
  BY <1>1, <1>2 DEF AccountsTypeOK
<1>7. \A t \in BtcTxs : btxLock'[t] # None =>
         deal'[btxLock'[t]].of = t /\ deal'[btxLock'[t]].stage \in {"lock", "credit"}
  BY <1>1, <1>2 DEF BtcTypeOK, BtcTyped
<1>8. \A u \in Users : walletLock'[u] # None => deal'[walletLock'[u]].stage \in {"lock", "credit"}
  BY <1>1, <1>2 DEF BtcTypeOK
<1> QED
  BY <1>4, <1>5, <1>6, <1>7, <1>8

\* What of the invariant a thread at work has to show for itself.
LEMMA DealsFromOthers ==
    ASSUME BtcInv, NEW r \in Threads,
           \A s \in Threads : s # r =>
               /\ deal'[s] = deal[s] /\ view'[s] = view[s] /\ who'[s] = who[s]
               /\ \A t \in BtcTxs : btxLock[t] = s => btxLock'[t] = s /\ btx'[t] = btx[t]
               /\ \A u \in Users : walletLock[u] = s => walletLock'[u] = s
               /\ \A u \in Users : walletLock[u] = s /\ wallet[u] # NoWallet => wallet'[u] = wallet[u]
               /\ \A u \in Users : lock[u] = s => lock'[u] = s /\ balance'[u] = balance[u],
           \A x : Sound(x) => Sound(x)',
           Asked(r)' /\ Holds(r)' /\ Credits(r)'
    PROVE  DealsKnow'
<1>1. ASSUME NEW s \in Threads
      PROVE  Asked(s)' /\ Holds(s)' /\ Credits(s)'
  BY OthersDeals
<1> QED
  BY <1>1 DEF DealsKnow

\* A step that leaves wallets, balances, entries and what is approved.
LEMMA FundsKeep ==
    ASSUME BtcInv, UNCHANGED <<wallet, balance, posted>>, Approved' = Approved,
           \A t \in Approved : btx'[t] = btx[t]
    PROVE  Funded'
<1>1. \A u \in Users : /\ Moved(u)' = Moved(u) /\ Taken(u)' = Taken(u)
                       /\ Earned(u)' = Earned(u) /\ Cashed(u)' = Cashed(u)
  BY SumsKeep DEF BtcInv, Funded
<1>2. \A u \in Users : First(u)' = First(u) /\ Gained(u)' = Gained(u)
  BY <1>1 DEF First, Gained
<1>3. BtcExplained'
  BY <1>1, <1>2 DEF BtcInv, Funded, BtcExplained, Customers
<1> QED
  BY <1>3 DEF BtcInv, Funded

LEMMA RowsKeep ==
    ASSUME UNCHANGED <<wallet, btx>>, TxsSound
    PROVE  TxsSound' /\ \A x : Sound(x) => Sound(x)'
BY DEF TxsSound, Sound

-----------------------------------------------------------------------------

LEMMA OpenWalletKeeps ==
    ASSUME BtcInv, NEW u \in Users, OpenWallet(u)
    PROVE  BtcInv'
<1> USE NoneIsNoBtx
<1>1. /\ wallet[u] = NoWallet /\ wallet' = [wallet EXCEPT ![u] = 0]
      /\ UNCHANGED <<balance, lock, op, who, view, want, walletLock, btx, btxLock, posted, rate, deal>>
  BY DEF OpenWallet, accountsVars
<1>2. wallet \in [Users -> Int \cup {NoWallet}] /\ BtcTyped /\ TxsSound
  BY DEF BtcInv, BtcTyped, BtcTypeOK
<1>3. wallet' \in [Users -> Int \cup {NoWallet}] /\ \A v \in Users : wallet'[v] = IF v = u THEN 0 ELSE wallet[v]
  BY <1>1, <1>2
<1>5. BtcTyped'
  BY <1>1, <1>2, <1>3 DEF BtcTyped, AccountsTypeOK, BtcTypeOK
<1>6. \A x : Sound(x) => Sound(x)'
  BY <1>3 DEF Sound
<1>7. TxsSound'
  BY <1>1, <1>2, <1>6 DEF TxsSound
<1>8. DealsKnow'
  <2>1. \A s \in Threads : Asked(s)' /\ Holds(s)' /\ Credits(s)'
    BY <1>1, <1>3, <1>6, OthersDeals
  <2> QED
    BY <2>1 DEF DealsKnow
<1>9. Approved' = Approved
  BY <1>1 DEF Approved
<1>10. \A v \in Users : /\ Moved(v)' = Moved(v) /\ Taken(v)' = Taken(v)
                        /\ Earned(v)' = Earned(v) /\ Cashed(v)' = Cashed(v)
  BY <1>1, <1>2, <1>9, SumsKeep DEF BtcInv, Funded
<1>11. Moved(u) = 0 /\ Taken(u) = 0
  BY <1>1, <1>2, NothingMoved
<1>12. BtcExplained'
  <2>1. First(u) = 0 /\ BtcExplained
    BY <1>1 DEF BtcInv, Funded, First
  <2>2. \A v \in Users : First(v)' = First(v) /\ Gained(v)' = Gained(v)
    BY <1>1, <1>10 DEF First, Gained
  <2>3. ASSUME NEW v \in Users, wallet'[v] # NoWallet
        PROVE  wallet'[v] = First(v)' + Moved(v)' /\ wallet'[v] >= Taken(v)'
    <3>1. CASE v = u
      BY <1>3, <1>10, <1>11, <2>1, <2>2, <3>1
    <3>2. CASE v # u
      BY <1>3, <1>10, <2>1, <2>2, <2>3, <3>2 DEF BtcExplained
    <3> QED
      BY <3>1, <3>2
  <2> QED
    BY <1>1, <1>9, <1>10, <2>1, <2>2, <2>3 DEF BtcExplained, Customers
<1>13. Funded'
  BY <1>3, <1>9, <1>12 DEF BtcInv, Funded
<1> QED
  BY <1>5, <1>7, <1>8, <1>13 DEF BtcInv

LEMMA SetRateKeeps ==
    ASSUME BtcInv, NEW x \in Rates, SetRate(x)
    PROVE  BtcInv'
<1>1. /\ rate' = x
      /\ UNCHANGED <<balance, lock, op, who, view, want, wallet, walletLock, btx, btxLock, posted, deal>>
  BY DEF SetRate, accountsVars
<1>2. BtcTyped /\ TxsSound
  BY DEF BtcInv
<1>3. BtcTyped'
  BY <1>1, <1>2 DEF BtcTyped, AccountsTypeOK, BtcTypeOK
<1>4. TxsSound' /\ \A y : Sound(y) => Sound(y)'
  BY <1>1, <1>2, RowsKeep
<1>5. DealsKnow'
  <2>1. \A s \in Threads : Asked(s)' /\ Holds(s)' /\ Credits(s)'
    BY <1>1, <1>4, OthersDeals
  <2> QED
    BY <2>1 DEF DealsKnow
<1>6. Approved' = Approved
  BY <1>1 DEF Approved
<1>7. Funded'
  BY <1>1, <1>6, FundsKeep
<1> QED
  BY <1>3, <1>4, <1>5, <1>7 DEF BtcInv

LEMMA RejectBtxKeeps ==
    ASSUME BtcInv, NEW t \in BtcTxs, RejectBtx(t)
    PROVE  BtcInv'
<1> USE NoneIsNoBtx
<1>1. /\ btx[t].status = "pending" /\ btxLock[t] = None
      /\ btx' = [btx EXCEPT ![t].status = "rejected"]
      /\ UNCHANGED <<balance, lock, op, who, view, want, wallet, walletLock, btxLock, posted, rate, deal>>
  BY DEF RejectBtx, accountsVars
<1>2. BtcTyped /\ TxsSound /\ btx \in [BtcTxs -> BtxRow]
  BY DEF BtcInv, BtcTyped, BtcTypeOK, BtxRow
<1>3. /\ btx' \in [BtcTxs -> BtxRow]
      /\ \A x \in BtcTxs : x # t => btx'[x] = btx[x]
      /\ btx'[t].status = "rejected" /\ btx'[t].kind = btx[t].kind
      /\ btx'[t].from = btx[t].from /\ btx'[t].to = btx[t].to
  BY <1>1, <1>2 DEF BtxRow
<1>4. BtcTyped'
  BY <1>1, <1>2, <1>3 DEF BtcTyped, AccountsTypeOK, BtcTypeOK, BtxRow
<1>5. \A x : Sound(x) => Sound(x)'
  BY <1>1 DEF Sound
<1>6. TxsSound'
  BY <1>1, <1>2, <1>3 DEF TxsSound, Sound
<1>7. DealsKnow'
  <2>1. \A x \in BtcTxs, s \in Threads : btxLock[x] = s => btxLock'[x] = s /\ btx'[x] = btx[x]
    BY <1>1, <1>3
  <2>2. \A s \in Threads : Asked(s)' /\ Holds(s)' /\ Credits(s)'
    BY <1>1, <1>5, <2>1, OthersDeals
  <2> QED
    BY <2>2 DEF DealsKnow
<1>8. Approved' = Approved /\ \A x \in Approved : btx'[x] = btx[x]
  BY <1>1, <1>3 DEF Approved
<1>9. Funded'
  BY <1>1, <1>8, FundsKeep
<1> QED
  BY <1>4, <1>6, <1>7, <1>9 DEF BtcInv

LEMMA BeginTyped ==
    ASSUME BtcTyped, NEW r \in Threads, NEW u \in Users, Begin(r, u, "btc"),
           UNCHANGED <<balance, lock, want, walletLock>>
    PROVE  /\ AccountsTypeOK({"btc"})'
           /\ op[r] = "idle" /\ deal[r] = NoDeal
           /\ \A s \in Threads : op'[s] = IF s = r THEN "btc" ELSE op[s]
           /\ \A s \in Threads : s # r => view'[s] = view[s] /\ who'[s] = who[s]
           /\ who'[r] = u
           /\ \A v \in Users : walletLock[v] # r
           /\ \A t \in BtcTxs : btxLock[t] # r
<1>1. /\ op[r] = "idle" /\ op' = [op EXCEPT ![r] = "btc"] /\ who' = [who EXCEPT ![r] = u]
      /\ view' = [view EXCEPT ![r] = [EmptyView EXCEPT ![u] = balance[u]]]
  BY DEF Begin
<1>2. AccountsTypeOK({"btc"}) /\ deal[r] = NoDeal /\ BtcTypeOK
  BY <1>1 DEF BtcTyped
<1>3. [EmptyView EXCEPT ![u] = balance[u]] \in [Users -> Int]
  BY <1>2 DEF EmptyView, NotLoaded, AccountsTypeOK
<1>4. AccountsTypeOK({"btc"})'
  BY <1>1, <1>2, <1>3 DEF AccountsTypeOK
<1>a. deal[r].stage = "idle"
  BY <1>2 DEF NoDeal
<1>b. \A v \in Users : walletLock[v] # r
  BY <1>2, <1>a, NoneIsNoBtx DEF BtcTypeOK
<1>c. \A t \in BtcTxs : btxLock[t] # r
  BY <1>a, NoneIsNoBtx DEF BtcTyped
<1>6. /\ \A s \in Threads : op'[s] = IF s = r THEN "btc" ELSE op[s]
      /\ \A s \in Threads : s # r => view'[s] = view[s] /\ who'[s] = who[s]
      /\ who'[r] = u
  BY <1>1, <1>2 DEF AccountsTypeOK
<1> QED
  BY <1>1, <1>2, <1>4, <1>6, <1>b, <1>c

LEMMA SubmissionTyped ==
    ASSUME NEW u \in Users, NEW x \in Submissions(u), Submittable(x)
    PROVE  x \in BtxRow /\ Sound(x) /\ x.status = "absent"
<1> USE NoneIsNoBtx, BtcAssumption
<1>1. \/ \E a \in NgnAmounts : x = [NoBtx EXCEPT !.kind = "deposit", !.amount = a, !.to = u]
      \/ \E a \in BtcAmounts : x = [NoBtx EXCEPT !.kind = "withdrawal", !.amount = a, !.from = u]
      \/ \E a \in BtcAmounts, v \in Users :
            x = [NoBtx EXCEPT !.kind = "transfer", !.amount = a, !.from = u, !.to = v]
  <2> DEFINE D == {[NoBtx EXCEPT !.kind = "deposit", !.amount = a, !.to = u] : a \in NgnAmounts}
             W == {[NoBtx EXCEPT !.kind = "withdrawal", !.amount = a, !.from = u] : a \in BtcAmounts}
             F == {[NoBtx EXCEPT !.kind = "transfer", !.amount = p[1], !.from = u, !.to = p[2]] :
                      p \in BtcAmounts \X Users}
  <2>1. x \in D => \E a \in NgnAmounts : x = [NoBtx EXCEPT !.kind = "deposit", !.amount = a, !.to = u]
    BY Zenon
  <2>2. x \in W => \E a \in BtcAmounts : x = [NoBtx EXCEPT !.kind = "withdrawal", !.amount = a, !.from = u]
    BY Zenon
  <2>3. x \in F => \E a \in BtcAmounts, v \in Users :
                      x = [NoBtx EXCEPT !.kind = "transfer", !.amount = a, !.from = u, !.to = v]
    <3>1. ASSUME x \in F
          PROVE  \E p \in BtcAmounts \X Users :
                    x = [NoBtx EXCEPT !.kind = "transfer", !.amount = p[1], !.from = u, !.to = p[2]]
      BY <3>1, Zenon
    <3> QED
      BY <3>1
  <2>4. x \in D \cup W \cup F
    BY Zenon DEF Submissions
  <2> HIDE DEF D, W, F
  <2> QED
    BY <2>1, <2>2, <2>3, <2>4
<1>2. ASSUME NEW k \in {"deposit", "withdrawal", "transfer"}, NEW a \in Int,
             NEW v \in Users \cup {None}, NEW w \in Users \cup {None},
             x = [kind |-> k, amount |-> a, rate |-> 0, from |-> v, to |-> w, status |-> "absent"],
             IF k = "deposit" THEN v = None ELSE v \in Users,
             IF k = "withdrawal" THEN w = None ELSE w \in Users
      PROVE  x \in BtxRow /\ Sound(x) /\ x.status = "absent"
  BY <1>2 DEF BtxRow, Sound, Submittable
<1>3. ASSUME NEW a \in NgnAmounts, x = [NoBtx EXCEPT !.kind = "deposit", !.amount = a, !.to = u]
      PROVE  x \in BtxRow /\ Sound(x) /\ x.status = "absent"
  <2>1. x = [kind |-> "deposit", amount |-> a, rate |-> 0, from |-> None, to |-> u, status |-> "absent"]
    BY <1>3 DEF NoBtx
  <2> QED
    BY <1>2, <2>1
<1>4. ASSUME NEW a \in BtcAmounts, x = [NoBtx EXCEPT !.kind = "withdrawal", !.amount = a, !.from = u]
      PROVE  x \in BtxRow /\ Sound(x) /\ x.status = "absent"
  <2>1. x = [kind |-> "withdrawal", amount |-> a, rate |-> 0, from |-> u, to |-> None, status |-> "absent"]
    BY <1>4 DEF NoBtx
  <2> QED
    BY <1>2, <2>1
<1>5. ASSUME NEW a \in BtcAmounts, NEW v \in Users,
             x = [NoBtx EXCEPT !.kind = "transfer", !.amount = a, !.from = u, !.to = v]
      PROVE  x \in BtxRow /\ Sound(x) /\ x.status = "absent"
  <2>1. x = [kind |-> "transfer", amount |-> a, rate |-> 0, from |-> u, to |-> v, status |-> "absent"]
    BY <1>5 DEF NoBtx
  <2> QED
    BY <1>2, <2>1
<1> QED
  BY <1>1, <1>3, <1>4, <1>5

LEMMA BeginDealKeeps ==
    ASSUME BtcInv, NEW r \in Threads, NEW u \in Users, NEW x \in Submissions(u), BeginDeal(r, u, x)
    PROVE  BtcInv'
<1> USE NoneIsNoBtx
<1> DEFINE d == [NoDeal EXCEPT !.stage = IF x.kind = "transfer" THEN "insert" ELSE "quote", !.tx = x]
<1>1. /\ Submittable(x) /\ Begin(r, u, "btc")
      /\ deal' = [deal EXCEPT ![r] = d]
      /\ UNCHANGED <<balance, lock, want, wallet, walletLock, btx, btxLock, posted, rate>>
  BY DEF BeginDeal
<1>2. BtcTyped /\ TxsSound
  BY DEF BtcInv
<1>3. x \in BtxRow /\ Sound(x)
  BY <1>1, SubmissionTyped
<1>4. d \in DealRow /\ d.stage \in {"quote", "insert"} /\ d.tx = x /\ d.of = None
  <2>1. NoDeal \in DealRow /\ NoDeal.of = None
    BY NoBtxTyped DEF NoDeal
  <2>2. \A st \in {"quote", "insert"} : LET e == [NoDeal EXCEPT !.stage = st, !.tx = x]
                                        IN  e \in DealRow /\ e.stage = st /\ e.tx = x /\ e.of = None
    BY <1>3, <2>1 DEF DealRow
  <2> QED
    BY <2>2
<1> HIDE DEF d
<1>5. /\ AccountsTypeOK({"btc"})'
      /\ op[r] = "idle" /\ deal[r] = NoDeal
      /\ \A s \in Threads : op'[s] = IF s = r THEN "btc" ELSE op[s]
      /\ \A s \in Threads : s # r => view'[s] = view[s] /\ who'[s] = who[s]
      /\ \A v \in Users : walletLock[v] # r
      /\ \A t \in BtcTxs : btxLock[t] # r
  BY <1>1, <1>2, BeginTyped
<1>6. deal' \in [Threads -> DealRow] /\ \A s \in Threads : deal'[s] = IF s = r THEN d ELSE deal[s]
  BY <1>1, <1>2, <1>4 DEF BtcTyped
<1>7. BtcTyped'
  <2>1. \A t \in BtcTxs : btxLock[t] # None =>
           deal'[btxLock[t]].of = t /\ deal'[btxLock[t]].stage \in {"lock", "credit"}
    BY <1>2, <1>4, <1>5, <1>6 DEF BtcTyped, BtcTypeOK, NoDeal
  <2>2. \A v \in Users : walletLock[v] # None => deal'[walletLock[v]].stage \in {"lock", "credit"}
    BY <1>2, <1>5, <1>6 DEF BtcTyped, BtcTypeOK
  <2>3. \A s \in Threads : op'[s] = "idle" => deal'[s] = NoDeal
    BY <1>2, <1>5, <1>6 DEF BtcTyped
  <2> QED
    BY <1>1, <1>2, <1>5, <1>6, <2>1, <2>2, <2>3 DEF BtcTyped, BtcTypeOK
<1>8. TxsSound' /\ \A y : Sound(y) => Sound(y)'
  BY <1>1, <1>2, RowsKeep
<1>9. Asked(r)' /\ Holds(r)' /\ Credits(r)'
  BY <1>3, <1>4, <1>6, <1>8 DEF Asked, Holds, Credits
<1>10. DealsKnow'
  BY <1>1, <1>5, <1>6, <1>8, <1>9, DealsFromOthers
<1>11. Approved' = Approved
  BY <1>1 DEF Approved
<1>12. Funded'
  BY <1>1, <1>11, FundsKeep
<1> QED
  BY <1>7, <1>8, <1>10, <1>12 DEF BtcInv

LEMMA QuoteKeeps ==
    ASSUME BtcInv, NEW r \in Threads, NEW q \in Quotes, Quote(r, q)
    PROVE  BtcInv'
<1> USE NoneIsNoBtx
<1> DEFINE x == deal[r].tx
           y == [x EXCEPT !.rate = q, !.amount = IF x.kind = "deposit" THEN Converted(@, q) ELSE @]
           d == [deal[r] EXCEPT !.stage = "insert", !.tx = y]
<1>1. /\ deal[r].stage = "quote" /\ q # NoRate
      /\ deal[r].tx.kind = "deposit" => q # 0
      /\ rate' = q
      /\ deal' = [deal EXCEPT ![r].stage = "insert", ![r].tx.rate = q,
                              ![r].tx.amount = IF deal[r].tx.kind = "deposit" THEN Converted(@, q) ELSE @]
      /\ UNCHANGED <<balance, lock, op, who, view, want, wallet, walletLock, btx, btxLock, posted>>
  BY DEF Quote, accountsVars
<1>2. BtcTyped /\ TxsSound /\ deal \in [Threads -> DealRow] /\ DealsKnow
  BY DEF BtcInv, BtcTyped
<1>3. q \in Rates /\ q \in Nat
  BY <1>1, <1>2, BtcAssumption DEF Quotes, BtcTyped, BtcTypeOK
<1>4. x \in BtxRow /\ Sound(x)
  BY <1>1, <1>2 DEF DealRow, DealsKnow, Asked
<1>5. x.amount \in Int /\ (x.kind = "deposit" => Converted(x.amount, q) \in Int)
  <2>1. x.amount \in Int /\ x.amount * Coin \in Int
    BY <1>4, BtcAssumption DEF BtxRow
  <2> QED
    BY <1>1, <1>3, <2>1, NearestHalf DEF Converted
<1>6. y \in BtxRow /\ y.kind = x.kind /\ y.from = x.from /\ y.to = x.to
  BY <1>3, <1>4, <1>5 DEF BtxRow
<1>7. d \in DealRow /\ d.stage = "insert" /\ d.tx = y /\ d.of = deal[r].of
  BY <1>2, <1>6 DEF DealRow
<1>8. deal' = [deal EXCEPT ![r] = d]
  <2>1. /\ DOMAIN deal[r] = {"stage", "of", "tx", "todo"}
        /\ DOMAIN x = {"kind", "amount", "rate", "from", "to", "status"}
        /\ DOMAIN deal = Threads
    BY <1>2, <1>4 DEF DealRow, BtxRow
  <2> QED
    BY <1>1, <2>1
<1>9. Sound(y)
  BY <1>4, <1>6 DEF Sound
<1> HIDE DEF x, y, d
<1>10. deal' \in [Threads -> DealRow] /\ \A s \in Threads : deal'[s] = IF s = r THEN d ELSE deal[s]
  BY <1>2, <1>7, <1>8
<1>11. BtcTyped'
  <2>1. \A t \in BtcTxs : btxLock[t] # None =>
           deal'[btxLock[t]].of = t /\ deal'[btxLock[t]].stage \in {"lock", "credit"}
    BY <1>1, <1>2, <1>7, <1>10 DEF BtcTyped, BtcTypeOK
  <2>2. \A v \in Users : walletLock[v] # None => deal'[walletLock[v]].stage \in {"lock", "credit"}
    BY <1>1, <1>2, <1>10 DEF BtcTyped, BtcTypeOK
  <2>3. \A s \in Threads : op[s] = "idle" => deal'[s] = NoDeal
    BY <1>1, <1>2, <1>10 DEF BtcTyped, NoDeal
  <2> QED
    BY ZenonT(30), <1>1, <1>2, <1>3, <1>10, <2>1, <2>2, <2>3 DEF BtcTyped, BtcTypeOK, AccountsTypeOK
<1>12. TxsSound' /\ \A z : Sound(z) => Sound(z)'
  BY <1>1, <1>2, RowsKeep
<1>13. Asked(r)' /\ Holds(r)' /\ Credits(r)'
  <2>1. deal'[r].tx = y /\ deal'[r].stage = "insert"
    BY <1>7, <1>10
  <2>2. Sound(deal[r].tx)'
    BY <1>1, <1>9, <2>1 DEF Sound
  <2> QED
    BY <2>1, <2>2 DEF Asked, Holds, Credits
<1>14. DealsKnow'
  BY <1>1, <1>10, <1>12, <1>13, DealsFromOthers
<1>15. Approved' = Approved
  BY <1>1 DEF Approved
<1>16. Funded'
  BY <1>1, <1>15, FundsKeep
<1> QED
  BY <1>11, <1>12, <1>14, <1>16 DEF BtcInv

LEMMA InsertBtxKeeps ==
    ASSUME BtcInv, NEW r \in Threads, NEW t \in BtcTxs, InsertBtx(r, t)
    PROVE  BtcInv'
<1> USE NoneIsNoBtx
<1> DEFINE y == [deal[r].tx EXCEPT !.status = "pending"]
<1>1. /\ deal[r].stage = "insert" /\ btx[t].status = "absent"
      /\ btx' = [btx EXCEPT ![t] = y]
      /\ DealDone(r)
      /\ UNCHANGED <<balance, wallet, posted, rate>>
  BY DEF InsertBtx
<1>2. BtcTyped /\ TxsSound /\ DealsKnow /\ deal \in [Threads -> DealRow] /\ btx \in [BtcTxs -> BtxRow]
  BY DEF BtcInv, BtcTyped, BtcTypeOK, BtxRow
<1>3. y \in BtxRow /\ Sound(y) /\ y.status = "pending"
  <2>1. PICK x \in BtxRow : x = deal[r].tx
    BY <1>2 DEF DealRow
  <2>2. Sound(x)
    BY <1>1, <1>2, <2>1 DEF DealsKnow, Asked
  <2>3. y = [x EXCEPT !.status = "pending"]
    BY <2>1
  <2>4. y \in BtxRow /\ y.status = "pending" /\ y.kind = x.kind /\ y.from = x.from /\ y.to = x.to
    BY <2>1, <2>3 DEF BtxRow
  <2> QED
    BY <2>2, <2>4 DEF Sound
<1> HIDE DEF y
<1>4. btx' \in [BtcTxs -> BtxRow] /\ \A x \in BtcTxs : btx'[x] = IF x = t THEN y ELSE btx[x]
  BY <1>1, <1>2, <1>3
<1>5. BtcTyped'
  BY <1>1, <1>2, <1>4, DealDoneTyped DEF BtcTyped, BtcTypeOK, AccountsTypeOK, BtxRow
<1>6. \A x : Sound(x) => Sound(x)'
  BY <1>1 DEF Sound
<1>7. TxsSound'
  BY <1>2, <1>3, <1>4, <1>6 DEF TxsSound
<1>8. Asked(r)' /\ Holds(r)' /\ Credits(r)'
  BY <1>1, <1>2, DealDoneTyped DEF Asked, Holds, Credits, NoDeal
<1>9. \A s \in Threads : \A x \in BtcTxs : btxLock[x] = s => btx'[x] = btx[x]
  <2>1. ASSUME NEW s \in Threads, NEW x \in BtcTxs, btxLock[x] = s
        PROVE  btx[x].status = "pending"
    <3>1. deal[s].stage \in {"lock", "credit"} /\ deal[s].of = x
      BY <1>2, <2>1 DEF BtcTyped, BtcTypeOK
    <3>2. Holds(s)
      BY <1>2 DEF DealsKnow
    <3> QED
      BY <3>1, <3>2 DEF Holds
  <2> QED
    BY <1>1, <1>4, <2>1
<1>10. DealsKnow'
  <2>1. ASSUME NEW s \in Threads, s # r
        PROVE  /\ deal'[s] = deal[s] /\ view'[s] = view[s] /\ who'[s] = who[s]
               /\ \A x \in BtcTxs : btxLock[x] = s => btxLock'[x] = s /\ btx'[x] = btx[x]
               /\ \A u \in Users : walletLock[u] = s => walletLock'[u] = s
               /\ \A u \in Users : walletLock[u] = s /\ wallet[u] # NoWallet => wallet'[u] = wallet[u]
               /\ \A u \in Users : lock[u] = s => lock'[u] = s /\ balance'[u] = balance[u]
    BY <1>1, <1>2, <1>9, <2>1, DealDoneTyped
  <2> QED
    BY <1>6, <1>8, <2>1, DealsFromOthers
<1>11. Approved' = Approved /\ \A x \in Approved : btx'[x] = btx[x]
  BY <1>1, <1>3, <1>4 DEF Approved
<1>12. Funded'
  BY <1>1, <1>11, FundsKeep
<1> QED
  BY <1>5, <1>7, <1>10, <1>12 DEF BtcInv

\* The wallets a sound transaction locks are those it names.
LEMMA LocksNamed ==
    ASSUME NEW x, Sound(x)
    PROVE  /\ Locks(x) \in Seq(Users)
           /\ \A u \in Users : u \in {x.from, x.to} => \E i \in 1..Len(Locks(x)) : Locks(x)[i] = u
<1> USE NoneIsNoBtx
<1>1. CASE x.kind = "deposit"
  <2>1. Locks(x) = <<x.to>> /\ x.to \in Users /\ x.from = None
    BY <1>1 DEF Sound, Locks
  <2> QED
    BY <2>1
<1>2. CASE x.kind = "withdrawal"
  <2>1. Locks(x) = <<x.from>> /\ x.from \in Users /\ x.to = None
    BY <1>2 DEF Sound, Locks
  <2> QED
    BY <2>1
<1>3. CASE x.kind = "transfer"
  <2>1. Locks(x) = <<x.from, x.to>> /\ x.from \in Users /\ x.to \in Users
    BY <1>3 DEF Sound, Locks
  <2> QED
    BY <2>1
<1> QED
  BY <1>1, <1>2, <1>3 DEF Sound

LEMMA BeginBtcApprovalKeeps ==
    ASSUME BtcInv, NEW r \in Threads, NEW u \in Admins, NEW t \in BtcTxs, BeginBtcApproval(r, u, t)
    PROVE  BtcInv'
<1> USE NoneIsNoBtx
<1> DEFINE d == [stage |-> "lock", of |-> t, tx |-> btx[t], todo |-> Locks(btx[t])]
<1>1. /\ btx[t].status = "pending" /\ btxLock[t] = None
      /\ Begin(r, u, "btc")
      /\ btxLock' = [btxLock EXCEPT ![t] = r]
      /\ deal' = [deal EXCEPT ![r] = d]
      /\ UNCHANGED <<balance, lock, want, wallet, walletLock, btx, posted, rate>>
  BY DEF BeginBtcApproval
<1>2. /\ BtcTyped /\ TxsSound /\ u \in Users /\ deal \in [Threads -> DealRow]
      /\ btxLock \in [BtcTxs -> Threads \cup {None}]
  BY AccountsAssumption DEF BtcInv, BtcTyped
<1>3. btx[t] \in BtxRow /\ Sound(btx[t])
  BY <1>1, <1>2, AmountsTyped DEF TxsSound
<1>4. /\ Locks(btx[t]) \in Seq(Users)
      /\ \A v \in Users : v \in {btx[t].from, btx[t].to} =>
            \E i \in 1..Len(Locks(btx[t])) : Locks(btx[t])[i] = v
  BY <1>3, LocksNamed
<1>5. /\ d \in DealRow /\ d.stage = "lock" /\ d.of = t /\ d.tx = btx[t]
      /\ d.todo = Locks(btx[t])
  BY <1>3, <1>4 DEF DealRow
<1> HIDE DEF d
<1>6. /\ AccountsTypeOK({"btc"})'
      /\ \A s \in Threads : op'[s] = IF s = r THEN "btc" ELSE op[s]
      /\ \A s \in Threads : s # r => view'[s] = view[s] /\ who'[s] = who[s]
      /\ who'[r] = u
      /\ \A v \in Users : walletLock[v] # r
      /\ \A x \in BtcTxs : btxLock[x] # r
  BY <1>1, <1>2, BeginTyped
<1>7. /\ deal' \in [Threads -> DealRow] /\ \A s \in Threads : deal'[s] = IF s = r THEN d ELSE deal[s]
      /\ btxLock' \in [BtcTxs -> Threads \cup {None}]
      /\ \A x \in BtcTxs : btxLock'[x] = IF x = t THEN r ELSE btxLock[x]
  BY <1>1, <1>2, <1>5
<1>8. BtcTyped'
  <2>1. \A x \in BtcTxs : btxLock'[x] # None =>
           deal'[btxLock'[x]].of = x /\ deal'[btxLock'[x]].stage \in {"lock", "credit"}
    BY <1>2, <1>5, <1>6, <1>7 DEF BtcTyped, BtcTypeOK
  <2>2. \A v \in Users : walletLock[v] # None => deal'[walletLock[v]].stage \in {"lock", "credit"}
    BY <1>2, <1>6, <1>7 DEF BtcTyped, BtcTypeOK
  <2>3. \A s \in Threads : op'[s] = "idle" => deal'[s] = NoDeal
    BY <1>2, <1>6, <1>7 DEF BtcTyped
  <2> QED
    BY <1>1, <1>2, <1>6, <1>7, <2>1, <2>2, <2>3 DEF BtcTyped, BtcTypeOK
<1>9. TxsSound' /\ \A y : Sound(y) => Sound(y)'
  BY <1>1, <1>2, RowsKeep
<1>10. Asked(r)' /\ Holds(r)' /\ Credits(r)'
  <2>1. deal'[r] = d
    BY <1>7
  <2>2. Holds(r)'
    BY <1>1, <1>4, <1>5, <1>7, <2>1 DEF Holds
  <2>3. who'[r] \in Admins
    BY <1>6
  <2> QED
    BY <1>5, <2>1, <2>2, <2>3 DEF Asked, Credits
<1>11. DealsKnow'
  BY <1>1, <1>6, <1>7, <1>9, <1>10, DealsFromOthers
<1>12. Approved' = Approved
  BY <1>1 DEF Approved
<1>13. Funded'
  BY <1>1, <1>12, FundsKeep
<1> QED
  BY <1>8, <1>9, <1>11, <1>13 DEF BtcInv

LEMMA LockWalletKeeps ==
    ASSUME BtcInv, NEW r \in Threads, LockWallet(r)
    PROVE  BtcInv'
<1> USE NoneIsNoBtx
<1>1. /\ deal[r].stage = "lock" /\ deal[r].todo # <<>>
      /\ walletLock[deal[r].todo[1]] = None
      /\ walletLock' = [walletLock EXCEPT ![deal[r].todo[1]] = r]
      /\ deal' = [deal EXCEPT ![r].todo = Tail(deal[r].todo)]
      /\ UNCHANGED <<balance, lock, op, who, view, want, wallet, btx, btxLock, posted, rate>>
  BY DEF LockWallet, accountsVars
<1>2. /\ BtcTyped /\ TxsSound /\ DealsKnow /\ deal \in [Threads -> DealRow]
      /\ walletLock \in [Users -> Threads \cup {None}]
  BY DEF BtcInv, BtcTyped
<1>3. PICK todo \in Seq(Users) : todo = deal[r].todo
  BY <1>2 DEF DealRow
<1>4. /\ todo[1] \in Users /\ Tail(todo) \in Seq(Users) /\ Len(todo) > 0
      /\ \A i \in 1..Len(todo) : i # 1 => (i - 1 \in 1..Len(Tail(todo)) /\ Tail(todo)[i - 1] = todo[i])
  BY <1>1, <1>3
<1>a. PICK rest \in Seq(Users) : rest = Tail(todo)
  BY <1>4
<1>b. deal[r] \in DealRow
  BY <1>2
<1>5. PICK d \in DealRow : d = [deal[r] EXCEPT !.todo = rest]
  BY <1>b DEF DealRow
<1>c. d.todo = rest
  BY <1>b, <1>5 DEF DealRow
<1>6. d.stage = "lock" /\ d.of = deal[r].of /\ d.tx = deal[r].tx
  BY <1>1, <1>b, <1>5 DEF DealRow
<1>d. deal' = [deal EXCEPT ![r] = d]
  BY <1>1, <1>2, <1>3, <1>5, <1>a
<1>7. /\ deal' \in [Threads -> DealRow] /\ \A s \in Threads : deal'[s] = IF s = r THEN d ELSE deal[s]
      /\ walletLock' \in [Users -> Threads \cup {None}]
      /\ \A v \in Users : walletLock'[v] = IF v = todo[1] THEN r ELSE walletLock[v]
  BY ZenonT(30), <1>1, <1>2, <1>3, <1>4, <1>d
<1>8. BtcTyped'
  <2>1. \A t \in BtcTxs : btxLock[t] # None =>
           deal'[btxLock[t]].of = t /\ deal'[btxLock[t]].stage \in {"lock", "credit"}
    <3>1. \A t \in BtcTxs : btxLock[t] # None =>
             /\ btxLock[t] \in Threads
             /\ deal[btxLock[t]].of = t /\ deal[btxLock[t]].stage \in {"lock", "credit"}
      BY <1>2 DEF BtcTyped, BtcTypeOK
    <3> QED
      BY <1>6, <1>7, <3>1
  <2>2. \A v \in Users : walletLock'[v] # None => deal'[walletLock'[v]].stage \in {"lock", "credit"}
    <3>1. \A v \in Users : walletLock[v] # None =>
             walletLock[v] \in Threads /\ deal[walletLock[v]].stage \in {"lock", "credit"}
      BY <1>2 DEF BtcTyped, BtcTypeOK
    <3> QED
      BY <1>6, <1>7, <3>1
  <2>3. \A s \in Threads : op[s] = "idle" => deal'[s] = NoDeal
    BY <1>1, <1>2, <1>7 DEF BtcTyped, NoDeal
  <2> QED
    BY <1>1, <1>2, <1>7, <2>1, <2>2, <2>3 DEF BtcTyped, BtcTypeOK, AccountsTypeOK
<1>9. TxsSound' /\ \A y : Sound(y) => Sound(y)'
  BY <1>1, <1>2, RowsKeep
<1>10. Asked(r)' /\ Holds(r)' /\ Credits(r)'
  <2>1. deal'[r] = d /\ Holds(r) /\ Credits(r)
    BY <1>2, <1>7 DEF DealsKnow
  <2>2. ASSUME NEW u \in Users, u \in {d.tx.from, d.tx.to}
        PROVE  walletLock'[u] = r \/ \E i \in 1..Len(d.todo) : d.todo[i] = u
    <3>1. walletLock[u] = r \/ \E i \in 1..Len(todo) : todo[i] = u
      BY <1>1, <1>3, <1>6, <2>1, <2>2 DEF Holds
    <3>2. CASE walletLock[u] = r
      BY <1>7, <3>2
    <3>3. ASSUME NEW i \in 1..Len(todo), todo[i] = u
          PROVE  walletLock'[u] = r \/ \E k \in 1..Len(rest) : rest[k] = u
      <4>1. CASE i = 1
        BY <1>7, <3>3, <4>1
      <4>2. CASE i # 1
        BY <1>4, <1>a, <3>3, <4>2
      <4> QED
        BY <4>1, <4>2
    <3> QED
      BY <1>c, <3>1, <3>2, <3>3
  <2>3. Holds(r)'
    BY ZenonT(30), <1>1, <1>6, <2>1, <2>2 DEF Holds
  <2> QED
    BY <1>1, <1>6, <2>1, <2>3 DEF Asked, Credits
<1>11. \A s \in Threads : s # r => \A u \in Users : walletLock[u] = s => walletLock'[u] = s
  BY <1>1, <1>3, <1>7
<1>12. DealsKnow'
  BY <1>1, <1>7, <1>9, <1>10, <1>11, DealsFromOthers
<1>13. Approved' = Approved
  BY <1>1 DEF Approved
<1>14. Funded'
  BY <1>1, <1>13, FundsKeep
<1> QED
  BY <1>8, <1>9, <1>12, <1>14 DEF BtcInv

\* An approval past its locks holds the wallets it names, and they exist.
LEMMA LocksHeld ==
    ASSUME BtcInv, NEW r \in Threads, deal[r].stage \in {"lock", "credit"}, deal[r].todo = <<>>
    PROVE  /\ deal[r].of \in BtcTxs /\ btx[deal[r].of] = deal[r].tx
           /\ btx[deal[r].of].status = "pending"
           /\ deal[r].tx \in BtxRow /\ Sound(deal[r].tx)
           /\ deal[r].tx.amount \in Int
           /\ \A u \in Users : u \in {deal[r].tx.from, deal[r].tx.to} => walletLock[u] = r
<1>1. Holds(r) /\ TxsSound /\ BtcTyped
  BY DEF BtcInv, DealsKnow
<1>2. ~ \E i \in 1..Len(<<>>) : TRUE
  OBVIOUS
<1>3. deal[r].of \in BtcTxs /\ btx[deal[r].of] = deal[r].tx /\ btx[deal[r].of].status = "pending"
  BY <1>1 DEF Holds
<1>4. \A u \in Users : u \in {deal[r].tx.from, deal[r].tx.to} => walletLock[u] = r
  BY <1>1, <1>2 DEF Holds
<1> QED
  BY <1>1, <1>3, <1>4, AmountsTyped DEF TxsSound

LEMMA LockUserKeeps ==
    ASSUME BtcInv, NEW r \in Threads, LockUser(r)
    PROVE  BtcInv'
<1> USE NoneIsNoBtx
<1>1. /\ deal[r].stage = "lock" /\ deal[r].todo = <<>>
      /\ deal[r].tx.kind = "withdrawal" /\ Covered(deal[r].tx)
      /\ lock[deal[r].tx.from] = None
      /\ lock' = [lock EXCEPT ![deal[r].tx.from] = r]
      /\ view' = IF who[r] = deal[r].tx.from THEN view
                 ELSE [view EXCEPT ![r][deal[r].tx.from] = balance[deal[r].tx.from]]
      /\ deal' = [deal EXCEPT ![r].stage = "credit"]
      /\ UNCHANGED <<balance, op, who, want, wallet, walletLock, btx, btxLock, posted, rate>>
  BY DEF LockUser, Free
<1>2. /\ BtcTyped /\ TxsSound /\ DealsKnow /\ deal \in [Threads -> DealRow]
      /\ AccountsTypeOK({"btc"})
  BY DEF BtcInv, BtcTyped
<1>3. PICK u \in Users : u = deal[r].tx.from
  BY <1>1, LocksHeld DEF Sound
<1>4. PICK d \in DealRow : d = [deal[r] EXCEPT !.stage = "credit"]
  BY <1>2 DEF DealRow
<1>5. d.stage = "credit" /\ d.of = deal[r].of /\ d.tx = deal[r].tx /\ d.todo = deal[r].todo
  BY <1>2, <1>4 DEF DealRow
<1>6. /\ deal' \in [Threads -> DealRow] /\ \A s \in Threads : deal'[s] = IF s = r THEN d ELSE deal[s]
      /\ lock' \in [Users -> Threads \cup {None}]
      /\ \A v \in Users : lock'[v] = IF v = u THEN r ELSE lock[v]
  BY <1>1, <1>2, <1>3, <1>4 DEF AccountsTypeOK
<1>7. /\ view' \in [Threads -> [Users -> Int]]
      /\ \A s \in Threads : s # r => view'[s] = view[s]
      /\ who[r] # u => view'[r][u] = balance[u]
  BY <1>1, <1>2, <1>3 DEF AccountsTypeOK
<1>8. BtcTyped'
  <2>1. \A t \in BtcTxs : btxLock[t] # None =>
           deal'[btxLock[t]].of = t /\ deal'[btxLock[t]].stage \in {"lock", "credit"}
    BY <1>2, <1>5, <1>6 DEF BtcTyped, BtcTypeOK
  <2>2. \A v \in Users : walletLock[v] # None => deal'[walletLock[v]].stage \in {"lock", "credit"}
    BY <1>2, <1>5, <1>6 DEF BtcTyped, BtcTypeOK
  <2>3. \A s \in Threads : op[s] = "idle" => deal'[s] = NoDeal
    BY <1>1, <1>2, <1>6 DEF BtcTyped, NoDeal
  <2>4. AccountsTypeOK({"btc"})'
    BY <1>1, <1>2, <1>6, <1>7 DEF AccountsTypeOK
  <2> QED
    BY <1>1, <1>2, <1>6, <2>1, <2>2, <2>3, <2>4 DEF BtcTyped, BtcTypeOK
<1>9. TxsSound' /\ \A y : Sound(y) => Sound(y)'
  BY <1>1, <1>2, RowsKeep
<1>10. Asked(r)' /\ Holds(r)' /\ Credits(r)'
  <2>1. deal'[r] = d /\ Holds(r) /\ Credits(r)
    BY <1>2, <1>6 DEF DealsKnow
  <2>2. Holds(r)'
    BY <1>1, <1>5, <2>1 DEF Holds
  <2>3. u \in Customers => view'[r][u] = balance[u]
    BY <1>1, <1>7, <2>1 DEF Credits, Customers
  <2>4. Covered(d.tx)'
    BY <1>1, <1>5 DEF Covered
  <2>5. lock'[u] = r /\ d.tx.from = u
    BY <1>3, <1>5, <1>6
  <2>6. Credits(r)'
    BY <1>1, <1>5, <2>1, <2>3, <2>4, <2>5 DEF Credits, Covered
  <2> QED
    BY <1>5, <2>1, <2>2, <2>6 DEF Asked
<1>11. \A s \in Threads : s # r => \A v \in Users : lock[v] = s => lock'[v] = s
  BY <1>1, <1>3, <1>6
<1>12. DealsKnow'
  BY <1>1, <1>6, <1>7, <1>9, <1>10, <1>11, DealsFromOthers
<1>13. Approved' = Approved
  BY <1>1 DEF Approved
<1>14. Funded'
  BY <1>1, <1>13, FundsKeep
<1> QED
  BY <1>8, <1>9, <1>12, <1>14 DEF BtcInv

\* A commit moves what the transaction says between the wallets it has locked.
LEMMA WalletsMoved ==
    ASSUME BtcInv, NEW x \in BtxRow, Sound(x),
           wallet' = [u \in Users |-> WalletAfter(x, u)]
    PROVE  /\ wallet' \in [Users -> Int \cup {NoWallet}]
           /\ \A u \in Users : /\ wallet'[u] = NoWallet <=> wallet[u] = NoWallet
                               /\ u \notin {x.from, x.to} => wallet'[u] = wallet[u]
                               /\ wallet[u] # NoWallet =>
                                    /\ wallet[u] \in Int
                                    /\ wallet'[u] = wallet[u] + (IF x.to = u THEN x.amount ELSE 0)
                                                               - (IF x.from = u THEN x.amount ELSE 0)
<1> USE NoneIsNoBtx
<1>1. wallet \in [Users -> Int \cup {NoWallet}]
  BY DEF BtcInv, BtcTyped, BtcTypeOK
<1>2. x.amount \in Int
  BY DEF BtxRow
<1>3. ASSUME NEW u \in Users
      PROVE  /\ wallet'[u] \in Int \cup {NoWallet}
             /\ wallet'[u] = NoWallet <=> wallet[u] = NoWallet
             /\ u \notin {x.from, x.to} => wallet'[u] = wallet[u]
             /\ wallet[u] # NoWallet =>
                   /\ wallet[u] \in Int
                   /\ wallet'[u] = wallet[u] + (IF x.to = u THEN x.amount ELSE 0)
                                              - (IF x.from = u THEN x.amount ELSE 0)
  <2>1. wallet[u] \in Int \/ wallet[u] = NoWallet
    BY <1>1
  <2>2. wallet'[u] = WalletAfter(x, u)
    OBVIOUS
  <2>3. CASE u \in {x.from, x.to}
    <3>1. wallet[u] \in Int
      BY <2>1, <2>3 DEF Sound
    <3>2. wallet'[u] = wallet[u] + (IF x.to = u THEN x.amount ELSE 0) - (IF x.from = u THEN x.amount ELSE 0)
      BY <2>2, <2>3 DEF WalletAfter
    <3>3. wallet'[u] \in Int
      BY <1>2, <3>1, <3>2
    <3> QED
      BY <2>3, <3>1, <3>2, <3>3
  <2>4. CASE u \notin {x.from, x.to}
    <3>1. wallet'[u] = wallet[u]
      BY <2>2, <2>4 DEF WalletAfter
    <3> QED
      BY <2>1, <2>4, <3>1
  <2> QED
    BY <2>3, <2>4
<1>4. wallet' = [u \in Users |-> wallet'[u]]
  OBVIOUS
<1> QED
  BY <1>3, <1>4

LEMMA CommitBtxKeeps ==
    ASSUME BtcInv, NEW r \in Threads, CommitBtx(r)
    PROVE  BtcInv'
<1> USE NoneIsNoBtx
<1>0. /\ BtcTyped /\ TxsSound /\ DealsKnow /\ Funded /\ AccountsTypeOK({"btc"})
      /\ btx \in [BtcTxs -> BtxRow] /\ deal[r] \in DealRow
  BY DEF BtcInv, BtcTyped, BtcTypeOK, BtxRow
<1>1. /\ DealDone(r)
      /\ wallet' = [u \in Users |-> WalletAfter(deal[r].tx, u)]
      /\ btx' = [btx EXCEPT ![deal[r].of].status = "approved"]
      /\ UNCHANGED rate
      /\ IF deal[r].tx.kind = "deposit" THEN Post(deal[r].of) ELSE UNCHANGED posted
      /\ \/ deal[r].stage = "lock" /\ deal[r].tx.kind # "withdrawal" /\ UNCHANGED balance
         \/ /\ deal[r].stage = "credit"
            /\ balance' = [balance EXCEPT ![deal[r].tx.from] = Credited(view[r][deal[r].tx.from], deal[r].tx)]
  BY DEF CommitBtx
<1>2. /\ deal[r].stage \in {"lock", "credit"} /\ deal[r].todo = <<>> /\ Covered(deal[r].tx)
      /\ deal[r].stage = "credit" => deal[r].tx.kind = "withdrawal"
  BY <1>0 DEF CommitBtx, DealsKnow, Credits
<1>3. PICK t \in BtcTxs, x \in BtxRow : t = deal[r].of /\ x = deal[r].tx /\ x = btx[t]
  BY <1>2, LocksHeld
<1>4. /\ btx[t].status = "pending" /\ Sound(x) /\ Covered(x) /\ x.amount \in Int
      /\ \A u \in Users : u \in {x.from, x.to} => walletLock[u] = r
  BY <1>2, <1>3, LocksHeld
<1>5. /\ wallet' = [u \in Users |-> WalletAfter(x, u)]
      /\ btx' = [btx EXCEPT ![t].status = "approved"]
  BY <1>1, <1>3
<1>6. /\ wallet' \in [Users -> Int \cup {NoWallet}]
      /\ \A u \in Users : /\ wallet'[u] = NoWallet <=> wallet[u] = NoWallet
                          /\ u \notin {x.from, x.to} => wallet'[u] = wallet[u]
                          /\ wallet[u] # NoWallet =>
                               /\ wallet[u] \in Int
                               /\ wallet'[u] = wallet[u] + (IF x.to = u THEN x.amount ELSE 0)
                                                          - (IF x.from = u THEN x.amount ELSE 0)
  BY <1>4, <1>5, WalletsMoved
<1>7. /\ btx' \in [BtcTxs -> BtxRow]
      /\ \A y \in BtcTxs : y # t => btx'[y] = btx[y]
      /\ btx'[t].kind = x.kind /\ btx'[t].from = x.from /\ btx'[t].to = x.to
  BY <1>0, <1>3, <1>5 DEF BtxRow
\* What a withdrawal credits is added to the balance as it is, and rounded.
<1>8. /\ balance' \in [Users -> Int]
      /\ \A u \in Users : (x.kind = "withdrawal" => u # x.from) => balance'[u] = balance[u]
      /\ x.kind = "withdrawal" /\ x.from \in Customers =>
            balance'[x.from] = Nearest(balance[x.from] * Coin + x.amount * x.rate, Coin)
      /\ x.kind = "withdrawal" => lock[x.from] = r
  <2>0. balance \in [Users -> Int] /\ view \in [Threads -> [Users -> Int]]
    BY <1>0 DEF AccountsTypeOK
  <2>1. CASE deal[r].stage = "lock" /\ deal[r].tx.kind # "withdrawal" /\ UNCHANGED balance
    BY <1>3, <2>0, <2>1
  <2>2. CASE /\ deal[r].stage = "credit"
             /\ balance' = [balance EXCEPT ![deal[r].tx.from] = Credited(view[r][deal[r].tx.from], deal[r].tx)]
    <3>1. /\ x.kind = "withdrawal" /\ x.from \in Users /\ lock[x.from] = r
          /\ x.from \in Customers => view[r][x.from] = balance[x.from]
      BY ZenonT(30), <1>0, <1>2, <1>3, <1>4, <2>2 DEF DealsKnow, Credits, Sound
    <3>2. PICK w : w = Nearest(view[r][x.from] * Coin + x.amount * x.rate, Coin)
      OBVIOUS
    <3>3. balance' = [balance EXCEPT ![x.from] = w]
      BY <1>3, <2>2, <3>2 DEF Credited
    <3>4. w \in Int
      <4>1. x.amount * x.rate \in Int
        BY <1>3, AmountsTyped, <1>0
      <4>2. view[r][x.from] * Coin \in Int /\ Coin \in Nat \ {0}
        BY <2>0, <3>1, BtcAssumption
      <4>3. view[r][x.from] * Coin + x.amount * x.rate \in Int
        BY <4>1, <4>2
      <4> QED
        BY <3>2, <4>2, <4>3, NearestHalf
    <3> QED
      BY <2>0, <3>1, <3>2, <3>3, <3>4
  <2> QED
    BY <1>1, <2>1, <2>2
<1>a. /\ posted' \in [BtcTxs -> Nat]
      /\ \A y \in BtcTxs : y # t => posted'[y] = posted[y]
      /\ posted[t] = 0 => posted'[t] = IF x.kind = "deposit" THEN 1 ELSE 0
  <2>1. posted \in [BtcTxs -> Nat]
    BY <1>0 DEF BtcTyped, BtcTypeOK
  <2>2. CASE x.kind = "deposit"
    <3>1. posted' = [posted EXCEPT ![t] = IF posted[t] = 0 THEN 1 ELSE posted[t]]
      BY <1>1, <1>3, <2>2 DEF Post
    <3> QED
      BY <2>1, <2>2, <3>1
  <2>3. CASE x.kind # "deposit"
    BY <1>1, <1>3, <2>1, <2>3
  <2> QED
    BY <2>2, <2>3
<1>9. BtcTyped'
  <2>1. AccountsTypeOK({"btc"})'
    BY <1>0, <1>1, <1>8, DealDoneTyped DEF AccountsTypeOK
  <2>2. BtcTypeOK'
    BY <1>0, <1>1, <1>6, <1>7, <1>a, DealDoneTyped DEF BtcTyped, BtcTypeOK, BtxRow
  <2> QED
    BY <1>0, <1>1, <2>1, <2>2, DealDoneTyped DEF BtcTyped
<1>10. \A y : Sound(y) => Sound(y)'
  BY <1>6 DEF Sound
<1>11. TxsSound'
  <2>1. ASSUME NEW y \in BtcTxs, btx'[y].status # "absent"
        PROVE  Sound(btx[y])'
    <3>1. CASE y = t
      <4>1. Sound(x)'
        BY <1>4, <1>10
      <4> QED
        BY <1>7, <3>1, <4>1 DEF Sound
    <3>2. CASE y # t
      <4>1. Sound(btx[y])
        BY <1>0, <1>7, <2>1, <3>2 DEF TxsSound
      <4> QED
        BY <1>6, <1>7, <3>2, <4>1 DEF Sound
    <3> QED
      BY <3>1, <3>2
  <2> QED
    BY <2>1 DEF TxsSound
<1>12. Asked(r)' /\ Holds(r)' /\ Credits(r)'
  BY <1>0, <1>1, DealDoneTyped DEF Asked, Holds, Credits, NoDeal
<1>13. ASSUME NEW s \in Threads, s # r
       PROVE  /\ \A y \in BtcTxs : btxLock[y] = s => btx'[y] = btx[y]
              /\ \A u \in Users : walletLock[u] = s => wallet'[u] = wallet[u]
              /\ \A u \in Users : lock[u] = s => balance'[u] = balance[u]
  <2>1. btxLock[t] = r
    BY <1>0, <1>2, <1>3 DEF DealsKnow, Holds
  <2>2. \A y \in BtcTxs : btxLock[y] = s => btx'[y] = btx[y]
    BY <1>7, <1>13, <2>1
  <2>3. \A u \in Users : walletLock[u] = s => wallet'[u] = wallet[u]
    BY <1>4, <1>6, <1>13
  <2>4. \A u \in Users : lock[u] = s => balance'[u] = balance[u]
    BY <1>8, <1>13
  <2> QED
    BY <2>2, <2>3, <2>4
<1>14. DealsKnow'
  <2>1. ASSUME NEW s \in Threads, s # r
        PROVE  /\ deal'[s] = deal[s] /\ view'[s] = view[s] /\ who'[s] = who[s]
               /\ \A y \in BtcTxs : btxLock[y] = s => btxLock'[y] = s /\ btx'[y] = btx[y]
               /\ \A u \in Users : walletLock[u] = s => walletLock'[u] = s
               /\ \A u \in Users : walletLock[u] = s /\ wallet[u] # NoWallet => wallet'[u] = wallet[u]
               /\ \A u \in Users : lock[u] = s => lock'[u] = s /\ balance'[u] = balance[u]
    BY <1>0, <1>1, <1>13, <2>1, DealDoneTyped
  <2> QED
    BY <1>10, <1>12, <2>1, DealsFromOthers
<1>15. ASSUME NEW u \in Users
       PROVE  /\ Moved(u) \in Int /\ Taken(u) \in Int /\ Earned(u) \in Int
              /\ Cardinality(Cashed(u)) \in Nat
              /\ Moved(u)' = Moved(u) + (IF x.to = u THEN x.amount ELSE 0)
                                      - (IF x.from = u THEN x.amount ELSE 0)
              /\ Taken(u)' = Taken(u) + (IF x.to = u /\ x.amount < 0 THEN x.amount ELSE 0)
              /\ Earned(u)' = Earned(u) + (IF x.kind = "withdrawal" /\ x.from = u
                                           THEN x.amount * x.rate ELSE 0)
              /\ Cardinality(Cashed(u))' = Cardinality(Cashed(u))
                                      + (IF x.kind = "withdrawal" /\ x.from = u THEN 1 ELSE 0)
  <2>1. x = btx[t] /\ btx[t].status = "pending" /\ IsFiniteSet(Approved) /\ BtcTyped
    BY <1>0, <1>3, <1>4 DEF Funded
  <2>2. Moved(u) \in Int /\ Taken(u) \in Int /\ Earned(u) \in Int /\ Cardinality(Cashed(u)) \in Nat
    BY <2>1, SumsTyped
  <2> QED
    BY <1>5, <2>1, <2>2, SumsGrow
<1>16. Approved' = Approved \cup {t} /\ t \notin Approved /\ IsFiniteSet(Approved')
  <2>1. Approved' = Approved \cup {t} /\ t \notin Approved
    BY <1>0, <1>4, <1>5, <1>7 DEF Approved
  <2> QED
    BY <1>0, <2>1, FS_AddElement DEF Funded
<1>b. BtcExplained
  BY <1>0 DEF Funded
<1>17. ASSUME NEW u \in Users, wallet'[u] # NoWallet
       PROVE  wallet'[u] = First(u)' + Moved(u)' /\ wallet'[u] >= Taken(u)'
  <2> DEFINE in == IF x.to = u THEN x.amount ELSE 0
             out == IF x.from = u THEN x.amount ELSE 0
             less == IF x.to = u /\ x.amount < 0 THEN x.amount ELSE 0
             base == First(u)
             taken == Taken(u)
             moved == Moved(u)
  <2>1. in \in Int /\ out \in Int /\ base \in Int /\ base = First(u)'
    BY <1>4, BtcAssumption DEF First, NoWallet
  <2>2. wallet[u] \in Int /\ wallet[u] = base + moved /\ wallet[u] >= taken
    BY <1>6, <1>17, <1>b DEF BtcExplained
  <2>3. wallet'[u] = wallet[u] + in - out /\ Moved(u)' = moved + in - out /\ moved \in Int
    BY <1>6, <1>15, <2>2
  <2>4. Taken(u)' = taken + less /\ taken \in Int
    BY <1>15
  \* A wallet that gives has what it gives; one that gets gets as much as is said.
  <2>5. less \in Int /\ less <= in /\ less <= 0
    BY <1>4
  <2>6. ~ out <= 0 => out <= wallet[u] /\ in = 0 /\ less = 0
    <3>1. ASSUME ~ out <= 0
          PROVE  out <= wallet[u] /\ in = 0 /\ less = 0
      <4>1. x.from = u
        BY <3>1
      <4>2. x.to # u
        BY <4>1, NoneIsNoBtx, <1>4 DEF Sound
      <4>3. x.amount <= wallet[u]
        BY <1>4, <4>1, NoneIsNoBtx DEF Sound, Covered
      <4> QED
        BY <4>1, <4>2, <4>3
    <3> QED
      BY <3>1
  <2>7. taken <= 0
    BY <1>0, TakenIsLess DEF Funded
  <2> HIDE DEF in, out, less, base, taken, moved
  <2>8. wallet'[u] = base + Moved(u)'
    BY <2>1, <2>2, <2>3
  <2>9. wallet'[u] >= taken + less
    <3>1. CASE out <= 0
      BY <2>1, <2>2, <2>3, <2>4, <2>5, <3>1
    <3>2. CASE ~ out <= 0
      BY <2>1, <2>2, <2>3, <2>4, <2>5, <2>6, <2>7, <3>2
    <3> QED
      BY <3>1, <3>2
  <2> QED
    BY <2>1, <2>4, <2>8, <2>9
<1>18. ASSUME NEW u \in Customers
       PROVE  /\ -(Coin * Cardinality(Cashed(u))') <= 2 * Gained(u)'
              /\ 2 * Gained(u)' <= Coin * Cardinality(Cashed(u))'
  <2> DEFINE k == Cardinality(Cashed(u))
             b == balance[u]
             o == Opening[u]
             e == Earned(u)
  <2>1. u \in Users /\ o \in Int /\ b \in Int /\ e \in Int /\ k \in Nat /\ Coin \in Nat \ {0}
    BY <1>0, <1>15, AccountsAssumption, BtcAssumption DEF Customers, AccountsTypeOK
  <2>2. -(Coin * k) <= 2 * (Coin * (b - o) - e) /\ 2 * (Coin * (b - o) - e) <= Coin * k
    BY <1>b DEF BtcExplained, Gained
  <2>3. Gained(u)' = Coin * (balance'[u] - o) - Earned(u)'
    BY DEF Gained
  <2>4. CASE ~ (x.kind = "withdrawal" /\ x.from = u)
    <3>1. balance'[u] = b /\ Earned(u)' = e /\ Cardinality(Cashed(u))' = k
      BY <1>8, <1>15, <2>1, <2>4
    <3> QED
      BY <2>2, <2>3, <3>1
  <2>5. CASE x.kind = "withdrawal" /\ x.from = u
    <3> DEFINE w == x.amount * x.rate
               c == Nearest(b * Coin + w, Coin)
    <3>1. w \in Int
      BY <1>0, <1>3, AmountsTyped
    <3>2. balance'[u] = c /\ Earned(u)' = e + w /\ Cardinality(Cashed(u))' = k + 1
      BY <1>8, <1>15, <2>1, <2>5
    <3> HIDE DEF k, b, o, e, w
    <3>3. b * Coin \in Int /\ b * Coin + w \in Int
      BY <2>1, <3>1
    <3>4. /\ c \in Int /\ -Coin <= 2 * (Coin * c - (b * Coin + w))
          /\ 2 * (Coin * c - (b * Coin + w)) <= Coin
      BY <2>1, <3>3, NearestHalf
    <3> HIDE DEF c
    <3>5. /\ Coin * (c - o) = Coin * c - Coin * o /\ Coin * (b - o) = b * Coin - Coin * o
          /\ Coin * (k + 1) = Coin * k + Coin
          /\ Coin * c \in Int /\ Coin * o \in Int /\ Coin * k \in Int
      BY <2>1, <3>4
    <3>6. /\ -(Coin * (k + 1)) <= 2 * (Coin * (c - o) - (e + w))
          /\ 2 * (Coin * (c - o) - (e + w)) <= Coin * (k + 1)
      BY <2>1, <2>2, <3>1, <3>3, <3>4, <3>5
    <3> QED
      BY <2>3, <3>2, <3>6
  <2> QED
    BY <2>4, <2>5
<1>19. ASSUME NEW y \in BtcTxs
       PROVE  posted'[y] = IF y \in Approved' /\ btx'[y].kind = "deposit" THEN 1 ELSE 0
  <2>1. posted[y] = IF y \in Approved /\ btx[y].kind = "deposit" THEN 1 ELSE 0
    BY <1>b DEF BtcExplained
  <2>2. CASE y = t
    BY <1>7, <1>16, <1>a, <2>1, <2>2
  <2>3. CASE y # t
    BY <1>7, <1>16, <1>a, <2>1, <2>3
  <2> QED
    BY <2>2, <2>3
<1>20. BtcExplained'
  BY <1>17, <1>18, <1>19 DEF BtcExplained, Customers
<1>21. Funded'
  BY <1>0, <1>6, <1>16, <1>20 DEF Funded
<1> QED
  BY <1>9, <1>11, <1>14, <1>21 DEF BtcInv

LEMMA AbortBtcKeeps ==
    ASSUME BtcInv, NEW r \in Threads, AbortBtc(r)
    PROVE  BtcInv'
<1> USE NoneIsNoBtx
<1>1. DealDone(r) /\ UNCHANGED <<balance, wallet, btx, posted, rate>>
  BY DEF AbortBtc
<1>2. BtcTyped /\ TxsSound
  BY DEF BtcInv
<1>3. BtcTyped'
  BY <1>1, <1>2, DealDoneTyped DEF BtcTyped, BtcTypeOK, AccountsTypeOK
<1>4. TxsSound' /\ \A y : Sound(y) => Sound(y)'
  BY <1>1, <1>2, RowsKeep
<1>5. Asked(r)' /\ Holds(r)' /\ Credits(r)'
  BY <1>1, <1>2, DealDoneTyped DEF Asked, Holds, Credits, NoDeal
<1>6. DealsKnow'
  BY <1>1, <1>2, <1>4, <1>5, DealDoneTyped, DealsFromOthers
<1>7. Approved' = Approved
  BY <1>1 DEF Approved
<1>8. Funded'
  BY <1>1, <1>7, FundsKeep
<1> QED
  BY <1>3, <1>4, <1>6, <1>8 DEF BtcInv

LEMMA BtcStepInv == BtcInv /\ [BtcActivity]_<<accountsVars, btcVars>> => BtcInv'
<1> SUFFICES ASSUME BtcInv, [BtcActivity]_<<accountsVars, btcVars>>
             PROVE  BtcInv'
  OBVIOUS
<1>1. CASE UNCHANGED <<accountsVars, btcVars>>
  <2>1. UNCHANGED <<balance, lock, op, who, view, want, wallet, walletLock, btx, btxLock, posted, rate, deal>>
    BY <1>1 DEF accountsVars, btcVars
  <2>2. BtcTyped'
    BY <2>1 DEF BtcInv, BtcTyped, BtcTypeOK, AccountsTypeOK
  <2>3. TxsSound' /\ \A y : Sound(y) => Sound(y)'
    BY <2>1, RowsKeep DEF BtcInv
  <2>4. \A s \in Threads : Asked(s)' /\ Holds(s)' /\ Credits(s)'
    BY <2>1, <2>3, OthersDeals
  <2>5. Approved' = Approved
    BY <2>1 DEF Approved
  <2>6. Funded'
    BY <2>1, <2>5, FundsKeep
  <2> QED
    BY <2>2, <2>3, <2>4, <2>6 DEF BtcInv, DealsKnow
<1>2. ASSUME NEW u \in Users, OpenWallet(u)
      PROVE  BtcInv'
  BY <1>2, OpenWalletKeeps
<1>3. ASSUME NEW x \in Rates, SetRate(x)
      PROVE  BtcInv'
  BY <1>3, SetRateKeeps
<1>4. ASSUME NEW t \in BtcTxs, RejectBtx(t)
      PROVE  BtcInv'
  BY <1>4, RejectBtxKeeps
<1>5. ASSUME NEW r \in Threads, NEW u \in Users, NEW x \in Submissions(u), BeginDeal(r, u, x)
      PROVE  BtcInv'
  BY <1>5, BeginDealKeeps
<1>6. ASSUME NEW r \in Threads, \/ \E q \in Quotes : Quote(r, q)
                                \/ \E t \in BtcTxs : InsertBtx(r, t)
      PROVE  BtcInv'
  BY <1>6, QuoteKeeps, InsertBtxKeeps
<1>7. ASSUME NEW r \in Threads, NEW u \in Admins, NEW t \in BtcTxs, BeginBtcApproval(r, u, t)
      PROVE  BtcInv'
  BY <1>7, BeginBtcApprovalKeeps
<1>8. ASSUME NEW r \in Threads, LockWallet(r) \/ LockUser(r) \/ CommitBtx(r) \/ AbortBtc(r)
      PROVE  BtcInv'
  BY <1>8, LockWalletKeeps, LockUserKeeps, CommitBtxKeeps, AbortBtcKeeps
<1> QED
  BY <1>1, <1>2, <1>3, <1>4, <1>5, <1>6, <1>7, <1>8 DEF BtcActivity

\* For any number of BTC transactions, wallets, rates and threads, however
\* approvals, submissions and rate changes interleave and whatever the sign of the
\* amounts: a wallet holds what its approved transactions leave, and is below zero
\* by no more than the negative amounts sent to it took; a customer was credited
\* for each withdrawal once, at the rate it was submitted at, give or take the half
\* kobo the column rounds by; the ledger has each approved deposit once.
THEOREM WalletsExplained == BtcSpec => []BtcExplained
<1>1. BtcInv => BtcExplained
  BY DEF BtcInv, Funded
<1> QED
  BY <1>1, BtcInitInv, BtcStepInv, PTL DEF BtcSpec

-----------------------------------------------------------------------------
(* All of them.  The one that acts keeps its invariant, the others are as   *)
(* they began.                                                              *)

\* What SavedInv leaves open: no stamp is later than the clock's bound, and a
\* row is locked only by the tap that works on it.
Moments == 0..LastSecond \cup {Never}

SavedBounded ==
    /\ clock \in 0..LastSecond
    /\ \A s \in Saved : saved[s].last \in Moments
    /\ \A r \in Threads : tap[r].at \in Moments /\ tap[r].last \in Moments
    /\ \A s \in Saved : savedLock[s] # None =>
          tap[savedLock[s]].of = s /\ tap[savedLock[s]].stage \in {"locked", "stamp"}

LEMMA SavedBoundedStep ==
    SavedInv /\ SavedBounded /\ [SavedActivity]_savedVars => SavedBounded'
<1> SUFFICES ASSUME SavedInv, SavedBounded, [SavedActivity]_savedVars
             PROVE  SavedBounded'
  OBVIOUS
<1> USE NoThreadIsNone
<1>0. /\ saved \in [Saved -> SavedRow] /\ tap \in [Threads -> TapRow]
      /\ savedLock \in [Saved -> Threads \cup {None}]
      /\ LastSecond \in Nat /\ Never \in Moments /\ 0..LastSecond \subseteq Moments
      /\ NoTap.stage = "idle" /\ NoTap.at = Never /\ NoTap.last = Never /\ NoTap.of = None
      /\ NoTap \in TapRow
  BY SavedAssumption, NoTapTyped DEF SavedInv, SavedTyped, Moments, NoTap
<1> USE DEF SavedBounded
<1> HIDE DEF Moments
<1>1. ASSUME NEW r \in Threads, NEW u \in Users, BeginSave(r, u)
      PROVE  SavedBounded'
  BY <1>0, <1>1 DEF BeginSave, TapRow, NoTap
<1>2. ASSUME NEW r \in Threads, NEW s \in Saved, WriteSave(r, s)
      PROVE  SavedBounded'
  BY <1>0, <1>2 DEF WriteSave, SavedRow
<1>3. ASSUME NEW r \in Threads, NEW s \in Saved, LockTap(r, s)
      PROVE  SavedBounded'
  BY <1>0, <1>3 DEF LockTap, TapRow, NoTap, RowFree
<1>4. ASSUME NEW r \in Threads, ReadClock(r)
      PROVE  SavedBounded'
  <2>1. tap[r].of \in Saved /\ savedLock[tap[r].of] = r
    BY <1>4 DEF SavedInv, TapsKnow, ReadClock
  <2>2. CASE tap' = [tap EXCEPT ![r] = NoTap] /\ savedLock' = Unlocked(tap[r].of) /\ UNCHANGED <<clock, saved>>
    BY <1>0, <2>1, <2>2 DEF Unlocked
  <2>3. CASE tap' = [tap EXCEPT ![r].stage = "stamp", ![r].at = clock] /\ UNCHANGED <<savedLock, clock, saved>>
    BY <1>0, <2>1, <2>3 DEF TapRow
  <2> QED
    BY <1>4, <2>2, <2>3 DEF ReadClock
<1>5. ASSUME NEW r \in Threads, StampTap(r)
      PROVE  SavedBounded'
  <2>1. tap[r].of \in Saved /\ savedLock[tap[r].of] = r
    BY <1>5 DEF SavedInv, TapsKnow, StampTap
  <2> QED
    BY <1>0, <1>5, <2>1 DEF StampTap, Unlocked, TapRow, SavedRow
<1>6. ASSUME NEW r \in Threads, NEW raised \in BOOLEAN, SendTap(r, raised)
      PROVE  SavedBounded'
  BY <1>0, <1>6 DEF SendTap, TapRow
<1>7. ASSUME NEW r \in Threads, UndoStamp(r)
      PROVE  SavedBounded'
  <2>1. tap[r].of \in Saved
    BY <1>7 DEF SavedInv, TapsKnow, UndoStamp
  <2> QED
    BY <1>0, <1>7, <2>1 DEF UndoStamp, SavedRow
<1>8. ASSUME NEW r \in Threads, AbortTap(r)
      PROVE  SavedBounded'
  BY <1>0, <1>8 DEF AbortTap
<1>9. ASSUME NEW s \in Saved, DeleteSaved(s)
      PROVE  SavedBounded'
  BY <1>0, <1>9 DEF DeleteSaved, SavedRow
<1>10. CASE Second
  BY <1>0, <1>10 DEF Second
<1>11. CASE UNCHANGED savedVars
  BY <1>11 DEF savedVars
<1> QED
  BY <1>1, <1>2, <1>3, <1>4, <1>5, <1>6, <1>7, <1>8, <1>9, <1>10, <1>11 DEF SavedActivity

\* StroWallet's steps leave the money as it is.
LEMMA StroLeavesMoney ==
    ASSUME StroActivity
    PROVE  UNCHANGED <<balance, lock, view, want>>
<1> USE DEF Turn, accountsVars
<1>1. ASSUME NEW r \in Threads,
             \/ \E u \in Users, live \in BOOLEAN : BeginApply(r, u, live)
             \/ (\E n \in Numbers : FinishApply(r, n)) \/ FailApply(r)
             \/ \E e \in Sessions : Retry(r, e)
             \/ CreateDeposit(r) \/ AbortStro(r)
      PROVE  UNCHANGED <<balance, lock, view, want>>
  BY <1>1 DEF BeginApply, FinishApply, FailApply, Retry, CreateDeposit, AbortStro, Done
<1>2. ASSUME NEW r \in Threads, NEW e \in Sessions, NEW n \in Numbers, NEW good \in BOOLEAN,
             Deliver(r, e, n, good)
      PROVE  UNCHANGED <<balance, lock, view, want>>
  BY <1>2 DEF Deliver
<1>3. ASSUME NEW r \in Threads, ReadEvent(r)
      PROVE  UNCHANGED <<balance, lock, view, want>>
  BY <1>3 DEF ReadEvent, Done
<1>4. ASSUME NEW r \in Threads, CountAttempt(r) \/ Unmatch(r) \/ Unreachable(r)
      PROVE  UNCHANGED <<balance, lock, view, want>>
  BY <1>4 DEF CountAttempt, Unmatch, Unreachable, Done
<1>5. ASSUME NEW r \in Threads, NEW p \in Replies, Answered(r, p)
      PROVE  UNCHANGED <<balance, lock, view, want>>
  BY <1>5 DEF Answered, Done
<1>6. ASSUME NEW u \in Users, Suspend(u)
      PROVE  UNCHANGED <<balance, lock, view, want>>
  BY <1>6 DEF Suspend
<1> QED
  BY <1>1, <1>2, <1>3, <1>4, <1>5, <1>6 DEF StroActivity

ServicesInv ==
    /\ IF focus = "stro" THEN StroInv /\ AccountsTypeOK(StroOps) ELSE StroInit
    /\ IF focus = "saved" THEN SavedInv /\ SavedBounded ELSE SavedInit
    /\ IF focus = "paystack" THEN PaystackInv ELSE PaystackInit
    /\ IF focus = "btc" THEN BtcInv ELSE BtcInit
    /\ IF focus = "desk" THEN DeskInv ELSE DeskInit
    /\ focus \notin {"stro", "btc"} => AccountsInit

LEMMA AccountsInitTyped == AccountsInit => AccountsTypeOK({})
BY AccountsAssumption DEF AccountsInit, AccountsTypeOK, EmptyView, NotLoaded

LEMMA SavedInitBounded == SavedInit => SavedBounded
BY SavedAssumption, NoThreadIsNone DEF SavedInit, SavedBounded, Moments, NoSaved, NoTap, Never

LEMMA SavedIsTyped == SavedInv /\ SavedBounded => SavedTypeOK
BY DEF SavedInv, SavedTyped, SavedBounded, SavedTypeOK, SavedRow, TapRow, Stages, Moments

LEMMA ServicesInitInv == ServicesInit => ServicesInv
<1> SUFFICES ASSUME ServicesInit
             PROVE  ServicesInv
  OBVIOUS
<1>1. AccountsInit /\ StroInit /\ SavedInit /\ PaystackInit /\ BtcInit /\ DeskInit
  BY DEF ServicesInit
<1>2. AccountsTypeOK(StroOps)
  BY <1>1, AccountsInitTyped DEF AccountsTypeOK
<1> QED
  BY <1>1, <1>2, StroInitInv, SavedInitInv, SavedInitBounded, PaystackInitInv, BtcInitInv, DeskInitInv
  DEF ServicesInv

LEMMA ServicesStepInv == ServicesInv /\ [ServicesNext]_servicesVars => ServicesInv'
<1> SUFFICES ASSUME ServicesInv, [ServicesNext]_servicesVars
             PROVE  ServicesInv'
  OBVIOUS
<1>0. focus' = focus
  BY DEF ServicesNext, servicesVars
<1>1. UNCHANGED stroVars /\ StroInit => StroInit'
  BY DEF stroVars, StroInit
<1>2. UNCHANGED savedVars /\ SavedInit => SavedInit'
  BY DEF savedVars, SavedInit
<1>3. UNCHANGED paystackVars /\ PaystackInit => PaystackInit'
  BY DEF paystackVars, PaystackInit
<1>4. UNCHANGED btcVars /\ BtcInit => BtcInit'
  BY DEF btcVars, BtcInit
<1>5. UNCHANGED deskVars /\ DeskInit => DeskInit'
  BY DEF deskVars, DeskInit
<1>6. UNCHANGED accountsVars /\ AccountsInit => AccountsInit'
  BY DEF accountsVars, AccountsInit
<1>7. UNCHANGED accountsVars /\ AccountsTypeOK(StroOps) => AccountsTypeOK(StroOps)'
  BY DEF accountsVars, AccountsTypeOK
<1>8. CASE focus = "stro" /\ StroActivity /\ UNCHANGED <<savedVars, paystackVars, btcVars, deskVars>>
  <2>1. StroInv' /\ UNCHANGED <<balance, lock, view, want>>
    BY <1>8, StroStepInv, StroLeavesMoney DEF ServicesInv
  <2>2. AccountsTypeOK(StroOps)'
    BY <1>8, <2>1 DEF ServicesInv, AccountsTypeOK, StroInv, StroTyped
  <2> QED
    BY <1>0, <1>2, <1>3, <1>4, <1>5, <1>8, <2>1, <2>2 DEF ServicesInv
<1>9. CASE focus = "saved" /\ SavedActivity /\ UNCHANGED <<stroVars, paystackVars, btcVars, deskVars>>
  <2>1. SavedInv' /\ SavedBounded'
    BY <1>9, SavedStepInv, SavedBoundedStep DEF ServicesInv
  <2>2. UNCHANGED accountsVars
    BY <1>9 DEF SavedActivity
  <2> QED
    BY <1>0, <1>1, <1>3, <1>4, <1>5, <1>6, <1>9, <2>1, <2>2 DEF ServicesInv
<1>10. CASE focus = "paystack" /\ PaystackActivity /\ UNCHANGED <<stroVars, savedVars, btcVars, deskVars>>
  <2>1. PaystackInv'
    BY <1>10, PaystackStepInv DEF ServicesInv
  <2>2. UNCHANGED accountsVars
    BY <1>10 DEF PaystackActivity
  <2> QED
    BY <1>0, <1>1, <1>2, <1>4, <1>5, <1>6, <1>10, <2>1, <2>2 DEF ServicesInv
<1>11. CASE focus = "btc" /\ BtcActivity /\ UNCHANGED <<stroVars, savedVars, paystackVars, deskVars>>
  <2>1. BtcInv'
    BY <1>11, BtcStepInv DEF ServicesInv
  <2> QED
    BY <1>0, <1>1, <1>2, <1>3, <1>5, <1>11, <2>1 DEF ServicesInv
<1>12. CASE focus = "desk" /\ DeskActivity /\ UNCHANGED <<stroVars, savedVars, paystackVars, btcVars>>
  <2>1. DeskInv'
    BY <1>12, DeskStepInv DEF ServicesInv
  <2>2. UNCHANGED accountsVars
    BY <1>12 DEF DeskActivity
  <2> QED
    BY <1>0, <1>1, <1>2, <1>3, <1>4, <1>6, <1>12, <2>1, <2>2 DEF ServicesInv
<1>13. CASE UNCHANGED servicesVars
  <2>1. /\ UNCHANGED accountsVars /\ UNCHANGED stroVars /\ UNCHANGED savedVars /\ UNCHANGED paystackVars
        /\ UNCHANGED btcVars /\ UNCHANGED deskVars
    BY <1>13 DEF servicesVars
  <2>2. /\ StroInv => StroInv'
        /\ SavedInv => SavedInv'
        /\ SavedInv /\ SavedBounded => SavedBounded'
        /\ PaystackInv => PaystackInv'
        /\ BtcInv => BtcInv'
        /\ DeskInv => DeskInv'
    BY <2>1, StroStepInv, SavedStepInv, SavedBoundedStep, PaystackStepInv, BtcStepInv, DeskStepInv
  <2> QED
    BY <1>0, <1>1, <1>2, <1>3, <1>4, <1>5, <1>6, <1>7, <2>1, <2>2 DEF ServicesInv
<1> QED
  BY <1>8, <1>9, <1>10, <1>11, <1>12, <1>13 DEF ServicesNext

\* The types of all five services hold in every state, and no row lock outlives
\* the work it protects, for any number of customers, requests and rows.
THEOREM ServicesTypeCorrect == ServicesSpec => []ServicesTypeOK
<1>1. ServicesInv => ServicesTypeOK
  <2> SUFFICES ASSUME ServicesInv
               PROVE  ServicesTypeOK
    OBVIOUS
  <2>1. AccountsTypeOK(StroOps \cup {"btc"})
    <3>1. CASE focus = "stro"
      BY <3>1 DEF ServicesInv, AccountsTypeOK
    <3>2. CASE focus = "btc"
      BY <3>2 DEF ServicesInv, BtcInv, BtcTyped, AccountsTypeOK
    <3>3. CASE focus \notin {"stro", "btc"}
      BY <3>3, AccountsInitTyped DEF ServicesInv, AccountsTypeOK
    <3> QED
      BY <3>1, <3>2, <3>3
  <2>2. StroTypeOK
    <3>1. CASE focus = "stro"
      BY <3>1 DEF ServicesInv, StroInv, StroTyped
    <3>2. CASE focus # "stro"
      <4>1. StroInit /\ \A r \in Threads : op[r] \notin StroOps
        BY <3>2 DEF ServicesInv, AccountsInit, BtcInv, BtcTyped, AccountsTypeOK, StroOps
      <4> QED
        BY <4>1 DEF StroInit, StroTypeOK, NoAcct, NoEvent, NoTask
    <3> QED
      BY <3>1, <3>2
  <2>3. SavedTypeOK
    BY SavedInitInv, SavedInitBounded, SavedIsTyped DEF ServicesInv
  <2>4. PaystackTypeOK
    BY PaystackInitInv DEF ServicesInv, PaystackInv
  <2>5. BtcTypeOK
    <3>1. CASE focus = "btc"
      BY <3>1 DEF ServicesInv, BtcInv, BtcTyped
    <3>2. CASE focus # "btc"
      <4>1. BtcInit
        BY <3>2 DEF ServicesInv
      <4>2. wallet \in [Users -> Int \cup {NoWallet}]
        BY <4>1, BtcAssumption DEF BtcInit, NoWallet
      <4> QED
        BY <4>1, <4>2, NoneIsNoBtx, NoBtxTyped DEF BtcInit, BtcTypeOK, BtxRow
    <3> QED
      BY <3>1, <3>2
  <2>6. DeskTypeOK
    BY DeskInitInv DEF ServicesInv, DeskInv, DeskTyped
  <2> QED
    BY <2>1, <2>2, <2>3, <2>4, <2>5, <2>6 DEF ServicesTypeOK
<1> QED
  BY <1>1, ServicesInitInv, ServicesStepInv, PTL DEF ServicesSpec
=============================================================================
