------------------------ MODULE AnalysisBudgetProofs ------------------------
(***************************************************************************)
(* Safety of AnalysisBudget for every set of jobs and workers, every       *)
(* amount, limit, number of attempts and days.                             *)
(*                                                                         *)
(* The induction rests on attempts: an attempt has one holder, its holder  *)
(* knows what the ledger says of it, and a window holds one amount for     *)
(* every reservation of its day that is open. A second induction on top of *)
(* it balances what was used and keeps every window within its limit; its  *)
(* totals are folds over a set, whose facts come first.                    *)
(***************************************************************************)
EXTENDS AnalysisBudget, FiniteSetTheorems, WellFoundedInduction, TLAPS

\* No two invocations work on one attempt of a job.
AttemptsHaveOneHolder ==
  \A v, w \in Workers :
    v # w /\ txn[v] # None /\ txn[w] # None /\ txn[v].job = txn[w].job
      => txn[v].attempt # txn[w].attempt

\* What an invocation may still rely on at the step it has reached.
StepsFollowTheLedger ==
  \A w \in Workers : txn[w] # None =>
    /\ txn[w].step = "reserve" => ledger[txn[w].job][txn[w].attempt] = None
    /\ txn[w].step \in {"invoke", "persist"} =>
         /\ ledger[txn[w].job][txn[w].attempt] # None
         /\ ledger[txn[w].job][txn[w].attempt].status = "RESERVED"
         /\ workflow[Request[txn[w].job]] = DigestOf("reserve", txn[w].scope, txn[w].job, txn[w].attempt)
    /\ txn[w].step = "persist" => spent[txn[w].job][txn[w].attempt] = txn[w].used

\* Attempts that were not claimed yet have no reservation.
UntriedIsBlank ==
  \A j \in Jobs, a \in Attempts : job[j].attempt < a => ledger[j][a] = None

\* A job that may be claimed has attempts left, a decided one is done.
JobsAreBudgeted ==
  \A j \in Jobs :
    /\ job[j].state \in {"QUEUED", "RETRY_WAIT"} => job[j].attempt < MaxAttempts
    /\ decisions[j] # None => job[j].state = "SUCCEEDED"

\* What was decided assesses the scope that the workflow of the request was opened on.
DecisionsFollowTheWorkflow ==
  \A j \in Jobs : decisions[j] # None =>
    /\ workflow[Request[j]] # None
    /\ workflow[Request[j]].scope = decisions[j]

\* The reservations of a window that are not settled.
IsOpen(row, d) == row # None /\ row.day = d /\ row.status = "RESERVED"
OpenIn(s, d) ==
  {p \in Jobs \X Attempts : s \in ScopesOf(p[1]) /\ IsOpen(ledger[p[1]][p[2]], d)}

\* The reserved half of WindowsBalance, as a product.
ReservedIsOpen ==
  \A s \in Scopes, d \in Days : Window(s, d).reserved = Amount * Cardinality(OpenIn(s, d))

IInv ==
  /\ TypeOK
  /\ AttemptsHaveOneHolder
  /\ StepsFollowTheLedger
  /\ UntriedIsBlank
  /\ JobsAreBudgeted
  /\ DecisionsFollowTheWorkflow
  /\ ReservedIsOpen
  /\ SpendIsAccountedFor

-----------------------------------------------------------------------------
(* Arithmetic *)

\* The smaller of two numbers.
LEMMA MinOfTwo ==
  ASSUME NEW x \in Nat, NEW y \in Nat
  PROVE  Min({x, y}) = IF x <= y THEN x ELSE y
<1>1. CASE x <= y
  BY <1>1 DEF Min
<1>2. CASE y < x
  BY <1>2 DEF Min
<1> QED BY <1>1, <1>2

\* One reservation more, one amount more.
LEMMA OneMore ==
  ASSUME NEW x \in Nat, NEW n \in Nat
  PROVE  /\ x * (n + 1) = x * n + x
         /\ x * n \in Nat
OBVIOUS

\* As many amounts as reservations: with one there is at least its amount.
LEMMA OneLess ==
  ASSUME NEW x \in Nat, NEW n \in Nat, n > 0
  PROVE  x * (n - 1) = x * n - x /\ x * n >= x
<1>1. n - 1 \in Nat /\ n = (n - 1) + 1
  OBVIOUS
<1> DEFINE m == n - 1
<1>2. x * (m + 1) = x * m + x /\ x * m \in Nat
  BY <1>1, OneMore
<1> QED BY <1>1, <1>2

\* The open reservations of a window are finitely many.
LEMMA OpenIsFinite ==
  ASSUME NEW s, NEW d
  PROVE  IsFiniteSet(OpenIn(s, d)) /\ Cardinality(OpenIn(s, d)) \in Nat
<1>1. IsFiniteSet(Attempts)
  BY BudgetAssumption, FS_Interval DEF Attempts
<1>2. IsFiniteSet(Jobs \X Attempts)
  BY <1>1, BudgetAssumption, FS_Product
<1>3. OpenIn(s, d) \subseteq Jobs \X Attempts
  BY DEF OpenIn
<1>4. IsFiniteSet(OpenIn(s, d))
  BY <1>2, <1>3, FS_Subset
<1> QED BY <1>4, FS_CardinalityType

-----------------------------------------------------------------------------
(* The ledger *)

\* A window row that stands for a missing one, too, is a row.
LEMMA WindowIsRow ==
  ASSUME TypeOK, NEW s \in Scopes, NEW d \in Days
  PROVE  Window(s, d) \in WindowRow
<1>1. windows[s][d] \in WindowRow \cup {None}
  BY DEF TypeOK
<1> QED BY <1>1 DEF Window, WindowRow

\* Reserving for an attempt without a reservation: one open reservation and one amount more
\* in its two windows of the day.
LEMMA ReservingIsFair ==
  ASSUME TypeOK, ReservedIsOpen, NEW j \in Jobs, NEW a \in Attempts, ledger[j][a] = None,
         windows' = Reserved(j),
         ledger' = [ledger EXCEPT ![j][a] = [day |-> day, status |-> "RESERVED", used |-> 0]]
  PROVE  /\ windows' \in [Scopes -> [Days -> WindowRow \cup {None}]]
         /\ ledger' \in [Jobs -> [Attempts -> Reservation \cup {None}]]
         /\ ReservedIsOpen'
<1> DEFINE row == [day |-> day, status |-> "RESERVED", used |-> 0]
<1>a. row \in Reservation /\ row # None
  BY NoneAssumption DEF TypeOK, Reservation
<1>b. ledger' \in [Jobs -> [Attempts -> Reservation \cup {None}]]
  BY <1>a DEF TypeOK
<1>c. \A k \in Jobs, b \in Attempts :
        ledger'[k][b] = IF k = j /\ b = a THEN row ELSE ledger[k][b]
  BY DEF TypeOK
<1>d. ASSUME NEW s \in Scopes, NEW d \in Days
      PROVE  windows'[s][d] = IF s \in ScopesOf(j) /\ d = day
                              THEN [reserved |-> Window(s, day).reserved + Amount,
                                    used     |-> Window(s, day).used]
                              ELSE windows[s][d]
  BY DEF Reserved, TypeOK
<1>e. ASSUME NEW s \in Scopes
      PROVE  windows'[s] \in [Days -> WindowRow \cup {None}]
  <2>1. windows[s] \in [Days -> WindowRow \cup {None}] /\ day \in Days
    BY DEF TypeOK
  <2>2. Window(s, day) \in WindowRow
    BY <2>1, WindowIsRow
  <2>3. [reserved |-> Window(s, day).reserved + Amount, used |-> Window(s, day).used] \in WindowRow
    BY <2>2, BudgetAssumption DEF WindowRow
  <2>4. windows'[s] = IF s \in ScopesOf(j)
                      THEN [windows[s] EXCEPT ![day] = [reserved |-> Window(s, day).reserved + Amount,
                                                        used |-> Window(s, day).used]]
                      ELSE windows[s]
    BY DEF Reserved
  <2> QED BY <2>1, <2>3, <2>4
<1>f. windows' \in [Scopes -> [Days -> WindowRow \cup {None}]]
  BY <1>e DEF Reserved
<1>g. ASSUME NEW s \in Scopes, NEW d \in Days
      PROVE  Window(s, d)'.reserved = Amount * Cardinality(OpenIn(s, d)')
  <2>1. Window(s, d).reserved = Amount * Cardinality(OpenIn(s, d))
    BY DEF ReservedIsOpen
  <2>2. CASE s \in ScopesOf(j) /\ d = day
    <3>1. OpenIn(s, d)' = OpenIn(s, d) \cup {<<j, a>>}
      <4>1. ASSUME NEW k \in Jobs, NEW b \in Attempts
            PROVE  IsOpen(ledger[k][b], d)' <=> IsOpen(ledger[k][b], d) \/ <<k, b>> = <<j, a>>
        BY <1>a, <1>c, <2>2 DEF IsOpen
      <4> QED BY <4>1, <2>2 DEF OpenIn
    <3>2. <<j, a>> \notin OpenIn(s, d)
      BY DEF OpenIn, IsOpen
    <3>3. Cardinality(OpenIn(s, d)') = Cardinality(OpenIn(s, d)) + 1
      BY <3>1, <3>2, OpenIsFinite, FS_AddElement
    <3>4. [reserved |-> Window(s, day).reserved + Amount, used |-> Window(s, day).used] # None
      <4>1. Window(s, day) \in WindowRow
        BY <2>2, WindowIsRow
      <4> QED BY <4>1, NoneAssumption, BudgetAssumption DEF WindowRow
    <3>5. windows'[s][d] = [reserved |-> Window(s, day).reserved + Amount,
                            used     |-> Window(s, day).used]
      BY <1>d, <2>2
    <3>6. Window(s, d)'.reserved = Window(s, d).reserved + Amount
      BY <2>2, <3>4, <3>5 DEF Window
    <3> QED BY <2>1, <3>3, <3>6, OpenIsFinite, OneMore, BudgetAssumption
  <2>3. CASE ~(s \in ScopesOf(j) /\ d = day)
    <3>1. OpenIn(s, d)' = OpenIn(s, d)
      <4>1. ASSUME NEW k \in Jobs, NEW b \in Attempts, s \in ScopesOf(k)
            PROVE  IsOpen(ledger[k][b], d)' <=> IsOpen(ledger[k][b], d)
        BY <1>a, <1>c, <2>3, <4>1 DEF IsOpen
      <4> QED BY <4>1 DEF OpenIn
    <3>2. Window(s, d)' = Window(s, d)
      BY <1>d, <2>3 DEF Window
    <3> QED BY <2>1, <3>1, <3>2
  <2> QED BY <2>2, <2>3
<1> QED BY <1>b, <1>f, <1>g DEF ReservedIsOpen

\* Settling an open reservation takes one of each from the windows it was made in.
LEMMA SettlingIsFair ==
  ASSUME TypeOK, ReservedIsOpen, NEW j \in Jobs, NEW a \in Attempts, NEW used \in Nat,
         ledger[j][a] # None,
         windows' = Settled(j, a, used), ledger' = Reconciled(j, a, used)
  PROVE  /\ windows' \in [Scopes -> [Days -> WindowRow \cup {None}]]
         /\ ledger' \in [Jobs -> [Attempts -> Reservation \cup {None}]]
         /\ ReservedIsOpen'
<1> DEFINE old == ledger[j][a]
           row == [old EXCEPT !.status = "RECONCILED", !.used = used]
<1>o. old \in Reservation
  BY DEF TypeOK
<1>1. CASE old.status # "RESERVED"
  <2>1. windows' = windows
    BY <1>1 DEF Settled, TypeOK
  <2>2. ledger' = ledger
    BY <1>1 DEF Reconciled, TypeOK
  <2>3. \A s, d : OpenIn(s, d)' = OpenIn(s, d) /\ Window(s, d)' = Window(s, d)
    BY <2>1, <2>2 DEF OpenIn, IsOpen, Window
  <2> QED BY <2>1, <2>2, <2>3 DEF TypeOK, ReservedIsOpen
<1>2. CASE old.status = "RESERVED"
  <2>a. row \in Reservation /\ row # None /\ row.status = "RECONCILED"
    BY <1>o, NoneAssumption DEF Reservation
  <2>b. ledger' \in [Jobs -> [Attempts -> Reservation \cup {None}]]
    BY <1>2, <2>a DEF Reconciled, TypeOK
  <2>c. \A k \in Jobs, b \in Attempts :
          ledger'[k][b] = IF k = j /\ b = a THEN row ELSE ledger[k][b]
    BY <1>2 DEF Reconciled, TypeOK
  <2>d. PICK e \in Days : e = old.day
    BY <1>o DEF Reservation
  <2> DEFINE settled(s) == [reserved |-> windows[s][e].reserved - Amount,
                            used     |-> windows[s][e].used + used]
  <2>e. ASSUME NEW s \in Scopes
        PROVE  windows'[s] = IF s \in ScopesOf(j)
                             THEN [windows[s] EXCEPT ![e] = settled(s)] ELSE windows[s]
    BY <1>2, <2>d DEF Settled, TypeOK
  <2>f. ASSUME NEW s \in Scopes, s \in ScopesOf(j)
        PROVE  /\ windows[s][e] \in WindowRow /\ windows[s][e] # None
               /\ windows[s][e].reserved >= Amount
               /\ OpenIn(s, e)' = OpenIn(s, e) \ {<<j, a>>}
               /\ <<j, a>> \in OpenIn(s, e)
    <3>1. <<j, a>> \in OpenIn(s, e)
      BY <1>2, <2>d, <2>f DEF OpenIn, IsOpen
    <3>2. Cardinality(OpenIn(s, e)) > 0
      BY <3>1, OpenIsFinite, FS_EmptySet
    <3>3. Window(s, e).reserved >= Amount
      BY <3>2, <2>d, OpenIsFinite, OneLess, BudgetAssumption DEF ReservedIsOpen
    <3>4. windows[s][e] # None
      BY <3>3, BudgetAssumption DEF Window
    <3>5. OpenIn(s, e)' = OpenIn(s, e) \ {<<j, a>>}
      <4>1. ASSUME NEW k \in Jobs, NEW b \in Attempts
            PROVE  IsOpen(ledger[k][b], e)' <=>
                     IsOpen(ledger[k][b], e) /\ <<k, b>> # <<j, a>>
        BY <2>a, <2>c DEF IsOpen
      <4> QED BY <4>1 DEF OpenIn
    <3> QED BY <2>d, <3>1, <3>3, <3>4, <3>5 DEF Window, TypeOK
  <2>g. ASSUME NEW s \in Scopes
        PROVE  windows'[s] \in [Days -> WindowRow \cup {None}]
    <3>1. windows[s] \in [Days -> WindowRow \cup {None}]
      BY DEF TypeOK
    <3>2. s \in ScopesOf(j) => settled(s) \in WindowRow
      BY <2>f, BudgetAssumption DEF WindowRow
    <3> QED BY <2>e, <3>1, <3>2
  <2>h. windows' \in [Scopes -> [Days -> WindowRow \cup {None}]]
    BY <2>g DEF Settled
  <2>i. ASSUME NEW s \in Scopes, NEW d \in Days
        PROVE  Window(s, d)'.reserved = Amount * Cardinality(OpenIn(s, d)')
    <3>1. Window(s, d).reserved = Amount * Cardinality(OpenIn(s, d))
      BY DEF ReservedIsOpen
    <3>2. CASE s \in ScopesOf(j) /\ d = e
      <4>1. settled(s) # None
        BY <2>f, <3>2, NoneAssumption, BudgetAssumption DEF WindowRow
      <4>2. windows'[s][d] = settled(s)
        <5>1. windows[s] \in [Days -> WindowRow \cup {None}]
          BY DEF TypeOK
        <5>2. windows'[s] = [windows[s] EXCEPT ![e] = settled(s)]
          BY <2>e, <3>2
        <5> HIDE DEF settled
        <5> QED BY <5>1, <5>2, <3>2
      <4>3. Window(s, d)'.reserved = Window(s, d).reserved - Amount
        BY <4>1, <4>2, <2>f, <3>2 DEF Window
      <4>4. /\ Cardinality(OpenIn(s, d)) > 0
            /\ Cardinality(OpenIn(s, d)') = Cardinality(OpenIn(s, d)) - 1
        <5>1. <<j, a>> \in OpenIn(s, d) /\ OpenIn(s, d)' = OpenIn(s, d) \ {<<j, a>>}
          BY <2>f, <3>2
        <5>2. IsFiniteSet(OpenIn(s, d)) /\ Cardinality(OpenIn(s, d)) \in Nat
          BY OpenIsFinite
        <5>3. Cardinality(OpenIn(s, d)) # 0
          BY <5>1, <5>2, FS_EmptySet
        <5>4. Cardinality(OpenIn(s, d) \ {<<j, a>>}) = Cardinality(OpenIn(s, d)) - 1
          BY <5>1, <5>2, FS_RemoveElement
        <5> QED BY <5>1, <5>2, <5>3, <5>4
      <4> QED BY <3>1, <4>3, <4>4, OpenIsFinite, OneLess, BudgetAssumption
    <3>3. CASE ~(s \in ScopesOf(j) /\ d = e)
      <4>1. OpenIn(s, d)' = OpenIn(s, d)
        <5>1. ASSUME NEW k \in Jobs, NEW b \in Attempts, s \in ScopesOf(k)
              PROVE  IsOpen(ledger[k][b], d)' <=> IsOpen(ledger[k][b], d)
          BY <2>a, <2>c, <2>d, <3>3, <5>1 DEF IsOpen
        <5> QED BY <5>1 DEF OpenIn
      <4>2. windows'[s][d] = windows[s][d]
        BY <2>e, <3>3 DEF TypeOK
      <4> QED BY <3>1, <4>1, <4>2 DEF Window
    <3> QED BY <3>2, <3>3
  <2> QED BY <2>b, <2>h, <2>i DEF ReservedIsOpen
<1> QED BY <1>1, <1>2

-----------------------------------------------------------------------------
(* Steps *)

\* Worker w goes on with its attempt, or gives it up.
Goes(w, r) ==
  /\ txn[w] # None
  /\ txn' = [txn EXCEPT ![w] = r]
  /\ r \in Txn \cup {None}
  /\ r # None => r.job = txn[w].job /\ r.attempt = txn[w].attempt

\* Reserve, Invoke, Persist, Fail or Crash.
Works(w) == Reserve(w) \/ Invoke(w) \/ Persist(w) \/ Fail(w) \/ Crash(w)

\* What an open transaction holds is well typed.
LEMMA HolderTypes ==
  ASSUME TypeOK, NEW w \in Workers, txn[w] # None
  PROVE  /\ txn[w] \in Txn
         /\ txn[w].job \in Jobs /\ txn[w].attempt \in Attempts /\ txn[w].scope \in 0..MaxScope
         /\ txn[w].used \in Nat
         /\ txn[w].step \in {"reserve", "invoke", "persist", "fail"}
         /\ txn[w].attempt <= job[txn[w].job].attempt
<1>1. txn[w] \in Txn
  BY DEF TypeOK
<1> QED BY <1>1 DEF TypeOK, Txn

\* The transaction of worker w, further on.
To(w, step, s, used) == [txn[w] EXCEPT !.step = step, !.scope = s, !.used = used]

\* The record of a worker that takes its next step is a transaction.
LEMMA NextSteps ==
  ASSUME TypeOK, NEW w \in Workers, txn[w] # None,
         NEW step \in {"reserve", "invoke", "persist", "fail"}, NEW s \in 0..MaxScope,
         NEW used \in Nat
  PROVE  /\ To(w, step, s, used) \in Txn /\ To(w, step, s, used) # None
         /\ To(w, step, s, used).job = txn[w].job
         /\ To(w, step, s, used).attempt = txn[w].attempt
         /\ To(w, step, s, used).step = step
         /\ To(w, step, s, used).scope = s
         /\ To(w, step, s, used).used = used
<1>1. txn[w] \in Txn
  BY HolderTypes
<1> QED BY <1>1, NoneAssumption DEF Txn, To

\* Giving an attempt up is a way to go, too.
LEMMA GivesUp ==
  ASSUME NEW w \in Workers, txn[w] # None, txn' = [txn EXCEPT ![w] = None]
  PROVE  Goes(w, None)
BY DEF Goes

\* Naming the fields that stay changes nothing.
LEMMA FieldsStay ==
  ASSUME TypeOK, NEW w \in Workers, txn[w] # None, NEW step, NEW s
  PROVE  /\ [txn EXCEPT ![w].step = step]
                = [txn EXCEPT ![w] = To(w, step, txn[w].scope, txn[w].used)]
         /\ [txn EXCEPT ![w].step = step, ![w].scope = s]
                = [txn EXCEPT ![w] = To(w, step, s, txn[w].used)]
<1>1. txn[w] \in Txn /\ txn \in [Workers -> Txn \cup {None}]
  BY HolderTypes DEF TypeOK
<1>2. /\ [txn[w] EXCEPT !.step = step]
           = [txn[w] EXCEPT !.step = step, !.scope = txn[w].scope, !.used = txn[w].used]
      /\ [txn[w] EXCEPT !.step = step, !.scope = s]
           = [txn[w] EXCEPT !.step = step, !.scope = s, !.used = txn[w].used]
  BY <1>1 DEF Txn
<1>3. /\ [txn EXCEPT ![w].step = step] = [txn EXCEPT ![w] = [txn[w] EXCEPT !.step = step]]
      /\ [txn EXCEPT ![w].step = step, ![w].scope = s]
           = [txn EXCEPT ![w] = [txn[w] EXCEPT !.step = step, !.scope = s]]
  BY <1>1
<1> QED BY <1>2, <1>3 DEF To

\* How Reserve goes on.
LEMMA ReserveGoes ==
  ASSUME TypeOK, NEW w \in Workers, Reserve(w)
  PROVE  \E r : /\ Goes(w, r) /\ r # None
               /\ \/ /\ r.step = "invoke" /\ r.scope = scope
                     /\ workflow' = [workflow EXCEPT ![Request[txn[w].job]] =
                                        DigestOf("reserve", scope, txn[w].job, txn[w].attempt)]
                     /\ windows' = Reserved(txn[w].job)
                     /\ ledger' = [ledger EXCEPT ![txn[w].job][txn[w].attempt] =
                                      [day |-> day, status |-> "RESERVED", used |-> 0]]
                     /\ ~Conflicts(txn[w].job, DigestOf("reserve", scope, txn[w].job, txn[w].attempt))
                  \/ /\ r.step = "fail"
                     /\ UNCHANGED <<workflow, windows, ledger>>
<1>t. txn[w] # None /\ txn[w] \in Txn /\ txn[w].step = "reserve"
  BY HolderTypes DEF Reserve
<1>s. scope \in 0..MaxScope /\ txn[w].scope \in 0..MaxScope /\ txn[w].used \in Nat
  BY <1>t, HolderTypes DEF TypeOK
<1>1. CASE /\ ~Conflicts(txn[w].job, DigestOf("reserve", scope, txn[w].job, txn[w].attempt))
           /\ workflow' = [workflow EXCEPT ![Request[txn[w].job]] =
                              DigestOf("reserve", scope, txn[w].job, txn[w].attempt)]
           /\ windows' = Reserved(txn[w].job)
           /\ ledger' = [ledger EXCEPT ![txn[w].job][txn[w].attempt] =
                            [day |-> day, status |-> "RESERVED", used |-> 0]]
           /\ txn' = [txn EXCEPT ![w].step = "invoke", ![w].scope = scope]
  <2>1. txn' = [txn EXCEPT ![w] = To(w, "invoke", scope, txn[w].used)]
    BY <1>1, <1>t, FieldsStay
  <2> DEFINE r == To(w, "invoke", scope, txn[w].used)
  <2>2. /\ r \in Txn /\ r # None /\ r.job = txn[w].job /\ r.attempt = txn[w].attempt
        /\ r.step = "invoke" /\ r.scope = scope /\ r.used = txn[w].used
    BY <1>t, <1>s, NextSteps
  <2> HIDE DEF r
  <2>3. Goes(w, r)
    BY <2>1, <2>2, <1>t DEF Goes, r
  <2> QED BY <1>1, <2>2, <2>3
<1>2. CASE Refuse(w)
  <2>1. txn' = [txn EXCEPT ![w] = To(w, "fail", txn[w].scope, txn[w].used)]
    BY <1>2, <1>t, FieldsStay DEF Refuse
  <2> DEFINE r == To(w, "fail", txn[w].scope, txn[w].used)
  <2>2. /\ r \in Txn /\ r # None /\ r.job = txn[w].job /\ r.attempt = txn[w].attempt
        /\ r.step = "fail" /\ r.scope = txn[w].scope /\ r.used = txn[w].used
    BY <1>t, <1>s, NextSteps
  <2> HIDE DEF r
  <2>3. Goes(w, r)
    BY <2>1, <2>2, <1>t DEF Goes, r
  <2> QED BY <1>2, <2>2, <2>3 DEF Refuse
<1> QED BY <1>1, <1>2 DEF Reserve

\* How Invoke goes on.
LEMMA InvokeGoes ==
  ASSUME TypeOK, NEW w \in Workers, Invoke(w)
  PROVE  \E used \in Nat : \E r :
           /\ Goes(w, r) /\ r # None
           /\ spent' = [spent EXCEPT ![txn[w].job][txn[w].attempt] = used]
           /\ \/ r.step = "persist" /\ r.used = used /\ r.scope = txn[w].scope
              \/ r.step = "fail"
<1>t. txn[w] # None /\ txn[w] \in Txn
  BY HolderTypes DEF Invoke
<1>s. txn[w].scope \in 0..MaxScope /\ txn[w].used \in Nat
  BY <1>t, HolderTypes DEF TypeOK
<1>u. PICK used \in 0..(Amount + Overrun) :
        /\ spent' = [spent EXCEPT ![txn[w].job][txn[w].attempt] = used]
        /\ \/ txn' = [txn EXCEPT ![w].step = "persist", ![w].used = used]
           \/ txn' = [txn EXCEPT ![w].step = "fail"]
  BY DEF Invoke
<1>n. used \in Nat
  BY BudgetAssumption
<1>1. CASE txn' = [txn EXCEPT ![w].step = "persist", ![w].used = used]
  <2>0. [txn EXCEPT ![w].step = "persist", ![w].used = used]
          = [txn EXCEPT ![w] = To(w, "persist", txn[w].scope, used)]
    <3>1. txn \in [Workers -> Txn \cup {None}]
      BY DEF TypeOK
    <3>2. [txn[w] EXCEPT !.step = "persist", !.used = used] = To(w, "persist", txn[w].scope, used)
      BY <1>t DEF Txn, To
    <3>3. [txn EXCEPT ![w].step = "persist", ![w].used = used]
            = [txn EXCEPT ![w] = [txn[w] EXCEPT !.step = "persist", !.used = used]]
      BY <1>t, <3>1
    <3> QED BY <3>2, <3>3
  <2>1. txn' = [txn EXCEPT ![w] = To(w, "persist", txn[w].scope, used)]
    BY <1>1, <2>0
  <2> DEFINE r == To(w, "persist", txn[w].scope, used)
  <2>2. /\ r \in Txn /\ r # None /\ r.job = txn[w].job /\ r.attempt = txn[w].attempt
        /\ r.step = "persist" /\ r.scope = txn[w].scope /\ r.used = used
    BY <1>t, <1>s, <1>n, NextSteps
  <2> HIDE DEF r
  <2>3. Goes(w, r)
    BY <2>1, <2>2, <1>t DEF Goes, r
  <2> QED BY <1>u, <1>n, <1>1, <2>2, <2>3
<1>2. CASE txn' = [txn EXCEPT ![w].step = "fail"]
  <2>1. txn' = [txn EXCEPT ![w] = To(w, "fail", txn[w].scope, txn[w].used)]
    BY <1>2, <1>t, FieldsStay
  <2> DEFINE r == To(w, "fail", txn[w].scope, txn[w].used)
  <2>2. /\ r \in Txn /\ r # None /\ r.job = txn[w].job /\ r.attempt = txn[w].attempt
        /\ r.step = "fail" /\ r.scope = txn[w].scope /\ r.used = txn[w].used
    BY <1>t, <1>s, NextSteps
  <2> HIDE DEF r
  <2>3. Goes(w, r)
    BY <2>1, <2>2, <1>t DEF Goes, r
  <2> QED BY <1>u, <1>n, <1>1, <2>2, <2>3
<1> QED BY <1>u, <1>1, <1>2

\* A persist that is refused fails; the other one ends.
LEMMA PersistGoes ==
  ASSUME TypeOK, NEW w \in Workers, Persist(w)
  PROVE  \/ /\ Goes(w, None) /\ Current(w)
            /\ windows' = Settled(txn[w].job, txn[w].attempt, txn[w].used)
            /\ ledger' = Reconciled(txn[w].job, txn[w].attempt, txn[w].used)
            /\ decisions' = [decisions EXCEPT ![txn[w].job] = txn[w].scope]
            /\ job' = Ended(txn[w].job, "SUCCEEDED")
         \/ /\ \E r : Goes(w, r) /\ r # None /\ r.step = "fail"
            /\ UNCHANGED <<windows, ledger, decisions, job>>
<1>t. txn[w] # None /\ txn[w] \in Txn
  BY HolderTypes DEF Persist
<1>s. txn[w].scope \in 0..MaxScope /\ txn[w].used \in Nat
  BY <1>t, HolderTypes
<1>1. CASE /\ Current(w)
           /\ windows' = Settled(txn[w].job, txn[w].attempt, txn[w].used)
           /\ ledger' = Reconciled(txn[w].job, txn[w].attempt, txn[w].used)
           /\ decisions' = [decisions EXCEPT ![txn[w].job] = txn[w].scope]
           /\ job' = Ended(txn[w].job, "SUCCEEDED")
           /\ txn' = [txn EXCEPT ![w] = None]
  BY <1>1, <1>t, GivesUp
<1>2. CASE Refuse(w)
  <2>1. txn' = [txn EXCEPT ![w] = To(w, "fail", txn[w].scope, txn[w].used)]
    BY <1>2, <1>t, FieldsStay DEF Refuse
  <2> DEFINE r == To(w, "fail", txn[w].scope, txn[w].used)
  <2>2. /\ r \in Txn /\ r # None /\ r.job = txn[w].job /\ r.attempt = txn[w].attempt
        /\ r.step = "fail" /\ r.scope = txn[w].scope /\ r.used = txn[w].used
    BY <1>t, <1>s, NextSteps
  <2> HIDE DEF r
  <2>3. Goes(w, r)
    BY <2>1, <2>2, <1>t DEF Goes, r
  <2> QED BY <1>2, <2>2, <2>3 DEF Refuse
<1> QED BY <1>1, <1>2 DEF Persist

\* A failure ends the attempt, and charges it only while its lease holds.
LEMMA FailGoes ==
  ASSUME TypeOK, NEW w \in Workers, Fail(w)
  PROVE  /\ Goes(w, None)
         /\ \/ Current(w) /\ job' \in Retried(txn[w].job)
            \/ UNCHANGED job
         /\ \/ /\ ledger[txn[w].job][txn[w].attempt] # None
               /\ windows' = Settled(txn[w].job, txn[w].attempt, FailureCharge)
               /\ ledger' = Reconciled(txn[w].job, txn[w].attempt, FailureCharge)
            \/ UNCHANGED <<windows, ledger>>
<1>1. Goes(w, None)
  BY GivesUp DEF Fail
<1>2. CASE Current(w)
  BY <1>1, <1>2 DEF Fail
<1>3. CASE ~Current(w)
  BY <1>1, <1>3 DEF Fail
<1> QED BY <1>2, <1>3

\* So does a crash.
LEMMA CrashGoes ==
  ASSUME NEW w \in Workers, Crash(w)
  PROVE  Goes(w, None)
BY GivesUp DEF Crash

-----------------------------------------------------------------------------
(* Jobs *)

\* A retried job keeps its attempt and is runnable only if it has one left.
LEMMA RetriedJobs ==
  ASSUME TypeOK, NEW j \in Jobs, NEW k \in Jobs, job' \in Retried(j)
  PROVE  /\ job'[k] \in JobRow
         /\ job'[k].attempt = job[k].attempt
         /\ k # j => job'[k] = job[k]
         /\ job'[j].state \in {"RETRY_WAIT", "FAILED_REQUIRES_REVIEW"}
         /\ job'[j].state = "RETRY_WAIT" => job[j].attempt < MaxAttempts
BY DEF TypeOK, JobRow, Retried, Ended

\* What a step may do to a job and its decision: nothing; a claim; an end of an attempt that
\* runs, with a decision or without; an end at its deadline before it is claimed.
JobMove(k) ==
  \/ job'[k] = job[k] /\ decisions'[k] = decisions[k]
  \/ /\ job[k].state \in {"QUEUED", "RETRY_WAIT"} /\ decisions'[k] = decisions[k]
     /\ job'[k] = [state |-> "RUNNING", attempt |-> job[k].attempt + 1]
  \/ /\ job[k].state = "RUNNING" /\ job'[k] \in JobRow /\ job'[k].attempt = job[k].attempt
     /\ \/ /\ job'[k].state \in {"RETRY_WAIT", "FAILED_REQUIRES_REVIEW"} /\ decisions'[k] = decisions[k]
           /\ job'[k].state = "RETRY_WAIT" => job[k].attempt < MaxAttempts
        \/ job'[k].state = "SUCCEEDED" /\ decisions'[k] \in 0..MaxScope
  \/ /\ job[k].state \in {"QUEUED", "RETRY_WAIT"} /\ decisions'[k] = decisions[k]
     /\ job'[k] \in JobRow /\ job'[k].state = "FAILED_REQUIRES_REVIEW"
     /\ job'[k].attempt = job[k].attempt

\* Every step moves every job in one of these ways.
LEMMA JobMoves ==
  ASSUME IInv, Next
  PROVE  /\ \A k \in Jobs : JobMove(k)
         /\ DOMAIN job' = Jobs /\ DOMAIN decisions' = Jobs
         /\ job' \in [Jobs -> {job'[k] : k \in Jobs}]
         /\ decisions' \in [Jobs -> {decisions'[k] : k \in Jobs}]
<1>t. TypeOK /\ job \in [Jobs -> JobRow] /\ decisions \in [Jobs -> 0..MaxScope \cup {None}]
  BY DEF IInv, TypeOK
<1>1. CASE UNCHANGED <<job, decisions>>
  BY <1>1, <1>t DEF JobMove
<1>2. ASSUME NEW w \in Workers, NEW j \in Jobs, Claim(w, j)
      PROVE  /\ job' = [job EXCEPT ![j] = [state |-> "RUNNING", attempt |-> job[j].attempt + 1]]
             /\ job[j].state \in {"QUEUED", "RETRY_WAIT"} /\ decisions' = decisions
  BY <1>2, <1>t DEF Claim
<1>3. ASSUME NEW j \in Jobs, job[j].state = "RUNNING", job' \in Retried(j), decisions' = decisions
      PROVE  /\ \A k \in Jobs : JobMove(k)
             /\ job' \in [Jobs -> {job'[k] : k \in Jobs}]
  <2>1. job' \in [Jobs -> {job'[k] : k \in Jobs}]
    BY <1>3, <1>t DEF Retried, Ended
  <2>2. ASSUME NEW k \in Jobs
        PROVE  JobMove(k)
    BY <1>3, <1>t, RetriedJobs DEF JobMove
  <2> QED BY <2>1, <2>2
<1>4. ASSUME NEW w \in Workers, Works(w)
      PROVE  /\ \A k \in Jobs : JobMove(k)
             /\ job' \in [Jobs -> {job'[k] : k \in Jobs}]
             /\ decisions' \in [Jobs -> {decisions'[k] : k \in Jobs}]
  <2>1. CASE UNCHANGED <<job, decisions>>
    BY <2>1, <1>1, <1>t DEF JobMove
  <2>2. CASE Persist(w) /\ ~UNCHANGED <<job, decisions>>
    <3>1. /\ Current(w)
          /\ decisions' = [decisions EXCEPT ![txn[w].job] = txn[w].scope]
          /\ job' = Ended(txn[w].job, "SUCCEEDED")
      BY <2>2, <1>t, PersistGoes
    <3>2. txn[w].job \in Jobs /\ txn[w].scope \in 0..MaxScope
      BY <2>2, <1>t, HolderTypes DEF Persist
    <3>3. job[txn[w].job].state = "RUNNING"
      BY <3>1 DEF Current
    <3>4. ASSUME NEW k \in Jobs
          PROVE  JobMove(k)
      BY <3>1, <3>2, <3>3, <1>t DEF JobMove, JobRow, Ended
    <3> QED BY <3>1, <3>4, <1>t DEF Ended
  <2>3. CASE Fail(w) /\ ~UNCHANGED <<job, decisions>>
    <3>1. Current(w) /\ job' \in Retried(txn[w].job) /\ decisions' = decisions
      BY <2>3, <1>t, FailGoes DEF Fail
    <3>2. txn[w].job \in Jobs
      BY <2>3, <1>t, HolderTypes DEF Fail
    <3>3. job[txn[w].job].state = "RUNNING"
      BY <3>1 DEF Current
    <3> QED BY <3>1, <3>2, <3>3, <1>3, <1>t
  <2> QED BY <1>4, <2>1, <2>2, <2>3 DEF Works, Reserve, Refuse, Invoke, Crash, rows
<1>5. ASSUME NEW j \in Jobs, Recover(j)
      PROVE  \A k \in Jobs : JobMove(k) /\ job' \in [Jobs -> {job'[l] : l \in Jobs}]
  BY <1>5, <1>3 DEF Recover
<1>8. ASSUME NEW j \in Jobs, Expire(j)
      PROVE  /\ \A k \in Jobs : JobMove(k)
             /\ job' \in [Jobs -> {job'[l] : l \in Jobs}]
  BY <1>8, <1>t DEF Expire, Ended, JobMove, JobRow
<1>6. CASE ConfirmScope \/ Midnight
  BY <1>1, <1>6 DEF ConfirmScope, Midnight, rows
<1>7. ASSUME NEW w \in Workers, NEW j \in Jobs, Claim(w, j)
      PROVE  /\ \A k \in Jobs : JobMove(k)
             /\ job' \in [Jobs -> {job'[k] : k \in Jobs}]
  BY <1>2, <1>7, <1>t DEF JobMove
<1> QED BY <1>2, <1>4, <1>5, <1>6, <1>7, <1>8, <1>t DEF Next, Works, Recover, Expire

\* A job's attempts do not decrease, and its moves keep the jobs budgeted.
LEMMA JobsStep ==
  ASSUME IInv, Next
  PROVE  /\ job' \in [Jobs -> JobRow]
         /\ decisions' \in [Jobs -> 0..MaxScope \cup {None}]
         /\ \A k \in Jobs : job[k].attempt <= job'[k].attempt
         /\ JobsAreBudgeted'
<1>t. /\ job \in [Jobs -> JobRow] /\ decisions \in [Jobs -> 0..MaxScope \cup {None}]
      /\ JobsAreBudgeted
  BY DEF IInv, TypeOK
<1>1. ASSUME NEW k \in Jobs
      PROVE  /\ job'[k] \in JobRow /\ decisions'[k] \in 0..MaxScope \cup {None}
             /\ job[k].attempt <= job'[k].attempt
             /\ job'[k].state \in {"QUEUED", "RETRY_WAIT"} => job'[k].attempt < MaxAttempts
             /\ decisions'[k] # None => job'[k].state = "SUCCEEDED"
  <2>1. JobMove(k)
    BY JobMoves
  <2>2. job[k] \in JobRow /\ decisions[k] \in 0..MaxScope \cup {None}
    BY <1>t
  <2> QED BY <2>1, <2>2, <1>t, BudgetAssumption DEF JobMove, JobRow, JobsAreBudgeted
<1> QED BY <1>1, JobMoves DEF JobsAreBudgeted

\* A decided job is left alone.
LEMMA DecisionStep ==
  ASSUME IInv, Next, NEW j \in Jobs, decisions[j] # None
  PROVE  decisions'[j] = decisions[j] /\ job'[j] = job[j]
<1>1. JobMove(j)
  BY JobMoves
<1>2. job[j].state = "SUCCEEDED"
  BY DEF IInv, JobsAreBudgeted
<1> QED BY <1>1, <1>2 DEF JobMove

-----------------------------------------------------------------------------
(* Workers *)

\* Rows that are not of worker w's attempt stay as they are, and so does a workflow.
OthersStay(w) ==
  /\ \A k \in Jobs, b \in Attempts :
       ~(k = txn[w].job /\ b = txn[w].attempt)
         => ledger'[k][b] = ledger[k][b] /\ spent'[k][b] = spent[k][b]
  /\ \A k \in Jobs : workflow[Request[k]] # None => workflow'[Request[k]] = workflow[Request[k]]

\* What the next step of worker w may rely on.
IsReady(r) ==
  /\ r.step \in {"invoke", "persist", "fail"}
  /\ r.step \in {"invoke", "persist"} =>
       /\ ledger'[r.job][r.attempt] # None
       /\ ledger'[r.job][r.attempt].status = "RESERVED"
       /\ workflow'[Request[r.job]] = DigestOf("reserve", r.scope, r.job, r.attempt)
  /\ r.step = "persist" => spent'[r.job][r.attempt] = r.used

\* The ledger, the budget and the model calls after a step of worker w.
LedgerIsSound ==
  /\ workflow' \in [Requests -> Digest \cup {None}]
  /\ windows' \in [Scopes -> [Days -> WindowRow \cup {None}]]
  /\ ledger' \in [Jobs -> [Attempts -> Reservation \cup {None}]]
  /\ spent' \in [Jobs -> [Attempts -> Nat]]
  /\ ReservedIsOpen'

\* A step that leaves the ledger and the model calls alone.
LEMMA LedgerStays ==
  ASSUME IInv, UNCHANGED <<workflow, windows, ledger, spent>>
  PROVE  LedgerIsSound
<1>1. \A s, d : OpenIn(s, d)' = OpenIn(s, d) /\ Window(s, d)' = Window(s, d)
  BY DEF OpenIn, IsOpen, Window
<1> QED BY <1>1 DEF LedgerIsSound, IInv, TypeOK, ReservedIsOpen

\* Reserve opens one reservation.
LEMMA ReserveStep ==
  ASSUME IInv, NEW w \in Workers, Reserve(w)
  PROVE  /\ LedgerIsSound /\ OthersStay(w)
         /\ \E r : Goes(w, r) /\ (r # None => IsReady(r))
<1>t. TypeOK /\ txn[w] # None /\ txn[w].step = "reserve"
  BY DEF IInv, Reserve
<1>w. txn[w].job \in Jobs /\ txn[w].attempt \in Attempts /\ scope \in 0..MaxScope
  BY <1>t, HolderTypes DEF TypeOK
<1>u. spent' = spent
  BY DEF Reserve
<1> DEFINE row == [day |-> day, status |-> "RESERVED", used |-> 0]
           digest == DigestOf("reserve", scope, txn[w].job, txn[w].attempt)
<1>r. PICK r : /\ Goes(w, r) /\ r # None
               /\ \/ /\ r.step = "invoke" /\ r.scope = scope
                     /\ workflow' = [workflow EXCEPT ![Request[txn[w].job]] = digest]
                     /\ windows' = Reserved(txn[w].job)
                     /\ ledger' = [ledger EXCEPT ![txn[w].job][txn[w].attempt] = row]
                     /\ ~Conflicts(txn[w].job, digest)
                  \/ r.step = "fail" /\ UNCHANGED <<workflow, windows, ledger>>
  BY <1>t, ReserveGoes
<1>1. CASE r.step = "fail" /\ UNCHANGED <<workflow, windows, ledger>>
  BY <1>1, <1>u, <1>r, LedgerStays DEF OthersStay, IsReady
<1>2. CASE ~(r.step = "fail" /\ UNCHANGED <<workflow, windows, ledger>>)
  <2>1. /\ r.step = "invoke" /\ r.scope = scope
        /\ workflow' = [workflow EXCEPT ![Request[txn[w].job]] = digest]
        /\ windows' = Reserved(txn[w].job)
        /\ ledger' = [ledger EXCEPT ![txn[w].job][txn[w].attempt] = row]
        /\ ~Conflicts(txn[w].job, digest)
    BY <1>2, <1>r
  <2>2. ledger[txn[w].job][txn[w].attempt] = None
    BY <1>t DEF IInv, StepsFollowTheLedger
  <2>3. /\ windows' \in [Scopes -> [Days -> WindowRow \cup {None}]]
        /\ ledger' \in [Jobs -> [Attempts -> Reservation \cup {None}]]
        /\ ReservedIsOpen'
    BY <2>1, <2>2, <1>t, <1>w, ReservingIsFair DEF IInv
  <2>4. digest \in Digest
    BY <1>w DEF DigestOf, Digest
  <2>5. LedgerIsSound
    BY <2>1, <2>3, <2>4, <1>t, <1>u DEF LedgerIsSound, TypeOK
  <2>6. \A k \in Jobs, b \in Attempts :
          ledger'[k][b] = IF k = txn[w].job /\ b = txn[w].attempt THEN row ELSE ledger[k][b]
    BY <2>1, <1>t, <1>w DEF TypeOK
  <2>7. \A k \in Jobs : workflow'[Request[k]] =
          IF Request[k] = Request[txn[w].job] THEN digest ELSE workflow[Request[k]]
    BY <2>1, <1>t DEF TypeOK, Requests
  <2>8. OthersStay(w)
    BY <2>1, <2>6, <2>7, <1>u DEF OthersStay, Conflicts
  <2>9. row # None /\ row.status = "RESERVED"
    BY <1>t, NoneAssumption DEF TypeOK, Reservation
  <2>10. r.job = txn[w].job /\ r.attempt = txn[w].attempt
    BY <1>r DEF Goes
  <2>11. IsReady(r)
    BY <2>1, <2>6, <2>7, <2>9, <2>10, <1>w DEF IsReady
  <2> QED BY <1>r, <2>5, <2>8, <2>11
<1> QED BY <1>1, <1>2

\* Invoke counts what the calls of its own attempt used.
LEMMA InvokeStep ==
  ASSUME IInv, NEW w \in Workers, Invoke(w)
  PROVE  /\ LedgerIsSound /\ OthersStay(w)
         /\ \E r : Goes(w, r) /\ (r # None => IsReady(r))
<1>t. TypeOK /\ txn[w] # None /\ txn[w].step = "invoke"
  BY DEF IInv, Invoke
<1>w. txn[w].job \in Jobs /\ txn[w].attempt \in Attempts
  BY <1>t, HolderTypes
<1>u. UNCHANGED <<workflow, windows, ledger>>
  BY DEF Invoke, rows
<1>r. PICK used \in Nat : \E r :
        /\ Goes(w, r) /\ r # None
        /\ spent' = [spent EXCEPT ![txn[w].job][txn[w].attempt] = used]
        /\ \/ r.step = "persist" /\ r.used = used /\ r.scope = txn[w].scope
           \/ r.step = "fail"
  BY <1>t, InvokeGoes
<1>1. /\ spent' \in [Jobs -> [Attempts -> Nat]]
      /\ \A k \in Jobs, b \in Attempts :
           spent'[k][b] = IF k = txn[w].job /\ b = txn[w].attempt THEN used ELSE spent[k][b]
  BY <1>r, <1>t, <1>w DEF TypeOK
<1>2. LedgerIsSound
  <2>1. \A s, d : OpenIn(s, d)' = OpenIn(s, d) /\ Window(s, d)' = Window(s, d)
    BY <1>u DEF OpenIn, IsOpen, Window
  <2> QED BY <2>1, <1>1, <1>u DEF LedgerIsSound, IInv, TypeOK, ReservedIsOpen
<1>3. OthersStay(w)
  BY <1>1, <1>u DEF OthersStay
<1>4. ASSUME NEW r, Goes(w, r), r # None,
             \/ r.step = "persist" /\ r.used = used /\ r.scope = txn[w].scope
             \/ r.step = "fail"
      PROVE  IsReady(r)
  <2>1. r.job = txn[w].job /\ r.attempt = txn[w].attempt
    BY <1>4 DEF Goes
  <2>2. /\ ledger[r.job][r.attempt] # None /\ ledger[r.job][r.attempt].status = "RESERVED"
        /\ workflow[Request[r.job]] = DigestOf("reserve", txn[w].scope, r.job, r.attempt)
    BY <2>1, <1>t DEF IInv, StepsFollowTheLedger
  <2>3. spent'[r.job][r.attempt] = used
    BY <2>1, <1>1, <1>w
  <2> QED BY <1>4, <1>u, <2>1, <2>2, <2>3 DEF IsReady
<1> QED BY <1>2, <1>3, <1>4, <1>r

\* Settling an attempt leaves the others as they are.
LEMMA SettleStep ==
  ASSUME IInv, NEW w \in Workers, txn[w] # None, NEW used \in Nat,
         ledger[txn[w].job][txn[w].attempt] # None,
         windows' = Settled(txn[w].job, txn[w].attempt, used),
         ledger' = Reconciled(txn[w].job, txn[w].attempt, used),
         UNCHANGED <<workflow, spent>>
  PROVE  LedgerIsSound /\ OthersStay(w)
<1>w. txn[w].job \in Jobs /\ txn[w].attempt \in Attempts /\ TypeOK
  BY HolderTypes DEF IInv
<1>1. /\ windows' \in [Scopes -> [Days -> WindowRow \cup {None}]]
      /\ ledger' \in [Jobs -> [Attempts -> Reservation \cup {None}]]
      /\ ReservedIsOpen'
  BY <1>w, SettlingIsFair DEF IInv
<1>2. LedgerIsSound
  BY <1>1, <1>w DEF LedgerIsSound, TypeOK
<1>3. OthersStay(w)
  BY <1>w DEF OthersStay, Reconciled, TypeOK
<1> QED BY <1>2, <1>3

\* Persist and Fail settle the attempt of their worker, or nothing.
LEMMA EndStep ==
  ASSUME IInv, NEW w \in Workers, Persist(w) \/ Fail(w) \/ Crash(w)
  PROVE  /\ LedgerIsSound /\ OthersStay(w)
         /\ \E r : Goes(w, r) /\ (r # None => IsReady(r))
<1>t. TypeOK /\ txn[w] # None /\ UNCHANGED <<workflow, spent>>
  BY DEF IInv, Persist, Refuse, Fail, Crash, rows
<1>1. CASE Persist(w)
  <2>1. /\ ledger[txn[w].job][txn[w].attempt] # None /\ txn[w].used \in Nat
    BY <1>1, <1>t, HolderTypes DEF IInv, StepsFollowTheLedger, Persist
  <2>2. \E r : Goes(w, r) /\ (r # None => IsReady(r))
    BY <1>1, <1>t, PersistGoes DEF IsReady
  <2>3. CASE UNCHANGED <<windows, ledger>>
    BY <2>2, <2>3, <1>t, LedgerStays DEF OthersStay
  <2>4. CASE /\ windows' = Settled(txn[w].job, txn[w].attempt, txn[w].used)
             /\ ledger' = Reconciled(txn[w].job, txn[w].attempt, txn[w].used)
    BY <2>1, <2>2, <2>4, <1>t, SettleStep
  <2> QED BY <2>3, <2>4, <1>1, <1>t, PersistGoes
<1>2. CASE Fail(w)
  <2>1. FailureCharge \in Nat
    BY BudgetAssumption DEF FailureCharge
  <2>2. Goes(w, None)
    BY <1>2, <1>t, FailGoes
  <2>3. CASE UNCHANGED <<windows, ledger>>
    BY <2>2, <2>3, <1>t, LedgerStays DEF OthersStay
  <2>4. CASE /\ ledger[txn[w].job][txn[w].attempt] # None
             /\ windows' = Settled(txn[w].job, txn[w].attempt, FailureCharge)
             /\ ledger' = Reconciled(txn[w].job, txn[w].attempt, FailureCharge)
    BY <2>1, <2>2, <2>4, <1>t, SettleStep
  <2> QED BY <2>3, <2>4, <1>2, <1>t, FailGoes
<1>3. CASE Crash(w)
  BY <1>3, <1>t, CrashGoes, LedgerStays DEF OthersStay, Crash, rows
<1> QED BY <1>1, <1>2, <1>3

\* Together.
LEMMA WorkStep ==
  ASSUME IInv, NEW w \in Workers, Works(w)
  PROVE  /\ LedgerIsSound /\ OthersStay(w)
         /\ \E r : Goes(w, r) /\ (r # None => IsReady(r))
BY ReserveStep, InvokeStep, EndStep DEF Works

\* Recover, Expire, ConfirmScope and Midnight touch no worker and no ledger.
Elsewhere ==
  \/ \E j \in Jobs : Recover(j) \/ Expire(j)
  \/ ConfirmScope \/ Midnight

\* What such a step and a claim leave alone.
LEMMA QuietSteps ==
  ASSUME Elsewhere \/ \E w \in Workers, j \in Jobs : Claim(w, j)
  PROVE  UNCHANGED <<workflow, windows, ledger, spent>>
BY DEF Elsewhere, Recover, Expire, ConfirmScope, Midnight, Claim, rows

\* The steps, by who takes them.
LEMMA StepKinds ==
  ASSUME Next
  PROVE  \/ \E w \in Workers, j \in Jobs : Claim(w, j)
         \/ \E w \in Workers : Works(w)
         \/ Elsewhere
BY DEF Next, Works, Elsewhere

\* A claim of the next attempt, which nobody holds and the ledger does not know.
LEMMA ClaimStep ==
  ASSUME IInv, NEW w \in Workers, NEW j \in Jobs, Claim(w, j)
  PROVE  \E r \in Txn :
           /\ txn[w] = None /\ txn' = [txn EXCEPT ![w] = r] /\ r # None
           /\ r.job = j /\ r.attempt = job[j].attempt + 1 /\ r.step = "reserve"
           /\ job'[j].attempt = job[j].attempt + 1
           /\ ledger[j][r.attempt] = None
<1> DEFINE r == [job |-> j, attempt |-> job[j].attempt + 1, step |-> "reserve",
                 scope |-> 0, used |-> 0]
<1>t. job \in [Jobs -> JobRow] /\ job[j] \in JobRow
  BY DEF IInv, TypeOK
<1>1. job[j].attempt < MaxAttempts
  BY DEF Claim, IInv, JobsAreBudgeted
<1>2. r.attempt \in Attempts
  BY <1>1, <1>t, BudgetAssumption DEF JobRow, Attempts
<1>3. r \in Txn
  BY <1>2, BudgetAssumption DEF Txn
<1>4. r # None
  BY <1>3, NoneAssumption
<1>5. ledger[j][r.attempt] = None
  BY <1>2, <1>t DEF IInv, UntriedIsBlank, JobRow
<1>6. job'[j].attempt = job[j].attempt + 1 /\ txn[w] = None /\ txn' = [txn EXCEPT ![w] = r]
  BY <1>t DEF Claim
<1> QED BY <1>3, <1>4, <1>5, <1>6

\* Types, and what the scope and the day may be.
LEMMA TypeStep ==
  ASSUME IInv, Next
  PROVE  TypeOK'
<1>t. TypeOK
  BY DEF IInv
<1>0. txn \in [Workers -> Txn \cup {None}]
  BY <1>t DEF TypeOK
<1>1. /\ job' \in [Jobs -> JobRow] /\ decisions' \in [Jobs -> 0..MaxScope \cup {None}]
      /\ \A k \in Jobs : job[k] \in JobRow /\ job'[k] \in JobRow /\ job[k].attempt <= job'[k].attempt
  BY <1>t, JobsStep DEF TypeOK
<1>2. LedgerIsSound
  BY StepKinds, WorkStep, QuietSteps, LedgerStays
<1>3. scope' \in 0..MaxScope /\ day' \in Days
  <2>1. scope \in 0..MaxScope /\ day \in Days
    BY <1>t DEF TypeOK
  <2>2. CASE ConfirmScope \/ Midnight
    BY <2>1, <2>2, BudgetAssumption DEF ConfirmScope, Midnight, Days
  <2>3. CASE ~(ConfirmScope \/ Midnight)
    <3>1. UNCHANGED <<scope, day>>
      BY <2>3, StepKinds
         DEF Works, Elsewhere, Claim, Reserve, Invoke, Persist, Fail, Crash, Recover, Expire, Refuse
    <3> QED BY <2>1, <3>1
  <2> QED BY <2>2, <2>3
<1>4. /\ txn' \in [Workers -> Txn \cup {None}]
      /\ \A v \in Workers : txn'[v] # None => txn'[v].attempt <= job'[txn'[v].job].attempt
  <2>o. ASSUME NEW v \in Workers, txn'[v] = txn[v], txn'[v] # None
        PROVE  txn'[v].attempt <= job'[txn'[v].job].attempt
    <3>1. /\ txn[v].job \in Jobs /\ txn[v].attempt \in Attempts
          /\ txn[v].attempt <= job[txn[v].job].attempt
      BY <2>o, <1>t, HolderTypes
    <3> QED BY <2>o, <3>1, <1>1 DEF JobRow, Attempts
  <2>1. ASSUME NEW w \in Workers, NEW j \in Jobs, Claim(w, j)
        PROVE  (/\ txn' \in [Workers -> Txn \cup {None}]
               /\ \A v \in Workers : txn'[v] # None => txn'[v].attempt <= job'[txn'[v].job].attempt)
    <3>1. PICK r \in Txn :
            /\ txn' = [txn EXCEPT ![w] = r] /\ r.job = j
            /\ r.attempt = job[j].attempt + 1 /\ job'[j].attempt = job[j].attempt + 1
      BY <2>1, ClaimStep
    <3>2. job[j] \in JobRow
      BY <1>1
    <3>3. r.attempt <= job'[r.job].attempt
      BY <3>1, <3>2 DEF JobRow
    <3> QED BY <3>1, <3>3, <2>o, <1>0
  <2>2. ASSUME NEW w \in Workers, NEW r, Goes(w, r)
        PROVE  (/\ txn' \in [Workers -> Txn \cup {None}]
               /\ \A v \in Workers : txn'[v] # None => txn'[v].attempt <= job'[txn'[v].job].attempt)
    <3>1. txn[w] # None /\ txn' = [txn EXCEPT ![w] = r] /\ r \in Txn \cup {None}
          /\ (r # None => r.job = txn[w].job /\ r.attempt = txn[w].attempt)
      BY <2>2 DEF Goes
    <3>2. /\ txn[w].job \in Jobs /\ txn[w].attempt \in Attempts
          /\ txn[w].attempt <= job[txn[w].job].attempt
      BY <3>1, <1>t, HolderTypes
    <3>3. r # None => r.attempt <= job'[r.job].attempt
      BY <3>1, <3>2, <1>1 DEF JobRow, Attempts
    <3> QED BY <3>1, <3>3, <2>o, <1>0
  <2>3. CASE Elsewhere
    <3>1. txn' = txn
      BY <2>3 DEF Elsewhere, Recover, Expire, ConfirmScope, Midnight, rows
    <3> QED BY <3>1, <2>o, <1>0
  <2> QED BY <2>1, <2>2, <2>3, StepKinds, WorkStep
<1> QED BY <1>1, <1>2, <1>3, <1>4 DEF TypeOK, LedgerIsSound

\* An attempt keeps its one holder.
LEMMA HoldersStep ==
  ASSUME IInv, Next
  PROVE  AttemptsHaveOneHolder'
<1>t. TypeOK /\ txn \in [Workers -> Txn \cup {None}] /\ AttemptsHaveOneHolder
  BY DEF IInv, TypeOK
<1>1. ASSUME NEW w \in Workers, NEW j \in Jobs, Claim(w, j)
      PROVE  AttemptsHaveOneHolder'
  <2>1. PICK r \in Txn : /\ txn' = [txn EXCEPT ![w] = r] /\ r.job = j
                         /\ r.attempt = job[j].attempt + 1
    BY <1>1, ClaimStep
  <2>2. ASSUME NEW v \in Workers, v # w, txn'[v] # None, txn'[v].job = j
        PROVE  txn'[v].attempt # r.attempt
    <3>1. txn'[v] = txn[v]
      BY <2>1, <2>2, <1>t
    <3>2. txn[v].attempt <= job[j].attempt /\ txn[v].attempt \in Attempts
      BY <3>1, <2>2, <1>t, HolderTypes
    <3>3. job[j] \in JobRow
      BY <1>t DEF TypeOK
    <3> QED BY <3>1, <3>2, <3>3, <2>1 DEF Attempts, JobRow
  <2> QED BY <2>1, <2>2, <1>t DEF AttemptsHaveOneHolder
<1>2. ASSUME NEW w \in Workers, NEW r, Goes(w, r)
      PROVE  AttemptsHaveOneHolder'
  BY <1>2, <1>t DEF Goes, AttemptsHaveOneHolder
<1>3. CASE Elsewhere
  BY <1>3, <1>t DEF Elsewhere, Recover, Expire, ConfirmScope, Midnight, rows, AttemptsHaveOneHolder
<1> QED BY <1>1, <1>2, <1>3, StepKinds, WorkStep

\* What another worker relies on is still there.
LEMMA ReliedOnStays ==
  ASSUME IInv, NEW v \in Workers, txn[v] # None, txn'[v] = txn[v],
         /\ ledger'[txn[v].job][txn[v].attempt] = ledger[txn[v].job][txn[v].attempt]
         /\ spent'[txn[v].job][txn[v].attempt] = spent[txn[v].job][txn[v].attempt],
         \A k \in Jobs : workflow[Request[k]] # None => workflow'[Request[k]] = workflow[Request[k]]
  PROVE  (/\ txn[v].step = "reserve" => ledger[txn[v].job][txn[v].attempt] = None
          /\ txn[v].step \in {"invoke", "persist"} =>
               /\ ledger[txn[v].job][txn[v].attempt] # None
               /\ ledger[txn[v].job][txn[v].attempt].status = "RESERVED"
               /\ workflow[Request[txn[v].job]] = DigestOf("reserve", txn[v].scope, txn[v].job, txn[v].attempt)
          /\ txn[v].step = "persist" => spent[txn[v].job][txn[v].attempt] = txn[v].used)'
<1>1. /\ txn[v].job \in Jobs /\ txn[v].attempt \in Attempts /\ txn[v].scope \in 0..MaxScope
  BY HolderTypes DEF IInv
<1>2. DigestOf("reserve", txn[v].scope, txn[v].job, txn[v].attempt) # None
  BY <1>1, NoneAssumption DEF DigestOf, Digest
<1> QED BY <1>1, <1>2 DEF IInv, StepsFollowTheLedger, DigestOf

\* Every worker may still rely on what its step presumes.
LEMMA FollowStep ==
  ASSUME IInv, Next
  PROVE  StepsFollowTheLedger'
<1>t. TypeOK /\ txn \in [Workers -> Txn \cup {None}]
  BY DEF IInv, TypeOK
<1>1. ASSUME NEW w \in Workers, NEW j \in Jobs, Claim(w, j)
      PROVE  StepsFollowTheLedger'
  <2>1. PICK r \in Txn : /\ txn' = [txn EXCEPT ![w] = r] /\ r.job = j /\ r.step = "reserve"
                         /\ ledger[j][r.attempt] = None
    BY <1>1, ClaimStep
  <2>2. UNCHANGED <<workflow, ledger, spent>>
    BY <1>1, QuietSteps
  <2>3. ASSUME NEW v \in Workers, v # w
        PROVE  txn'[v] = txn[v]
    BY <2>1, <2>3, <1>t
  <2>4. txn'[w] = r
    BY <2>1, <1>t
  <2> QED BY <2>1, <2>2, <2>3, <2>4 DEF IInv, StepsFollowTheLedger, DigestOf
<1>2. ASSUME NEW w \in Workers, NEW r, OthersStay(w), Goes(w, r), r # None => IsReady(r)
      PROVE  StepsFollowTheLedger'
  <2>1. /\ txn[w] # None /\ txn' = [txn EXCEPT ![w] = r]
        /\ r # None => r.job = txn[w].job /\ r.attempt = txn[w].attempt
    BY <1>2 DEF Goes
  <2>2. txn'[w] = r
    BY <2>1, <1>t
  <2>3. ASSUME NEW v \in Workers, v # w, txn[v] # None
        PROVE  /\ txn'[v] = txn[v]
               /\ ledger'[txn[v].job][txn[v].attempt] = ledger[txn[v].job][txn[v].attempt]
               /\ spent'[txn[v].job][txn[v].attempt] = spent[txn[v].job][txn[v].attempt]
    <3>1. txn'[v] = txn[v]
      BY <2>1, <2>3, <1>t
    <3>2. ~(txn[v].job = txn[w].job /\ txn[v].attempt = txn[w].attempt)
      BY <2>1, <2>3 DEF IInv, AttemptsHaveOneHolder
    <3>3. txn[v].job \in Jobs /\ txn[v].attempt \in Attempts
      BY <2>3, <1>t, HolderTypes
    <3> QED BY <3>1, <3>2, <3>3, <1>2 DEF OthersStay
  <2>4. \A k \in Jobs : workflow[Request[k]] # None => workflow'[Request[k]] = workflow[Request[k]]
    BY <1>2 DEF OthersStay
  <2>5. SUFFICES ASSUME NEW v \in Workers, txn'[v] # None
        PROVE (/\ txn[v].step = "reserve" => ledger[txn[v].job][txn[v].attempt] = None
               /\ txn[v].step \in {"invoke", "persist"} =>
                    /\ ledger[txn[v].job][txn[v].attempt] # None
                    /\ ledger[txn[v].job][txn[v].attempt].status = "RESERVED"
                    /\ workflow[Request[txn[v].job]] = DigestOf("reserve", txn[v].scope, txn[v].job, txn[v].attempt)
               /\ txn[v].step = "persist" => spent[txn[v].job][txn[v].attempt] = txn[v].used)'
    BY DEF StepsFollowTheLedger
  <2>6. CASE v = w
    BY <2>2, <2>5, <2>6, <1>2 DEF IsReady, DigestOf
  <2>7. CASE v # w
    <3>1. txn[v] # None
      BY <2>1, <2>5, <2>7, <1>t
    <3> QED BY <3>1, <2>3, <2>4, <2>7, ReliedOnStays
  <2> QED BY <2>6, <2>7
<1>3. CASE Elsewhere
  <2>1. UNCHANGED <<txn, workflow, ledger, spent>>
    BY <1>3, QuietSteps DEF Elsewhere, Recover, Expire, ConfirmScope, Midnight, rows
  <2> QED BY <2>1 DEF IInv, StepsFollowTheLedger, DigestOf
<1> QED BY <1>1, <1>2, <1>3, StepKinds, WorkStep

\* Attempts not yet claimed stay without a reservation.
LEMMA UntriedStep ==
  ASSUME IInv, Next
  PROVE  UntriedIsBlank'
<1>t. TypeOK /\ UntriedIsBlank
  BY DEF IInv
<1>1. \A k \in Jobs : job[k] \in JobRow /\ job'[k] \in JobRow /\ job[k].attempt <= job'[k].attempt
  BY <1>t, JobsStep DEF TypeOK
<1>2. SUFFICES ASSUME NEW j \in Jobs, NEW a \in Attempts, job'[j].attempt < a
      PROVE  ledger'[j][a] = None
  BY DEF UntriedIsBlank
<1>3. ledger[j][a] = None /\ job[j].attempt < a
  BY <1>1, <1>2, <1>t DEF UntriedIsBlank, JobRow, Attempts
<1>4. ASSUME NEW w \in Workers, Works(w)
      PROVE  ledger'[j][a] = None
  <2>1. OthersStay(w) /\ txn[w] # None
    BY <1>4, WorkStep DEF Goes
  <2>2. txn[w].attempt <= job[txn[w].job].attempt /\ txn[w].attempt \in Attempts
    BY <2>1, <1>t, HolderTypes
  <2>3. ~(j = txn[w].job /\ a = txn[w].attempt)
    BY <2>2, <1>1, <1>3 DEF JobRow, Attempts
  <2> QED BY <2>1, <2>3, <1>3 DEF OthersStay
<1> QED BY <1>3, <1>4, StepKinds, QuietSteps

\* A decision is made where the workflow of its own reservation still stands.
LEMMA DecisionsStep ==
  ASSUME IInv, Next
  PROVE  DecisionsFollowTheWorkflow'
<1>t. TypeOK /\ decisions \in [Jobs -> 0..MaxScope \cup {None}] /\ DecisionsFollowTheWorkflow
  BY DEF IInv, TypeOK
<1>1. \A k \in Jobs : workflow[Request[k]] # None => workflow'[Request[k]] = workflow[Request[k]]
  BY StepKinds, WorkStep, QuietSteps DEF OthersStay
<1>2. CASE decisions' = decisions
  BY <1>1, <1>2, <1>t DEF DecisionsFollowTheWorkflow
<1>3. ASSUME NEW w \in Workers, Persist(w), decisions' # decisions
      PROVE  DecisionsFollowTheWorkflow'
  <2>1. decisions' = [decisions EXCEPT ![txn[w].job] = txn[w].scope]
    BY <1>3, <1>t, PersistGoes
  <2>2. /\ txn[w].job \in Jobs /\ txn[w].attempt \in Attempts /\ txn[w].scope \in 0..MaxScope
        /\ txn[w] # None /\ txn[w].step = "persist"
    BY <1>3, <1>t, HolderTypes DEF Persist
  <2>3. workflow[Request[txn[w].job]]
          = DigestOf("reserve", txn[w].scope, txn[w].job, txn[w].attempt)
    BY <2>2 DEF IInv, StepsFollowTheLedger
  <2>4. /\ workflow[Request[txn[w].job]] \in Digest
        /\ workflow[Request[txn[w].job]].scope = txn[w].scope
    BY <2>2, <2>3 DEF DigestOf, Digest
  <2>5. workflow[Request[txn[w].job]] # None
    BY <2>4, NoneAssumption
  <2> QED BY <2>1, <2>2, <2>4, <2>5, <1>1, <1>t DEF DecisionsFollowTheWorkflow
<1>4. decisions' = decisions \/ \E w \in Workers : Persist(w)
  BY StepKinds
     DEF Works, Elsewhere, Claim, Reserve, Refuse, Invoke, Fail, Crash, Recover, Expire,
         ConfirmScope, Midnight, rows
<1> QED BY <1>2, <1>3, <1>4

\* What an attempt used is still in the ledger.
LEMMA SpendStep ==
  ASSUME IInv, Next
  PROVE  SpendIsAccountedFor'
<1>t. TypeOK /\ SpendIsAccountedFor
  BY DEF IInv
<1>T. TypeOK'
  BY TypeStep
<1> DEFINE Told(row, real) ==
      real > 0 => row # None /\ (row.status = "RECONCILED" => real <= row.used)
           Real(n) == IF n <= Amount THEN n ELSE Amount
<1>0. /\ \A j \in Jobs, a \in Attempts : spent[j][a] \in Nat /\ spent'[j][a] \in Nat
      /\ \A n \in Nat : Real(n) = Min({n, Amount})
  <2>1. Amount \in Nat
    BY BudgetAssumption
  <2>2. \A n \in Nat : Real(n) = Min({n, Amount})
    BY <2>1, MinOfTwo
  <2> QED BY <2>2, <1>t, <1>T DEF TypeOK
<1>1. \A j \in Jobs, a \in Attempts : Told(ledger[j][a], Real(spent[j][a]))
  BY <1>0, <1>t DEF SpendIsAccountedFor
<1>2. SUFFICES ASSUME NEW j \in Jobs, NEW a \in Attempts
      PROVE  Told(ledger'[j][a], Real(spent'[j][a]))
  BY <1>0 DEF SpendIsAccountedFor
<1>3. CASE UNCHANGED <<ledger, spent>>
  BY <1>1, <1>3
<1>4. ASSUME NEW w \in Workers, Works(w)
      PROVE  Told(ledger'[j][a], Real(spent'[j][a]))
  <2>0. OthersStay(w) /\ txn[w] # None
    BY <1>4, WorkStep DEF Goes
  <2>1. CASE ~(j = txn[w].job /\ a = txn[w].attempt)
    BY <2>0, <2>1, <1>1 DEF OthersStay
  <2>2. CASE j = txn[w].job /\ a = txn[w].attempt
    <3> DEFINE old == ledger[j][a]
               row(used) == [old EXCEPT !.status = "RECONCILED", !.used = used]
    <3>o. old \in Reservation \cup {None}
      BY <1>t DEF TypeOK
    <3>1. CASE Reserve(w)
      <4>1. spent' = spent
        BY <3>1 DEF Reserve
      <4>2. \/ ledger' = ledger
            \/ ledger'[j][a] = [day |-> day, status |-> "RESERVED", used |-> 0]
        <5>1. \/ ledger' = ledger
              \/ ledger' = [ledger EXCEPT ![j][a] =
                              [day |-> day, status |-> "RESERVED", used |-> 0]]
          BY <3>1, <2>2, <1>t, ReserveGoes
        <5> QED BY <5>1, <1>t DEF TypeOK
      <4>3. [day |-> day, status |-> "RESERVED", used |-> 0] # None
        BY <1>t, NoneAssumption DEF TypeOK, Reservation
      <4> QED BY <4>1, <4>2, <4>3, <1>1
    <3>2. CASE Invoke(w)
      <4>1. ledger' = ledger
        BY <3>2 DEF Invoke, rows
      <4>2. old # None /\ old.status = "RESERVED"
        BY <3>2, <2>0, <2>2 DEF Invoke, IInv, StepsFollowTheLedger
      <4> QED BY <4>1, <4>2
    <3>s. ASSUME NEW used \in Nat, old # None, spent' = spent, old.status = "RESERVED" => Real(spent[j][a]) <= used,
                 ledger' = Reconciled(j, a, used)
          PROVE  Told(ledger'[j][a], Real(spent'[j][a]))
      <4>1. CASE old.status # "RESERVED"
        <5>1. ledger'[j][a] = old
          BY <3>s, <4>1, <1>t DEF Reconciled, TypeOK
        <5> QED BY <5>1, <3>s, <1>1
      <4>2. CASE old.status = "RESERVED"
        <5>1. ledger'[j][a] = row(used)
          BY <3>s, <4>2, <1>t DEF Reconciled, TypeOK
        <5>2. row(used) # None /\ row(used).used = used
          BY <3>s, <3>o, NoneAssumption DEF Reservation
        <5> QED BY <5>1, <5>2, <3>s, <4>2
      <4> QED BY <4>1, <4>2
    <3>3. CASE Persist(w)
      <4>1. /\ old # None /\ spent[j][a] = txn[w].used /\ txn[w].used \in Nat /\ spent' = spent
        BY <3>3, <2>0, <2>2, <1>t, HolderTypes DEF Persist, IInv, StepsFollowTheLedger
      <4>2. Real(spent[j][a]) <= txn[w].used
        BY <4>1, BudgetAssumption
      <4>3. ledger' = ledger \/ ledger' = Reconciled(j, a, txn[w].used)
        BY <3>3, <2>2, <1>t, PersistGoes
      <4> QED BY <4>1, <4>2, <4>3, <3>s, <1>1
    <3>4. CASE Fail(w)
      <4>1. spent' = spent /\ FailureCharge \in Nat /\ Real(spent[j][a]) <= FailureCharge
        BY <3>4, <1>0, BudgetAssumption DEF Fail, FailureCharge
      <4>2. \/ ledger' = ledger
            \/ old # None /\ ledger' = Reconciled(j, a, FailureCharge)
        BY <3>4, <2>2, <1>t, FailGoes
      <4> QED BY <4>1, <4>2, <3>s, <1>1
    <3>5. CASE Crash(w)
      BY <3>5, <1>3 DEF Crash, rows
    <3> QED BY <1>4, <3>1, <3>2, <3>3, <3>4, <3>5 DEF Works
  <2> QED BY <2>1, <2>2
<1> QED BY <1>3, <1>4, StepKinds, QuietSteps

-----------------------------------------------------------------------------
(* Theorems *)

\* The invariant holds at the start.
LEMMA InitIInv ==
  ASSUME Init
  PROVE  IInv
<1>1. TypeOK
  BY BudgetAssumption DEF Init, TypeOK, JobRow, Days
<1>2. \A s \in Scopes, d \in Days : OpenIn(s, d) = {} /\ Window(s, d).reserved = 0
  BY DEF Init, OpenIn, IsOpen, Window
<1>3. Cardinality({}) = 0
  BY FS_EmptySet
<1>4. ReservedIsOpen
  <2>1. Amount * 0 = 0
    BY BudgetAssumption
  <2> QED BY <1>2, <1>3, <2>1 DEF ReservedIsOpen
<1>5. SpendIsAccountedFor
  <2>1. Min({0, Amount}) = 0
    BY MinOfTwo, BudgetAssumption
  <2> QED BY <2>1 DEF Init, SpendIsAccountedFor
<1>6. AttemptsHaveOneHolder /\ StepsFollowTheLedger /\ UntriedIsBlank
  BY DEF Init, AttemptsHaveOneHolder, StepsFollowTheLedger, UntriedIsBlank
<1>7. JobsAreBudgeted /\ DecisionsFollowTheWorkflow
  BY BudgetAssumption DEF Init, JobsAreBudgeted, DecisionsFollowTheWorkflow
<1> QED BY <1>1, <1>4, <1>5, <1>6, <1>7 DEF IInv

\* Every step keeps it.
LEMMA NextIInv ==
  ASSUME IInv, [Next]_vars
  PROVE  IInv'
<1>1. CASE Next
  <2>1. ReservedIsOpen'
    BY <1>1, StepKinds, WorkStep, QuietSteps, LedgerStays DEF LedgerIsSound
  <2> QED BY <1>1, <2>1, TypeStep, HoldersStep, FollowStep, UntriedStep, JobsStep,
               DecisionsStep, SpendStep DEF IInv
<1>2. CASE UNCHANGED vars
  <2>1. UNCHANGED <<job, txn, workflow, windows, ledger, decisions, scope, day, spent>>
    BY <1>2 DEF vars, rows
  <2>2. \A s, d : OpenIn(s, d)' = OpenIn(s, d) /\ Window(s, d)' = Window(s, d)
    BY <2>1 DEF OpenIn, IsOpen, Window
  <2> QED BY <2>1, <2>2 DEF IInv, TypeOK, AttemptsHaveOneHolder, StepsFollowTheLedger, DigestOf,
                            UntriedIsBlank, JobsAreBudgeted, DecisionsFollowTheWorkflow,
                            ReservedIsOpen, SpendIsAccountedFor
<1> QED BY <1>1, <1>2

\* IInv is an invariant.
LEMMA Invariance == Spec => []IInv
<1>1. Init => IInv
  BY InitIInv
<1>2. IInv /\ [Next]_vars => IInv'
  BY NextIInv
<1> QED BY <1>1, <1>2, PTL DEF Spec

\* Every reachable state is well typed: no attempt beyond MaxAttempts, and no window is ever
\* settled below zero, whatever crashes and midnights come between reservation and settlement.
THEOREM LedgerTypes == Spec => []TypeOK
<1>1. IInv => TypeOK
  BY DEF IInv
<1> QED BY <1>1, Invariance, PTL

\* What the model calls of an attempt used is in the ledger, for any number of attempts that
\* crash, lose their lease or are charged for a failure.
THEOREM NothingIsSpentUnseen == Spec => []SpendIsAccountedFor
<1>1. IInv => SpendIsAccountedFor
  BY DEF IInv
<1> QED BY <1>1, Invariance, PTL

\* A window holds one amount for each of its open reservations.
THEOREM WindowsHoldOpenReservations == Spec => []ReservedIsOpen
<1>1. IInv => ReservedIsOpen
  BY DEF IInv
<1> QED BY <1>1, Invariance, PTL

\* A job decides once and what it decided stays, for any number of invocations on it.
THEOREM JobsNeverDecideTwice == Spec => JobsDecideOnce
<1>1. IInv /\ [Next]_vars => [\A j \in Jobs : decisions[j] # None =>
                                 decisions'[j] = decisions[j] /\ job'[j] = job[j]]_vars
  <2>1. ASSUME IInv, Next
        PROVE  \A j \in Jobs : decisions[j] # None =>
                 decisions'[j] = decisions[j] /\ job'[j] = job[j]
    BY <2>1, DecisionStep
  <2> QED BY <2>1
<1> QED BY <1>1, Invariance, PTL DEF Spec, JobsDecideOnce

\* All decisions on one request assess one scope version, for any number of jobs it is given and
\* of scopes confirmed meanwhile, and whatever the create_workflow calls digest.
THEOREM OneScopePerRequest == Spec => []DecisionsShareTheirScope
<1>1. IInv => DecisionsShareTheirScope
  BY DEF IInv, DecisionsFollowTheWorkflow, DecisionsShareTheirScope
<1> QED BY <1>1, Invariance, PTL

-----------------------------------------------------------------------------
(* Totals, by the smallest set that would be a counterexample *)

\* Every set of naturals that is not empty has a least element.
LEMMA LeastNatural ==
  ASSUME NEW T \in SUBSET Nat, T # {}
  PROVE  \E n \in T : \A m \in T : n <= m
<1>1. PICK n \in T : \A m \in T : <<m, n>> \notin OpToRel(<, Nat)
  BY NatLessThanWellFounded, WFMin, Zenon
<1>2. \A m \in T : ~(m < n)
  BY <1>1 DEF OpToRel
<1> QED BY <1>2

\* Among sets that are not all there is one with no element to spare.
LEMMA SmallestSet ==
  ASSUME NEW S, IsFiniteSet(S), NEW B \in SUBSET SUBSET S, B # {}
  PROVE  \E s \in B : \A x \in s : s \ {x} \notin B
<1>1. B \subseteq FiniteSubsetsOf(S)
  BY FS_Subset DEF FiniteSubsetsOf
<1>2. PICK s \in B : \A t \in B : <<t, s>> \notin StrictSubsetOrdering(S)
  BY <1>1, FS_StrictSubsetOrderingWellFounded, WFMin, Zenon
<1>3. ASSUME NEW x \in s, s \ {x} \in B PROVE FALSE
  BY <1>2, <1>3 DEF StrictSubsetOrdering
<1> QED BY <1>3

\* What MapThenFoldSet takes out of a set first.
Chosen(s) == CHOOSE x \in s : TRUE

\* g has the totals of the sets of D, each from that of a smaller one.
Adds(g, f, D) ==
  g = [s \in D |-> IF s = {} THEN 0 ELSE f[Chosen(s)] + g[s \ {Chosen(s)}]]
Sums(f, D) == CHOOSE g : Adds(g, f, D)

\* What the recursion of MapThenFoldSet comes to.
LEMMA TotalIsSums == \A f, S : Total(S, f) = Sums(f, SUBSET S)[S]
  BY DEF Total, Sums, Adds, Chosen, SumFunctionOnSet, FoldFunctionOnSet, MapThenFoldSet

\* It is one of its elements.
LEMMA ChosenIsElement ==
  ASSUME NEW s, s # {}
  PROVE  Chosen(s) \in s
  BY DEF Chosen

\* The recursion of a fold has a solution.
LEMMA SumsExist ==
  ASSUME NEW S, IsFiniteSet(S), NEW f
  PROVE  \E g : Adds(g, f, SUBSET S)
<1> DEFINE Small(k) == {s \in SUBSET S : Cardinality(s) <= k}
           Good(k) == \E g : Adds(g, f, Small(k))
           Bad == {k \in 0..Cardinality(S) : ~Good(k)}
<1>1. Cardinality(S) \in Nat /\ Small(Cardinality(S)) = SUBSET S
  <2>1. \A s \in SUBSET S : Cardinality(s) <= Cardinality(S)
    BY FS_Subset
  <2> QED BY <2>1, FS_CardinalityType
<1>2. ASSUME NEW s \in SUBSET S, s # {}
      PROVE  /\ Chosen(s) \in s /\ Cardinality(s) \in Nat
             /\ Cardinality(s \ {Chosen(s)}) = Cardinality(s) - 1
             /\ s \ {Chosen(s)} \in SUBSET S
  BY <1>2, ChosenIsElement, FS_Subset, FS_RemoveElement, FS_CardinalityType
<1>3. Good(0)
  <2> DEFINE z == [s \in Small(0) |-> 0]
  <2>1. ASSUME NEW s \in Small(0) PROVE s = {}
    <3>1. s \in SUBSET S /\ Cardinality(s) <= 0 /\ IsFiniteSet(s)
      BY FS_Subset
    <3> QED BY <3>1, FS_CardinalityType, FS_EmptySet
  <2>2. Adds(z, f, Small(0))
    BY <2>1 DEF Adds
  <2> QED BY <2>2
<1>4. ASSUME NEW k \in Nat \ {0}, Good(k - 1)
      PROVE  Good(k)
  <2>1. PICK g : Adds(g, f, Small(k - 1))
    BY <1>4
  <2> DEFINE h == [s \in Small(k) |-> IF s = {} THEN 0 ELSE f[Chosen(s)] + g[s \ {Chosen(s)}]]
  <2>2. ASSUME NEW s \in Small(k - 1)
        PROVE  s \in Small(k) /\ h[s] = g[s]
    <3>1. s \in SUBSET S /\ Cardinality(s) \in Nat /\ Cardinality(s) <= k - 1
      BY FS_Subset, FS_CardinalityType
    <3>2. s \in Small(k)
      BY <3>1
    <3>3. g[s] = IF s = {} THEN 0 ELSE f[Chosen(s)] + g[s \ {Chosen(s)}]
      BY <2>1 DEF Adds
    <3> QED BY <3>2, <3>3
  <2>3. ASSUME NEW s \in Small(k), s # {}
        PROVE  s \ {Chosen(s)} \in Small(k - 1)
    BY <1>2, <2>3
  <2> HIDE DEF Small
  <2>4. ASSUME NEW s \in Small(k), s # {}
        PROVE  h[s \ {Chosen(s)}] = g[s \ {Chosen(s)}]
    BY <2>2, <2>3, <2>4
  <2>5. h = [s \in Small(k) |-> IF s = {} THEN 0 ELSE f[Chosen(s)] + h[s \ {Chosen(s)}]]
    BY <2>4
  <2> QED BY <2>5 DEF Adds
<1> HIDE DEF Good, Small
<1>5. Bad = {}
  <2> SUFFICES ASSUME Bad # {} PROVE FALSE
    OBVIOUS
  <2>1. Bad \in SUBSET Nat
    BY <1>1
  <2>2. PICK k \in Bad : \A m \in Bad : k <= m
    BY <2>1, LeastNatural
  <2>3. k # 0
    BY <1>3
  <2>4. k - 1 \in 0..Cardinality(S) /\ k - 1 \notin Bad
    BY <1>1, <2>2, <2>3
  <2> QED BY <1>1, <1>4, <2>3, <2>4
<1>6. Good(Cardinality(S))
  BY <1>1, <1>5
<1> QED BY <1>1, <1>6 DEF Good

\* What Sums is on the sets it is defined by.
LEMMA SumsAre ==
  ASSUME NEW S, IsFiniteSet(S), NEW f, NEW s \in SUBSET S
  PROVE  Sums(f, SUBSET S)[s] = IF s = {} THEN 0
           ELSE f[Chosen(s)] + Sums(f, SUBSET S)[s \ {Chosen(s)}]
<1>1. Adds(Sums(f, SUBSET S), f, SUBSET S)
  BY SumsExist, Zenon DEF Sums
<1> QED BY <1>1 DEF Adds

\* A smaller fold is the same fold.
LEMMA SumsAgree ==
  ASSUME NEW S, IsFiniteSet(S), NEW f, NEW T \in SUBSET S
  PROVE  Sums(f, SUBSET S)[T] = Total(T, f)
<1> DEFINE g == Sums(f, SUBSET S)
           h == Sums(f, SUBSET T)
           Bad == {s \in SUBSET T : g[s] # h[s]}
<1>1. IsFiniteSet(T)
  BY FS_Subset
<1>2. \A s \in SUBSET T : g[s] = IF s = {} THEN 0 ELSE f[Chosen(s)] + g[s \ {Chosen(s)}]
  BY SumsAre
<1>3. \A s \in SUBSET T : h[s] = IF s = {} THEN 0 ELSE f[Chosen(s)] + h[s \ {Chosen(s)}]
  BY <1>1, SumsAre
<1> HIDE DEF g, h
<1>4. Bad = {}
  <2> SUFFICES ASSUME Bad # {} PROVE FALSE
    OBVIOUS
  <2>1. PICK s \in Bad : \A x \in s : s \ {x} \notin Bad
    BY <1>1, SmallestSet
  <2>2. s # {}
    BY <1>2, <1>3
  <2>3. Chosen(s) \in s /\ s \ {Chosen(s)} \in SUBSET T
    BY <2>2, ChosenIsElement
  <2>4. g[s \ {Chosen(s)}] = h[s \ {Chosen(s)}]
    BY <2>1, <2>3
  <2> QED BY <1>2, <1>3, <2>2, <2>4
<1>5. g[T] = h[T]
  BY <1>4
<1> QED BY <1>5, TotalIsSums DEF g, h

\* The recursion of Total.
LEMMA TotalUnfolds ==
  ASSUME NEW S, IsFiniteSet(S), NEW f
  PROVE  /\ S = {} => Total(S, f) = 0
         /\ S # {} => Total(S, f) = f[Chosen(S)] + Total(S \ {Chosen(S)}, f)
<1>1. Total(S, f) = Sums(f, SUBSET S)[S]
  BY TotalIsSums
<1>2. Sums(f, SUBSET S)[S] = IF S = {} THEN 0
         ELSE f[Chosen(S)] + Sums(f, SUBSET S)[S \ {Chosen(S)}]
  BY SumsAre
<1>3. Sums(f, SUBSET S)[S \ {Chosen(S)}] = Total(S \ {Chosen(S)}, f)
  BY SumsAgree
<1> QED BY <1>1, <1>2, <1>3

\* A total of naturals is one.
LEMMA TotalIsNatural ==
  ASSUME NEW S, IsFiniteSet(S), NEW f, \A x \in S : f[x] \in Nat
  PROVE  Total(S, f) \in Nat
<1> DEFINE Bad == {s \in SUBSET S : Total(s, f) \notin Nat}
<1>1. Bad = {}
  <2> SUFFICES ASSUME Bad # {} PROVE FALSE
    OBVIOUS
  <2>1. PICK s \in Bad : \A x \in s : s \ {x} \notin Bad
    BY SmallestSet
  <2>2. s \in SUBSET S /\ IsFiniteSet(s)
    BY FS_Subset
  <2>3. s # {}
    <3> SUFFICES ASSUME s = {} PROVE FALSE
      OBVIOUS
    <3>1. Total(s, f) = 0
      BY <2>2, TotalUnfolds
    <3> QED BY <2>1, <3>1
  <2>4. Chosen(s) \in s /\ s \ {Chosen(s)} \in SUBSET S
    BY <2>2, <2>3, ChosenIsElement
  <2>5. Total(s \ {Chosen(s)}, f) \in Nat /\ f[Chosen(s)] \in Nat
    BY <2>1, <2>2, <2>4
  <2>6. Total(s, f) = f[Chosen(s)] + Total(s \ {Chosen(s)}, f)
    BY <2>2, <2>3, TotalUnfolds
  <2> QED BY <2>5, <2>6
<1> QED BY <1>1

\* Any element may be taken out first.
LEMMA TotalTakesOut ==
  ASSUME NEW S, IsFiniteSet(S), NEW f, \A x \in S : f[x] \in Nat, NEW e \in S
  PROVE  Total(S, f) = f[e] + Total(S \ {e}, f)
<1> DEFINE Bad == {s \in SUBSET S : \E y \in s : Total(s, f) # f[y] + Total(s \ {y}, f)}
<1>1. Bad = {}
  <2> SUFFICES ASSUME Bad # {} PROVE FALSE
    OBVIOUS
  <2>1. PICK s \in Bad : \A x \in s : s \ {x} \notin Bad
    BY SmallestSet
  <2>2. s \in SUBSET S /\ IsFiniteSet(s)
    BY FS_Subset
  <2>3. PICK y \in s : Total(s, f) # f[y] + Total(s \ {y}, f)
    BY <2>1
  <2> DEFINE c == Chosen(s)
  <2>4. c \in s /\ Total(s, f) = f[c] + Total(s \ {c}, f)
    BY <2>2, <2>3, ChosenIsElement, TotalUnfolds
  <2> HIDE DEF c
  <2>5. y # c
    BY <2>3, <2>4
  <2>6. Total(s \ {c}, f) = f[y] + Total((s \ {c}) \ {y}, f)
    BY <2>1, <2>2, <2>4, <2>5
  <2>7. Total(s \ {y}, f) = f[c] + Total((s \ {y}) \ {c}, f)
    BY <2>1, <2>2, <2>4, <2>5
  <2>8. (s \ {c}) \ {y} = (s \ {y}) \ {c}
    OBVIOUS
  <2> DEFINE rest == Total((s \ {c}) \ {y}, f)
  <2>9. f[c] \in Nat /\ f[y] \in Nat /\ rest \in Nat
    <3>1. IsFiniteSet((s \ {c}) \ {y})
      BY <2>2, FS_Subset
    <3>2. \A x \in (s \ {c}) \ {y} : f[x] \in Nat
      BY <2>2
    <3> QED BY <2>2, <2>4, <3>1, <3>2, TotalIsNatural
  <2> HIDE DEF rest
  <2> QED BY <2>3, <2>4, <2>6, <2>7, <2>8, <2>9 DEF rest
<1> QED BY <1>1

\* Equal summands, equal totals; summands that are 0 do not count.
LEMMA TotalsAreEqual ==
  ASSUME NEW S, IsFiniteSet(S), NEW f, NEW g, NEW T \in SUBSET S,
         \A x \in S : f[x] \in Nat, \A x \in S \ T : f[x] = 0, \A x \in T : g[x] = f[x]
  PROVE  Total(S, f) = Total(T, g)
<1> DEFINE Bad == {s \in SUBSET S : Total(s, f) # Total(s \cap T, g)}
<1>1. Bad = {}
  <2> SUFFICES ASSUME Bad # {} PROVE FALSE
    OBVIOUS
  <2>1. PICK s \in Bad : \A x \in s : s \ {x} \notin Bad
    BY SmallestSet
  <2>2. s \in SUBSET S /\ IsFiniteSet(s) /\ IsFiniteSet(s \cap T)
    BY FS_Subset
  <2>3. s # {}
    <3> SUFFICES ASSUME s = {} PROVE FALSE
      OBVIOUS
    <3>1. s \cap T = {}
      OBVIOUS
    <3> QED BY <2>1, <2>2, <3>1, TotalUnfolds
  <2>4. PICK c : c \in s
    BY <2>3
  <2>5. Total(s, f) = f[c] + Total(s \ {c}, f) /\ Total(s \ {c}, f) \in Nat
    <3>1. \A x \in s : f[x] \in Nat
      BY <2>2
    <3>2. IsFiniteSet(s \ {c})
      BY <2>2, FS_Subset
    <3> QED BY <2>2, <2>4, <3>1, <3>2, TotalTakesOut, TotalIsNatural
  <2>6. Total(s \ {c}, f) = Total((s \ {c}) \cap T, g)
    BY <2>1, <2>2, <2>4
  <2>7. CASE c \in T
    <3>1. \A x \in s \cap T : g[x] \in Nat
      BY <2>2
    <3>2. Total(s \cap T, g) = g[c] + Total((s \cap T) \ {c}, g)
      BY <2>2, <2>4, <2>7, <3>1, TotalTakesOut
    <3>3. (s \cap T) \ {c} = (s \ {c}) \cap T /\ g[c] = f[c]
      BY <2>7
    <3> QED BY <2>1, <2>5, <2>6, <3>2, <3>3
  <2>8. CASE c \notin T
    <3>1. s \cap T = (s \ {c}) \cap T /\ f[c] = 0
      BY <2>2, <2>4, <2>8
    <3> QED BY <2>1, <2>5, <2>6, <3>1
  <2> QED BY <2>7, <2>8
<1>2. S \cap T = T /\ S \notin Bad
  BY <1>1
<1> QED BY <1>2

\* One summand changes, the total changes by as much.
LEMMA TotalChanges ==
  ASSUME NEW S, IsFiniteSet(S), NEW f, NEW g, NEW e \in S,
         \A x \in S : f[x] \in Nat /\ g[x] \in Nat, \A x \in S \ {e} : g[x] = f[x]
  PROVE  /\ Total(S, g) = Total(S, f) + g[e] - f[e]
         /\ Total(S, f) \in Nat
<1>1. IsFiniteSet(S \ {e})
  BY FS_Subset
<1>2. Total(S, f) = f[e] + Total(S \ {e}, f) /\ Total(S, g) = g[e] + Total(S \ {e}, g)
  BY TotalTakesOut
<1>3. Total(S \ {e}, f) = Total(S \ {e}, g)
  BY <1>1, TotalsAreEqual
<1>4. Total(S \ {e}, f) \in Nat
  BY <1>1, TotalIsNatural
<1> QED BY <1>2, <1>3, <1>4

\* Summands bounded by the sums of others, one by one.
LEMMA TotalsAreBounded ==
  ASSUME NEW S, IsFiniteSet(S), NEW f, NEW g, NEW h,
         \A x \in S : f[x] \in Nat /\ g[x] \in Nat /\ h[x] \in Nat /\ f[x] <= g[x] + h[x]
  PROVE  Total(S, f) <= Total(S, g) + Total(S, h)
<1> DEFINE Bad == {s \in SUBSET S : ~(Total(s, f) <= Total(s, g) + Total(s, h))}
<1>1. Bad = {}
  <2> SUFFICES ASSUME Bad # {} PROVE FALSE
    OBVIOUS
  <2>1. PICK s \in Bad : \A x \in s : s \ {x} \notin Bad
    BY SmallestSet
  <2>2. s \in SUBSET S /\ IsFiniteSet(s)
    BY FS_Subset
  <2>3. s # {}
    <3> SUFFICES ASSUME s = {} PROVE FALSE
      OBVIOUS
    <3>1. Total(s, f) = 0 /\ Total(s, g) = 0 /\ Total(s, h) = 0
      BY <2>2, TotalUnfolds
    <3> QED BY <2>1, <3>1
  <2>4. PICK c \in s : TRUE
    BY <2>3
  <2>5. IsFiniteSet(s \ {c}) /\ s \ {c} \in SUBSET S
    BY <2>2, FS_Subset
  <2>6. /\ Total(s, f) = f[c] + Total(s \ {c}, f) /\ Total(s \ {c}, f) \in Nat
        /\ Total(s, g) = g[c] + Total(s \ {c}, g) /\ Total(s \ {c}, g) \in Nat
        /\ Total(s, h) = h[c] + Total(s \ {c}, h) /\ Total(s \ {c}, h) \in Nat
    BY <2>2, <2>5, TotalTakesOut, TotalIsNatural
  <2>7. Total(s \ {c}, f) <= Total(s \ {c}, g) + Total(s \ {c}, h)
    BY <2>1, <2>5
  <2>8. f[c] \in Nat /\ g[c] \in Nat /\ h[c] \in Nat /\ f[c] <= g[c] + h[c]
    BY <2>2
  <2> HIDE DEF Bad
  <2>9. Total(s, f) <= Total(s, g) + Total(s, h)
    BY <2>6, <2>7, <2>8
  <2> QED BY <2>1, <2>9 DEF Bad
<1> QED BY <1>1

\* Summands that are all the same.
LEMMA TotalOfEqual ==
  ASSUME NEW S, IsFiniteSet(S), NEW f, NEW a \in Nat, \A x \in S : f[x] = a
  PROVE  Total(S, f) = a * Cardinality(S)
<1> DEFINE Bad == {s \in SUBSET S : Total(s, f) # a * Cardinality(s)}
<1>1. Bad = {}
  <2> SUFFICES ASSUME Bad # {} PROVE FALSE
    OBVIOUS
  <2>1. PICK s \in Bad : \A x \in s : s \ {x} \notin Bad
    BY SmallestSet
  <2>2. s \in SUBSET S /\ IsFiniteSet(s)
    BY FS_Subset
  <2>3. s # {}
    BY <2>1, <2>2, TotalUnfolds, FS_EmptySet
  <2>4. PICK c \in s : TRUE
    BY <2>3
  <2>5. Total(s, f) = f[c] + Total(s \ {c}, f)
    BY <2>2, <2>4, TotalTakesOut
  <2>6. Total(s \ {c}, f) = a * Cardinality(s \ {c}) /\ f[c] = a
    BY <2>1, <2>2
  <2>7. Cardinality(s \ {c}) = Cardinality(s) - 1 /\ Cardinality(s) \in Nat
    BY <2>2, FS_RemoveElement, FS_CardinalityType
  <2> DEFINE n == Cardinality(s)
  <2>8. n \in Nat /\ n - 1 \in Nat
    BY <2>2, <2>4, <2>7, FS_CardinalityType, FS_Subset
  <2> HIDE DEF n
  <2>9. a + a * (n - 1) = a * n
    BY <2>8
  <2> QED BY <2>1, <2>5, <2>6, <2>7, <2>9 DEF n
<1> QED BY <1>1

-----------------------------------------------------------------------------
(* Balance *)

\* What a reservation has used of a window's day, 0 when it is not of that window.
Tries == Jobs \X Attempts
IsOf(p, s, d) ==
  /\ s \in ScopesOf(p[1])
  /\ ledger[p[1]][p[2]] # None /\ ledger[p[1]][p[2]].day = d
UsedIn(s, d) == [p \in Tries |-> IF IsOf(p, s, d) THEN ledger[p[1]][p[2]].used ELSE 0]

\* The used half of WindowsBalance, over all attempts.
UsedIsTotal == \A s \in Scopes, d \in Days : Window(s, d).used = Total(Tries, UsedIn(s, d))

\* What is reserved and what is used fit the limit together.
WindowsFit ==
  \A s \in Scopes, d \in Days : Window(s, d).reserved + Window(s, d).used <= Limit(s)

\* A reservation that is not settled says nothing of use.
OpenIsUnused ==
  \A j \in Jobs, a \in Attempts :
    ledger[j][a] # None /\ ledger[j][a].status = "RESERVED" => ledger[j][a].used = 0

\* What is about to be settled was within the amount.
PersistsFit ==
  \A w \in Workers : txn[w] # None /\ txn[w].step = "persist" => txn[w].used <= Amount

BalanceInv == UsedIsTotal /\ WindowsFit /\ OpenIsUnused /\ PersistsFit

\* The tries are finitely many.
LEMMA TriesAreFinite == IsFiniteSet(Tries)
<1>1. IsFiniteSet(Attempts)
  BY BudgetAssumption, FS_Interval DEF Attempts
<1> QED BY <1>1, BudgetAssumption, FS_Product DEF Tries

\* A try is an attempt of a job, and has used a natural number of tokens.
LEMMA UsedIsNatural ==
  ASSUME TypeOK, NEW s, NEW d, NEW p \in Tries
  PROVE  /\ p[1] \in Jobs /\ p[2] \in Attempts /\ p = <<p[1], p[2]>>
         /\ ledger[p[1]][p[2]] \in Reservation \cup {None}
         /\ UsedIn(s, d)[p] \in Nat
<1>1. p[1] \in Jobs /\ p[2] \in Attempts /\ p = <<p[1], p[2]>>
  BY DEF Tries
<1>2. ledger[p[1]][p[2]] \in Reservation \cup {None}
  BY <1>1 DEF TypeOK
<1> QED BY <1>1, <1>2 DEF UsedIn, IsOf, Reservation

\* A first transaction opens a reservation in both windows of the day, which it fits.
Opens(j, a) ==
  /\ ledger[j][a] = None
  /\ \A s \in ScopesOf(j) : Fits(s)
  /\ windows' = Reserved(j)
  /\ ledger' = [ledger EXCEPT ![j][a] = [day |-> day, status |-> "RESERVED", used |-> 0]]

\* A second transaction, or a failure, settles one, at the amount at most.
Settles(j, a, used) ==
  /\ ledger[j][a] # None /\ used <= Amount
  /\ windows' = Settled(j, a, used)
  /\ ledger' = Reconciled(j, a, used)

\* There are no other ways to change the ledger.
LEMMA LedgerMoves ==
  ASSUME IInv, PersistsFit, Next
  PROVE  \/ UNCHANGED <<windows, ledger>>
         \/ \E j \in Jobs, a \in Attempts : Opens(j, a)
         \/ \E j \in Jobs, a \in Attempts, used \in Nat : Settles(j, a, used)
<1>t. TypeOK
  BY DEF IInv
<1>1. ASSUME NEW w \in Workers, Reserve(w)
      PROVE  \/ UNCHANGED <<windows, ledger>>
             \/ \E j \in Jobs, a \in Attempts : Opens(j, a)
  <2>1. /\ txn[w].job \in Jobs /\ txn[w].attempt \in Attempts
        /\ ledger[txn[w].job][txn[w].attempt] = None
    BY <1>1, <1>t, HolderTypes DEF Reserve, IInv, StepsFollowTheLedger
  <2>2. \/ UNCHANGED <<windows, ledger>>
        \/ Opens(txn[w].job, txn[w].attempt)
    BY <1>1, <2>1 DEF Reserve, Refuse, Opens
  <2> QED BY <2>1, <2>2
<1>2. ASSUME NEW w \in Workers, Persist(w)
      PROVE  \/ UNCHANGED <<windows, ledger>>
             \/ \E j \in Jobs, a \in Attempts, used \in Nat : Settles(j, a, used)
  <2>1. /\ txn[w] # None /\ txn[w].step = "persist"
        /\ txn[w].job \in Jobs /\ txn[w].attempt \in Attempts /\ txn[w].used \in Nat
        /\ ledger[txn[w].job][txn[w].attempt] # None
    BY <1>2, <1>t, HolderTypes DEF Persist, IInv, StepsFollowTheLedger
  <2>2. txn[w].used <= Amount
    BY <2>1 DEF PersistsFit
  <2>3. \/ UNCHANGED <<windows, ledger>>
        \/ Settles(txn[w].job, txn[w].attempt, txn[w].used)
    BY <1>2, <1>t, <2>1, <2>2, PersistGoes DEF Settles
  <2> QED BY <2>1, <2>3
<1>3. ASSUME NEW w \in Workers, Fail(w)
      PROVE  \/ UNCHANGED <<windows, ledger>>
             \/ \E j \in Jobs, a \in Attempts, used \in Nat : Settles(j, a, used)
  <2>1. txn[w].job \in Jobs /\ txn[w].attempt \in Attempts
    BY <1>3, <1>t, HolderTypes DEF Fail
  <2>2. \/ UNCHANGED <<windows, ledger>>
        \/ Settles(txn[w].job, txn[w].attempt, FailureCharge)
    BY <1>3, <1>t, FailGoes, BudgetAssumption DEF Settles, FailureCharge
  <2>3. FailureCharge \in Nat
    BY BudgetAssumption DEF FailureCharge
  <2> QED BY <2>1, <2>2, <2>3
<1>4. ASSUME NEW w \in Workers, Invoke(w) \/ Crash(w)
      PROVE  UNCHANGED <<windows, ledger>>
  BY <1>4 DEF Invoke, Crash, rows
<1>5. CASE \E w \in Workers : Works(w)
  BY <1>5, <1>1, <1>2, <1>3, <1>4 DEF Works
<1> QED BY <1>5, StepKinds, QuietSteps

\* The windows when a reservation is opened.
LEMMA OpenedWindows ==
  ASSUME TypeOK, NEW j \in Jobs, NEW a \in Attempts, Opens(j, a),
         NEW s \in Scopes, NEW d \in Days
  PROVE  /\ ~(s \in ScopesOf(j) /\ d = day) => Window(s, d)' = Window(s, d)
         /\ s \in ScopesOf(j) /\ d = day =>
              /\ Window(s, d).reserved + Window(s, d).used + Amount <= Limit(s)
              /\ Window(s, d)'.reserved = Window(s, d).reserved + Amount
              /\ Window(s, d)'.used = Window(s, d).used
<1> DEFINE row == [reserved |-> Window(s, day).reserved + Amount, used |-> Window(s, day).used]
<1>1. day \in Days /\ windows[s] \in [Days -> WindowRow \cup {None}]
  BY DEF TypeOK
<1>2. windows'[s] = IF s \in ScopesOf(j) THEN [windows[s] EXCEPT ![day] = row] ELSE windows[s]
  BY DEF Opens, Reserved
<1>3. row \in WindowRow /\ row # None
  BY <1>1, WindowIsRow, BudgetAssumption, NoneAssumption DEF WindowRow
<1>4. CASE s \in ScopesOf(j) /\ d = day
  <2>1. windows'[s][d] = row
    BY <1>1, <1>2, <1>4
  <2>2. Window(s, d)' = row
    BY <2>1, <1>3 DEF Window
  <2> QED BY <2>2, <1>4 DEF Opens, Fits
<1>5. CASE ~(s \in ScopesOf(j) /\ d = day)
  <2>1. windows'[s][d] = windows[s][d]
    BY <1>1, <1>2, <1>5
  <2> QED BY <2>1, <1>5 DEF Window
<1> QED BY <1>4, <1>5

\* The windows when a reservation is settled that was open.
LEMMA SettledWindows ==
  ASSUME TypeOK, ReservedIsOpen, NEW j \in Jobs, NEW a \in Attempts, NEW used \in Nat,
         Settles(j, a, used), ledger[j][a].status = "RESERVED",
         NEW s \in Scopes, NEW d \in Days
  PROVE  /\ ~IsOf(<<j, a>>, s, d) => Window(s, d)' = Window(s, d)
         /\ IsOf(<<j, a>>, s, d) =>
              /\ Window(s, d)'.reserved = Window(s, d).reserved - Amount
              /\ Window(s, d)'.used = Window(s, d).used + used
<1> DEFINE e == ledger[j][a].day
           row == [reserved |-> windows[s][e].reserved - Amount, used |-> windows[s][e].used + used]
<1>1. windows[s] \in [Days -> WindowRow \cup {None}] /\ ledger[j][a] \in Reservation
  BY DEF TypeOK, Settles
<1>2. windows'[s] = IF s \in ScopesOf(j) THEN [windows[s] EXCEPT ![e] = row] ELSE windows[s]
  BY DEF Settles, Settled
<1>3. e \in Days
  BY <1>1 DEF Reservation
<1> HIDE DEF e
<1>4. CASE IsOf(<<j, a>>, s, d)
  <2>1. s \in ScopesOf(j) /\ d = e
    BY <1>4 DEF IsOf, e
  <2>2. <<j, a>> \in OpenIn(s, d)
    BY <1>4, <2>1 DEF OpenIn, IsOpen, IsOf, e
  <2>3. Cardinality(OpenIn(s, d)) > 0
    BY <2>2, OpenIsFinite, FS_EmptySet
  <2>4. Window(s, d).reserved >= Amount
    BY <2>3, OpenIsFinite, OneLess, BudgetAssumption DEF ReservedIsOpen
  <2>5. windows[s][d] # None
    BY <2>4, BudgetAssumption DEF Window
  <2>6. windows[s][d] \in WindowRow /\ Window(s, d) = windows[s][d]
    BY <1>1, <2>5 DEF Window
  <2>7. row \in WindowRow /\ row # None
    BY <2>1, <2>4, <2>6, NoneAssumption, BudgetAssumption DEF WindowRow
  <2>8. windows'[s][d] = row
    BY <1>1, <1>2, <1>3, <2>1
  <2>9. Window(s, d)' = row
    BY <2>7, <2>8 DEF Window
  <2> QED BY <1>4, <2>1, <2>6, <2>9
<1>5. CASE ~IsOf(<<j, a>>, s, d)
  <2>1. ~(s \in ScopesOf(j) /\ d = e)
    BY <1>5 DEF IsOf, e, Settles
  <2>2. windows'[s][d] = windows[s][d]
    BY <1>1, <1>2, <1>3, <2>1
  <2> QED BY <2>2, <1>5 DEF Window
<1> QED BY <1>4, <1>5

\* An opened reservation keeps the balance.
LEMMA OpeningBalances ==
  ASSUME TypeOK, TypeOK', UsedIsTotal, WindowsFit, OpenIsUnused,
         NEW j \in Jobs, NEW a \in Attempts, Opens(j, a)
  PROVE  UsedIsTotal' /\ WindowsFit' /\ OpenIsUnused'
<1> DEFINE row == [day |-> day, status |-> "RESERVED", used |-> 0]
<1>1. \A k \in Jobs, b \in Attempts :
        ledger'[k][b] = IF k = j /\ b = a THEN row ELSE ledger[k][b]
  BY DEF TypeOK, Opens
<1>2. OpenIsUnused'
  BY <1>1 DEF OpenIsUnused
<1>3. ASSUME NEW s \in Scopes, NEW d \in Days
      PROVE  /\ Window(s, d)'.used = Total(Tries, UsedIn(s, d)')
             /\ Window(s, d)'.reserved + Window(s, d)'.used <= Limit(s)
  <2>1. /\ Window(s, d).used = Total(Tries, UsedIn(s, d))
        /\ Window(s, d).reserved + Window(s, d).used <= Limit(s)
    BY DEF UsedIsTotal, WindowsFit
  <2>2. Window(s, d) \in WindowRow
    BY WindowIsRow
  <2>3. ASSUME NEW p \in Tries
        PROVE  (IF IsOf(p, s, d)' THEN ledger'[p[1]][p[2]].used ELSE 0)
               = (IF IsOf(p, s, d) THEN ledger[p[1]][p[2]].used ELSE 0)
    <3>1. p[1] \in Jobs /\ p[2] \in Attempts
      BY DEF Tries
    <3>2. CASE p[1] = j /\ p[2] = a
      BY <1>1, <3>1, <3>2 DEF IsOf, Opens
    <3>3. CASE ~(p[1] = j /\ p[2] = a)
      BY <1>1, <3>1, <3>3 DEF IsOf
    <3> QED BY <3>2, <3>3
  <2>4. UsedIn(s, d)' = UsedIn(s, d)
    BY <2>3 DEF UsedIn
  <2>5. Window(s, d)'.used = Window(s, d).used
    BY OpenedWindows
  <2>6. Window(s, d)'.reserved + Window(s, d)'.used <= Limit(s)
    BY <2>1, <2>2, OpenedWindows, BudgetAssumption DEF WindowRow
  <2> QED BY <2>1, <2>4, <2>5, <2>6
<1> QED BY <1>2, <1>3 DEF UsedIsTotal, WindowsFit

\* So does a settled one.
LEMMA SettlingBalances ==
  ASSUME TypeOK, TypeOK', ReservedIsOpen, UsedIsTotal, WindowsFit, OpenIsUnused,
         NEW j \in Jobs, NEW a \in Attempts, NEW used \in Nat, Settles(j, a, used)
  PROVE  UsedIsTotal' /\ WindowsFit' /\ OpenIsUnused'
<1> DEFINE old == ledger[j][a]
           row == [old EXCEPT !.status = "RECONCILED", !.used = used]
<1>o. old \in Reservation /\ old # None
  BY DEF TypeOK, Settles
<1>1. CASE old.status # "RESERVED"
  <2>1. windows' = windows
    BY <1>1 DEF Settles, Settled, TypeOK
  <2>2. ledger' = ledger
    BY <1>1 DEF Settles, Reconciled, TypeOK
  <2>3. \A s, d : UsedIn(s, d)' = UsedIn(s, d) /\ Window(s, d)' = Window(s, d)
    BY <2>1, <2>2 DEF UsedIn, IsOf, Window
  <2> QED BY <2>2, <2>3 DEF UsedIsTotal, WindowsFit, OpenIsUnused
<1>2. CASE old.status = "RESERVED"
  <2>1. row \in Reservation /\ row # None /\ row.used = used /\ row.day = old.day
        /\ row.status = "RECONCILED"
    BY <1>o, NoneAssumption DEF Reservation
  <2>2. \A k \in Jobs, b \in Attempts :
          ledger'[k][b] = IF k = j /\ b = a THEN row ELSE ledger[k][b]
    BY <1>2 DEF Settles, Reconciled, TypeOK
  <2> HIDE DEF row
  <2>3. OpenIsUnused'
    <3>1. ASSUME NEW k \in Jobs, NEW b \in Attempts,
                 ledger'[k][b] # None, ledger'[k][b].status = "RESERVED"
          PROVE  ledger'[k][b].used = 0
      BY <2>1, <2>2, <3>1 DEF OpenIsUnused
    <3> QED BY <3>1 DEF OpenIsUnused
  <2>4. ASSUME NEW s \in Scopes, NEW d \in Days
        PROVE  /\ Window(s, d)'.used = Total(Tries, UsedIn(s, d)')
               /\ Window(s, d)'.reserved + Window(s, d)'.used <= Limit(s)
    <3>1. /\ Window(s, d).used = Total(Tries, UsedIn(s, d))
          /\ Window(s, d).reserved + Window(s, d).used <= Limit(s)
      BY DEF UsedIsTotal, WindowsFit
    <3>2. Window(s, d) \in WindowRow /\ Window(s, d)' \in WindowRow
      BY WindowIsRow DEF TypeOK, Window, WindowRow
    <3> DEFINE q == <<j, a>>
    <3>3. q \in Tries
      BY DEF Tries
    <3>4. ASSUME NEW p \in Tries \ {q}
          PROVE  UsedIn(s, d)'[p] = UsedIn(s, d)[p]
      <4>1. p[1] \in Jobs /\ p[2] \in Attempts /\ ~(p[1] = j /\ p[2] = a)
        BY DEF Tries
      <4>2. ledger'[p[1]][p[2]] = ledger[p[1]][p[2]]
        BY <4>1, <2>2
      <4> QED BY <4>2 DEF UsedIn, IsOf
    <3>5. UsedIn(s, d)[q] = 0 /\ UsedIn(s, d)'[q] = IF IsOf(q, s, d) THEN used ELSE 0
      <4>1. ledger'[j][a] = row
        BY <2>2
      <4>2. old.used = 0
        BY <1>2, <1>o DEF OpenIsUnused
      <4>3. IsOf(q, s, d)' <=> IsOf(q, s, d)
        BY <4>1, <2>1, <1>o DEF IsOf
      <4> QED BY <3>3, <4>1, <4>2, <4>3, <2>1 DEF UsedIn
    <3>6. Total(Tries, UsedIn(s, d)') = Total(Tries, UsedIn(s, d)) + UsedIn(s, d)'[q] - UsedIn(s, d)[q]
      <4>1. \A p \in Tries : UsedIn(s, d)[p] \in Nat
        BY UsedIsNatural
      <4>2. \A p \in Tries : UsedIn(s, d)'[p] \in Nat
        BY <4>1, <3>4, <3>5
      <4> HIDE DEF q
      <4> QED BY <4>1, <4>2, <3>3, <3>4, TriesAreFinite, TotalChanges
    <3>7. CASE IsOf(q, s, d)
      <4>1. /\ Window(s, d)'.reserved = Window(s, d).reserved - Amount
            /\ Window(s, d)'.used = Window(s, d).used + used
        BY <1>2, <3>7, SettledWindows
      <4>2. used <= Amount /\ Limit(s) \in Nat
        BY BudgetAssumption DEF Settles, Limit
      <4>3. Window(s, d).used \in Nat /\ Window(s, d).reserved \in Nat
        BY <3>2 DEF WindowRow
      <4> HIDE DEF q
      <4> QED BY <3>1, <3>5, <3>6, <3>7, <4>1, <4>2, <4>3, BudgetAssumption
    <3>8. CASE ~IsOf(q, s, d)
      <4>1. Window(s, d)' = Window(s, d)
        BY <1>2, <3>8, SettledWindows
      <4>2. Window(s, d).used \in Nat
        BY <3>2 DEF WindowRow
      <4> HIDE DEF q
      <4> QED BY <3>1, <3>5, <3>6, <3>8, <4>1, <4>2
    <3> QED BY <3>7, <3>8
  <2> QED BY <2>3, <2>4 DEF UsedIsTotal, WindowsFit
<1> QED BY <1>1, <1>2

\* Only Invoke leads to persist, and only within the amount.
LEMMA PersistsStep ==
  ASSUME IInv, PersistsFit, Next
  PROVE  PersistsFit'
<1>t. TypeOK
  BY DEF IInv
<1>1. ASSUME NEW w \in Workers, NEW r, txn' = [txn EXCEPT ![w] = r],
             r # None /\ r.step = "persist" => r.used <= Amount
      PROVE  PersistsFit'
  BY <1>1, <1>t DEF PersistsFit, TypeOK
<1>2. ASSUME NEW w \in Workers, Invoke(w)
      PROVE  PersistsFit'
  <2>1. txn[w] # None /\ txn[w] \in Txn
    BY <1>2, <1>t, HolderTypes DEF Invoke
  <2>2. PICK used \in 0..(Amount + Overrun) :
          \/ /\ used <= Amount
             /\ txn' = [txn EXCEPT ![w].step = "persist", ![w].used = used]
          \/ txn' = [txn EXCEPT ![w].step = "fail"]
    BY <1>2 DEF Invoke
  <2>3. CASE used <= Amount /\ txn' = [txn EXCEPT ![w].step = "persist", ![w].used = used]
    <3> DEFINE r == [txn[w] EXCEPT !.step = "persist", !.used = used]
    <3>1. txn' = [txn EXCEPT ![w] = r]
      BY <2>3, <1>t DEF TypeOK
    <3>2. r.used = used
      BY <2>1 DEF Txn
    <3> HIDE DEF r
    <3> QED BY <2>3, <3>1, <3>2, <1>1
  <2>4. CASE txn' = [txn EXCEPT ![w].step = "fail"]
    <3> DEFINE r == [txn[w] EXCEPT !.step = "fail"]
    <3>1. txn' = [txn EXCEPT ![w] = r]
      BY <2>4, <1>t DEF TypeOK
    <3>2. r.step = "fail"
      BY <2>1 DEF Txn
    <3> HIDE DEF r
    <3> QED BY <3>1, <3>2, <1>1
  <2> QED BY <2>2, <2>3, <2>4
<1>3. ASSUME NEW w \in Workers, Reserve(w)
      PROVE  PersistsFit'
  <2>1. PICK r : Goes(w, r) /\ r # None /\ r.step \in {"invoke", "fail"}
    BY <1>3, <1>t, ReserveGoes
  <2> QED BY <2>1, <1>1 DEF Goes
<1>4. ASSUME NEW w \in Workers, Persist(w)
      PROVE  PersistsFit'
  <2>1. PICK r : Goes(w, r) /\ (r # None => r.step = "fail")
    BY <1>4, <1>t, PersistGoes
  <2> QED BY <2>1, <1>1 DEF Goes
<1>5. ASSUME NEW w \in Workers, Fail(w) \/ Crash(w)
      PROVE  PersistsFit'
  <2>1. Goes(w, None)
    BY <1>5, <1>t, FailGoes, CrashGoes
  <2> QED BY <2>1, <1>1 DEF Goes
<1>6. ASSUME NEW w \in Workers, NEW j \in Jobs, Claim(w, j)
      PROVE  PersistsFit'
  <2>1. PICK r \in Txn : txn' = [txn EXCEPT ![w] = r] /\ r.step = "reserve"
    BY <1>6, ClaimStep
  <2> QED BY <2>1, <1>1
<1>7. CASE Elsewhere
  BY <1>7 DEF Elsewhere, Recover, Expire, ConfirmScope, Midnight, PersistsFit
<1>8. CASE \E w \in Workers : Works(w)
  BY <1>8, <1>2, <1>3, <1>4, <1>5 DEF Works
<1> QED BY <1>6, <1>7, <1>8, StepKinds

\* The balance is there at the start ...
LEMMA InitBalance ==
  ASSUME Init
  PROVE  BalanceInv
<1>1. \A s \in Scopes, d \in Days : Window(s, d) = [reserved |-> 0, used |-> 0]
  BY DEF Init, Window
<1>2. ASSUME NEW s \in Scopes, NEW d \in Days
      PROVE  Total(Tries, UsedIn(s, d)) = 0
  <2>1. \A p \in Tries : UsedIn(s, d)[p] = 0
    BY DEF UsedIn, IsOf, Init, Tries
  <2>2. Total(Tries, UsedIn(s, d)) = 0 * Cardinality(Tries) /\ Cardinality(Tries) \in Nat
    BY <2>1, TriesAreFinite, TotalOfEqual, FS_CardinalityType
  <2> QED BY <2>2
<1>3. UsedIsTotal /\ WindowsFit
  BY <1>1, <1>2, BudgetAssumption DEF UsedIsTotal, WindowsFit, Limit
<1> QED BY <1>3 DEF BalanceInv, OpenIsUnused, PersistsFit, Init

\* ... and stays.
LEMMA NextBalance ==
  ASSUME IInv, IInv', BalanceInv, [Next]_vars
  PROVE  BalanceInv'
<1>1. ASSUME UNCHANGED <<windows, ledger>>
      PROVE  UsedIsTotal' /\ WindowsFit' /\ OpenIsUnused'
  <2>1. \A s, d : UsedIn(s, d)' = UsedIn(s, d) /\ Window(s, d)' = Window(s, d)
    BY <1>1 DEF UsedIn, IsOf, Window
  <2> QED BY <1>1, <2>1 DEF BalanceInv, UsedIsTotal, WindowsFit, OpenIsUnused
<1>2. CASE Next
  <2>1. PersistsFit'
    BY <1>2, PersistsStep DEF BalanceInv
  <2>2. CASE UNCHANGED <<windows, ledger>>
    BY <1>1, <2>1, <2>2 DEF BalanceInv
  <2>3. ASSUME NEW j \in Jobs, NEW a \in Attempts, Opens(j, a)
        PROVE  BalanceInv'
    BY <2>1, <2>3, OpeningBalances DEF BalanceInv, IInv
  <2>4. ASSUME NEW j \in Jobs, NEW a \in Attempts, NEW used \in Nat, Settles(j, a, used)
        PROVE  BalanceInv'
    BY <2>1, <2>4, SettlingBalances DEF BalanceInv, IInv
  <2> QED BY <1>2, <2>2, <2>3, <2>4, LedgerMoves DEF BalanceInv
<1>3. CASE UNCHANGED vars
  <2>1. UNCHANGED <<windows, ledger, txn>>
    BY <1>3 DEF vars, rows
  <2> QED BY <2>1, <1>1 DEF BalanceInv, PersistsFit
<1> QED BY <1>2, <1>3

\* BalanceInv is an invariant.
LEMMA Balance == Spec => []BalanceInv
<1>1. Init => BalanceInv
  BY InitBalance
<1>2. IInv /\ IInv' /\ BalanceInv /\ [Next]_vars => BalanceInv'
  BY NextBalance
<1> QED BY <1>1, <1>2, Invariance, PTL DEF Spec

\* The totals of the two properties, over all attempts.
LEMMA TotalsOfWindow ==
  ASSUME TypeOK, NEW s \in Scopes, NEW d \in Days
  PROVE  /\ AttemptsIn(s, d) \in SUBSET Tries /\ IsFiniteSet(AttemptsIn(s, d))
         /\ \A p \in Tries : p \in AttemptsIn(s, d) <=> IsOf(p, s, d)
<1>1. AttemptsIn(s, d) = {p \in Tries : IsOf(p, s, d)}
  BY DEF AttemptsIn, Tries, IsOf
<1> QED BY <1>1, TriesAreFinite, FS_Subset

\* The reserved total of a window counts its open reservations.
LEMMA OpenTotal ==
  ASSUME TypeOK, NEW s \in Scopes, NEW d \in Days
  PROVE  Total(AttemptsIn(s, d), [p \in AttemptsIn(s, d) |->
                 IF ledger[p[1]][p[2]].status = "RESERVED" THEN Amount ELSE 0])
         = Amount * Cardinality(OpenIn(s, d))
<1> DEFINE T == AttemptsIn(s, d)
           open == [p \in T |-> IF ledger[p[1]][p[2]].status = "RESERVED" THEN Amount ELSE 0]
<1>1. OpenIn(s, d) \in SUBSET T
  BY DEF OpenIn, IsOpen, AttemptsIn
<1>2. \A p \in T : p \in OpenIn(s, d) <=> ledger[p[1]][p[2]].status = "RESERVED"
  BY DEF OpenIn, IsOpen, AttemptsIn
<1>3. IsFiniteSet(T) /\ IsFiniteSet(OpenIn(s, d))
  BY TotalsOfWindow, OpenIsFinite
<1>4. /\ \A p \in T : open[p] \in Nat
      /\ \A p \in T \ OpenIn(s, d) : open[p] = 0
      /\ \A p \in OpenIn(s, d) : open[p] = Amount
  BY <1>1, <1>2, BudgetAssumption
<1> HIDE DEF T, open
<1>5. Total(T, open) = Total(OpenIn(s, d), open)
  BY <1>1, <1>3, <1>4, TotalsAreEqual
<1>6. Total(OpenIn(s, d), open) = Amount * Cardinality(OpenIn(s, d))
  BY <1>3, <1>4, TotalOfEqual, BudgetAssumption
<1> QED BY <1>5, <1>6 DEF T, open

\* The used total of a window is that over all tries.
LEMMA DoneTotal ==
  ASSUME TypeOK, NEW s \in Scopes, NEW d \in Days
  PROVE  Total(AttemptsIn(s, d), [p \in AttemptsIn(s, d) |-> ledger[p[1]][p[2]].used])
         = Total(Tries, UsedIn(s, d))
<1> DEFINE T == AttemptsIn(s, d)
           done == [p \in T |-> ledger[p[1]][p[2]].used]
<1>1. T \in SUBSET Tries
  BY TotalsOfWindow
<1>2. \A p \in Tries : UsedIn(s, d)[p] \in Nat
  BY UsedIsNatural
<1>3. /\ \A p \in Tries \ T : UsedIn(s, d)[p] = 0
      /\ \A p \in T : done[p] = UsedIn(s, d)[p]
  BY <1>1, TotalsOfWindow DEF UsedIn
<1> HIDE DEF T, done
<1>4. Total(Tries, UsedIn(s, d)) = Total(T, done)
  BY <1>1, <1>2, <1>3, TriesAreFinite, TotalsAreEqual
<1> QED BY <1>4 DEF T, done

\* Both totals of every window are those of its reservations: for any number of jobs, attempts,
\* workers and days, whatever crashes, lost leases and midnights come between.
THEOREM LedgerBalances == Spec => []WindowsBalance
<1>1. ASSUME IInv, BalanceInv
      PROVE  WindowsBalance
  <2>1. ASSUME NEW s \in Scopes, NEW d \in Days
        PROVE  Window(s, d) =
                 [reserved |-> Total(AttemptsIn(s, d), [p \in AttemptsIn(s, d) |->
                                 IF ledger[p[1]][p[2]].status = "RESERVED" THEN Amount ELSE 0]),
                  used |-> Total(AttemptsIn(s, d), [p \in AttemptsIn(s, d) |->
                                   ledger[p[1]][p[2]].used])]
    <3>1. Window(s, d) \in WindowRow
      BY <1>1, WindowIsRow DEF IInv
    <3>2. Window(s, d).reserved = Amount * Cardinality(OpenIn(s, d))
      BY <1>1 DEF IInv, ReservedIsOpen
    <3>3. Window(s, d).used = Total(Tries, UsedIn(s, d))
      BY <1>1 DEF BalanceInv, UsedIsTotal
    <3>4. Window(s, d) = [reserved |-> Window(s, d).reserved, used |-> Window(s, d).used]
      BY <3>1 DEF WindowRow
    <3> QED BY <1>1, <3>2, <3>3, <3>4, OpenTotal, DoneTotal DEF IInv
  <2> QED BY <2>1 DEF WindowsBalance
<1>2. IInv /\ BalanceInv => WindowsBalance
  BY <1>1
<1> QED BY <1>2, Invariance, Balance, PTL

\* What the model calls of a day use never exceeds a limit, also while they run, but for the
\* excess of the call that ran over: for every limit, amount and number of overlapping attempts.
THEOREM SpendNeverExceedsLimits == Spec => []SpendIsWithinLimits
<1>1. ASSUME IInv, BalanceInv
      PROVE  SpendIsWithinLimits
  <2>1. ASSUME NEW s \in Scopes, NEW d \in Days
        PROVE  Total(AttemptsIn(s, d), [p \in AttemptsIn(s, d) |->
                       Min({spent[p[1]][p[2]], Amount})]) <= Limit(s)
    <3> DEFINE T == AttemptsIn(s, d)
               real == [p \in T |-> Min({spent[p[1]][p[2]], Amount})]
               open == [p \in T |-> IF ledger[p[1]][p[2]].status = "RESERVED" THEN Amount ELSE 0]
               done == [p \in T |-> ledger[p[1]][p[2]].used]
    <3>1. TypeOK /\ IsFiniteSet(T) /\ T \in SUBSET Tries
      BY <1>1, TotalsOfWindow DEF IInv
    <3>2. ASSUME NEW p \in T
          PROVE  real[p] \in Nat /\ open[p] \in Nat /\ done[p] \in Nat /\ real[p] <= open[p] + done[p]
      <4>1. p[1] \in Jobs /\ p[2] \in Attempts /\ ledger[p[1]][p[2]] # None
        BY DEF AttemptsIn
      <4>2. ledger[p[1]][p[2]] \in Reservation /\ spent[p[1]][p[2]] \in Nat
        BY <3>1, <4>1 DEF TypeOK
      <4>3. /\ Min({spent[p[1]][p[2]], Amount}) \in Nat
            /\ Min({spent[p[1]][p[2]], Amount}) <= Amount
        BY <4>2, MinOfTwo, BudgetAssumption
      <4>4. ledger[p[1]][p[2]].used \in Nat
            /\ ledger[p[1]][p[2]].status \in {"RESERVED", "RECONCILED"}
        BY <4>2 DEF Reservation
      <4>5. ledger[p[1]][p[2]].status = "RECONCILED"
              => Min({spent[p[1]][p[2]], Amount}) <= ledger[p[1]][p[2]].used
        BY <1>1, <4>1, <4>3, <4>4 DEF IInv, SpendIsAccountedFor
      <4> QED BY <4>3, <4>4, <4>5, BudgetAssumption
    <3>3. Total(T, open) = Window(s, d).reserved
      BY <1>1, <3>1, OpenTotal DEF IInv, ReservedIsOpen
    <3>4. Total(T, done) = Window(s, d).used
      BY <1>1, <3>1, DoneTotal DEF BalanceInv, UsedIsTotal
    <3>5. Window(s, d).reserved + Window(s, d).used <= Limit(s)
      BY <1>1 DEF BalanceInv, WindowsFit
    <3>6. Window(s, d) \in WindowRow /\ Limit(s) \in Nat
      BY <3>1, WindowIsRow, BudgetAssumption DEF Limit
    <3> HIDE DEF T, real, open, done
    <3>7. Total(T, real) <= Total(T, open) + Total(T, done)
      BY <3>1, <3>2, TotalsAreBounded
    <3>8. Total(T, real) \in Nat
      BY <3>1, <3>2, TotalIsNatural
    <3>9. Total(T, real) <= Limit(s)
      BY <3>3, <3>4, <3>5, <3>6, <3>7, <3>8 DEF WindowRow
    <3> QED BY <3>9 DEF T, real
  <2> QED BY <2>1 DEF SpendIsWithinLimits
<1>2. IInv /\ BalanceInv => SpendIsWithinLimits
  BY <1>1
<1> QED BY <1>2, Invariance, Balance, PTL

=============================================================================
