---------------------------- MODULE OutboxProofs ----------------------------
(***************************************************************************)
(* Safety of Outbox for every finite set of jobs, any number of            *)
(* overlapping sweeps, every batch limit and every bound on entries.       *)
(*                                                                         *)
(* What a sweep knows of the entry it is at is the heart of the argument:  *)
(* it has committed the attempt before it calls the bus, and it marks the  *)
(* entry only after the bus took it, whatever other sweeps did meanwhile.  *)
(* That the entries stay few needs a count over the jobs.                  *)
(***************************************************************************)
EXTENDS Outbox, FiniteSetTheorems, SequenceTheorems, WellFoundedInduction, TLAPS

\* What a sweep in state r may rely on, about the entry it is at and the jobs it found lost.
Known(r, rows, out, jobs) ==
  /\ r.phase \in {"SELECTED", "NEXT", "PUBLISHING", "ACCEPTED", "REJECTED"} => r.batch # {}
  /\ r.phase \in {"PUBLISHING", "ACCEPTED", "REJECTED"} => rows[Min(r.batch)].attempted
  /\ r.phase = "ACCEPTED" => Min(r.batch) \in out
  /\ \A j \in r.lost : jobs[j] # "ABSENT"

SweepsKnowTheirEntry == \A s \in Sweepers : Known(sweep[s], outbox, sent, job)

\* A job has entries only once it was enqueued, and never more than the bound.
EntriesAreFew ==
  \A j \in Jobs :
    /\ job[j] = "ABSENT" => EntriesOf(j) = {}
    /\ Cardinality(EntriesOf(j)) <= MaxEntries

IInv ==
  /\ TypeOK
  /\ SweepsKnowTheirEntry
  /\ EntriesAreFew
  /\ PublicationsAreHonest

-----------------------------------------------------------------------------
(* Sets of naturals, finite sets and rows *)

\* Every set of naturals that is not empty has a least element.
LEMMA LeastNatural ==
  ASSUME NEW T \in SUBSET Nat, T # {}
  PROVE  \E n \in T : \A m \in T : n <= m
<1>1. PICK n \in T : \A m \in T : <<m, n>> \notin OpToRel(<, Nat)
  BY NatLessThanWellFounded, WFMin, Zenon
<1>2. \A m \in T : ~(m < n)
  BY <1>1 DEF OpToRel
<1> QED BY <1>2

\* Min finds it.
LEMMA MinIsLeast ==
  ASSUME NEW T \in SUBSET Nat, T # {}
  PROVE  Min(T) \in T /\ \A m \in T : Min(T) <= m
<1>1. \E n \in T : \A m \in T : n <= m
  BY LeastNatural
<1> QED BY <1>1 DEF Min

\* Among sets that are not all there is one with no element to spare.
LEMMA SmallestSet ==
  ASSUME NEW S, IsFiniteSet(S), NEW B \in SUBSET SUBSET S, B # {}
  PROVE  \E s \in B : \A x \in s : s \ {x} \notin B
<1>1. B \subseteq FiniteSubsetsOf(S)
  BY FS_Subset DEF FiniteSubsetsOf
<1>2. PICK s \in B : \A t \in B : <<t, s>> \notin StrictSubsetOrdering(S)
  BY <1>1, FS_StrictSubsetOrderingWellFounded, WFMin, Zenon
<1>3. ASSUME NEW x \in s, s \ {x} \in B PROVE FALSE
  BY <1>2, <1>3 DEF StrictSubsetOrdering
<1> QED BY <1>3

\* SetToSeq lists a finite set, each element once.
LEMMA SetToSeqLists ==
  ASSUME NEW S, IsFiniteSet(S)
  PROVE  /\ SetToSeq(S) \in Seq(S)
         /\ Len(SetToSeq(S)) \in Nat /\ DOMAIN SetToSeq(S) = 1..Len(SetToSeq(S))
         /\ \A k, l \in DOMAIN SetToSeq(S) : SetToSeq(S)[k] = SetToSeq(S)[l] => k = l
<1>1. PICK n \in Nat : ExistsBijection(1..n, S)
  BY FS_NatBijection
<1>2. Cardinality(S) = n
  BY <1>1, FS_CountingElements
<1>3. \E f \in [1..n -> S] : IsInjective(f)
  BY <1>1 DEF ExistsBijection, Bijection, Injection
<1>4. SetToSeq(S) \in [1..n -> S] /\ IsInjective(SetToSeq(S))
  BY <1>2, <1>3 DEF SetToSeq
<1>5. SetToSeq(S) \in Seq(S)
  BY <1>4, SeqDef
<1> QED BY <1>4, <1>5, LenProperties DEF IsInjective

\* The first k of a set of naturals are at most k.
LEMMA FirstAreFew ==
  ASSUME NEW S \in SUBSET Nat, IsFiniteSet(S), NEW k \in Nat
  PROVE  Cardinality({e \in S : Cardinality({o \in S : o < e}) < k}) <= k
<1> DEFINE below(e) == {o \in S : o < e}
           first == {e \in S : Cardinality(below(e)) < k}
<1>1. /\ IsFiniteSet(first) /\ Cardinality(first) \in Nat /\ first \in SUBSET S
      /\ \A e \in first : Cardinality(below(e)) < k
  BY FS_Subset, FS_CardinalityType
<1>2. SUFFICES ASSUME Cardinality(first) > k PROVE FALSE
  BY <1>1
<1> HIDE DEF first
<1>3. first # {}
  BY <1>2, FS_EmptySet
<1> DEFINE Bounded(T) == \E m \in Nat : \A e \in T : e <= m
           tops == {m \in Nat : \A e \in first : e <= m}
<1>4. Bounded(first)
  <2> DEFINE Bad == {T \in SUBSET S : ~Bounded(T)}
  <2>1. SUFFICES ASSUME Bad # {} PROVE FALSE
    BY <1>1
  <2>2. PICK T \in Bad : \A x \in T : T \ {x} \notin Bad
    BY <2>1, SmallestSet
  <2>3. T # {}
    BY <2>2
  <2>4. PICK x \in T : TRUE
    BY <2>3
  <2>5. Bounded(T \ {x})
    BY <2>2, <2>4
  <2>6. PICK m \in Nat : \A e \in T \ {x} : e <= m
    BY <2>5
  <2>7. x \in Nat /\ \A e \in T : e \in Nat /\ e <= m + x
    BY <2>4, <2>6
  <2>8. Bounded(T)
    <3>1. m + x \in Nat
      BY <2>7
    <3> QED BY <2>7, <3>1
  <2> QED BY <2>2, <2>8
<1>5. tops # {}
  BY <1>4
<1>6. PICK top \in tops : \A m \in tops : top <= m
  BY <1>5, LeastNatural
<1>7. top \in first
  <2>1. SUFFICES ASSUME top \notin first PROVE FALSE
    OBVIOUS
  <2>2. \A e \in first : e \in Nat /\ e < top
    BY <1>1, <1>6, <2>1
  <2>3. top \in Nat /\ top - 1 \in Nat
    BY <1>3, <1>6, <2>2
  <2>4. \A e \in first : e <= top - 1
    BY <2>2, <2>3
  <2>5. top - 1 \in tops
    BY <2>3, <2>4
  <2> QED BY <1>6, <2>3, <2>5
<1>8. first \ {top} \subseteq below(top)
  <2>1. ASSUME NEW e \in first, e # top PROVE e \in S /\ e < top
    BY <1>1, <1>6, <2>1
  <2> QED BY <2>1
<1>9. IsFiniteSet(below(top)) /\ Cardinality(below(top)) \in Nat
  BY FS_Subset, FS_CardinalityType
<1>10. Cardinality(first \ {top}) <= Cardinality(below(top))
  BY <1>8, <1>9, FS_Subset
<1>11. Cardinality(first \ {top}) = Cardinality(first) - 1
  BY <1>1, <1>7, FS_RemoveElement
<1>12. Cardinality(below(top)) < k
  BY <1>1, <1>7
<1> HIDE DEF below
<1> QED BY <1>1, <1>2, <1>9, <1>10, <1>11, <1>12

\* If each job has at most m of the rows, all jobs together have m times as many as there are
\* jobs, at most.
LEMMA RowsAreFew ==
  ASSUME NEW D, IsFiniteSet(D), NEW owner, \A e \in D : owner[e] \in Jobs, NEW m \in Nat,
         \A j \in Jobs : Cardinality({e \in D : owner[e] = j}) <= m
  PROVE  Cardinality(D) <= m * Cardinality(Jobs)
<1> DEFINE of(B) == {e \in D : owner[e] \in B}
           Bad == {B \in SUBSET Jobs : ~(Cardinality(of(B)) <= m * Cardinality(B))}
<1>f. IsFiniteSet(Jobs)
  BY OutboxAssumption
<1>1. \A B : IsFiniteSet(of(B)) /\ Cardinality(of(B)) \in Nat
  BY FS_Subset, FS_CardinalityType
<1>2. Bad = {}
  <2> SUFFICES ASSUME Bad # {} PROVE FALSE
    OBVIOUS
  <2>1. PICK B \in Bad : \A x \in B : B \ {x} \notin Bad
    BY <1>f, SmallestSet
  <2>2. B \in SUBSET Jobs /\ IsFiniteSet(B) /\ Cardinality(B) \in Nat
    BY <1>f, FS_Subset, FS_CardinalityType
  <2>3. B # {}
    <3> SUFFICES ASSUME B = {} PROVE FALSE
      OBVIOUS
    <3>1. of(B) = {} /\ Cardinality(B) = 0 /\ Cardinality(of(B)) = 0
      BY FS_EmptySet
    <3>2. 0 <= m * 0
      OBVIOUS
    <3> QED BY <2>1, <3>1, <3>2
  <2>4. PICK x \in B : TRUE
    BY <2>3
  <2>5. Cardinality(B \ {x}) = Cardinality(B) - 1 /\ Cardinality(B \ {x}) \in Nat
    BY <2>2, <2>4, FS_RemoveElement, FS_Subset, FS_CardinalityType
  <2>6. Cardinality(of(B \ {x})) <= m * Cardinality(B \ {x})
    BY <2>1, <2>2, <2>4
  <2> DEFINE own == {e \in D : owner[e] = x}
  <2>7. IsFiniteSet(own) /\ Cardinality(own) \in Nat /\ Cardinality(own) <= m
    BY <2>2, <2>4, FS_Subset, FS_CardinalityType
  <2>8. of(B) = of(B \ {x}) \cup own /\ of(B \ {x}) \cap own = {}
    BY <2>4
  <2> HIDE DEF own, of
  <2>9. Cardinality(of(B)) = Cardinality(of(B \ {x})) + Cardinality(own)
    <3>1. IsFiniteSet(of(B \ {x})) /\ Cardinality(of(B \ {x})) \in Nat
      BY <1>1
    <3>2. Cardinality(of(B \ {x}) \cup own)
            = Cardinality(of(B \ {x})) + Cardinality(own) - Cardinality(of(B \ {x}) \cap own)
      BY <2>7, <3>1, FS_Union
    <3>3. Cardinality(of(B \ {x}) \cap own) = 0
      BY <2>8, FS_EmptySet
    <3>4. Cardinality(of(B)) = Cardinality(of(B \ {x}) \cup own)
      BY <2>8, Zenon
    <3> QED BY <2>7, <3>1, <3>2, <3>3, <3>4
  <2> DEFINE n == Cardinality(B \ {x})
  <2>10. n \in Nat /\ Cardinality(B) = n + 1
    BY <2>2, <2>5
  <2> HIDE DEF n
  <2>11. m * (n + 1) = m * n + m
    BY <2>10
  <2>12. m * n \in Int
    BY <2>10
  <2>13. Cardinality(of(B)) <= m * Cardinality(B)
    BY <1>1, <2>6, <2>7, <2>9, <2>10, <2>11, <2>12 DEF n
  <2> QED BY <2>1, <2>13
<1>3. of(Jobs) = D
  OBVIOUS
<1>4. Cardinality(of(Jobs)) <= m * Cardinality(Jobs)
  BY <1>2
<1> QED BY <1>3, <1>4

-----------------------------------------------------------------------------
(* What steps have in common *)

\* The rows of a job among any rows, and the conjuncts of TypeOK, by the state they speak of.
RowsOf(rows, j) == {e \in DOMAIN rows : rows[e].job = j}

SweepRow(rows) == [phase : Phases, lost : SUBSET Jobs, batch : SUBSET DOMAIN rows]
SweepsAreTyped ==
  /\ sweep \in [Sweepers -> SweepRow(outbox)]
  /\ \A s \in Sweepers : Cardinality(sweep[s].batch) <= BatchLimit
  /\ \A s, o \in Sweepers : s # o /\ sweep[s].phase = "SELECTED" /\ sweep[o].phase = "SELECTED"
                          => sweep[s].batch \cap sweep[o].batch = {}
DispatchIsTyped ==
  /\ job \in [Jobs -> {"ABSENT", "RUNNABLE", "TAKEN"}]
  /\ bus \subseteq sent /\ sent \subseteq DOMAIN outbox
  /\ woken \subseteq {j \in Jobs : job[j] = "RUNNABLE"}
  /\ budget \in [retries : 0..MaxRetries, troubles : 0..MaxTroubles]

\* The rows of an outbox have the numbers from 1 on, and are entries.
LEMMA RowsAreEntries ==
  ASSUME NEW rows \in Seq(Entry)
  PROVE  /\ Len(rows) \in Nat /\ DOMAIN rows = 1..Len(rows) /\ IsFiniteSet(DOMAIN rows)
         /\ \A e \in DOMAIN rows : rows[e] \in Entry
<1>1. Len(rows) \in Nat /\ DOMAIN rows = 1..Len(rows) /\ rows \in [1..Len(rows) -> Entry]
  BY LenProperties
<1> QED BY <1>1, FS_Interval

\* With few entries for each job the outbox stays within Ids.
LEMMA OutboxIsShort ==
  ASSUME NEW rows \in Seq(Entry), \A j \in Jobs : Cardinality(RowsOf(rows, j)) <= MaxEntries
  PROVE  Len(rows) <= Cardinality(Ids)
<1> DEFINE owner == [e \in DOMAIN rows |-> rows[e].job]
<1>1. DOMAIN rows = 1..Len(rows) /\ IsFiniteSet(DOMAIN rows) /\ Len(rows) \in Nat
  BY RowsAreEntries
<1>2. \A e \in DOMAIN rows : owner[e] \in Jobs
  BY RowsAreEntries DEF Entry
<1>3. \A j \in Jobs : {e \in DOMAIN rows : owner[e] = j} = RowsOf(rows, j)
  BY DEF RowsOf
<1> HIDE DEF owner
<1>4. \A j \in Jobs : Cardinality({e \in DOMAIN rows : owner[e] = j}) <= MaxEntries
  BY <1>3
<1>5. Cardinality(DOMAIN rows) <= MaxEntries * Cardinality(Jobs)
  BY <1>1, <1>2, <1>4, RowsAreFew, OutboxAssumption
<1>6. Cardinality(DOMAIN rows) = Len(rows)
  BY <1>1, FS_Interval
<1>7. Cardinality(Jobs) \in Nat /\ MaxEntries \in Nat
  BY OutboxAssumption, FS_CardinalityType
<1> DEFINE n == MaxEntries * Cardinality(Jobs)
<1>8. n \in Nat
  BY <1>7
<1> HIDE DEF n
<1>9. Cardinality(1..n) = n
  BY <1>8, FS_Interval
<1> QED BY <1>5, <1>6, <1>9 DEF Ids, n

\* The parts of the invariant make it up.
LEMMA PartsMakeInvariant ==
  ASSUME outbox \in Seq(Entry), SweepsAreTyped, DispatchIsTyped, SweepsKnowTheirEntry,
         EntriesAreFew, PublicationsAreHonest
  PROVE  IInv
<1>1. \A j \in Jobs : RowsOf(outbox, j) = EntriesOf(j)
  BY DEF RowsOf, EntriesOf
<1>2. Len(outbox) <= Cardinality(Ids)
  BY <1>1, OutboxIsShort DEF EntriesAreFew
<1>3. TypeOK
  BY <1>2 DEF TypeOK, SweepsAreTyped, SweepRow, DispatchIsTyped
<1> QED BY <1>3 DEF IInv

\* After a step, too.
LEMMA PartsMakeNext ==
  ASSUME outbox' \in Seq(Entry), SweepsAreTyped', DispatchIsTyped', SweepsKnowTheirEntry',
         EntriesAreFew', PublicationsAreHonest'
  PROVE  IInv'
<1>1. \A j \in Jobs : RowsOf(outbox', j) = EntriesOf(j)'
  BY DEF RowsOf, EntriesOf
<1>2. Len(outbox') <= Cardinality(Ids)
  BY <1>1, OutboxIsShort DEF EntriesAreFew
<1>3. TypeOK'
  BY <1>2 DEF TypeOK, SweepsAreTyped, SweepRow, DispatchIsTyped
<1> QED BY <1>3 DEF IInv

\* And follow from it.
LEMMA InvariantHasParts ==
  ASSUME IInv
  PROVE  /\ outbox \in Seq(Entry) /\ SweepsAreTyped /\ DispatchIsTyped
         /\ Len(outbox) \in Nat /\ DOMAIN outbox = 1..Len(outbox)
         /\ \A e \in DOMAIN outbox : outbox[e] \in Entry
<1>1. outbox \in Seq(Entry)
  BY DEF IInv, TypeOK
<1>2. SweepsAreTyped /\ DispatchIsTyped
  BY DEF IInv, TypeOK, SweepsAreTyped, SweepRow, DispatchIsTyped
<1> QED BY <1>1, <1>2, RowsAreEntries

\* The rows go on: none is lost, and no attempt is forgotten. A job stays.
GoesOn ==
  /\ outbox' \in Seq(Entry)
  /\ DOMAIN outbox \subseteq DOMAIN outbox' /\ sent \subseteq sent'
  /\ \A e \in DOMAIN outbox : outbox[e].attempted => outbox'[e].attempted
  /\ \A j \in Jobs : job[j] # "ABSENT" => job'[j] # "ABSENT"

\* The row a sweep is at is one of its batch.
LEMMA DueIsInBatch ==
  ASSUME IInv, NEW s \in Sweepers, sweep[s].batch # {}
  PROVE  /\ Due(s) \in sweep[s].batch /\ Due(s) \in DOMAIN outbox
         /\ Due(s) = Min(sweep[s].batch)
<1>1. sweep[s].batch \subseteq DOMAIN outbox /\ DOMAIN outbox \subseteq Nat
  BY InvariantHasParts DEF SweepsAreTyped, SweepRow
<1>2. Min(sweep[s].batch) \in sweep[s].batch
  BY <1>1, MinIsLeast
<1> QED BY <1>1, <1>2 DEF Due

\* A sweep that does not move knows no less afterwards.
LEMMA KnownStays ==
  ASSUME IInv, GoesOn, NEW s \in Sweepers
  PROVE  /\ Known(sweep[s], outbox', sent', job')
         /\ sweep[s] \in SweepRow(outbox')
<1>1. Known(sweep[s], outbox, sent, job)
  BY DEF IInv, SweepsKnowTheirEntry
<1>2. sweep[s].batch # {} => Min(sweep[s].batch) \in DOMAIN outbox
  BY DueIsInBatch
<1>3. Known(sweep[s], outbox', sent', job')
  <2>1. sweep[s].lost \subseteq Jobs
    BY InvariantHasParts DEF SweepsAreTyped, SweepRow
  <2> QED BY <1>1, <1>2, <2>1 DEF Known, GoesOn
<1>4. sweep[s] \in SweepRow(outbox)
  BY InvariantHasParts DEF SweepsAreTyped
<1> QED BY <1>3, <1>4 DEF SweepRow, GoesOn

\* Nothing changes for sweeps when none of them moves.
LEMMA SweepsRest ==
  ASSUME IInv, GoesOn, sweep' = sweep
  PROVE  SweepsAreTyped' /\ SweepsKnowTheirEntry'
<1>1. sweep' \in [Sweepers -> SweepRow(outbox')]
  BY KnownStays, InvariantHasParts DEF SweepsAreTyped
<1>2. SweepsKnowTheirEntry'
  BY KnownStays DEF SweepsKnowTheirEntry
<1> QED BY <1>1, <1>2, InvariantHasParts DEF SweepsAreTyped

\* One sweep moves to state r.
LEMMA OneSweepMoves ==
  ASSUME IInv, GoesOn, NEW s \in Sweepers, NEW r \in SweepRow(outbox'),
         sweep' = [sweep EXCEPT ![s] = r],
         Cardinality(r.batch) <= BatchLimit,
         r.phase = "SELECTED" => r.batch \cap Locked(s) = {},
         Known(r, outbox', sent', job')
  PROVE  SweepsAreTyped' /\ SweepsKnowTheirEntry'
<1>t. SweepsAreTyped
  BY InvariantHasParts
<1>1. \A o \in Sweepers : sweep'[o] = IF o = s THEN r ELSE sweep[o]
  BY <1>t DEF SweepsAreTyped
<1>2. sweep' \in [Sweepers -> SweepRow(outbox')]
  <2>1. \A o \in Sweepers : sweep[o] \in SweepRow(outbox')
    BY KnownStays
  <2> QED BY <2>1, <1>t DEF SweepsAreTyped
<1>3. \A o \in Sweepers : Cardinality(sweep'[o].batch) <= BatchLimit
  BY <1>1, <1>t DEF SweepsAreTyped
<1>4. ASSUME NEW o \in Sweepers, o # s, sweep[o].phase = "SELECTED", r.phase = "SELECTED"
      PROVE  r.batch \cap sweep[o].batch = {}
  <2>1. sweep[o].batch \subseteq Locked(s)
    BY <1>4 DEF Locked
  <2> QED BY <1>4, <2>1
<1>5. ASSUME NEW o \in Sweepers, NEW p \in Sweepers, o # p,
             sweep'[o].phase = "SELECTED", sweep'[p].phase = "SELECTED"
      PROVE  sweep'[o].batch \cap sweep'[p].batch = {}
  BY <1>1, <1>4, <1>5, <1>t DEF SweepsAreTyped
<1>6. SweepsKnowTheirEntry'
  BY <1>1, KnownStays DEF SweepsKnowTheirEntry
<1> QED BY <1>2, <1>3, <1>5, <1>6 DEF SweepsAreTyped

\* A row is rewritten, keeps its job and its attempt.
LEMMA RowIsRewritten ==
  ASSUME IInv, NEW e \in DOMAIN outbox, NEW row \in Entry,
         outbox' = [outbox EXCEPT ![e] = row],
         row.job = outbox[e].job, outbox[e].attempted => row.attempted,
         sent \subseteq sent', job' = job
  PROVE  /\ GoesOn /\ EntriesAreFew' /\ DOMAIN outbox' = DOMAIN outbox
         /\ \A f \in DOMAIN outbox : outbox'[f] = IF f = e THEN row ELSE outbox[f]
<1>1. outbox \in Seq(Entry) /\ DOMAIN outbox = 1..Len(outbox)
  BY InvariantHasParts
<1>2. /\ outbox' \in Seq(Entry) /\ Len(outbox') = Len(outbox)
      /\ \A f \in DOMAIN outbox : outbox'[f] = IF f = e THEN row ELSE outbox[f]
  BY <1>1, ExceptSeq
<1>3. DOMAIN outbox' = DOMAIN outbox
  BY <1>1, <1>2, RowsAreEntries
<1>4. \A j : EntriesOf(j)' = EntriesOf(j)
  BY <1>2, <1>3 DEF EntriesOf
<1>5. EntriesAreFew'
  BY <1>4 DEF IInv, EntriesAreFew
<1> QED BY <1>2, <1>3, <1>5 DEF GoesOn

\* Rows that stay go on, too.
LEMMA RowsRest ==
  ASSUME IInv, outbox' = outbox, sent \subseteq sent',
         \A j \in Jobs : job'[j] = "ABSENT" => job[j] = "ABSENT"
  PROVE  GoesOn
BY InvariantHasParts DEF GoesOn

\* The entries of a job stay few when no row changes.
LEMMA FewRest ==
  ASSUME IInv, outbox' = outbox, \A j \in Jobs : job'[j] = "ABSENT" => job[j] = "ABSENT"
  PROVE  EntriesAreFew'
<1>1. \A j : EntriesOf(j)' = EntriesOf(j)
  BY DEF EntriesOf
<1> QED BY <1>1 DEF IInv, EntriesAreFew

\* What is spent was there.
LEMMA SpendingIsTyped ==
  ASSUME DispatchIsTyped, NEW what \in {"retries", "troubles"}, Spend(what)
  PROVE  budget' \in [retries : 0..MaxRetries, troubles : 0..MaxTroubles]
BY OutboxAssumption DEF DispatchIsTyped, Spend

-----------------------------------------------------------------------------
(* Jobs *)

\* The first entry of a job comes with it.
LEMMA EnqueueKeeps ==
  ASSUME IInv, NEW j \in Jobs, Enqueue(j)
  PROVE  IInv'
<1>i. /\ outbox \in Seq(Entry) /\ DispatchIsTyped /\ PublicationsAreHonest /\ EntriesAreFew
      /\ Len(outbox) \in Nat /\ DOMAIN outbox = 1..Len(outbox)
  BY InvariantHasParts DEF IInv
<1>1. Queued(j) \in Entry
  BY DEF Queued, Entry
<1>2. /\ outbox' \in Seq(Entry) /\ Len(outbox') = Len(outbox) + 1
      /\ \A e \in 1..Len(outbox) : outbox'[e] = outbox[e]
      /\ outbox'[Len(outbox) + 1] = Queued(j)
  BY <1>1, <1>i, AppendProperties DEF Enqueue
<1>3. DOMAIN outbox' = 1..(Len(outbox) + 1)
  BY <1>2, RowsAreEntries
<1>j. \A k \in Jobs : job'[k] = IF k = j THEN "RUNNABLE" ELSE job[k]
  BY <1>i DEF Enqueue, DispatchIsTyped
<1>4. GoesOn
  BY <1>i, <1>j, <1>2, <1>3 DEF GoesOn, Enqueue, dispatch
<1>5. \A k \in Jobs : EntriesOf(k)' = IF k = j THEN {Len(outbox) + 1} ELSE EntriesOf(k)
  <2>1. EntriesOf(j) = {}
    BY <1>i DEF EntriesAreFew, Enqueue
  <2>2. Queued(j).job = j
    BY DEF Queued
  <2> QED BY <1>i, <1>2, <1>3, <2>1, <2>2 DEF EntriesOf
<1>6. EntriesAreFew'
  <2>1. Cardinality({Len(outbox) + 1}) = 1
    BY FS_Singleton
  <2>2. ASSUME NEW k \in Jobs
        PROVE  Cardinality(EntriesOf(k)') <= MaxEntries
    <3>1. CASE k = j
      <4>1. EntriesOf(k)' = {Len(outbox) + 1}
        BY <1>5, <3>1
      <4>2. Cardinality(EntriesOf(k)') = 1
        BY <2>1, <4>1, Zenon
      <4> QED BY <4>2, OutboxAssumption
    <3>2. CASE k # j
      <4>1. EntriesOf(k)' = EntriesOf(k)
        BY <1>5, <3>2
      <4> QED BY <1>i, <4>1 DEF EntriesAreFew
    <3> QED BY <3>1, <3>2
  <2>3. \A k \in Jobs : job'[k] = "ABSENT" => EntriesOf(k)' = {}
    BY <1>i, <1>j, <1>5 DEF EntriesAreFew
  <2> QED BY <2>2, <2>3 DEF EntriesAreFew
<1>7. DispatchIsTyped'
  BY <1>i, <1>4 DEF DispatchIsTyped, Enqueue, dispatch, GoesOn
<1>8. PublicationsAreHonest'
  <2>1. ~Queued(j).published
    BY DEF Queued
  <2>2. sent' = sent /\ sent \subseteq DOMAIN outbox
    BY <1>i DEF Enqueue, dispatch, DispatchIsTyped
  <2> QED BY <1>i, <1>2, <1>3, <2>1, <2>2 DEF PublicationsAreHonest
<1> QED BY <1>2, <1>4, <1>6, <1>7, <1>8, SweepsRest, PartsMakeNext DEF Enqueue

\* A claim ends what the dispatcher knows of the job; a retry makes it runnable again.
LEMMA ClaimsKeep ==
  ASSUME IInv, NEW j \in Jobs, Claim(j) \/ Retry(j)
  PROVE  IInv'
<1>i. DispatchIsTyped /\ PublicationsAreHonest
  BY InvariantHasParts DEF IInv
<1>1. outbox' = outbox /\ sweep' = sweep /\ bus' = bus /\ sent' = sent
  BY DEF Claim, Retry, dispatch
<1>3. \A k \in Jobs : job'[k] = "ABSENT" => job[k] = "ABSENT"
  BY <1>i DEF Claim, Retry, DispatchIsTyped
<1>2. GoesOn /\ outbox' \in Seq(Entry)
  BY <1>1, <1>3, RowsRest DEF GoesOn
<1>4. DispatchIsTyped'
  <2>1. CASE Claim(j)
    BY <1>i, <1>1, <2>1 DEF DispatchIsTyped, Claim
  <2>2. CASE Retry(j)
    <3>1. budget' \in [retries : 0..MaxRetries, troubles : 0..MaxTroubles]
      BY <1>i, <2>2, SpendingIsTyped DEF Retry
    <3> QED BY <1>i, <1>1, <2>2, <3>1 DEF DispatchIsTyped, Retry, dispatch
  <2> QED BY <2>1, <2>2
<1>5. PublicationsAreHonest'
  BY <1>i, <1>1 DEF PublicationsAreHonest
<1> QED BY <1>1, <1>2, <1>3, <1>4, <1>5, SweepsRest, FewRest, PartsMakeNext

\* Time only takes the recent mark from a row.
LEMMA AgeKeeps ==
  ASSUME IInv, NEW e, Age(e)
  PROVE  IInv'
<1>i. /\ DispatchIsTyped /\ PublicationsAreHonest /\ \A f \in DOMAIN outbox : outbox[f] \in Entry
      /\ outbox \in Seq(Entry)
  BY InvariantHasParts DEF IInv
<1> DEFINE row == [outbox[e] EXCEPT !.recent = FALSE]
<1>1. e \in DOMAIN outbox /\ outbox' = [outbox EXCEPT ![e] = row]
  BY DEF Age
<1>2. /\ row \in Entry /\ row.job = outbox[e].job /\ row.attempted = outbox[e].attempted
      /\ row.published = outbox[e].published
  BY <1>i, <1>1 DEF Entry
<1> HIDE DEF row
<1>3. UNCHANGED <<job, sweep, bus, sent, woken, budget>>
  BY DEF Age, dispatch
<1>4. /\ GoesOn /\ EntriesAreFew' /\ DOMAIN outbox' = DOMAIN outbox
      /\ \A f \in DOMAIN outbox : outbox'[f] = IF f = e THEN row ELSE outbox[f]
  BY <1>1, <1>2, <1>3, RowIsRewritten
<1>5. DispatchIsTyped'
  BY <1>i, <1>3, <1>4 DEF DispatchIsTyped
<1>6. PublicationsAreHonest'
  BY <1>i, <1>2, <1>3, <1>4 DEF PublicationsAreHonest, DispatchIsTyped
<1> QED BY <1>3, <1>4, <1>5, <1>6, SweepsRest, PartsMakeNext DEF GoesOn

-----------------------------------------------------------------------------
(* The sweep *)

\* A step that touches only the state of one sweep and the budget.
LEMMA OnlySweepMoves ==
  ASSUME IInv, NEW s \in Sweepers, NEW r \in SweepRow(outbox),
         sweep' = [sweep EXCEPT ![s] = r], UNCHANGED <<job, outbox, bus, sent, woken>>,
         budget' = budget \/ Spend("troubles"),
         Cardinality(r.batch) <= BatchLimit, r.phase # "SELECTED", Known(r, outbox, sent, job)
  PROVE  IInv'
<1>i. DispatchIsTyped /\ PublicationsAreHonest
  BY InvariantHasParts DEF IInv
<1>1. GoesOn /\ outbox' \in Seq(Entry) /\ EntriesAreFew'
  BY RowsRest, FewRest DEF GoesOn
<1>2. SweepsAreTyped' /\ SweepsKnowTheirEntry'
  BY <1>1, OneSweepMoves
<1>3. DispatchIsTyped'
  <2>1. budget' \in [retries : 0..MaxRetries, troubles : 0..MaxTroubles]
    BY <1>i, SpendingIsTyped DEF DispatchIsTyped
  <2> QED BY <1>i, <2>1 DEF DispatchIsTyped
<1>4. PublicationsAreHonest'
  BY <1>i DEF PublicationsAreHonest
<1> QED BY <1>1, <1>2, <1>3, <1>4, PartsMakeNext

\* A sweep that rests, or has only discovered, holds nothing.
LEMMA EmptyHands ==
  ASSUME NEW rows, NEW out, NEW jobs, NEW phase \in {"IDLE", "DISCOVERED"},
         NEW lost \in SUBSET Jobs, \A j \in lost : jobs[j] # "ABSENT",
         NEW r, r = [phase |-> phase, batch |-> {}, lost |-> lost]
  PROVE  /\ r \in SweepRow(rows) /\ Cardinality(r.batch) <= BatchLimit
         /\ r.phase # "SELECTED" /\ Known(r, rows, out, jobs)
BY FS_EmptySet, OutboxAssumption DEF SweepRow, Phases, Known

\* A sweep looks for lost jobs: they were enqueued.
LEMMA DiscoverKeeps ==
  ASSUME IInv, NEW s \in Sweepers, Discover(s)
  PROVE  IInv'
<1> DEFINE lost == {j \in Jobs : job[j] = "RUNNABLE" /\ ~Covered(j)}
           r == [phase |-> "DISCOVERED", batch |-> {}, lost |-> lost]
<1>1. /\ r \in SweepRow(outbox) /\ Cardinality(r.batch) <= BatchLimit
      /\ r.phase # "SELECTED" /\ Known(r, outbox, sent, job)
  BY EmptyHands
<1>2. /\ sweep' = [sweep EXCEPT ![s] = r] /\ UNCHANGED <<job, outbox, bus, sent, woken, budget>>
  BY DEF Discover, entries, dispatch
<1> HIDE DEF r
<1> QED BY <1>1, <1>2, OnlySweepMoves

\* A sweep that dies holds nothing.
LEMMA SweepCrashKeeps ==
  ASSUME IInv, NEW s \in Sweepers, SweepCrash(s)
  PROVE  IInv'
<1>1. /\ Resting \in SweepRow(outbox) /\ Cardinality(Resting.batch) <= BatchLimit
      /\ Resting.phase # "SELECTED" /\ Known(Resting, outbox, sent, job)
  BY EmptyHands DEF Resting
<1>2. /\ sweep' = [sweep EXCEPT ![s] = Resting] /\ Spend("troubles")
      /\ UNCHANGED <<job, outbox, bus, sent, woken>>
  BY DEF SweepCrash, entries, dispatch
<1> QED BY <1>1, <1>2, OnlySweepMoves

\* The state of sweep s at another phase, with what is left of its batch.
MovedTo(s, phase, batch) == [sweep[s] EXCEPT !.phase = phase, !.batch = batch]

\* It is within the limit and its lost jobs were enqueued.
LEMMA PhaseMoves ==
  ASSUME IInv, NEW s \in Sweepers, NEW phase \in Phases, NEW batch \in SUBSET sweep[s].batch
  PROVE  LET r == MovedTo(s, phase, batch)
         IN /\ r \in SweepRow(outbox) /\ r.phase = phase /\ r.batch = batch
            /\ Cardinality(r.batch) <= BatchLimit
            /\ \A j \in r.lost : job[j] # "ABSENT"
<1> DEFINE r == MovedTo(s, phase, batch)
<1>1. sweep[s] \in SweepRow(outbox) /\ Cardinality(sweep[s].batch) <= BatchLimit
  BY InvariantHasParts DEF SweepsAreTyped
<1>2. r \in SweepRow(outbox) /\ r.phase = phase /\ r.batch = batch /\ r.lost = sweep[s].lost
  BY <1>1 DEF SweepRow, MovedTo
<1>3. IsFiniteSet(DOMAIN outbox)
  BY InvariantHasParts, RowsAreEntries
<1>4. IsFiniteSet(sweep[s].batch)
  BY <1>1, <1>3, FS_Subset DEF SweepRow
<1>5. /\ Cardinality(batch) <= Cardinality(sweep[s].batch)
      /\ Cardinality(batch) \in Nat /\ Cardinality(sweep[s].batch) \in Nat
  BY <1>4, FS_Subset, FS_CardinalityType
<1> QED BY <1>1, <1>2, <1>5, OutboxAssumption DEF IInv, SweepsKnowTheirEntry, Known

\* Naming a field that stays changes nothing.
LEMMA PhaseAlone ==
  ASSUME IInv, NEW s \in Sweepers, NEW phase,
         sweep' = [sweep EXCEPT ![s].phase = phase]
  PROVE  sweep' = [sweep EXCEPT ![s] = MovedTo(s, phase, sweep[s].batch)]
<1>1. sweep \in [Sweepers -> SweepRow(outbox)]
  BY InvariantHasParts DEF SweepsAreTyped
<1>2. [sweep[s] EXCEPT !.phase = phase] = MovedTo(s, phase, sweep[s].batch)
  BY <1>1 DEF SweepRow, MovedTo
<1> QED BY <1>1, <1>2

\* A refusal changes nothing but the sweep.
LEMMA RejectKeeps ==
  ASSUME IInv, NEW s \in Sweepers, Reject(s)
  PROVE  IInv'
<1> DEFINE r == MovedTo(s, "REJECTED", sweep[s].batch)
<1>1. sweep' = [sweep EXCEPT ![s] = r]
  BY PhaseAlone DEF Reject
<1>2. /\ r \in SweepRow(outbox) /\ r.phase = "REJECTED" /\ r.batch = sweep[s].batch
      /\ Cardinality(r.batch) <= BatchLimit /\ \A j \in r.lost : job[j] # "ABSENT"
  BY PhaseMoves DEF Phases
<1> HIDE DEF r
<1>3. Known(r, outbox, sent, job)
  BY <1>2 DEF Known, IInv, SweepsKnowTheirEntry, Reject
<1>4. budget' = budget \/ Spend("troubles")
  BY DEF Reject
<1>5. UNCHANGED <<job, outbox, bus, sent, woken>>
  BY DEF Reject, entries, dispatch
<1> QED BY <1>1, <1>2, <1>3, <1>4, <1>5, OnlySweepMoves

\* The bus takes an entry whose attempt is on record.
LEMMA AcceptKeeps ==
  ASSUME IInv, NEW s \in Sweepers, Accept(s)
  PROVE  IInv'
<1>i. DispatchIsTyped /\ PublicationsAreHonest /\ Known(sweep[s], outbox, sent, job)
  BY InvariantHasParts DEF IInv, SweepsKnowTheirEntry
<1>a. UNCHANGED <<job, outbox, woken, budget>> /\ bus' = bus \cup {Due(s)} /\ sent' = sent \cup {Due(s)}
  BY DEF Accept, entries
<1> DEFINE r == MovedTo(s, "ACCEPTED", sweep[s].batch)
<1>1. sweep' = [sweep EXCEPT ![s] = r]
  BY PhaseAlone DEF Accept
<1>2. /\ r \in SweepRow(outbox) /\ r.phase = "ACCEPTED" /\ r.batch = sweep[s].batch
      /\ Cardinality(r.batch) <= BatchLimit /\ \A j \in r.lost : job[j] # "ABSENT"
  BY PhaseMoves DEF Phases
<1> HIDE DEF r
<1>3. sweep[s].batch # {} /\ outbox[Due(s)].attempted
  BY <1>i DEF Known, Accept, Due
<1>4. Due(s) \in DOMAIN outbox
  BY <1>3, DueIsInBatch
<1>5. GoesOn /\ outbox' \in Seq(Entry) /\ EntriesAreFew'
  BY <1>a, RowsRest, FewRest DEF GoesOn
<1>6. Known(r, outbox', sent', job')
  BY <1>a, <1>2, <1>3 DEF Known, Due
<1>7. SweepsAreTyped' /\ SweepsKnowTheirEntry'
  BY <1>a, <1>1, <1>2, <1>5, <1>6, OneSweepMoves
<1>8. DispatchIsTyped'
  BY <1>i, <1>a, <1>4 DEF DispatchIsTyped
<1>9. PublicationsAreHonest'
  BY <1>i, <1>a, <1>3 DEF PublicationsAreHonest
<1> QED BY <1>5, <1>7, <1>8, <1>9, PartsMakeNext

\* The attempt is recorded, in the row only.
LEMMA AttemptKeeps ==
  ASSUME IInv, NEW s \in Sweepers, Attempt(s)
  PROVE  IInv'
<1>i. DispatchIsTyped /\ PublicationsAreHonest /\ Known(sweep[s], outbox, sent, job)
  BY InvariantHasParts DEF IInv, SweepsKnowTheirEntry
<1>a. UNCHANGED <<job, bus, sent, woken, budget>>
  BY DEF Attempt, dispatch
<1>1. sweep[s].batch # {}
  BY <1>i DEF Known, Attempt, At
<1>2. Due(s) \in DOMAIN outbox
  BY <1>1, DueIsInBatch
<1> DEFINE e == Due(s)
           row == [outbox[e] EXCEPT !.attempted = TRUE]
<1>3. outbox' = [outbox EXCEPT ![e] = row]
  BY DEF Attempt
<1>4. /\ row \in Entry /\ row.job = outbox[e].job /\ row.attempted = TRUE
      /\ row.published = outbox[e].published
  <2>1. outbox[e] \in Entry
    BY <1>2, InvariantHasParts
  <2> QED BY <2>1 DEF Entry
<1> HIDE DEF row
<1>5. /\ GoesOn /\ EntriesAreFew' /\ DOMAIN outbox' = DOMAIN outbox
      /\ \A f \in DOMAIN outbox : outbox'[f] = IF f = e THEN row ELSE outbox[f]
  BY <1>a, <1>2, <1>3, <1>4, RowIsRewritten
<1> DEFINE r == MovedTo(s, "PUBLISHING", sweep[s].batch)
<1>6. sweep' = [sweep EXCEPT ![s] = r]
  BY PhaseAlone DEF Attempt
<1>7. /\ r \in SweepRow(outbox) /\ r.phase = "PUBLISHING" /\ r.batch = sweep[s].batch
      /\ Cardinality(r.batch) <= BatchLimit /\ \A j \in r.lost : job[j] # "ABSENT"
  BY PhaseMoves DEF Phases
<1> HIDE DEF r
<1>8. Known(r, outbox', sent', job')
  <2>1. Min(r.batch) = e
    BY <1>7 DEF Due
  <2>2. outbox'[e].attempted
    BY <1>2, <1>4, <1>5
  <2> HIDE DEF e
  <2> QED BY <1>a, <1>1, <1>7, <2>1, <2>2 DEF Known
<1>9. SweepsAreTyped' /\ SweepsKnowTheirEntry'
  <2>1. r \in SweepRow(outbox')
    BY <1>5, <1>7 DEF SweepRow
  <2> QED BY <2>1, <1>5, <1>6, <1>7, <1>8, OneSweepMoves
<1>10. DispatchIsTyped'
  BY <1>i, <1>a, <1>5 DEF DispatchIsTyped
<1>11. PublicationsAreHonest'
  BY <1>i, <1>a, <1>4, <1>5 DEF PublicationsAreHonest, DispatchIsTyped
<1> QED BY <1>5, <1>9, <1>10, <1>11, PartsMakeNext DEF GoesOn

\* An entry is marked only by a sweep whose call the bus has answered.
LEMMA SaveKeeps ==
  ASSUME IInv, NEW s \in Sweepers, Save(s)
  PROVE  IInv'
<1>i. DispatchIsTyped /\ PublicationsAreHonest /\ Known(sweep[s], outbox, sent, job)
  BY InvariantHasParts DEF IInv, SweepsKnowTheirEntry
<1>a. UNCHANGED <<job, bus, sent, woken, budget>>
  BY DEF Save, dispatch
<1>1. sweep[s].batch # {} /\ sweep[s].phase \in {"ACCEPTED", "REJECTED"}
  BY <1>i DEF Known, Save, At
<1>2. Due(s) \in DOMAIN outbox
  BY <1>1, DueIsInBatch
<1> DEFINE e == Due(s)
           row == [outbox[e] EXCEPT !.published = TRUE]
<1>3. /\ GoesOn /\ EntriesAreFew' /\ DOMAIN outbox' = DOMAIN outbox /\ PublicationsAreHonest'
  <2>1. CASE sweep[s].phase = "ACCEPTED"
    <3>1. outbox' = [outbox EXCEPT ![e] = row]
      BY <2>1 DEF Save, Marked
    <3>2. row \in Entry /\ row.job = outbox[e].job /\ row.attempted = outbox[e].attempted
      <4>1. outbox[e] \in Entry
        BY <1>2, InvariantHasParts
      <4> QED BY <4>1 DEF Entry
    <3> HIDE DEF row
    <3>3. /\ GoesOn /\ EntriesAreFew' /\ DOMAIN outbox' = DOMAIN outbox
          /\ \A f \in DOMAIN outbox : outbox'[f] = IF f = e THEN row ELSE outbox[f]
      BY <1>a, <1>2, <3>1, <3>2, RowIsRewritten
    <3>4. e \in sent
      BY <1>i, <2>1 DEF Known, Due
    <3>5. PublicationsAreHonest'
      BY <1>i, <1>a, <3>2, <3>3, <3>4 DEF PublicationsAreHonest, DispatchIsTyped
    <3> QED BY <3>3, <3>5
  <2>2. CASE sweep[s].phase # "ACCEPTED"
    <3>1. outbox' = outbox
      BY <2>2 DEF Save, Marked
    <3> QED BY <1>a, <1>i, <3>1, RowsRest, FewRest DEF PublicationsAreHonest
  <2> QED BY <2>1, <2>2
<1>4. PICK r \in SweepRow(outbox) :
        /\ sweep' = [sweep EXCEPT ![s] = r]
        /\ Cardinality(r.batch) <= BatchLimit /\ r.phase # "SELECTED" /\ Known(r, outbox', sent', job')
  <2>1. CASE Remaining(s) = {}
    <3>1. sweep' = [sweep EXCEPT ![s] = Resting]
      BY <2>1 DEF Save
    <3>2. /\ Resting \in SweepRow(outbox) /\ Cardinality(Resting.batch) <= BatchLimit
          /\ Resting.phase # "SELECTED" /\ Known(Resting, outbox', sent', job')
      BY EmptyHands DEF Resting
    <3> QED BY <3>1, <3>2
  <2>2. CASE Remaining(s) # {}
    <3> DEFINE r == MovedTo(s, "NEXT", Remaining(s))
    <3>1. sweep' = [sweep EXCEPT ![s] = r]
      BY <2>2 DEF Save, MovedTo
    <3>2. /\ r \in SweepRow(outbox) /\ r.phase = "NEXT" /\ r.batch = Remaining(s)
          /\ Cardinality(r.batch) <= BatchLimit /\ \A j \in r.lost : job[j] # "ABSENT"
      BY PhaseMoves DEF Phases, Remaining
    <3> HIDE DEF r
    <3>3. Known(r, outbox', sent', job')
      BY <1>a, <2>2, <3>2 DEF Known
    <3> QED BY <3>1, <3>2, <3>3
  <2> QED BY <2>1, <2>2
<1>5. SweepsAreTyped' /\ SweepsKnowTheirEntry'
  <2>1. r \in SweepRow(outbox')
    BY <1>3 DEF SweepRow
  <2> QED BY <2>1, <1>3, <1>4, OneSweepMoves
<1>6. DispatchIsTyped'
  BY <1>i, <1>a, <1>3 DEF DispatchIsTyped
<1> QED BY <1>3, <1>5, <1>6, PartsMakeNext DEF GoesOn

-----------------------------------------------------------------------------
(* Wakeups *)

\* The wakeups are one fresh entry for each of some jobs that have room.
LEMMA WakeupsAreFresh ==
  ASSUME NEW s \in Sweepers, sweep[s].lost \in SUBSET Jobs
  PROVE  /\ Wakeups(s) \in Seq(Entry) /\ Len(Wakeups(s)) \in Nat
         /\ \A k \in 1..Len(Wakeups(s)) : \E j \in sweep[s].lost :
              Wakeups(s)[k] = Queued(j) /\ Cardinality(EntriesOf(j)) < MaxEntries
         /\ \A k, l \in 1..Len(Wakeups(s)) : Wakeups(s)[k].job = Wakeups(s)[l].job => k = l
<1> DEFINE room == {j \in sweep[s].lost : Cardinality(EntriesOf(j)) < MaxEntries}
           fresh == {Queued(j) : j \in room}
           list == SetToSeq(fresh)
<1>1. IsFiniteSet(room)
  BY FS_Subset, OutboxAssumption
<1>2. IsFiniteSet(fresh)
  <2> DEFINE f == [j \in room |-> Queued(j)]
  <2>1. f \in Surjection(room, fresh)
    BY DEF Surjection
  <2> QED BY <1>1, <2>1, FS_Surjection
<1>3. list = Wakeups(s)
  BY DEF Wakeups
<1>4. \A r \in fresh : r \in Entry /\ \E j \in room : r = Queued(j) /\ r.job = j
  <2>1. \A j \in Jobs : Queued(j) \in Entry /\ Queued(j).job = j
    BY DEF Queued, Entry
  <2> QED BY <2>1
<1>5. /\ list \in Seq(fresh) /\ Len(list) \in Nat /\ DOMAIN list = 1..Len(list)
      /\ \A k, l \in DOMAIN list : list[k] = list[l] => k = l
  BY <1>2, SetToSeqLists
<1> HIDE DEF list, fresh
<1>6. list \in Seq(Entry)
  BY <1>4, <1>5, SeqMonotonic
<1>7. \A k \in 1..Len(list) : list[k] \in fresh
  BY <1>5, ElementOfSeq
<1>8. \A k, l \in 1..Len(list) : list[k].job = list[l].job => k = l
  BY <1>4, <1>5, <1>7
<1> QED BY <1>3, <1>4, <1>5, <1>6, <1>7, <1>8

\* Wakeups keep the entries of a job few.
LEMMA WakeupsAreFew ==
  ASSUME IInv, NEW s \in Sweepers, outbox' = outbox \o Wakeups(s), job' = job
  PROVE  /\ outbox' \in Seq(Entry) /\ DOMAIN outbox \subseteq DOMAIN outbox'
         /\ \A e \in DOMAIN outbox : outbox'[e] = outbox[e]
         /\ \A e \in DOMAIN outbox' \ DOMAIN outbox : ~outbox'[e].published
         /\ EntriesAreFew'
<1> DEFINE more == Wakeups(s)
           n == Len(outbox)
<1>i. /\ outbox \in Seq(Entry) /\ n \in Nat /\ DOMAIN outbox = 1..n
      /\ sweep[s].lost \in SUBSET Jobs /\ \A j \in sweep[s].lost : job[j] # "ABSENT"
      /\ \A j \in Jobs : job[j] = "ABSENT" => EntriesOf(j) = {}
      /\ \A j \in Jobs : Cardinality(EntriesOf(j)) <= MaxEntries
  BY InvariantHasParts DEF SweepsAreTyped, SweepRow, IInv, SweepsKnowTheirEntry, Known, EntriesAreFew
<1>w. /\ more \in Seq(Entry) /\ Len(more) \in Nat
      /\ \A k \in 1..Len(more) : \E j \in sweep[s].lost :
           more[k] = Queued(j) /\ Cardinality(EntriesOf(j)) < MaxEntries
      /\ \A k, l \in 1..Len(more) : more[k].job = more[l].job => k = l
  BY <1>i, WakeupsAreFresh
<1>q. \A j : Queued(j).job = j /\ ~Queued(j).published
  BY DEF Queued
<1> HIDE DEF more
<1>1. /\ outbox' \in Seq(Entry) /\ Len(outbox') = n + Len(more)
      /\ \A e \in 1..(n + Len(more)) : outbox'[e] = IF e <= n THEN outbox[e] ELSE more[e - n]
  BY <1>i, <1>w, ConcatProperties DEF more
<1>2. DOMAIN outbox' = 1..(n + Len(more))
  BY <1>1, RowsAreEntries
<1> HIDE DEF n
<1>3. \A e \in DOMAIN outbox : e \in DOMAIN outbox' /\ outbox'[e] = outbox[e]
  BY <1>i, <1>w, <1>1, <1>2
<1>4. ASSUME NEW e \in DOMAIN outbox' \ DOMAIN outbox
      PROVE  /\ e - n \in 1..Len(more) /\ outbox'[e] = more[e - n]
             /\ \E j \in sweep[s].lost :
                  more[e - n] = Queued(j) /\ Cardinality(EntriesOf(j)) < MaxEntries
  <2>1. e - n \in 1..Len(more) /\ outbox'[e] = more[e - n]
    BY <1>i, <1>w, <1>1, <1>2
  <2> QED BY <1>w, <2>1
<1>5. ASSUME NEW j \in Jobs
      PROVE  /\ job[j] = "ABSENT" => EntriesOf(j)' = {}
             /\ Cardinality(EntriesOf(j)') <= MaxEntries
  <2>1. CASE \E e \in DOMAIN outbox' \ DOMAIN outbox : outbox'[e].job = j
    <3>1. PICK e \in DOMAIN outbox' \ DOMAIN outbox : outbox'[e].job = j
      BY <2>1
    <3>2. j \in sweep[s].lost /\ Cardinality(EntriesOf(j)) < MaxEntries
      BY <1>4, <1>q, <3>1
    <3>3. ASSUME NEW f \in DOMAIN outbox' \ DOMAIN outbox, outbox'[f].job = j
          PROVE  f = e
      <4>1. /\ e - n \in 1..Len(more) /\ f - n \in 1..Len(more)
            /\ outbox'[e] = more[e - n] /\ outbox'[f] = more[f - n]
        BY <1>4
      <4>2. e - n = f - n
        BY <1>w, <3>1, <3>3, <4>1
      <4>3. e \in Int /\ f \in Int /\ n \in Int
        BY <1>2, <1>i
      <4> QED BY <4>2, <4>3
    <3>4. EntriesOf(j)' = EntriesOf(j) \cup {e}
      BY <1>3, <3>1, <3>3 DEF EntriesOf
    <3>5. IsFiniteSet(EntriesOf(j)) /\ Cardinality(EntriesOf(j)) \in Nat
      <4>1. IsFiniteSet(DOMAIN outbox)
        BY <1>i, RowsAreEntries
      <4> QED BY <4>1, FS_Subset, FS_CardinalityType DEF EntriesOf
    <3>6. Cardinality(EntriesOf(j) \cup {e}) <= Cardinality(EntriesOf(j)) + 1
      <4>1. e \notin EntriesOf(j)
        BY DEF EntriesOf
      <4>2. Cardinality(EntriesOf(j) \cup {e}) = Cardinality(EntriesOf(j)) + 1
        BY <3>5, <4>1, FS_AddElement
      <4> QED BY <3>5, <4>2
    <3>7. Cardinality(EntriesOf(j) \cup {e}) \in Nat
      BY <3>5, FS_AddElement, FS_CardinalityType
    <3> QED BY <1>i, <3>2, <3>4, <3>5, <3>6, <3>7, OutboxAssumption
  <2>2. CASE ~\E e \in DOMAIN outbox' \ DOMAIN outbox : outbox'[e].job = j
    <3>1. EntriesOf(j)' = EntriesOf(j)
      BY <1>3, <2>2 DEF EntriesOf
    <3> QED BY <1>i, <3>1
  <2> QED BY <2>1, <2>2
<1>6. EntriesAreFew'
  BY <1>5 DEF EntriesAreFew
<1>7. \A e \in DOMAIN outbox' \ DOMAIN outbox : ~outbox'[e].published
  BY <1>4, <1>q
<1> QED BY <1>1, <1>3, <1>6, <1>7

\* A batch is within the limit, and nothing in it is locked by another sweep.
LEMMA BatchIsOwn ==
  ASSUME NEW s \in Sweepers, NEW rows \in Seq(Entry)
  PROVE  /\ Batch(s, rows) \in SUBSET DOMAIN rows
         /\ Cardinality(Batch(s, rows)) <= BatchLimit
         /\ Batch(s, rows) \cap Locked(s) = {}
<1>1. Unpublished(s, rows) \in SUBSET DOMAIN rows /\ Unpublished(s, rows) \cap Locked(s) = {}
  BY DEF Unpublished
<1>2. DOMAIN rows \subseteq Nat /\ IsFiniteSet(DOMAIN rows)
  BY RowsAreEntries
<1>3. Unpublished(s, rows) \in SUBSET Nat /\ IsFiniteSet(Unpublished(s, rows))
  BY <1>1, <1>2, FS_Subset
<1>4. Cardinality(Batch(s, rows)) <= BatchLimit
  BY <1>3, FirstAreFew, OutboxAssumption DEF Batch
<1> QED BY <1>1, <1>4 DEF Batch

\* The wakeups are committed and a batch is taken.
LEMMA SelectKeeps ==
  ASSUME IInv, NEW s \in Sweepers, Select(s)
  PROVE  IInv'
<1>i. DispatchIsTyped /\ PublicationsAreHonest
  BY InvariantHasParts DEF IInv
<1>a. UNCHANGED <<job, bus, sent, woken, budget>> /\ outbox' = outbox \o Wakeups(s)
  BY DEF Select, dispatch
<1>1. /\ outbox' \in Seq(Entry) /\ DOMAIN outbox \subseteq DOMAIN outbox'
      /\ \A e \in DOMAIN outbox : outbox'[e] = outbox[e]
      /\ \A e \in DOMAIN outbox' \ DOMAIN outbox : ~outbox'[e].published
      /\ EntriesAreFew'
  BY <1>a, WakeupsAreFew
<1>2. GoesOn
  BY <1>a, <1>1 DEF GoesOn
<1>3. PICK r \in SweepRow(outbox') :
        /\ sweep' = [sweep EXCEPT ![s] = r]
        /\ Cardinality(r.batch) <= BatchLimit
        /\ r.phase = "SELECTED" => r.batch \cap Locked(s) = {}
        /\ Known(r, outbox', sent', job')
  <2>1. CASE Batch(s, outbox') = {}
    <3>1. sweep' = [sweep EXCEPT ![s] = Resting]
      BY <2>1 DEF Select
    <3>2. /\ Resting \in SweepRow(outbox') /\ Cardinality(Resting.batch) <= BatchLimit
          /\ Resting.phase # "SELECTED" /\ Known(Resting, outbox', sent', job')
      BY EmptyHands DEF Resting
    <3> QED BY <3>1, <3>2
  <2>2. CASE Batch(s, outbox') # {}
    <3> DEFINE batch == Batch(s, outbox')
               r == [phase |-> "SELECTED", lost |-> {}, batch |-> batch]
    <3>1. sweep' = [sweep EXCEPT ![s] = r]
      BY <2>2 DEF Select
    <3>2. /\ batch \in SUBSET DOMAIN outbox' /\ Cardinality(batch) <= BatchLimit
          /\ batch \cap Locked(s) = {}
      BY <1>1, BatchIsOwn
    <3> HIDE DEF batch
    <3>3. r \in SweepRow(outbox') /\ r.batch = batch /\ r.phase = "SELECTED" /\ r.lost = {}
      BY <3>2 DEF SweepRow, Phases
    <3>4. Known(r, outbox', sent', job')
      BY <2>2, <3>3 DEF Known, batch
    <3> HIDE DEF r
    <3> QED BY <3>1, <3>2, <3>3, <3>4
  <2> QED BY <2>1, <2>2
<1>4. SweepsAreTyped' /\ SweepsKnowTheirEntry'
  BY <1>2, <1>3, OneSweepMoves
<1>5. DispatchIsTyped'
  BY <1>i, <1>a, <1>1 DEF DispatchIsTyped
<1>6. PublicationsAreHonest'
  BY <1>i, <1>a, <1>1 DEF PublicationsAreHonest, DispatchIsTyped
<1> QED BY <1>1, <1>4, <1>5, <1>6, PartsMakeNext

-----------------------------------------------------------------------------
(* The bus *)

\* A loss and a delivery take an entry from the bus, and change no row.
LEMMA BusKeeps ==
  ASSUME IInv, NEW e, Lose(e) \/ Deliver(e)
  PROVE  IInv'
<1>i. /\ DispatchIsTyped /\ PublicationsAreHonest
      /\ \A f \in DOMAIN outbox : outbox[f] \in Entry
  BY InvariantHasParts DEF IInv
<1>a. UNCHANGED <<job, outbox, sweep, sent>> /\ bus' = bus \ {e} /\ e \in bus
  BY DEF Lose, Deliver, entries
<1>1. GoesOn /\ EntriesAreFew'
  BY <1>a, RowsRest, FewRest
<1>2. SweepsAreTyped' /\ SweepsKnowTheirEntry'
  BY <1>a, <1>1, SweepsRest
<1>3. DispatchIsTyped'
  <2>1. CASE Lose(e)
    <3>1. budget' \in [retries : 0..MaxRetries, troubles : 0..MaxTroubles]
      BY <1>i, <2>1, SpendingIsTyped DEF Lose
    <3> QED BY <1>i, <1>a, <2>1, <3>1 DEF DispatchIsTyped, Lose
  <2>2. CASE Deliver(e)
    <3>1. outbox[e].job \in Jobs
      BY <1>i, <1>a DEF DispatchIsTyped, Entry
    <3> QED BY <1>i, <1>a, <2>2, <3>1 DEF DispatchIsTyped, Deliver
  <2> QED BY <2>1, <2>2
<1>4. PublicationsAreHonest'
  BY <1>i, <1>a DEF PublicationsAreHonest
<1> QED BY <1>1, <1>2, <1>3, <1>4, PartsMakeNext DEF GoesOn

-----------------------------------------------------------------------------
(* Theorems *)

\* The invariant holds at the start.
LEMMA InitIInv ==
  ASSUME Init
  PROVE  IInv
<1>1. outbox \in Seq(Entry) /\ DOMAIN outbox = {}
  BY EmptySeq, RowsAreEntries DEF Init
<1>2. \A s \in Sweepers : /\ sweep[s] \in SweepRow(outbox) /\ Cardinality(sweep[s].batch) <= BatchLimit
                          /\ sweep[s].phase # "SELECTED" /\ Known(sweep[s], outbox, sent, job)
  BY EmptyHands DEF Init, Resting
<1>3. SweepsAreTyped /\ SweepsKnowTheirEntry
  BY <1>2 DEF Init, SweepsAreTyped, SweepsKnowTheirEntry
<1>4. DispatchIsTyped
  BY OutboxAssumption DEF Init, DispatchIsTyped
<1>5. EntriesAreFew
  BY <1>1, FS_EmptySet, OutboxAssumption DEF EntriesAreFew, EntriesOf
<1>6. PublicationsAreHonest
  BY <1>1 DEF PublicationsAreHonest, Init
<1> QED BY <1>1, <1>3, <1>4, <1>5, <1>6, PartsMakeInvariant

\* Every step keeps it.
LEMMA NextIInv ==
  ASSUME IInv, [Next]_vars
  PROVE  IInv'
<1>1. CASE UNCHANGED vars
  <2>1. UNCHANGED <<job, outbox, sweep, bus, sent, woken, budget>>
    BY <1>1 DEF vars, entries, dispatch
  <2>2. GoesOn /\ EntriesAreFew'
    BY <2>1, RowsRest, FewRest
  <2>3. DispatchIsTyped' /\ PublicationsAreHonest'
    BY <2>1, InvariantHasParts DEF DispatchIsTyped, PublicationsAreHonest, IInv
  <2> QED BY <2>1, <2>2, <2>3, SweepsRest, PartsMakeNext DEF GoesOn
<1>2. CASE Next
  BY <1>2, EnqueueKeeps, ClaimsKeep, AgeKeeps, BusKeeps, DiscoverKeeps, SelectKeeps, AttemptKeeps,
     AcceptKeeps, RejectKeeps, SaveKeeps, SweepCrashKeeps DEF Next, SweepStep
<1> QED BY <1>1, <1>2

\* IInv is an invariant.
LEMMA Invariance == Spec => []IInv
<1>1. Init => IInv
  BY InitIInv
<1>2. IInv /\ [Next]_vars => IInv'
  BY NextIInv
<1> QED BY <1>1, <1>2, PTL DEF Spec

\* Every reachable state is well typed: for any number of sweeps, no batch is above the limit,
\* two batches that are locked share no row, what is in flight is in the outbox, and the jobs'
\* entries are as few as the bound says.
THEOREM OutboxTypes == Spec => []TypeOK
<1>1. IInv => TypeOK
  BY DEF IInv
<1> QED BY <1>1, Invariance, PTL

\* An entry marked published was accepted by the bus, and what the bus accepted has its attempt
\* on record, for any number of overlapping sweeps that crash or are refused at any point.
THEOREM PublishedWasSent == Spec => []PublicationsAreHonest
<1>1. IInv => PublicationsAreHonest
  BY DEF IInv
<1> QED BY <1>1, Invariance, PTL

=============================================================================
