--------------------------- MODULE PaymentsProofs ---------------------------
(***************************************************************************)
(* Safety of Payments for every number of open transactions, attempts,     *)
(* links, webhooks and crashes, and for every set of payloads.             *)
(*                                                                         *)
(* A webhook job and a sweep commit what they computed from earlier reads, *)
(* over whatever is there by then. That is harmless for these properties   *)
(* because of what they hold and what they found: a webhook they lock is   *)
(* in no other transaction, so that an observation they insert is not      *)
(* there at their commit either; and events are real, so that a stale      *)
(* verdict PAID still rests on money, or is the one a replay took from the *)
(* name of an event. The links of an attempt are counted against the job   *)
(* that is to make one.                                                    *)
(***************************************************************************)
EXTENDS Payments, FiniteSetTheorems, SequenceTheorems, TLAPS

\* The provider's links of an attempt.
LinksOf(n) == {l \in DOMAIN links : links[l].attempt = n}

\* The provider has collected a link; this link.
Money == \E l \in DOMAIN links : links[l].state = "paid"
Collected(l) == l \in DOMAIN links /\ links[l].state = "paid"

\* Every link was made for an attempt that is there.
LinksAreOwned == \A l \in DOMAIN links : links[l].attempt \in DOMAIN attempts

\* An event tells of a link that is there; it reports a capture, and a row does, only of money.
EventsAreReal ==
  \A i \in DOMAIN inbox :
    /\ inbox[i].event.link \in DOMAIN links
    /\ inbox[i].event.pay = "captured" => Collected(inbox[i].event.link)
CapturesAreReal == \A l \in 1..MaxLinks : captured[l] = TRUE => Collected(l)

\* An attempt whose job is still to make its link has none but those of crashes.
CreatesAreOwed ==
  \A n \in Nat : <<"create", n>> \in jobs => Cardinality(LinksOf(n)) <= crashes

\* Webhook i is observed, or is about to be by a transaction that wrote own.
Seen(own, i) == own.inserted[i] # None \/ observations[i] # <<>>

\* What an open transaction wrote: a status that only money or a name made PAID; captures
\* that are real; an observation where there is none, of a webhook it holds; a new state of
\* one that is there; and it is done with webhooks only that are observed.
Statuses == {"PAID", "EXPIRED", "CANCELLED", "REVIEW_REQUIRED"}
WritesAreSound(own, locked) ==
  /\ own \in Writes
  /\ own.payment \in Statuses \cup {None}
  /\ own.payment = "PAID" => own.onName \/ Money
  /\ \A l \in 1..MaxLinks : own.captured[l] = TRUE => Collected(l)
  /\ \A i \in Webhooks :
       /\ own.inserted[i] # None => i \in locked /\ observations[i] = <<>>
       /\ own.replayed[i] # None => observations[i] # <<>>
       /\ own.inbox[i] # None => Seen(own, i)

\* It works on webhooks that it holds; a replay on those that are observed.
IsSound(t) ==
  /\ t \in Transaction
  /\ t.todo \subseteq t.locked /\ t.locked \subseteq DOMAIN inbox
  /\ WritesAreSound(t.own, t.locked)
  /\ t.stage = "replay" => \A i \in t.todo : Seen(t.own, i)

TransactionsAreSound == \A t \in txn : IsSound(t)

\* Row locks: two open transactions hold different webhooks.
LocksAreApart == \A s, t \in txn : s # t => s.locked \cap t.locked = {}

\* What was not received was not observed.
ObservedAreReceived == \A i \in Webhooks : observations[i] # <<>> => i \in DOMAIN inbox

IInv ==
  /\ TypeOK
  /\ LinksAreOwned
  /\ EventsAreReal
  /\ CapturesAreReal
  /\ CreatesAreOwed
  /\ TransactionsAreSound
  /\ LocksAreApart
  /\ ObservedAreReceived
  /\ PaidIsCollected
  /\ LinksAreAccountedFor
  /\ EventsAreObservedOnce

-----------------------------------------------------------------------------
(* Sequences *)

\* Writing one row leaves the others and the number of rows.
LEMMA RowIsWritten ==
  ASSUME NEW R, NEW s \in Seq(R), NEW i \in DOMAIN s, NEW r \in R
  PROVE  /\ [s EXCEPT ![i] = r] \in Seq(R)
         /\ Len([s EXCEPT ![i] = r]) = Len(s)
         /\ DOMAIN [s EXCEPT ![i] = r] = DOMAIN s
         /\ \A k \in DOMAIN s : [s EXCEPT ![i] = r][k] = IF k = i THEN r ELSE s[k]
BY ExceptSeq

\* So does adding one.
LEMMA RowIsAdded ==
  ASSUME NEW R, NEW s \in Seq(R), NEW r \in R
  PROVE  /\ Append(s, r) \in Seq(R)
         /\ Len(s) \in Nat /\ DOMAIN s = 1..Len(s)
         /\ Len(Append(s, r)) = Len(s) + 1
         /\ DOMAIN Append(s, r) = DOMAIN s \cup {Len(s) + 1}
         /\ Len(s) + 1 \notin DOMAIN s
         /\ \A k \in DOMAIN s : Append(s, r)[k] = s[k]
         /\ Append(s, r)[Len(s) + 1] = r
BY AppendProperties, LenProperties

\* The rows of a table.
LEMMA RowsAreTyped ==
  ASSUME NEW R, NEW s \in Seq(R)
  PROVE  /\ Len(s) \in Nat /\ DOMAIN s = 1..Len(s)
         /\ \A k \in DOMAIN s : k \in Nat /\ k # 0 /\ s[k] \in R
BY LenProperties

\* A function on the rows of a table is a table.
LEMMA TableIsRewritten ==
  ASSUME NEW R, NEW Q, NEW s \in Seq(Q), NEW f \in [DOMAIN s -> R]
  PROVE  f \in Seq(R) /\ Len(f) = Len(s) /\ DOMAIN f = DOMAIN s
<1>1. Len(s) \in Nat /\ DOMAIN s = 1..Len(s)
  BY RowsAreTyped
<1>2. f \in Seq(R)
  BY <1>1, SeqDef
<1>3. DOMAIN f = 1..Len(f) /\ Len(f) \in Nat
  BY <1>2, RowsAreTyped
<1> QED BY <1>1, <1>2, <1>3

\* The rows of one webhook: those that are there, and one more.
LEMMA RowsOfOne ==
  ASSUME NEW R, NEW s \in Seq(R), NEW r
  PROVE  /\ s \o Row(None) = s
         /\ r \in R /\ r # None => /\ s \o Row(r) \in Seq(R) /\ s \o Row(r) # <<>>
                                   /\ s = <<>> => Len(s \o Row(r)) = 1
         /\ s = <<>> \/ Len(s) >= 1
<1>1. s \o Row(None) = s
  BY ConcatEmptySeq DEF Row
<1>2. ASSUME r \in R, r # None
      PROVE  /\ s \o Row(r) \in Seq(R) /\ s \o Row(r) # <<>>
             /\ s = <<>> => Len(s \o Row(r)) = 1
  <2>1. Row(r) = <<r>> /\ <<r>> \in Seq(R) /\ Len(<<r>>) = 1
    BY <1>2 DEF Row
  <2>2. s \o <<r>> \in Seq(R) /\ Len(s \o <<r>>) = Len(s) + 1 /\ Len(s) \in Nat
    BY <2>1, ConcatProperties, LenProperties
  <2>3. Len(<<>>) = 0
    OBVIOUS
  <2> QED BY <2>1, <2>2, <2>3
<1>3. s = <<>> \/ Len(s) >= 1
  BY EmptySeq, LenProperties
<1> QED BY <1>1, <1>2, <1>3

-----------------------------------------------------------------------------
(* The pure parts of service.py *)

\* The attempt that is found for a link is a row.
LEMMA AttemptIsFound ==
  ASSUME NEW atts, NEW l, AttemptOf(atts, l) # 0
  PROVE  /\ AttemptOf(atts, l) \in DOMAIN atts
         /\ atts[AttemptOf(atts, l)].link = l
BY DEF AttemptOf

\* A transition stays among the states of a request, never makes up a payment and never takes
\* one back.
LEMMA TransitionIsHonest ==
  ASSUME NEW p \in PaymentStatus, NEW target \in PaymentStatus
  PROVE  /\ Transition(p, target) \in PaymentStatus
         /\ Transition(p, target) \in {p, target}
         /\ p = "PAID" /\ target # "REVERSED" => Transition(p, target) = "PAID"
BY DEF Transition, Frozen

Verdicts == Statuses \cup {"NONE"}

\* PAID is asked for only when the payment is verified as captured.
LEMMA VerdictIsEarned ==
  ASSUME NEW e \in Event, NEW verified \in BOOLEAN, NEW order
  PROVE  /\ Verdict(e, verified, order) \in Verdicts
         /\ Verdict(e, verified, order) = "PAID" => verified
BY DEF Verdict, Verdicts, Statuses, Event, EventKinds

\* A replay asks for PAID by the name of an event that has a payment.
LEMMA ReplayAsks ==
  ASSUME NEW e, NEW order
  PROVE  ReplayVerdict(e, order) \in Verdicts
BY DEF ReplayVerdict, Verdicts, Statuses

\* What a verdict makes of the request: PAID stays, and a status that a transaction wrote is
\* kept or becomes PAID.
LEMMA MoveIsHonest ==
  ASSUME NEW p \in PaymentStatus, NEW v \in Verdicts
  PROVE  /\ Moved(p, v) \in PaymentStatus
         /\ Moved(p, v) \in {p, v}
         /\ p = "PAID" => Moved(p, v) = "PAID"
         /\ p \in Statuses => Moved(p, v) \in {p, "PAID"}
BY DEF Moved, Transition, Frozen, Refused, Allowed, Verdicts, Statuses, PaymentStatus

\* Of the attempt it makes a row.
LEMMA MarkIsTyped ==
  ASSUME NEW a \in AttemptRow, NEW e \in Event, NEW v \in Verdicts
  PROVE  /\ MarkedStatus(a, v) \in AttemptStatus /\ MarkedOrder(a, e) \in Nat \cup {None}
         /\ ReplayStatus(a, v) \in AttemptStatus /\ ReplayOrder(a, e) \in Nat \cup {None}
BY DEF MarkedStatus, MarkedOrder, ReplayStatus, ReplayOrder, OrderOf, AttemptRow, AttemptStatus,
   Verdicts, Statuses, Event

-----------------------------------------------------------------------------
(* What the invariant says of rows *)

\* Types of the tables, and the ranges that the indices of a transaction's writes have.
LEMMA TablesAreTyped ==
  ASSUME IInv
  PROVE  /\ payment \in PaymentStatus
         /\ attempts \in Seq(AttemptRow) /\ DOMAIN attempts \subseteq 1..MaxLinkAttempts
         /\ inbox \in Seq(IngressRow) /\ DOMAIN inbox \subseteq Webhooks
         /\ links \in Seq(ProviderLink) /\ DOMAIN links \subseteq 1..MaxLinks
         /\ captured \in [1..MaxLinks -> BOOLEAN \cup {None}]
         /\ observations \in [Webhooks -> Seq(ObservationState)]
         /\ jobs \subseteq {"create", "normalize"} \X Nat
         /\ txn \subseteq Transaction
         /\ crashes \in Nat /\ onName \in BOOLEAN
         /\ None \notin BOOLEAN /\ None # "PAID"
<1>1. /\ payment \in PaymentStatus
      /\ attempts \in Seq(AttemptRow) /\ Len(attempts) <= MaxLinkAttempts
      /\ inbox \in Seq(IngressRow) /\ Len(inbox) <= MaxWebhooks
      /\ links \in Seq(ProviderLink) /\ Len(links) <= MaxLinks
      /\ captured \in [1..MaxLinks -> BOOLEAN \cup {None}]
      /\ observations \in [Webhooks -> Seq(ObservationState)]
      /\ jobs \subseteq {"create", "normalize"} \X Nat
      /\ txn \subseteq Transaction
      /\ crashes \in 0..MaxCrashes /\ onName \in BOOLEAN
  BY DEF IInv, TypeOK
<1>2. /\ MaxLinkAttempts \in Nat /\ MaxWebhooks \in Nat /\ MaxLinks \in Nat /\ MaxCrashes \in Nat
      /\ None \notin BOOLEAN /\ None # "PAID"
  BY PaymentsAssumption DEF PaymentStatus
<1>3. /\ Len(attempts) \in Nat /\ DOMAIN attempts = 1..Len(attempts)
      /\ Len(inbox) \in Nat /\ DOMAIN inbox = 1..Len(inbox)
      /\ Len(links) \in Nat /\ DOMAIN links = 1..Len(links)
  BY <1>1, RowsAreTyped
<1> QED BY <1>1, <1>2, <1>3 DEF Webhooks

\* The event of a webhook.
LEMMA EventIsTyped ==
  ASSUME IInv, NEW i \in DOMAIN inbox
  PROVE  /\ inbox[i].event \in Event /\ i \in Webhooks
         /\ inbox[i].event.link \in DOMAIN links /\ inbox[i].event.link \in 1..MaxLinks
         /\ inbox[i].event.pay = "captured" => Collected(inbox[i].event.link)
<1>1. /\ inbox[i] \in IngressRow /\ DOMAIN inbox \subseteq Webhooks
      /\ DOMAIN links \subseteq 1..MaxLinks
  BY TablesAreTyped, RowsAreTyped
<1> QED BY <1>1 DEF IngressRow, IInv, EventsAreReal

\* The provider's links only become more, and one that is paid stays so.
LinksGrow ==
  /\ DOMAIN links \subseteq DOMAIN links'
  /\ \A l \in DOMAIN links : links[l].state = "paid" => links'[l].state = "paid"

\* Then what was collected stays so.
LEMMA MoneyStays ==
  ASSUME LinksGrow
  PROVE  (Money => Money') /\ \A l : Collected(l) => Collected(l)'
BY DEF LinksGrow, Money, Collected

-----------------------------------------------------------------------------
(* What a transaction reads and writes *)

\* The webhooks a transaction finds observed are those that are, and those it observed.
LEMMA ObservedIsSeen ==
  ASSUME IInv, NEW own, NEW locked, WritesAreSound(own, locked), NEW status, NEW i \in Webhooks
  PROVE  Observed(View(own, status).observations, i) <=> Seen(own, i)
<1>1. /\ own.inserted[i] \in ObservationState \cup {None}
      /\ own.replayed[i] \in ObservationState \cup {None}
      /\ observations \in [Webhooks -> Seq(ObservationState)]
      /\ own.replayed[i] # None => observations[i] # <<>>
  BY TablesAreTyped DEF WritesAreSound, Writes
<1> DEFINE old == IF own.replayed[i] = None THEN observations[i] ELSE <<own.replayed[i]>>
<1>2. old \in Seq(ObservationState) /\ (old = <<>> <=> observations[i] = <<>>)
  <2>1. own.replayed[i] # None => <<own.replayed[i]>> \in Seq(ObservationState)
    BY <1>1
  <2> QED BY <1>1, <2>1
<1>3. View(own, status).observations[i] = old \o Row(own.inserted[i])
  BY <1>1 DEF View
<1> HIDE DEF old
<1>4. CASE own.inserted[i] = None
  BY <1>2, <1>3, <1>4, RowsOfOne DEF Observed, Seen
<1>5. CASE own.inserted[i] # None
  BY <1>1, <1>2, <1>3, <1>5, RowsOfOne DEF Observed, Seen
<1> QED BY <1>4, <1>5

\* So are those it finds unmatched.
LEMMA UnmatchedAreSeen ==
  ASSUME IInv, NEW own, NEW locked, WritesAreSound(own, locked), NEW others
  PROVE  \A i \in Unmatched(own, others) : Seen(own, i)
<1> SUFFICES ASSUME NEW i \in Unmatched(own, others) PROVE Seen(own, i)
  OBVIOUS
<1>1. i \in Webhooks /\ "UNMATCHED" \in Range(View(own, payment).observations[i])
  BY EventIsTyped DEF Unmatched
<1>2. Range(<<>>) = {}
  BY DEF Range
<1>3. Observed(View(own, payment).observations, i)
  BY <1>1, <1>2 DEF Observed
<1> QED BY <1>1, <1>3, ObservedIsSeen

\* The rows a transaction reads are typed, and the captures among them are real.
LEMMA ViewIsSound ==
  ASSUME IInv, NEW own, NEW locked, WritesAreSound(own, locked), NEW status \in PaymentStatus
  PROVE  LET v == View(own, status) IN
         /\ v.payment \in PaymentStatus
         /\ v.payment = IF own.payment = None THEN status ELSE own.payment
         /\ v.attempts \in Seq(AttemptRow) /\ DOMAIN v.attempts = DOMAIN attempts
         /\ Len(v.attempts) = Len(attempts)
         /\ v.captured \in [1..MaxLinks -> BOOLEAN \cup {None}]
         /\ \A l \in 1..MaxLinks : v.captured[l] = TRUE => Collected(l)
<1> DEFINE v == View(own, status)
           row(n) == [attempts[n] EXCEPT !.status = Latest(own.status[n], @),
                                         !.order  = Latest(own.order[n], @)]
<1>1. /\ own \in Writes /\ own.payment \in PaymentStatus \cup {None}
      /\ own.status \in [1..MaxLinkAttempts -> AttemptStatus \cup {None}]
      /\ own.order \in [1..MaxLinkAttempts -> Nat \cup {None}]
      /\ own.captured \in [1..MaxLinks -> BOOLEAN \cup {None}]
      /\ \A l \in 1..MaxLinks : own.captured[l] = TRUE => Collected(l)
  BY DEF WritesAreSound, Writes
<1>2. /\ v.payment = Latest(own.payment, status)
      /\ v.attempts = [n \in DOMAIN attempts |-> row(n)]
      /\ v.captured = [l \in DOMAIN captured |-> Latest(own.captured[l], captured[l])]
  BY DEF View
<1>3. \A n \in DOMAIN attempts : row(n) \in AttemptRow
  <2> SUFFICES ASSUME NEW n \in DOMAIN attempts PROVE row(n) \in AttemptRow
    OBVIOUS
  <2>1. /\ attempts[n] \in AttemptRow /\ n \in 1..MaxLinkAttempts
    BY TablesAreTyped, RowsAreTyped
  <2>2. /\ Latest(own.status[n], attempts[n].status) \in AttemptStatus
        /\ Latest(own.order[n], attempts[n].order) \in Nat \cup {None}
    BY <1>1, <2>1 DEF Latest, AttemptRow
  <2> QED BY <2>1, <2>2 DEF AttemptRow
<1> HIDE DEF row
<1>4. /\ v.attempts \in Seq(AttemptRow) /\ DOMAIN v.attempts = DOMAIN attempts
      /\ Len(v.attempts) = Len(attempts)
  <2>1. v.attempts \in [DOMAIN attempts -> AttemptRow] /\ attempts \in Seq(AttemptRow)
    BY <1>2, <1>3, TablesAreTyped
  <2> HIDE DEF v
  <2> QED BY <2>1, TableIsRewritten
<1>5. /\ v.captured \in [1..MaxLinks -> BOOLEAN \cup {None}]
      /\ \A l \in 1..MaxLinks : v.captured[l] = TRUE => Collected(l)
  BY <1>1, <1>2, TablesAreTyped DEF Latest, IInv, CapturesAreReal
<1>6. /\ v.payment \in PaymentStatus
      /\ v.payment = IF own.payment = None THEN status ELSE own.payment
  BY <1>1, <1>2 DEF Latest
<1> QED BY <1>4, <1>5, <1>6

\* How a transaction may go on from what it wrote: it keeps what it observed, and a status it
\* wrote, unless that becomes PAID. A status it did not write it moves only as it reads it.
Continues(new, own, status) ==
  /\ \A i \in Webhooks : Seen(own, i) => Seen(new, i)
  /\ \/ new.payment \in {own.payment, "PAID"}
     \/ own.payment = None /\ status # "PAID"

\* The status of the request after a verdict.
LEMMA StatusIsPut ==
  ASSUME NEW own \in Writes, own.payment \in Statuses \cup {None}, NEW status \in PaymentStatus,
         NEW p, p = (IF own.payment = None THEN status ELSE own.payment), NEW v \in Verdicts
  PROVE  LET new == Put(own.payment, p, Moved(p, v)) IN
         /\ new \in Statuses \cup {None}
         /\ new = "PAID" => own.payment = "PAID" \/ (v = "PAID" /\ p # "PAID")
         /\ \/ new \in {own.payment, "PAID"}
            \/ own.payment = None /\ status # "PAID"
<1>1. p \in PaymentStatus /\ None \notin PaymentStatus
  BY PaymentsAssumption DEF Statuses, PaymentStatus
<1>2. /\ Moved(p, v) \in {p, v}
      /\ p = "PAID" => Moved(p, v) = "PAID"
      /\ p \in Statuses => Moved(p, v) \in {p, "PAID"}
      /\ Moved(p, v) \in PaymentStatus
  BY <1>1, MoveIsHonest
<1>3. CASE Moved(p, v) = p
  BY <1>3 DEF Put
<1>4. CASE Moved(p, v) # p
  <2>1. Put(own.payment, p, Moved(p, v)) = v /\ p # "PAID" /\ Moved(p, v) = v
    BY <1>2, <1>4 DEF Put
  <2>2. v \in Statuses
    BY <1>2, <2>1 DEF Verdicts, PaymentStatus
  <2>3. own.payment # None => v = "PAID"
    BY <1>2, <1>4, <2>1
  <2> QED BY <2>1, <2>2, <2>3
<1> QED BY <1>3, <1>4

\* observe_payment_event on a webhook that the transaction holds, whatever it wrote before and
\* however old the status is that it reads.
LEMMA ObserveIsSound ==
  ASSUME IInv, NEW own, NEW locked, WritesAreSound(own, locked), NEW status \in PaymentStatus,
         NEW i \in DOMAIN inbox, i \in locked
  PROVE  LET new == Observe(View(own, status), own, i) IN
         /\ WritesAreSound(new, locked) /\ Seen(new, i) /\ Continues(new, own, status)
<1> DEFINE w     == View(own, status)
           e     == inbox[i].event
           n     == AttemptOf(w.attempts, e.link)
           a     == w.attempts[n]
           cap   == SeenCapture(w.captured, e)
           asked == Verdict(e, cap = TRUE, a.order)
           paid  == Put(own.captured[e.link], w.captured[e.link], cap)
           new   == Observe(w, own, i)
           Goal  == WritesAreSound(new, locked) /\ Seen(new, i) /\ Continues(new, own, status)
<1>1. /\ e \in Event /\ i \in Webhooks /\ e.link \in 1..MaxLinks
      /\ e.pay = "captured" => Collected(e.link)
  BY EventIsTyped
<1>2. /\ w.payment \in PaymentStatus
      /\ w.payment = IF own.payment = None THEN status ELSE own.payment
      /\ w.attempts \in Seq(AttemptRow) /\ DOMAIN w.attempts = DOMAIN attempts
      /\ w.captured \in [1..MaxLinks -> BOOLEAN \cup {None}]
      /\ \A l \in 1..MaxLinks : w.captured[l] = TRUE => Collected(l)
  BY ViewIsSound
<1>3. Observed(w.observations, i) <=> Seen(own, i)
  BY <1>1, ObservedIsSeen
<1>4. /\ own \in Writes /\ own.payment \in Statuses \cup {None}
      /\ own.payment \in PaymentStatus \cup {None}
      /\ own.status \in [1..MaxLinkAttempts -> AttemptStatus \cup {None}]
      /\ own.order \in [1..MaxLinkAttempts -> Nat \cup {None}]
      /\ own.captured \in [1..MaxLinks -> BOOLEAN \cup {None}]
      /\ own.inserted \in [Webhooks -> ObservationState \cup {None}]
      /\ \A l \in 1..MaxLinks : own.captured[l] = TRUE => Collected(l)
      /\ own.payment = "PAID" => own.onName \/ Money
      /\ \A k \in Webhooks :
           /\ own.inserted[k] # None => k \in locked /\ observations[k] = <<>>
           /\ own.replayed[k] # None => observations[k] # <<>>
           /\ own.inbox[k] # None => Seen(own, k)
  BY DEF WritesAreSound, Writes
<1>5. ASSUME Observed(w.observations, i) PROVE Goal
  <2>1. new = own
    BY <1>5 DEF Observe
  <2> QED BY <1>3, <1>5, <2>1 DEF Continues
<1> HIDE DEF w
<1>6. cap \in BOOLEAN \cup {None} /\ (cap = TRUE => Collected(e.link))
  BY <1>1, <1>2 DEF SeenCapture
<1>7. paid \in BOOLEAN \cup {None} /\ (paid = TRUE => Collected(e.link))
  BY <1>1, <1>4, <1>6 DEF Put
<1>8. "UNMATCHED" \in ObservationState /\ "ASSOCIATED" \in ObservationState
      /\ None # "UNMATCHED" /\ None # "ASSOCIATED"
  BY PaymentsAssumption DEF ObservationState
<1> HIDE DEF e, cap, asked, paid, new
<1>9. ASSUME ~Observed(w.observations, i), n = 0 PROVE Goal
  <2>1. new = [own EXCEPT !.captured[e.link] = paid, !.inserted[i] = "UNMATCHED"]
    BY <1>9 DEF Observe, e, cap, asked, paid, new
  <2>2. /\ new.captured = [own.captured EXCEPT ![e.link] = paid]
        /\ new.inserted = [own.inserted EXCEPT ![i] = "UNMATCHED"]
        /\ new.payment = own.payment /\ new.replayed = own.replayed /\ new.inbox = own.inbox
        /\ new.onName = own.onName
    BY <1>4, <2>1 DEF Writes
  <2>3. new \in Writes
    <3>1. /\ [own.captured EXCEPT ![e.link] = paid] \in [1..MaxLinks -> BOOLEAN \cup {None}]
          /\ [own.inserted EXCEPT ![i] = "UNMATCHED"] \in [Webhooks -> ObservationState \cup {None}]
      BY <1>1, <1>4, <1>7, <1>8
    <3> QED BY <1>4, <2>1, <3>1 DEF Writes
  <2> QED BY <1>1, <1>3, <1>4, <1>7, <1>8, <1>9, <2>2, <2>3 DEF WritesAreSound, Seen, Continues
<1>10. ASSUME ~Observed(w.observations, i), n # 0 PROVE Goal
  <2>1. n \in 1..MaxLinkAttempts /\ a \in AttemptRow
    <3>1. n \in DOMAIN w.attempts
      BY <1>10, AttemptIsFound
    <3> HIDE DEF n
    <3> QED BY <1>2, <3>1, TablesAreTyped, RowsAreTyped
  <2>2. asked \in Verdicts /\ (asked = "PAID" => Collected(e.link))
    BY <1>1, <1>6, VerdictIsEarned DEF asked, e
  <2> DEFINE to == Put(own.payment, w.payment, Moved(w.payment, asked))
             st == Put(own.status[n], a.status, MarkedStatus(a, asked))
             od == Put(own.order[n], a.order, MarkedOrder(a, e))
  <2>3. new = [own EXCEPT !.captured[e.link] = paid, !.inserted[i] = "ASSOCIATED",
                          !.payment = to, !.status[n] = st, !.order[n] = od]
    BY <1>10 DEF Observe, e, cap, asked, paid, new
  <2>4. /\ to \in Statuses \cup {None}
        /\ to = "PAID" => own.payment = "PAID" \/ asked = "PAID"
        /\ to \in {own.payment, "PAID"} \/ (own.payment = None /\ status # "PAID")
    BY <1>2, <1>4, <2>2, StatusIsPut
  <2>5. st \in AttemptStatus \cup {None} /\ od \in Nat \cup {None}
    BY <1>1, <1>4, <2>1, <2>2, MarkIsTyped DEF Put, e
  <2> HIDE DEF n, a, to, st, od
  <2>6. /\ new.captured = [own.captured EXCEPT ![e.link] = paid]
        /\ new.inserted = [own.inserted EXCEPT ![i] = "ASSOCIATED"]
        /\ new.payment = to /\ new.replayed = own.replayed /\ new.inbox = own.inbox
        /\ new.onName = own.onName
    BY <1>4, <2>3 DEF Writes
  <2>7. new \in Writes
    <3>1. /\ [own.captured EXCEPT ![e.link] = paid] \in [1..MaxLinks -> BOOLEAN \cup {None}]
          /\ [own.inserted EXCEPT ![i] = "ASSOCIATED"]
               \in [Webhooks -> ObservationState \cup {None}]
          /\ [own.status EXCEPT ![n] = st] \in [1..MaxLinkAttempts -> AttemptStatus \cup {None}]
          /\ [own.order EXCEPT ![n] = od] \in [1..MaxLinkAttempts -> Nat \cup {None}]
          /\ to \in PaymentStatus \cup {None}
      BY <1>1, <1>4, <1>7, <1>8, <2>1, <2>4, <2>5 DEF Statuses, PaymentStatus
    <3>2. new = [own EXCEPT !.captured = [own.captured EXCEPT ![e.link] = paid],
                            !.inserted = [own.inserted EXCEPT ![i] = "ASSOCIATED"],
                            !.payment = to,
                            !.status = [own.status EXCEPT ![n] = st],
                            !.order = [own.order EXCEPT ![n] = od]]
      BY <1>4, <2>3 DEF Writes
    <3> QED BY <1>4, <3>1, <3>2 DEF Writes
  <2>8. to = "PAID" => own.onName \/ Money
    BY <1>4, <2>2, <2>4 DEF Collected, Money
  <2> QED BY <1>1, <1>3, <1>4, <1>7, <1>8, <1>10, <2>4, <2>6, <2>7, <2>8
          DEF WritesAreSound, Seen, Continues
<1> QED BY <1>5, <1>9, <1>10 DEF w, new

\* One round of the replay on a webhook that is observed: the status it holds may be old, and
\* an event without a capture may make it PAID, which it records.
LEMMA ReplayIsSound ==
  ASSUME IInv, NEW own, NEW locked, WritesAreSound(own, locked), NEW status \in PaymentStatus,
         NEW i \in DOMAIN inbox, Seen(own, i), inbox[i].event.exact
  PROVE  LET new == Replay(View(own, status), own, i) IN
         WritesAreSound(new, locked) /\ Continues(new, own, status)
<1> DEFINE w     == View(own, status)
           e     == inbox[i].event
           n     == ReplayAttempt(w.attempts, e)
           a     == w.attempts[n]
           asked == ReplayVerdict(e, a.order)
           to    == Put(own.payment, w.payment, Moved(w.payment, asked))
           st    == Put(own.status[n], a.status, ReplayStatus(a, asked))
           od    == Put(own.order[n], a.order, ReplayOrder(a, e))
           by    == own.onName \/ (Moved(w.payment, asked) = "PAID" /\ w.payment # "PAID"
                                     /\ e.pay # "captured")
           base  == Settle(own, i, "ASSOCIATED")
           new   == Replay(w, own, i)
           Goal  == WritesAreSound(new, locked) /\ Continues(new, own, status)
<1>1. /\ e \in Event /\ i \in Webhooks /\ e.link \in DOMAIN links
      /\ e.pay = "captured" => Collected(e.link)
  BY EventIsTyped
<1>2. /\ w.payment \in PaymentStatus
      /\ w.payment = IF own.payment = None THEN status ELSE own.payment
      /\ w.attempts \in Seq(AttemptRow) /\ DOMAIN w.attempts = DOMAIN attempts
  BY ViewIsSound
<1>3. /\ own \in Writes /\ own.payment \in Statuses \cup {None}
      /\ own.status \in [1..MaxLinkAttempts -> AttemptStatus \cup {None}]
      /\ own.order \in [1..MaxLinkAttempts -> Nat \cup {None}]
      /\ own.inserted \in [Webhooks -> ObservationState \cup {None}]
      /\ own.replayed \in [Webhooks -> ObservationState \cup {None}]
      /\ own.onName \in BOOLEAN
      /\ \A l \in 1..MaxLinks : own.captured[l] = TRUE => Collected(l)
      /\ own.payment = "PAID" => own.onName \/ Money
      /\ \A k \in Webhooks :
           /\ own.inserted[k] # None => k \in locked /\ observations[k] = <<>>
           /\ own.replayed[k] # None => observations[k] # <<>>
           /\ own.inbox[k] # None => Seen(own, k)
  BY DEF WritesAreSound, Writes
<1>4. n \in 1..MaxLinkAttempts /\ a \in AttemptRow
  <2>1. n \in DOMAIN w.attempts
    <3>1. links[e.link].attempt \in DOMAIN attempts
      BY <1>1 DEF IInv, LinksAreOwned
    <3>2. AttemptOf(w.attempts, e.link) # 0 => AttemptOf(w.attempts, e.link) \in DOMAIN w.attempts
      BY AttemptIsFound
    <3> HIDE DEF w
    <3> QED BY <1>2, <3>1, <3>2 DEF ReplayAttempt
  <2> HIDE DEF n, w
  <2> QED BY <1>2, <2>1, TablesAreTyped, RowsAreTyped
<1> HIDE DEF w
<1>5. asked \in Verdicts
  BY ReplayAsks
<1>6. /\ to \in Statuses \cup {None}
      /\ to = "PAID" => own.payment = "PAID" \/ (asked = "PAID" /\ w.payment # "PAID")
      /\ to \in {own.payment, "PAID"} \/ (own.payment = None /\ status # "PAID")
  BY <1>2, <1>3, <1>5, StatusIsPut
<1>7. st \in AttemptStatus \cup {None} /\ od \in Nat \cup {None}
  BY <1>1, <1>3, <1>4, <1>5, MarkIsTyped DEF Put
<1>8. to = "PAID" => by \/ Money
  <2>1. CASE Moved(w.payment, asked) = w.payment
    BY <1>3, <2>1, PaymentsAssumption DEF Put
  <2>2. CASE Moved(w.payment, asked) # w.payment
    <3>1. to = "PAID" => Moved(w.payment, asked) = "PAID" /\ w.payment # "PAID"
      BY <2>2 DEF Put
    <3>2. e.pay = "captured" => Money
      BY <1>1 DEF Collected, Money
    <3> QED BY <3>1, <3>2
  <2> QED BY <2>1, <2>2
<1>9. by \in BOOLEAN /\ (own.onName => by)
  BY <1>3
<1>10. "ASSOCIATED" \in ObservationState /\ None # "ASSOCIATED"
  BY PaymentsAssumption DEF ObservationState
<1>11. new = [base EXCEPT !.payment = to, !.status[n] = st, !.order[n] = od, !.onName = by]
  <2>1. base.payment = own.payment /\ base.status = own.status /\ base.order = own.order
        /\ base.onName = own.onName /\ base \in Writes
    <3>1. /\ [own EXCEPT !.replayed[i] = "ASSOCIATED"] \in Writes
          /\ [own EXCEPT !.inserted[i] = "ASSOCIATED"] \in Writes
      BY <1>1, <1>3, <1>10 DEF Writes
    <3> QED BY <1>3, <3>1 DEF Settle, Writes
  <2> HIDE DEF base, n, a, asked, st, od, by, to
  <2>2. new = [base EXCEPT
                 !.payment = Put(@, w.payment, Moved(w.payment, asked)),
                 !.status[n] = Put(@, a.status, ReplayStatus(a, asked)),
                 !.order[n] = Put(@, a.order, ReplayOrder(a, e)),
                 !.onName = @ \/ (Moved(w.payment, asked) = "PAID" /\ w.payment # "PAID"
                                   /\ e.pay # "captured")]
    BY DEF Replay, base, n, a, asked, e, new
  <2> QED BY <2>1, <2>2 DEF Writes, to, st, od, by
<1> HIDE DEF e, n, a, asked, to, st, od, by, base, new
<1>12. ASSUME NEW ins, NEW rep,
              ins \in [Webhooks -> ObservationState \cup {None}],
              rep \in [Webhooks -> ObservationState \cup {None}],
              base = [own EXCEPT !.inserted = ins, !.replayed = rep],
              \A k \in Webhooks : /\ ins[k] # None <=> own.inserted[k] # None
                                  /\ rep[k] # None => observations[k] # <<>>
       PROVE  Goal
  <2>1. /\ [own.status EXCEPT ![n] = st] \in [1..MaxLinkAttempts -> AttemptStatus \cup {None}]
        /\ [own.order EXCEPT ![n] = od] \in [1..MaxLinkAttempts -> Nat \cup {None}]
        /\ to \in PaymentStatus \cup {None}
    BY <1>3, <1>4, <1>6, <1>7 DEF Statuses, PaymentStatus
  <2>2. new = [own EXCEPT !.inserted = ins, !.replayed = rep, !.payment = to,
                          !.status = [own.status EXCEPT ![n] = st],
                          !.order = [own.order EXCEPT ![n] = od], !.onName = by]
    BY <1>3, <1>11, <1>12 DEF Writes
  <2>3. /\ new.inserted = ins /\ new.replayed = rep /\ new.payment = to /\ new.onName = by
        /\ new.captured = own.captured /\ new.inbox = own.inbox
    BY <1>3, <2>2 DEF Writes
  <2>4. new \in Writes
    BY <1>3, <1>9, <1>12, <2>1, <2>2 DEF Writes
  <2> QED BY <1>3, <1>6, <1>8, <1>12, <2>3, <2>4 DEF WritesAreSound, Seen, Continues
<1>13. CASE own.inserted[i] = None
  <2> DEFINE ins == own.inserted
             rep == [own.replayed EXCEPT ![i] = "ASSOCIATED"]
  <2>1. base = [own EXCEPT !.inserted = ins, !.replayed = rep]
    BY <1>3, <1>13 DEF base, Settle, Writes
  <2>2. /\ ins \in [Webhooks -> ObservationState \cup {None}]
        /\ rep \in [Webhooks -> ObservationState \cup {None}]
        /\ \A k \in Webhooks : /\ ins[k] # None <=> own.inserted[k] # None
                               /\ rep[k] # None => observations[k] # <<>>
    BY <1>1, <1>3, <1>10, <1>13 DEF Seen
  <2> HIDE DEF ins, rep
  <2>3. Goal
    BY <1>12, <2>1, <2>2
  <2> QED BY <2>3 DEF new, w
<1>14. CASE own.inserted[i] # None
  <2> DEFINE ins == [own.inserted EXCEPT ![i] = "ASSOCIATED"]
  <2>1. base = [own EXCEPT !.inserted = ins, !.replayed = own.replayed]
    BY <1>3, <1>14 DEF base, Settle, Writes
  <2>2. /\ ins \in [Webhooks -> ObservationState \cup {None}]
        /\ \A k \in Webhooks : ins[k] # None <=> own.inserted[k] # None
    BY <1>1, <1>3, <1>10, <1>14
  <2> HIDE DEF ins
  <2>3. Goal
    BY <1>3, <1>12, <2>1, <2>2
  <2> QED BY <2>3 DEF new, w
<1> QED BY <1>13, <1>14

\* An observation that is put under manual review.
LEMMA SettleIsSound ==
  ASSUME IInv, NEW own, NEW locked, WritesAreSound(own, locked), NEW status,
         NEW i \in DOMAIN inbox, Seen(own, i)
  PROVE  LET new == Settle(own, i, "MANUAL_REVIEW") IN
         WritesAreSound(new, locked) /\ Continues(new, own, status)
<1> DEFINE new == Settle(own, i, "MANUAL_REVIEW")
<1>1. /\ own \in Writes
      /\ own.inserted \in [Webhooks -> ObservationState \cup {None}]
      /\ own.replayed \in [Webhooks -> ObservationState \cup {None}]
      /\ i \in Webhooks /\ "MANUAL_REVIEW" \in ObservationState /\ None # "MANUAL_REVIEW"
  BY EventIsTyped, PaymentsAssumption DEF WritesAreSound, Writes, ObservationState
<1>2. CASE own.inserted[i] = None
  <2>1. /\ new \in Writes /\ new.replayed = [own.replayed EXCEPT ![i] = "MANUAL_REVIEW"]
        /\ new.inserted = own.inserted /\ new.payment = own.payment /\ new.onName = own.onName
        /\ new.captured = own.captured /\ new.inbox = own.inbox
    BY <1>1, <1>2 DEF Settle, Writes
  <2> HIDE DEF new
  <2>2. WritesAreSound(new, locked) /\ Continues(new, own, status)
    BY <1>1, <1>2, <2>1 DEF WritesAreSound, Seen, Continues
  <2> QED BY <2>2 DEF new
<1>3. CASE own.inserted[i] # None
  <2>1. /\ new \in Writes /\ new.inserted = [own.inserted EXCEPT ![i] = "MANUAL_REVIEW"]
        /\ new.replayed = own.replayed /\ new.payment = own.payment /\ new.onName = own.onName
        /\ new.captured = own.captured /\ new.inbox = own.inbox
    BY <1>1, <1>3 DEF Settle, Writes
  <2> HIDE DEF new
  <2>2. WritesAreSound(new, locked) /\ Continues(new, own, status)
    BY <1>1, <1>3, <2>1 DEF WritesAreSound, Seen, Continues
  <2> QED BY <2>2 DEF new
<1> QED BY <1>2, <1>3

\* The ingress of an observed webhook is done.
LEMMA DoneIsSound ==
  ASSUME IInv, NEW own, NEW locked, WritesAreSound(own, locked), NEW status,
         NEW i \in DOMAIN inbox, Seen(own, i), NEW state \in IngressState
  PROVE  LET new == [own EXCEPT !.inbox[i] = state] IN
         /\ WritesAreSound(new, locked) /\ new.payment = own.payment
         /\ \A k \in Webhooks : Seen(own, k) => Seen(new, k)
<1> DEFINE new == [own EXCEPT !.inbox[i] = state]
<1>1. /\ own \in Writes /\ own.inbox \in [Webhooks -> IngressState \cup {None}] /\ i \in Webhooks
  BY EventIsTyped DEF WritesAreSound, Writes
<1>2. /\ new \in Writes /\ new.inbox = [own.inbox EXCEPT ![i] = state]
      /\ new.inserted = own.inserted /\ new.replayed = own.replayed /\ new.payment = own.payment
      /\ new.onName = own.onName /\ new.captured = own.captured
  BY <1>1 DEF Writes
<1> HIDE DEF new
<1>3. /\ WritesAreSound(new, locked) /\ new.payment = own.payment
      /\ \A k \in Webhooks : Seen(own, k) => Seen(new, k)
  BY <1>1, <1>2 DEF WritesAreSound, Seen
<1> QED BY <1>3 DEF new

\* Nothing was written yet.
LEMMA NothingIsSound ==
  ASSUME NEW locked
  PROVE  WritesAreSound(NoWrites, locked) /\ NoWrites.payment = None
<1>1. None # "PAID" /\ None # TRUE
  BY PaymentsAssumption DEF PaymentStatus
<1> QED BY <1>1 DEF WritesAreSound, NoWrites, Writes

-----------------------------------------------------------------------------
(* What steps have in common *)

\* The links of an attempt can be counted; one that is not there has none.
LEMMA LinksAreCounted ==
  ASSUME IInv, NEW n
  PROVE  /\ IsFiniteSet(LinksOf(n)) /\ Cardinality(LinksOf(n)) \in Nat
         /\ n \notin DOMAIN attempts => Cardinality(LinksOf(n)) = 0
<1>1. links \in Seq(ProviderLink)
  BY TablesAreTyped
<1>2. Len(links) \in Nat /\ DOMAIN links = 1..Len(links)
  BY <1>1, RowsAreTyped
<1>3. IsFiniteSet(DOMAIN links)
  BY <1>2, FS_Interval
<1>4. IsFiniteSet(LinksOf(n)) /\ Cardinality(LinksOf(n)) \in Nat
  BY <1>3, FS_Subset, FS_CardinalityType DEF LinksOf
<1>5. n \notin DOMAIN attempts => LinksOf(n) = {}
  BY DEF LinksOf, IInv, LinksAreOwned
<1> QED BY <1>4, <1>5, FS_EmptySet

\* Steps that leave the links of every attempt: what is said of their number.
LEMMA CountsAreKept ==
  ASSUME IInv, \A n : LinksOf(n)' = LinksOf(n), crashes' \in Nat, crashes' >= crashes,
         DOMAIN attempts' = DOMAIN attempts,
         \A n \in Nat : <<"create", n>> \in jobs' => <<"create", n>> \in jobs
  PROVE  CreatesAreOwed' /\ LinksAreAccountedFor'
<1>1. \A n : Cardinality(LinksOf(n)) \in Nat /\ Cardinality(LinksOf(n)') = Cardinality(LinksOf(n))
  BY LinksAreCounted
<1>2. crashes \in Nat
  BY TablesAreTyped
<1>3. CreatesAreOwed'
  BY <1>1, <1>2 DEF CreatesAreOwed, IInv
<1>4. ASSUME NEW n \in DOMAIN attempts PROVE Cardinality(LinksOf(n)') <= 1 + crashes'
  <2>1. Cardinality(LinksOf(n)) <= 1 + crashes
    BY DEF IInv, LinksAreAccountedFor, LinksOf
  <2> QED BY <1>1, <1>2, <2>1
<1>5. LinksAreAccountedFor'
  BY <1>4 DEF LinksAreAccountedFor, LinksOf
<1> QED BY <1>3, <1>5

\* What a transaction wrote stays sound while links only become more, observations stay, and
\* nobody else observes the webhooks it holds.
LEMMA WritesStaySound ==
  ASSUME NEW own, NEW locked, WritesAreSound(own, locked), LinksGrow,
         \A i \in Webhooks : observations[i] # <<>> => observations'[i] # <<>>,
         \A i \in Webhooks : i \in locked /\ observations[i] = <<>> => observations'[i] = <<>>
  PROVE  WritesAreSound(own, locked)'
<1>1. (Money => Money') /\ \A l : Collected(l) => Collected(l)'
  BY MoneyStays
<1>2. \A i \in Webhooks : Seen(own, i) => Seen(own, i)'
  BY DEF Seen
<1> QED BY <1>1, <1>2 DEF WritesAreSound

LEMMA TransactionStaysSound ==
  ASSUME IInv, NEW t, IsSound(t), LinksGrow, DOMAIN inbox \subseteq DOMAIN inbox',
         \A i \in Webhooks : observations[i] # <<>> => observations'[i] # <<>>,
         \A i \in Webhooks : i \in t.locked /\ observations[i] = <<>> => observations'[i] = <<>>
  PROVE  IsSound(t)'
<1>1. WritesAreSound(t.own, t.locked)'
  BY WritesStaySound DEF IsSound
<1>2. \A i \in t.todo : Seen(t.own, i) => Seen(t.own, i)'
  <2>1. t.todo \subseteq Webhooks
    BY TablesAreTyped DEF IsSound
  <2> QED BY <2>1 DEF Seen
<1> QED BY <1>1, <1>2 DEF IsSound

\* Steps that neither receive nor observe an event, nor open a transaction.
LEMMA WebhooksAreKept ==
  ASSUME IInv, LinksGrow, UNCHANGED <<captured, observations, inbox>>, txn' \subseteq txn
  PROVE  /\ EventsAreReal' /\ CapturesAreReal' /\ TransactionsAreSound' /\ LocksAreApart'
         /\ ObservedAreReceived' /\ EventsAreObservedOnce'
<1>1. \A l : Collected(l) => Collected(l)'
  BY MoneyStays
<1>2. EventsAreReal'
  BY <1>1 DEF IInv, EventsAreReal, LinksGrow
<1>3. CapturesAreReal'
  BY <1>1 DEF IInv, CapturesAreReal
<1>4. TransactionsAreSound'
  <2>1. ASSUME NEW t \in txn' PROVE IsSound(t)'
    <3>1. IsSound(t)
      BY DEF IInv, TransactionsAreSound
    <3> QED BY <3>1, TransactionStaysSound
  <2> QED BY <2>1 DEF TransactionsAreSound
<1>5. LocksAreApart'
  BY DEF IInv, LocksAreApart
<1>6. ObservedAreReceived' /\ EventsAreObservedOnce'
  BY DEF IInv, ObservedAreReceived, EventsAreObservedOnce, Observed
<1> QED BY <1>2, <1>3, <1>4, <1>5, <1>6

\* Money, or the name of an event, stays the ground of PAID.
LEMMA PaidIsKept ==
  ASSUME IInv, LinksGrow, onName => onName', payment' = "PAID" => payment = "PAID"
  PROVE  PaidIsCollected'
BY MoneyStays DEF IInv, PaidIsCollected, Money

\* Steps that only end transactions, by a crash or without one.
LEMMA EndKeepsIInv ==
  ASSUME IInv, UNCHANGED <<rows, inbox, links, onName>>, jobs' \subseteq jobs, txn' \subseteq txn,
         crashes' \in 0..MaxCrashes, crashes' >= crashes
  PROVE  IInv'
<1>1. LinksGrow /\ \A n : LinksOf(n)' = LinksOf(n)
  BY DEF LinksGrow, LinksOf
<1>2. UNCHANGED <<payment, attempts, captured, observations>>
  BY DEF rows
<1>3. TypeOK'
  BY <1>2 DEF IInv, TypeOK
<1>4. CreatesAreOwed' /\ LinksAreAccountedFor'
  BY <1>1, <1>2, CountsAreKept, PaymentsAssumption
<1>5. LinksAreOwned' /\ PaidIsCollected'
  BY <1>1, <1>2, PaidIsKept DEF IInv, LinksAreOwned
<1> QED BY <1>1, <1>2, <1>3, <1>4, <1>5, WebhooksAreKept DEF IInv

\* Steps of one transaction, or its start: the others stay, and hold other webhooks.
LEMMA StepKeepsIInv ==
  ASSUME IInv, UNCHANGED <<rows, inbox, jobs, links, crashes, onName>>,
         NEW others \in SUBSET txn, NEW next, txn' = others \cup {next}, IsSound(next),
         \A s \in others : s.locked \cap next.locked = {}
  PROVE  IInv'
<1>1. /\ UNCHANGED <<payment, attempts, captured, observations, inbox, jobs, links, crashes,
                    onName>>
      /\ LinksGrow
  BY DEF rows, LinksGrow
<1>2. IsSound(next)'
  BY <1>1, TransactionStaysSound
<1>3. ASSUME NEW t \in others PROVE IsSound(t)'
  <2>1. IsSound(t)
    BY DEF IInv, TransactionsAreSound
  <2> QED BY <1>1, <2>1, TransactionStaysSound
<1>4. TransactionsAreSound'
  BY <1>2, <1>3 DEF TransactionsAreSound
<1>5. LocksAreApart'
  BY DEF IInv, LocksAreApart
<1>6. TypeOK'
  BY <1>1 DEF IInv, TypeOK, IsSound
<1>7. /\ LinksAreOwned' /\ EventsAreReal' /\ CapturesAreReal' /\ CreatesAreOwed'
      /\ PaidIsCollected' /\ LinksAreAccountedFor' /\ EventsAreObservedOnce'
      /\ ObservedAreReceived'
  BY <1>1 DEF IInv, ObservedAreReceived, LinksAreOwned, EventsAreReal,
     CapturesAreReal, CreatesAreOwed, PaidIsCollected, LinksAreAccountedFor,
     EventsAreObservedOnce, Observed, Collected, LinksOf
<1> QED BY <1>4, <1>5, <1>6, <1>7 DEF IInv

-----------------------------------------------------------------------------
(* Links: prepare, replace, dispatch *)

\* One attempt more, without a link.
LEMMA NewAttemptIsSound ==
  ASSUME IInv, NewAttempt, UNCHANGED <<captured, observations, inbox, txn, links, crashes, onName>>,
         payment' \in PaymentStatus, payment' = "PAID" => payment = "PAID"
  PROVE  IInv'
<1> DEFINE row == [status |-> "READY", link |-> None, order |-> None, action |-> "READY"]
           n   == Len(attempts) + 1
<1>1. row \in AttemptRow
  BY DEF AttemptRow, AttemptStatus, ActionState
<1> HIDE DEF row
<1>2. /\ attempts \in Seq(AttemptRow) /\ jobs \subseteq {"create", "normalize"} \X Nat
      /\ attempts' = Append(attempts, row) /\ jobs' = jobs \cup {<<"create", n>>}
      /\ Len(attempts) < MaxLinkAttempts
  BY DEF IInv, TypeOK, NewAttempt, row
<1>3. /\ attempts' \in Seq(AttemptRow) /\ Len(attempts') = n /\ n \in Nat
      /\ DOMAIN attempts' = DOMAIN attempts \cup {n} /\ n \notin DOMAIN attempts
  BY <1>1, <1>2, RowIsAdded
<1>4. Len(attempts') <= MaxLinkAttempts
  <2>1. Len(attempts) \in Nat
    BY <1>2, RowsAreTyped
  <2> QED BY <1>2, <1>3, <2>1, PaymentsAssumption
<1> HIDE DEF n
<1>5. TypeOK'
  <2>1. jobs' \subseteq {"create", "normalize"} \X Nat
    BY <1>2, <1>3
  <2> QED BY <1>3, <1>4, <2>1 DEF IInv, TypeOK
<1>6. LinksGrow /\ \A m : LinksOf(m)' = LinksOf(m)
  BY DEF LinksGrow, LinksOf
<1>7. \A m : /\ Cardinality(LinksOf(m)) \in Nat
             /\ Cardinality(LinksOf(m)') = Cardinality(LinksOf(m))
             /\ m \notin DOMAIN attempts => Cardinality(LinksOf(m)) = 0
  BY <1>6, LinksAreCounted
<1>8. crashes \in Nat
  BY TablesAreTyped
<1>9. CreatesAreOwed'
  BY <1>2, <1>3, <1>7, <1>8 DEF IInv, CreatesAreOwed
<1>10. LinksAreAccountedFor'
  <2>1. ASSUME NEW m \in DOMAIN attempts' PROVE Cardinality(LinksOf(m)') <= 1 + crashes'
    <3>1. m \in DOMAIN attempts => Cardinality(LinksOf(m)) <= 1 + crashes
      BY DEF IInv, LinksAreAccountedFor, LinksOf
    <3> QED BY <1>7, <1>8, <3>1
  <2> QED BY <2>1 DEF LinksAreAccountedFor, LinksOf
<1>11. LinksAreOwned' /\ PaidIsCollected'
  BY <1>3, <1>6, PaidIsKept DEF IInv, LinksAreOwned
<1> QED BY <1>5, <1>6, <1>9, <1>10, <1>11, WebhooksAreKept DEF IInv

\* prepare_payment_link.
LEMMA PrepareKeepsIInv ==
  ASSUME IInv, PrepareLink
  PROVE  IInv'
<1>1. payment' = payment /\ payment \in PaymentStatus
  BY DEF PrepareLink, IInv, TypeOK
<1> QED BY <1>1, NewAttemptIsSound DEF PrepareLink

\* The provider's table after it made a link for n: one link more, of n.
LEMMA LinkIsMade ==
  ASSUME IInv, NEW n \in DOMAIN attempts, MakeLink(n)
  PROVE  /\ links' \in Seq(ProviderLink) /\ Len(links') <= MaxLinks
         /\ Len(links) + 1 \in Nat
         /\ \A l \in DOMAIN links' : links'[l].attempt \in DOMAIN attempts
         /\ LinksGrow
         /\ Cardinality(LinksOf(n)') = Cardinality(LinksOf(n)) + 1
         /\ \A m : m # n => LinksOf(m)' = LinksOf(m)
<1> DEFINE row == [attempt |-> n, state |-> "open"]
           new == Len(links) + 1
<1>1. attempts \in Seq(AttemptRow) /\ links \in Seq(ProviderLink)
  BY TablesAreTyped
<1>2. row \in ProviderLink /\ row.attempt = n
  <2>1. n \in Nat
    BY <1>1, RowsAreTyped
  <2> QED BY <2>1 DEF ProviderLink
<1> HIDE DEF row
<1>3. links' = Append(links, row) /\ Len(links) < MaxLinks
  BY DEF MakeLink, row
<1>4. /\ links' \in Seq(ProviderLink) /\ Len(links) \in Nat /\ Len(links') = Len(links) + 1
      /\ DOMAIN links' = DOMAIN links \cup {new} /\ new \notin DOMAIN links
      /\ \A l \in DOMAIN links : links'[l] = links[l]
      /\ links'[new] = row
  BY <1>1, <1>2, <1>3, RowIsAdded
<1>5. Len(links') <= MaxLinks /\ new \in Nat
  BY <1>3, <1>4, PaymentsAssumption
<1> HIDE DEF new
<1>6. \A l \in DOMAIN links' : links'[l].attempt \in DOMAIN attempts
  BY <1>2, <1>4 DEF IInv, LinksAreOwned
<1>7. LinksGrow
  BY <1>4 DEF LinksGrow
<1>8. LinksOf(n)' = LinksOf(n) \cup {new} /\ new \notin LinksOf(n)
  BY <1>2, <1>4 DEF LinksOf
<1>9. \A m : m # n => LinksOf(m)' = LinksOf(m)
  BY <1>2, <1>4 DEF LinksOf
<1>10. Cardinality(LinksOf(n) \cup {new}) = Cardinality(LinksOf(n)) + 1
  BY <1>8, LinksAreCounted, FS_AddElement
<1>11. Cardinality(LinksOf(n)') = Cardinality(LinksOf(n) \cup {new})
  BY <1>8, Zenon
<1> QED BY <1>4, <1>5, <1>6, <1>7, <1>9, <1>10, <1>11 DEF new, LinksAreOwned

\* Steps that rewrite attempts, as many as there were, and may move the request, not to PAID.
LEMMA RewriteKeepsIInv ==
  ASSUME IInv, attempts' \in Seq(AttemptRow), Len(attempts') = Len(attempts),
         payment' \in PaymentStatus, payment' = "PAID" => payment = "PAID",
         UNCHANGED <<captured, observations, inbox, jobs, txn, links, crashes, onName>>
  PROVE  IInv'
<1>1. DOMAIN attempts' = DOMAIN attempts
  <2>1. attempts \in Seq(AttemptRow)
    BY TablesAreTyped
  <2> QED BY <2>1, RowsAreTyped
<1>2. LinksGrow /\ \A n : LinksOf(n)' = LinksOf(n)
  BY DEF LinksGrow, LinksOf
<1>3. TypeOK'
  BY DEF IInv, TypeOK
<1>4. CreatesAreOwed' /\ LinksAreAccountedFor'
  <2>1. crashes \in Nat /\ crashes' = crashes
    BY TablesAreTyped
  <2>2. crashes' \in Nat /\ crashes' >= crashes
    BY <2>1
  <2> QED BY <1>1, <1>2, <2>2, CountsAreKept
<1>5. LinksAreOwned' /\ PaidIsCollected'
  BY <1>1, <1>2, PaidIsKept DEF IInv, LinksAreOwned
<1> QED BY <1>2, <1>3, <1>4, <1>5, WebhooksAreKept DEF IInv

\* replace_payment_link.
LEMMA ReplaceKeepsIInv ==
  ASSUME IInv, ReplaceLink
  PROVE  IInv'
<1>1. payment \in PaymentStatus /\ payment' \in {payment, "PENDING"}
  BY TablesAreTyped DEF ReplaceLink
<1>2. payment' \in PaymentStatus /\ (payment' = "PAID" => payment = "PAID")
  BY <1>1 DEF PaymentStatus
<1>3. CASE UNCHANGED <<attempts, jobs>>
  BY <1>2, <1>3, TablesAreTyped, RewriteKeepsIInv DEF ReplaceLink
<1>4. CASE NewAttempt
  BY <1>2, <1>4, NewAttemptIsSound DEF ReplaceLink
<1> QED BY <1>3, <1>4 DEF ReplaceLink

\* The end of a job payment.create: it wrote its attempt, with or without a new link.
LEMMA DispatchIsSound ==
  ASSUME IInv, NEW n \in DOMAIN attempts, <<"create", n>> \in jobs, EndCreate(n),
         MakeLink(n) \/ UNCHANGED links,
         NEW row \in AttemptRow, attempts' = [attempts EXCEPT ![n] = row],
         payment' \in PaymentStatus, payment' = "PAID" => payment = "PAID",
         UNCHANGED <<captured, observations, inbox, txn, crashes, onName>>
  PROVE  IInv'
<1>1. /\ attempts \in Seq(AttemptRow) /\ links \in Seq(ProviderLink)
      /\ jobs \subseteq {"create", "normalize"} \X Nat /\ crashes \in Nat
      /\ jobs' = jobs \ {<<"create", n>>}
  BY TablesAreTyped DEF EndCreate
<1>2. /\ attempts' \in Seq(AttemptRow) /\ Len(attempts') = Len(attempts)
      /\ DOMAIN attempts' = DOMAIN attempts
  BY <1>1, RowIsWritten
<1>3. /\ links' \in Seq(ProviderLink) /\ Len(links') <= MaxLinks /\ LinksGrow
      /\ \A l \in DOMAIN links' : links'[l].attempt \in DOMAIN attempts
      /\ Cardinality(LinksOf(n)') \in Nat
      /\ Cardinality(LinksOf(n)') <= Cardinality(LinksOf(n)) + 1
      /\ \A m : m # n => LinksOf(m)' = LinksOf(m)
  <2>1. CASE MakeLink(n)
    <3>1. Cardinality(LinksOf(n)) \in Nat /\ Cardinality(LinksOf(n)') = Cardinality(LinksOf(n)) + 1
      BY <2>1, LinkIsMade, LinksAreCounted
    <3>2. /\ Cardinality(LinksOf(n)') \in Nat
          /\ Cardinality(LinksOf(n)') <= Cardinality(LinksOf(n)) + 1
      BY <3>1
    <3> QED BY <2>1, <3>2, LinkIsMade
  <2>2. CASE UNCHANGED links
    <3>1. \A m : LinksOf(m)' = LinksOf(m)
      BY <2>2 DEF LinksOf
    <3>2. Cardinality(LinksOf(n)) \in Nat /\ Cardinality(LinksOf(n)') = Cardinality(LinksOf(n))
      BY <3>1, LinksAreCounted
    <3>3. /\ Cardinality(LinksOf(n)') \in Nat
          /\ Cardinality(LinksOf(n)') <= Cardinality(LinksOf(n)) + 1
      BY <3>2
    <3>4. LinksGrow
      BY <2>2 DEF LinksGrow
    <3> QED BY <2>2, <3>1, <3>3, <3>4 DEF IInv, TypeOK, LinksAreOwned
  <2> QED BY <2>1, <2>2
<1>4. TypeOK'
  <2>1. jobs' \subseteq {"create", "normalize"} \X Nat
    BY <1>1
  <2> QED BY <1>2, <1>3, <2>1 DEF IInv, TypeOK
<1>5. \A m \in Nat : <<"create", m>> \in jobs' => <<"create", m>> \in jobs /\ m # n
  BY <1>1
<1>6. \A m : m # n => Cardinality(LinksOf(m)') = Cardinality(LinksOf(m))
  BY <1>3
<1>7. CreatesAreOwed'
  BY <1>5, <1>6 DEF IInv, CreatesAreOwed
<1>8. LinksAreAccountedFor'
  <2>1. ASSUME NEW m \in DOMAIN attempts PROVE Cardinality(LinksOf(m)') <= 1 + crashes
    <3>1. CASE m = n
      <4>1. Cardinality(LinksOf(n)) <= crashes
        <5>1. n \in Nat
          BY <1>1, RowsAreTyped
        <5> QED BY <5>1 DEF IInv, CreatesAreOwed
      <4>2. Cardinality(LinksOf(n)) \in Nat
        BY LinksAreCounted
      <4> QED BY <1>1, <1>3, <3>1, <4>1, <4>2
    <3>2. CASE m # n
      <4>1. Cardinality(LinksOf(m)) <= 1 + crashes
        BY DEF IInv, LinksAreAccountedFor, LinksOf
      <4> QED BY <1>6, <3>2, <4>1
    <3> QED BY <3>1, <3>2
  <2> QED BY <1>2, <2>1 DEF LinksAreAccountedFor, LinksOf
<1>9. LinksAreOwned' /\ PaidIsCollected'
  BY <1>2, <1>3, PaidIsKept DEF LinksAreOwned
<1> QED BY <1>3, <1>4, <1>7, <1>8, <1>9, WebhooksAreKept DEF IInv

\* A job that finds nothing to do.
LEMMA RefuseKeepsIInv ==
  ASSUME IInv, NEW n \in DOMAIN attempts, RefuseCreate(n)
  PROVE  IInv'
<1>1. crashes \in 0..MaxCrashes /\ crashes' = crashes /\ crashes' >= crashes
  BY PaymentsAssumption DEF IInv, TypeOK, RefuseCreate
<1> QED BY <1>1, EndKeepsIInv DEF RefuseCreate, EndCreate

\* dispatch_payment_link, answered.
LEMMA CreateKeepsIInv ==
  ASSUME IInv, NEW n \in DOMAIN attempts, CreateLink(n)
  PROVE  IInv'
<1>1. /\ <<"create", n>> \in jobs /\ MakeLink(n) /\ EndCreate(n)
      /\ payment' = Transition(payment, "PENDING")
      /\ UNCHANGED <<captured, observations, inbox, txn, crashes, onName>>
  BY DEF CreateLink, Dispatchable
<1>2. Len(links) + 1 \in Nat
  BY <1>1, LinkIsMade
<1>3. PICK order \in NamedOrder(Len(links) + 1) :
        attempts' = [attempts EXCEPT ![n] = [status |-> "CREATED", link |-> Len(links) + 1,
                                             order |-> order, action |-> "SUCCEEDED"]]
  BY DEF CreateLink
<1> DEFINE row == [status |-> "CREATED", link |-> Len(links) + 1, order |-> order,
                   action |-> "SUCCEEDED"]
<1>4. row \in AttemptRow
  BY <1>2 DEF AttemptRow, AttemptStatus, ActionState, NamedOrder
<1>5. attempts' = [attempts EXCEPT ![n] = row]
  BY <1>3
<1>6. payment' \in PaymentStatus /\ (payment' = "PAID" => payment = "PAID")
  <2>1. "PENDING" \in PaymentStatus /\ payment \in PaymentStatus
    BY TablesAreTyped DEF PaymentStatus
  <2> QED BY <1>1, <2>1, TransitionIsHonest
<1> HIDE DEF row
<1> QED BY <1>1, <1>4, <1>5, <1>6, DispatchIsSound

\* dispatch_payment_link, refused or left without an answer.
LEMMA FailKeepsIInv ==
  ASSUME IInv, NEW n \in DOMAIN attempts, NEW outcome \in {"UNKNOWN_OUTCOME", "REVIEW_REQUIRED"},
         FailLink(n, outcome)
  PROVE  IInv'
<1> DEFINE row == [attempts[n] EXCEPT !.status = outcome, !.action = outcome]
<1>1. /\ <<"create", n>> \in jobs /\ EndCreate(n) /\ (MakeLink(n) \/ UNCHANGED links)
      /\ attempts' = [attempts EXCEPT ![n].status = outcome, ![n].action = outcome]
      /\ payment' = Transition(payment, "REVIEW_REQUIRED")
      /\ UNCHANGED <<captured, observations, inbox, txn, crashes, onName>>
  BY DEF FailLink, Dispatchable
<1>2. attempts \in Seq(AttemptRow) /\ payment \in PaymentStatus
  BY TablesAreTyped
<1>3. row \in AttemptRow
  <2>1. attempts[n] \in AttemptRow
    BY <1>2, RowsAreTyped
  <2> QED BY <2>1 DEF AttemptRow, AttemptStatus, ActionState
<1>4. attempts' = [attempts EXCEPT ![n] = row]
  BY <1>1
<1>5. payment' \in PaymentStatus /\ (payment' = "PAID" => payment = "PAID")
  <2>1. "REVIEW_REQUIRED" \in PaymentStatus
    BY DEF PaymentStatus
  <2> QED BY <1>1, <1>2, <2>1, TransitionIsHonest
<1> HIDE DEF row
<1> QED BY <1>1, <1>3, <1>4, <1>5, DispatchIsSound

\* A worker that dies after the provider's answer.
LEMMA CrashCreateKeepsIInv ==
  ASSUME IInv, NEW n \in DOMAIN attempts, CrashCreate(n)
  PROVE  IInv'
<1>1. /\ MakeLink(n) /\ crashes < MaxCrashes /\ crashes' = crashes + 1
      /\ UNCHANGED <<payment, attempts, captured, observations, inbox, jobs, txn, onName>>
  BY DEF CrashCreate, rows
<1>2. crashes \in Nat /\ crashes' \in 0..MaxCrashes
  BY <1>1, TablesAreTyped, PaymentsAssumption
<1>3. /\ links' \in Seq(ProviderLink) /\ Len(links') <= MaxLinks /\ LinksGrow
      /\ \A l \in DOMAIN links' : links'[l].attempt \in DOMAIN attempts
      /\ Cardinality(LinksOf(n)') = Cardinality(LinksOf(n)) + 1
      /\ \A m : m # n => LinksOf(m)' = LinksOf(m)
  BY <1>1, LinkIsMade
<1>4. TypeOK'
  BY <1>1, <1>2, <1>3 DEF IInv, TypeOK
<1>5. ASSUME NEW m, NEW k \in Nat, Cardinality(LinksOf(m)) <= k
      PROVE  Cardinality(LinksOf(m)') <= k + 1
  <2>1. Cardinality(LinksOf(m)) \in Nat
    BY LinksAreCounted
  <2>2. CASE m = n
    BY <1>3, <1>5, <2>1, <2>2
  <2>3. CASE m # n
    <3>1. Cardinality(LinksOf(m)') = Cardinality(LinksOf(m))
      BY <1>3, <2>3
    <3> QED BY <1>5, <2>1, <3>1
  <2> QED BY <2>2, <2>3
<1>6. CreatesAreOwed'
  BY <1>1, <1>2, <1>5 DEF IInv, CreatesAreOwed
<1>7. LinksAreAccountedFor'
  <2>1. ASSUME NEW m \in DOMAIN attempts PROVE Cardinality(LinksOf(m)') <= 1 + crashes'
    <3>1. Cardinality(LinksOf(m)) <= 1 + crashes /\ 1 + crashes \in Nat
      BY <1>2 DEF IInv, LinksAreAccountedFor, LinksOf
    <3>2. Cardinality(LinksOf(m)') <= (1 + crashes) + 1
      BY <1>5, <3>1
    <3>3. (1 + crashes) + 1 = 1 + crashes'
      BY <1>1, <1>2
    <3> QED BY <3>2, <3>3
  <2> QED BY <1>1, <2>1 DEF LinksAreAccountedFor, LinksOf
<1>8. LinksAreOwned' /\ PaidIsCollected'
  BY <1>1, <1>3, PaidIsKept DEF LinksAreOwned
<1> QED BY <1>1, <1>3, <1>4, <1>6, <1>7, <1>8, WebhooksAreKept DEF IInv

\* reconcile_payment_request, whatever the provider has.
LEMMA ReconcileKeepsIInv ==
  ASSUME IInv, NEW byJob \in BOOLEAN, Reconcile(byJob)
  PROVE  IInv'
<1> DEFINE n == Len(attempts)
<1>1. /\ attempts # <<>>
      /\ (\E l \in DOMAIN links : LinkFound(n, l)) \/ LinkMissing(n, byJob)
      /\ UNCHANGED <<captured, observations, inbox, jobs, txn, links, crashes, onName>>
  BY DEF Reconcile
<1>2. attempts \in Seq(AttemptRow) /\ payment \in PaymentStatus
  BY TablesAreTyped
<1>3. n \in DOMAIN attempts
  <2>1. Len(attempts) \in Nat /\ Len(attempts) # 0
    BY <1>1, <1>2, EmptySeq
  <2> QED BY <1>2, <2>1, RowsAreTyped
<1> HIDE DEF n
<1>4. attempts[n] \in AttemptRow
  BY <1>2, <1>3, RowsAreTyped
<1>5. ASSUME NEW row \in AttemptRow, attempts' = [attempts EXCEPT ![n] = row],
             payment' \in PaymentStatus, payment' = "PAID" => payment = "PAID"
      PROVE  IInv'
  <2>1. attempts' \in Seq(AttemptRow) /\ Len(attempts') = Len(attempts)
    BY <1>2, <1>3, <1>5, RowIsWritten
  <2> QED BY <1>1, <1>5, <2>1, RewriteKeepsIInv
<1>6. ASSUME NEW l \in DOMAIN links, LinkFound(n, l) PROVE IInv'
  <2>1. PICK order \in NamedOrder(l) :
          attempts' = [attempts EXCEPT ![n].link = l, ![n].order = order]
    BY <1>6 DEF LinkFound
  <2> DEFINE row == [attempts[n] EXCEPT !.link = l, !.order = order]
  <2>2. row \in AttemptRow
    <3>1. l \in Nat
      BY TablesAreTyped, RowsAreTyped
    <3> QED BY <1>4, <3>1 DEF AttemptRow, NamedOrder
  <2>3. attempts' = [attempts EXCEPT ![n] = row] /\ payment' = payment
    BY <1>6, <2>1 DEF LinkFound
  <2> HIDE DEF row
  <2> QED BY <1>2, <1>5, <2>2, <2>3
<1>7. CASE LinkMissing(n, byJob)
  <2> DEFINE row == [attempts[n] EXCEPT !.status = "UNKNOWN_OUTCOME"]
  <2>1. row \in AttemptRow
    BY <1>4 DEF AttemptRow, AttemptStatus
  <2>2. attempts' = [attempts EXCEPT ![n] = row]
    BY <1>7 DEF LinkMissing
  <2>3. payment' \in PaymentStatus /\ (payment' = "PAID" => payment = "PAID")
    <3>1. "REVIEW_REQUIRED" \in PaymentStatus
      BY DEF PaymentStatus
    <3> QED BY <1>2, <1>7, <3>1, TransitionIsHonest DEF LinkMissing
  <2> HIDE DEF row
  <2> QED BY <1>5, <2>1, <2>2, <2>3
<1> QED BY <1>1, <1>6, <1>7

\* The client pays, or the link is closed.
LEMMA LinkMovesKeepsIInv ==
  ASSUME IInv, NEW l \in DOMAIN links, LinkMoves(l)
  PROVE  IInv'
<1>1. PICK to \in {"authorized", "paid", "expired", "cancelled"} :
        /\ links[l].state \in {"open", "authorized"}
        /\ links' = [links EXCEPT ![l].state = to]
  BY DEF LinkMoves
<1> DEFINE row == [links[l] EXCEPT !.state = to]
<1>2. links \in Seq(ProviderLink) /\ crashes \in Nat
  BY TablesAreTyped
<1>3. row \in ProviderLink /\ row.attempt = links[l].attempt
  <2>1. links[l] \in ProviderLink
    BY <1>2, RowsAreTyped
  <2> QED BY <2>1 DEF ProviderLink
<1>4. links' = [links EXCEPT ![l] = row]
  BY <1>1
<1> HIDE DEF row
<1>5. /\ links' \in Seq(ProviderLink) /\ Len(links') = Len(links) /\ DOMAIN links' = DOMAIN links
      /\ \A k \in DOMAIN links : links'[k] = IF k = l THEN row ELSE links[k]
  BY <1>2, <1>3, <1>4, RowIsWritten
<1>6. /\ \A k \in DOMAIN links : links'[k].attempt = links[k].attempt
      /\ UNCHANGED <<payment, attempts, captured, observations, inbox, jobs, txn, crashes, onName>>
  BY <1>3, <1>5 DEF LinkMoves, rows
<1>7. LinksGrow
  BY <1>1, <1>5 DEF LinksGrow
<1>8. \A n : LinksOf(n)' = LinksOf(n)
  BY <1>5, <1>6 DEF LinksOf
<1>9. crashes' \in Nat /\ crashes' >= crashes
  BY <1>2, <1>6
<1>10. CreatesAreOwed' /\ LinksAreAccountedFor'
  BY <1>6, <1>8, <1>9, CountsAreKept
<1>11. TypeOK'
  BY <1>5, <1>6 DEF IInv, TypeOK
<1>12. LinksAreOwned' /\ PaidIsCollected'
  BY <1>5, <1>6, <1>7, PaidIsKept DEF IInv, LinksAreOwned
<1> QED BY <1>6, <1>7, <1>10, <1>11, <1>12, WebhooksAreKept DEF IInv

-----------------------------------------------------------------------------
(* Webhooks *)

\* accept_payment_webhook: one ingress row more, of a real event, which nobody holds.
LEMMA ReceiveKeepsIInv ==
  ASSUME IInv, NEW l \in DOMAIN links, NEW p \in Payloads, Receive(l, p)
  PROVE  IInv'
<1> DEFINE row == [state |-> "PENDING",
                   event |-> [link |-> l, kind |-> p.kind, exact |-> p.exact,
                              pay |-> p.pay, order |-> p.order]]
           new == Len(inbox) + 1
<1>1. /\ Len(inbox) < MaxWebhooks
      /\ p.pay = "captured" => links[l].state = "paid"
      /\ inbox' = Append(inbox, row)
      /\ jobs' \subseteq jobs \cup {<<"normalize", new>>}
      /\ UNCHANGED <<payment, attempts, captured, observations, txn, links, crashes, onName>>
  BY DEF Receive, rows
<1>2. row \in IngressRow /\ row.event.link = l /\ row.event.pay = p.pay /\ row.state = "PENDING"
  <2>1. p \in Payload /\ l \in Nat
    BY PaymentsAssumption, TablesAreTyped, RowsAreTyped
  <2> QED BY <2>1 DEF IngressRow, Event, Payload, IngressState
<1> HIDE DEF row
<1>3. /\ inbox' \in Seq(IngressRow) /\ Len(inbox) \in Nat /\ Len(inbox') = Len(inbox) + 1
      /\ DOMAIN inbox' = DOMAIN inbox \cup {new} /\ new \notin DOMAIN inbox
      /\ \A i \in DOMAIN inbox : inbox'[i] = inbox[i]
      /\ inbox'[new] = row
  BY <1>1, <1>2, TablesAreTyped, RowIsAdded
<1>4. new \in Nat /\ Len(inbox') <= MaxWebhooks
  BY <1>1, <1>3, PaymentsAssumption
<1>5. LinksGrow /\ \A n : LinksOf(n)' = LinksOf(n)
  BY <1>1 DEF LinksGrow, LinksOf
<1>6. TypeOK'
  <2>1. jobs' \subseteq {"create", "normalize"} \X Nat
    BY <1>1, <1>4, TablesAreTyped
  <2> QED BY <1>1, <1>3, <1>4, <2>1 DEF IInv, TypeOK
<1>7. EventsAreReal'
  BY <1>1, <1>2, <1>3 DEF IInv, EventsAreReal, Collected
<1>8. CapturesAreReal' /\ LocksAreApart'
  BY <1>1 DEF IInv, CapturesAreReal, LocksAreApart, Collected
<1>9. TransactionsAreSound'
  <2>1. ASSUME NEW t \in txn PROVE IsSound(t)'
    <3>1. IsSound(t)
      BY DEF IInv, TransactionsAreSound
    <3> QED BY <1>1, <1>3, <1>5, <3>1, TransactionStaysSound
  <2> QED BY <1>1, <2>1 DEF TransactionsAreSound
<1>10. EventsAreObservedOnce' /\ ObservedAreReceived'
  <2>1. ASSUME NEW i \in DOMAIN inbox'
        PROVE  /\ Len(observations[i]) <= 1
               /\ inbox'[i].state # "PENDING" => observations[i] # <<>>
    <3>1. CASE i \in DOMAIN inbox
      BY <1>3, <3>1 DEF IInv, EventsAreObservedOnce, Observed
    <3>2. CASE i = new
      <4>1. new \in Webhooks /\ new \notin DOMAIN inbox
        BY <1>1, <1>3, <1>4, PaymentsAssumption DEF Webhooks
      <4>2. observations[new] = <<>> /\ Len(<<>>) = 0
        BY <4>1 DEF IInv, ObservedAreReceived
      <4> QED BY <1>2, <1>3, <3>2, <4>2
    <3> QED BY <1>3, <3>1, <3>2
  <2> QED BY <1>1, <1>3, <2>1 DEF IInv, ObservedAreReceived, EventsAreObservedOnce, Observed
<1>11. CreatesAreOwed' /\ LinksAreAccountedFor'
  <2>1. crashes' \in Nat /\ crashes' >= crashes
    BY <1>1, TablesAreTyped
  <2> QED BY <1>1, <1>5, <2>1, CountsAreKept
<1>12. LinksAreOwned' /\ PaidIsCollected'
  BY <1>1, <1>5, PaidIsKept DEF IInv, LinksAreOwned
<1> QED BY <1>6, <1>7, <1>8, <1>9, <1>10, <1>11, <1>12 DEF IInv

\* The job has nothing to do, or not yet.
LEMMA SkipKeepsIInv ==
  ASSUME IInv, NEW i \in DOMAIN inbox, SkipNormalize(i)
  PROVE  IInv'
<1>1. crashes \in 0..MaxCrashes /\ crashes' = crashes /\ crashes' >= crashes
  BY PaymentsAssumption DEF IInv, TypeOK, SkipNormalize
<1> QED BY <1>1, EndKeepsIInv DEF SkipNormalize

\* What a webhook job writes, from the committed rows.
LEMMA JobWritesAreSound ==
  ASSUME IInv, NEW i \in DOMAIN inbox
  PROVE  /\ WritesAreSound(JobWrites(i), {i})
         /\ payment = "PAID" => JobWrites(i).payment \in {None, "PAID"}
<1> DEFINE now   == View(NoWrites, payment)
           first == Observe(now, NoWrites, i)
           mark  == IF ObserveRaises(now, i) THEN "REVIEW_REQUIRED" ELSE "NORMALIZED"
<1>1. WritesAreSound(NoWrites, {i}) /\ NoWrites.payment = None /\ payment \in PaymentStatus
  BY NothingIsSound, TablesAreTyped
<1>2. WritesAreSound(first, {i}) /\ Seen(first, i) /\ Continues(first, NoWrites, payment)
  BY <1>1, ObserveIsSound
<1>3. mark \in IngressState
  BY DEF IngressState
<1>4. JobWrites(i) = [first EXCEPT !.inbox[i] = mark]
  BY DEF JobWrites
<1> HIDE DEF first, mark
<1>5. /\ WritesAreSound([first EXCEPT !.inbox[i] = mark], {i})
      /\ [first EXCEPT !.inbox[i] = mark].payment = first.payment
  BY <1>2, <1>3, DoneIsSound
<1> QED BY <1>1, <1>2, <1>4, <1>5 DEF Continues

\* normalize_payment_webhook locks an ingress that nobody holds.
LEMMA StartNormalizeKeepsIInv ==
  ASSUME IInv, NEW i \in DOMAIN inbox, StartNormalize(i)
  PROVE  IInv'
<1> DEFINE t == [stage |-> "job", todo |-> {}, locked |-> {i}, request |-> None,
                 own |-> JobWrites(i)]
<1>1. /\ Free(txn, i) /\ txn' = txn \cup {t}
      /\ UNCHANGED <<rows, inbox, jobs, links, crashes, onName>>
  BY DEF StartNormalize, Open
<1>2. WritesAreSound(JobWrites(i), {i})
  BY JobWritesAreSound
<1>3. IsSound(t)
  <2>1. i \in Webhooks /\ JobWrites(i) \in Writes
    BY <1>2, EventIsTyped DEF WritesAreSound
  <2> QED BY <1>2, <2>1 DEF IsSound, Transaction
<1>4. \A s \in txn : s.locked \cap t.locked = {}
  BY <1>1 DEF Free
<1> HIDE DEF t
<1> QED BY <1>1, <1>3, <1>4, StepKeepsIInv

\* A worker or a sweep dies, or the sweep is undone.
LEMMA DropKeepsIInv ==
  ASSUME IInv, NEW t \in txn, txn' = txn \ {t}, UNCHANGED <<rows, inbox, jobs, links, onName>>,
         crashes' = crashes \/ (crashes < MaxCrashes /\ crashes' = crashes + 1)
  PROVE  IInv'
<1>1. crashes \in 0..MaxCrashes /\ MaxCrashes \in Nat
  BY PaymentsAssumption DEF IInv, TypeOK
<1>2. crashes' \in 0..MaxCrashes /\ crashes' >= crashes
  BY <1>1
<1> QED BY <1>2, EndKeepsIInv

\* The commit of a transaction: what it wrote, over whatever is there.
LEMMA SaveKeepsIInv ==
  ASSUME IInv, NEW t \in txn, Save(t.own), txn' = txn \ {t}, jobs' \subseteq jobs,
         UNCHANGED <<links, crashes>>
  PROVE  IInv'
<1> DEFINE own == t.own
           now == View(own, payment)
<1>1. /\ IsSound(t) /\ WritesAreSound(own, t.locked) /\ t.locked \subseteq DOMAIN inbox
  BY DEF IInv, TransactionsAreSound, IsSound
<1>2. /\ own \in Writes /\ own.inserted \in [Webhooks -> ObservationState \cup {None}]
      /\ own.replayed \in [Webhooks -> ObservationState \cup {None}]
      /\ own.inbox \in [Webhooks -> IngressState \cup {None}]
      /\ own.onName \in BOOLEAN
      /\ own.payment = "PAID" => own.onName \/ Money
      /\ \A i \in Webhooks :
           /\ own.inserted[i] # None => i \in t.locked /\ observations[i] = <<>>
           /\ own.replayed[i] # None => observations[i] # <<>>
           /\ own.inbox[i] # None => Seen(own, i)
  BY <1>1 DEF WritesAreSound, Writes
<1>3. /\ payment' = now.payment /\ attempts' = now.attempts /\ captured' = now.captured
      /\ observations' = now.observations
      /\ inbox' = [i \in DOMAIN inbox |-> [inbox[i] EXCEPT !.state = Latest(own.inbox[i], @)]]
      /\ onName' = (onName \/ own.onName)
  BY DEF Save
<1>4. /\ payment' \in PaymentStatus
      /\ payment' = IF own.payment = None THEN payment ELSE own.payment
      /\ attempts' \in Seq(AttemptRow) /\ DOMAIN attempts' = DOMAIN attempts
      /\ Len(attempts') = Len(attempts)
      /\ captured' \in [1..MaxLinks -> BOOLEAN \cup {None}]
      /\ \A l \in 1..MaxLinks : captured'[l] = TRUE => Collected(l)
  BY <1>1, <1>3, TablesAreTyped, ViewIsSound
<1>5. ASSUME NEW i \in Webhooks
      PROVE  /\ observations'[i] \in Seq(ObservationState)
             /\ observations'[i] = <<>> <=> ~Seen(own, i)
             /\ own.inserted[i] = None => (observations'[i] = <<>> <=> observations[i] = <<>>)
             /\ Len(observations[i]) <= 1 => Len(observations'[i]) <= 1
  <2> DEFINE old == IF own.replayed[i] = None THEN observations[i] ELSE <<own.replayed[i]>>
  <2>1. observations \in [Webhooks -> Seq(ObservationState)]
    BY TablesAreTyped
  <2>2. observations'[i] = old \o Row(own.inserted[i])
    BY <1>3, <2>1 DEF View
  <2>3. /\ old \in Seq(ObservationState) /\ (old = <<>> <=> observations[i] = <<>>)
        /\ Len(observations[i]) <= 1 => Len(old) <= 1
    <3>1. own.replayed[i] # None => /\ <<own.replayed[i]>> \in Seq(ObservationState)
                                    /\ Len(<<own.replayed[i]>>) = 1
      BY <1>2
    <3> QED BY <1>2, <2>1, <3>1
  <2> HIDE DEF old, own
  <2>4. CASE own.inserted[i] = None
    BY <2>2, <2>3, <2>4, RowsOfOne DEF Seen
  <2>5. CASE own.inserted[i] # None
    <3>1. own.inserted[i] \in ObservationState /\ old = <<>>
      BY <1>2, <2>3, <2>5
    <3>2. Len(<<>>) = 0
      OBVIOUS
    <3>3. /\ old \o Row(own.inserted[i]) \in Seq(ObservationState)
          /\ old \o Row(own.inserted[i]) # <<>> /\ Len(old \o Row(own.inserted[i])) = 1
      BY <2>3, <2>5, <3>1, RowsOfOne
    <3> QED BY <2>2, <2>5, <3>3 DEF Seen
  <2> QED BY <2>4, <2>5
<1>6. observations' \in [Webhooks -> Seq(ObservationState)]
  <2>1. observations' = [i \in Webhooks |-> observations'[i]]
    <3>1. DOMAIN observations = Webhooks
      BY TablesAreTyped
    <3> QED BY <1>3, <3>1 DEF View
  <2> QED BY <1>5, <2>1
<1> HIDE DEF now, own
<1>7. /\ inbox' \in Seq(IngressRow) /\ Len(inbox') = Len(inbox) /\ DOMAIN inbox' = DOMAIN inbox
      /\ \A i \in DOMAIN inbox :
           /\ inbox'[i].event = inbox[i].event
           /\ inbox'[i].state = IF own.inbox[i] = None THEN inbox[i].state ELSE own.inbox[i]
  <2>1. ASSUME NEW i \in DOMAIN inbox
        PROVE  LET row == [inbox[i] EXCEPT !.state = Latest(own.inbox[i], @)] IN
               /\ row \in IngressRow /\ row.event = inbox[i].event
               /\ row.state = IF own.inbox[i] = None THEN inbox[i].state ELSE own.inbox[i]
    <3>1. inbox[i] \in IngressRow /\ own.inbox[i] \in IngressState \cup {None}
      BY <1>2, EventIsTyped, TablesAreTyped, RowsAreTyped
    <3> QED BY <3>1 DEF IngressRow, Latest
  <2>2. inbox' \in [DOMAIN inbox -> IngressRow] /\ inbox \in Seq(IngressRow)
    BY <1>3, <2>1, TablesAreTyped
  <2>3. inbox' \in Seq(IngressRow) /\ Len(inbox') = Len(inbox) /\ DOMAIN inbox' = DOMAIN inbox
    BY <2>2, TableIsRewritten
  <2> QED BY <1>3, <2>1, <2>3
<1>8. LinksGrow /\ (\A n : LinksOf(n)' = LinksOf(n)) /\ \A l : Collected(l)' = Collected(l)
  BY DEF LinksGrow, LinksOf, Collected
<1>9. TypeOK'
  <2>1. onName' \in BOOLEAN
    BY <1>2, <1>3, TablesAreTyped
  <2> QED BY <1>4, <1>6, <1>7, <2>1 DEF IInv, TypeOK
<1>10. LinksAreOwned' /\ EventsAreReal' /\ CapturesAreReal' /\ LocksAreApart'
  BY <1>4, <1>7, <1>8 DEF IInv, LinksAreOwned, EventsAreReal, CapturesAreReal, LocksAreApart
<1>11. CreatesAreOwed' /\ LinksAreAccountedFor'
  <2>1. crashes' \in Nat /\ crashes' >= crashes
    BY TablesAreTyped
  <2> QED BY <1>4, <1>8, <2>1, CountsAreKept
<1>12. TransactionsAreSound'
  <2>1. ASSUME NEW s \in txn \ {t} PROVE IsSound(s)'
    <3>1. IsSound(s) /\ s.locked \cap t.locked = {}
      BY DEF IInv, TransactionsAreSound, LocksAreApart
    <3>2. \A i \in Webhooks : observations[i] # <<>> => observations'[i] # <<>>
      BY <1>5 DEF Seen
    <3>3. \A i \in Webhooks : i \in s.locked /\ observations[i] = <<>> => observations'[i] = <<>>
      BY <1>2, <1>5, <3>1
    <3> QED BY <1>7, <1>8, <3>1, <3>2, <3>3, TransactionStaysSound
  <2> QED BY <2>1 DEF TransactionsAreSound
<1>13. ObservedAreReceived'
  <2>1. ASSUME NEW i \in Webhooks, observations'[i] # <<>> PROVE i \in DOMAIN inbox
    BY <1>1, <1>2, <1>5, <2>1 DEF Seen, IInv, ObservedAreReceived
  <2> QED BY <1>7, <2>1 DEF ObservedAreReceived
<1>14. EventsAreObservedOnce'
  <2>1. ASSUME NEW i \in DOMAIN inbox
        PROVE  /\ Len(observations'[i]) <= 1
               /\ inbox'[i].state # "PENDING" => observations'[i] # <<>>
    <3>1. i \in Webhooks
      BY EventIsTyped
    <3>2. /\ Len(observations[i]) <= 1
          /\ inbox[i].state # "PENDING" => observations[i] # <<>>
      BY DEF IInv, EventsAreObservedOnce, Observed
    <3> QED BY <1>2, <1>5, <1>7, <3>1, <3>2 DEF Seen
  <2> QED BY <1>7, <2>1 DEF EventsAreObservedOnce, Observed
<1>15. PaidIsCollected'
  BY <1>2, <1>3, <1>4 DEF IInv, PaidIsCollected, Money
<1> QED BY <1>9, <1>10, <1>11, <1>12, <1>13, <1>14, <1>15 DEF IInv

-----------------------------------------------------------------------------
(* The sweep *)

\* A sweep locks webhooks that nobody holds.
LEMMA StartSweepKeepsIInv ==
  ASSUME IInv, StartSweep
  PROVE  IInv'
<1> DEFINE Begun(stage, found) == [stage |-> stage, todo |-> found, locked |-> found,
                                   request |-> None, own |-> NoWrites]
<1>1. UNCHANGED <<rows, inbox, jobs, links, crashes, onName>>
  BY DEF StartSweep
<1>2. ASSUME NEW found \in SUBSET DOMAIN inbox, NEW stage \in {"normalize", "replay"},
             \A i \in found : Free(txn, i),
             stage = "replay" => \A i \in found : Seen(NoWrites, i),
             Open(Begun(stage, found))
      PROVE  IInv'
  <2>1. WritesAreSound(NoWrites, found)
    BY NothingIsSound
  <2>2. IsSound(Begun(stage, found))
    <3>1. found \subseteq Webhooks /\ NoWrites \in Writes
      BY <2>1, TablesAreTyped DEF WritesAreSound
    <3> QED BY <1>2, <2>1, <3>1 DEF IsSound, Transaction
  <2>3. \A s \in txn : s.locked \cap Begun(stage, found).locked = {}
    BY <1>2 DEF Free
  <2>4. txn' = txn \cup {Begun(stage, found)}
    BY <1>2 DEF Open
  <2> HIDE DEF Begun
  <2> QED BY <1>1, <2>2, <2>3, <2>4, StepKeepsIInv
<1>3. CASE Open(Begun("normalize", Pending))
  <2>1. Pending \in SUBSET DOMAIN inbox /\ \A i \in Pending : Free(txn, i)
    BY DEF Pending
  <2> HIDE DEF Begun
  <2> QED BY <1>2, <1>3, <2>1
<1>4. CASE Open(Begun("replay", Unmatched(NoWrites, txn)))
  <2> DEFINE found == Unmatched(NoWrites, txn)
  <2>1. found \in SUBSET DOMAIN inbox /\ \A i \in found : Free(txn, i)
    BY DEF Unmatched
  <2>2. \A i \in found : Seen(NoWrites, i)
    BY UnmatchedAreSeen, NothingIsSound
  <2> HIDE DEF Begun, found
  <2> QED BY <1>2, <1>4, <2>1, <2>2 DEF found
<1> QED BY <1>3, <1>4 DEF StartSweep

\* The next state of a sweep t: it is sound, and the other transactions hold other webhooks.
LEMMA SweepStepKeepsIInv ==
  ASSUME IInv, NEW t \in txn, NEW next, GoesOn(t, next), IsSound(next),
         \A s \in txn \ {t} : s.locked \cap next.locked = {},
         UNCHANGED <<rows, inbox, jobs, links, crashes, onName>>
  PROVE  IInv'
BY StepKeepsIInv DEF GoesOn

\* A sweep as it is.
LEMMA SweepIsSound ==
  ASSUME IInv, NEW t \in txn
  PROVE  /\ IsSound(t) /\ t \in Transaction /\ WritesAreSound(t.own, t.locked)
         /\ t.todo \subseteq t.locked /\ t.locked \subseteq DOMAIN inbox
         /\ t.stage = "replay" => \A i \in t.todo : Seen(t.own, i)
         /\ HeldRequest(t) \in PaymentStatus
         /\ \A s \in txn \ {t} : s.locked \cap t.locked = {}
<1>1. IsSound(t) /\ \A s \in txn \ {t} : s.locked \cap t.locked = {}
  BY DEF IInv, TransactionsAreSound, LocksAreApart
<1>2. HeldRequest(t) \in PaymentStatus
  BY <1>1, TablesAreTyped DEF IsSound, Transaction, HeldRequest, Latest
<1> QED BY <1>1, <1>2 DEF IsSound

\* The turn of a webhook, as the sweep goes on with it.
LEMMA NormalizeTurnIsSound ==
  ASSUME IInv, NEW t \in txn, NEW i \in t.todo, NormalizeTurn(t, i)
  PROVE  \E next : /\ GoesOn(t, next) /\ IsSound(next) /\ next.locked = t.locked
                   /\ Continues(next.own, t.own, payment)
<1> DEFINE now  == View(t.own, payment)
           seen == Observe(now, t.own, i)
           done == [seen EXCEPT !.inbox[i] = "NORMALIZED"]
           own  == IF ObserveRaises(now, i) THEN t.own ELSE done
           next == [t EXCEPT !.todo = @ \ {i}, !.own = own]
<1>1. t.stage = "normalize" /\ GoesOn(t, next)
  BY DEF NormalizeTurn, IsNext
<1>2. /\ t \in Transaction /\ WritesAreSound(t.own, t.locked) /\ i \in t.locked
      /\ i \in DOMAIN inbox /\ payment \in PaymentStatus /\ t.todo \subseteq t.locked
      /\ t.locked \subseteq DOMAIN inbox
  BY SweepIsSound, TablesAreTyped
<1>3. WritesAreSound(seen, t.locked) /\ Seen(seen, i) /\ Continues(seen, t.own, payment)
  BY <1>2, ObserveIsSound
<1> HIDE DEF seen
<1>4. /\ WritesAreSound(done, t.locked) /\ done.payment = seen.payment
      /\ \A k \in Webhooks : Seen(seen, k) => Seen(done, k)
  BY <1>2, <1>3, DoneIsSound DEF IngressState
<1> HIDE DEF done
<1>5. WritesAreSound(own, t.locked) /\ Continues(own, t.own, payment)
  BY <1>2, <1>3, <1>4 DEF Continues
<1> HIDE DEF own
<1>6. /\ next \in Transaction /\ next.locked = t.locked /\ next.own = own
      /\ next.todo = t.todo \ {i} /\ next.stage = "normalize"
  BY <1>1, <1>2, <1>5 DEF Transaction, WritesAreSound
<1> HIDE DEF next
<1>7. IsSound(next)
  BY <1>2, <1>5, <1>6 DEF IsSound
<1> QED BY <1>1, <1>5, <1>6, <1>7

\* The sweep turns to the unmatched observations that nobody else holds.
LEMMA StartReplayIsSound ==
  ASSUME IInv, NEW t \in txn, StartReplay(t)
  PROVE  \E next : /\ GoesOn(t, next) /\ IsSound(next) /\ next.own = t.own
                   /\ t.locked \subseteq next.locked
                   /\ \A s \in txn \ {t} : s.locked \cap next.locked = {}
<1> DEFINE found == Unmatched(t.own, txn \ {t})
           next  == [t EXCEPT !.stage = "replay", !.todo = found, !.locked = @ \cup found]
<1>1. GoesOn(t, next)
  BY DEF StartReplay
<1>2. /\ t \in Transaction /\ WritesAreSound(t.own, t.locked) /\ t.locked \subseteq DOMAIN inbox
      /\ \A s \in txn \ {t} : s.locked \cap t.locked = {}
  BY SweepIsSound
<1>3. /\ found \subseteq DOMAIN inbox /\ found \subseteq Webhooks
      /\ \A i \in found : Free(txn \ {t}, i) /\ Seen(t.own, i)
  BY <1>2, UnmatchedAreSeen, TablesAreTyped DEF Unmatched
<1> HIDE DEF found
<1>4. /\ next \in Transaction /\ next.own = t.own /\ next.todo = found
      /\ next.locked = t.locked \cup found
  BY <1>2, <1>3 DEF Transaction
<1> HIDE DEF next
<1>5. WritesAreSound(t.own, next.locked)
  BY <1>2, <1>4 DEF WritesAreSound
<1>6. IsSound(next)
  BY <1>2, <1>3, <1>4, <1>5 DEF IsSound
<1>7. \A s \in txn \ {t} : s.locked \cap next.locked = {}
  BY <1>2, <1>3, <1>4 DEF Free
<1> QED BY <1>1, <1>4, <1>6, <1>7

\* One round of the replay.
LEMMA ReplayTurnIsSound ==
  ASSUME IInv, NEW t \in txn, NEW i \in t.todo, ReplayTurn(t, i)
  PROVE  \E next : /\ GoesOn(t, next) /\ IsSound(next) /\ next.locked = t.locked
                   /\ Continues(next.own, t.own, HeldRequest(t))
<1> DEFINE now == View(t.own, HeldRequest(t))
           e   == inbox[i].event
           request == IF ReplayAttempt(attempts, e) = 0 THEN None ELSE HeldRequest(t)
           Own(late) == IF e.exact THEN Replay(now, t.own, i)
                        ELSE IF late THEN Settle(t.own, i, "MANUAL_REVIEW")
                        ELSE t.own
           Next1(late) == [t EXCEPT !.todo = @ \ {i}, !.request = request, !.own = Own(late)]
<1>1. t.stage = "replay" /\ \E late \in BOOLEAN : GoesOn(t, Next1(late))
  BY DEF ReplayTurn, IsNext
<1>2. PICK late \in BOOLEAN : GoesOn(t, Next1(late))
  BY <1>1
<1>3. /\ t \in Transaction /\ WritesAreSound(t.own, t.locked) /\ Seen(t.own, i)
      /\ i \in DOMAIN inbox /\ t.todo \subseteq t.locked /\ t.locked \subseteq DOMAIN inbox
      /\ HeldRequest(t) \in PaymentStatus /\ \A k \in t.todo : Seen(t.own, k)
  BY <1>1, SweepIsSound
<1> DEFINE own == Own(late)
<1>4. WritesAreSound(own, t.locked) /\ Continues(own, t.own, HeldRequest(t))
  <2>1. CASE e.exact
    BY <1>3, <2>1, ReplayIsSound
  <2>2. CASE ~e.exact /\ late
    BY <1>3, <2>2, SettleIsSound
  <2>3. CASE ~e.exact /\ ~late
    BY <1>3, <2>3 DEF Continues
  <2> QED BY <2>1, <2>2, <2>3
<1>5. request \in PaymentStatus \cup {None}
  BY <1>3
<1> DEFINE next == Next1(late)
<1> HIDE DEF request, Own
<1>6. /\ next \in Transaction /\ next.locked = t.locked /\ next.own = own
      /\ next.todo = t.todo \ {i}
  BY <1>3, <1>4, <1>5 DEF Transaction, WritesAreSound
<1> HIDE DEF own
<1>7. IsSound(next)
  <2>1. t.todo \subseteq Webhooks
    BY <1>3, TablesAreTyped
  <2> HIDE DEF Next1
  <2> QED BY <1>3, <1>4, <1>6, <2>1 DEF IsSound, Continues
<1> QED BY <1>2, <1>4, <1>6, <1>7

\* An open transaction goes on, and commits.
LEMMA AdvanceKeepsIInv ==
  ASSUME IInv, NEW t \in txn, Advance(t)
  PROVE  IInv'
<1>1. CASE FinishNormalize(t)
  BY <1>1, SaveKeepsIInv DEF FinishNormalize
<1>2. ASSUME NEW i \in t.todo, NormalizeTurn(t, i) PROVE IInv'
  BY <1>2, NormalizeTurnIsSound, SweepIsSound, SweepStepKeepsIInv DEF NormalizeTurn
<1>3. ASSUME NEW i \in t.todo, ReplayTurn(t, i) PROVE IInv'
  BY <1>3, ReplayTurnIsSound, SweepIsSound, SweepStepKeepsIInv DEF ReplayTurn
<1>4. ASSUME NEW i \in t.todo, ReplayRefused(t, i) PROVE IInv'
  BY <1>4, DropKeepsIInv DEF ReplayRefused
<1>5. CASE StartReplay(t)
  BY <1>5, StartReplayIsSound, SweepStepKeepsIInv DEF StartReplay
<1>6. CASE CommitSweep(t)
  BY <1>6, SaveKeepsIInv DEF CommitSweep
<1> QED BY <1>1, <1>2, <1>3, <1>4, <1>5, <1>6 DEF Advance

-----------------------------------------------------------------------------
(* The theorems *)

\* Nothing was asked for, made or received.
LEMMA InitIInv == Init => IInv
<1> SUFFICES ASSUME Init PROVE IInv
  OBVIOUS
<1>1. /\ payment = "CREATION_PENDING" /\ attempts = <<>> /\ inbox = <<>> /\ jobs = {}
      /\ captured = [l \in 1..MaxLinks |-> None] /\ observations = [i \in Webhooks |-> <<>>]
      /\ txn = {} /\ links = <<>> /\ crashes = 0 /\ onName = FALSE
  BY DEF Init
<1>2. /\ \A R : <<>> \in Seq(R)
      /\ Len(<<>>) = 0 /\ DOMAIN <<>> = {}
  BY EmptySeq
<1>3. TypeOK
  <2>1. /\ captured \in [1..MaxLinks -> BOOLEAN \cup {None}]
        /\ observations \in [Webhooks -> Seq(ObservationState)]
    <3>1. <<>> \in Seq(ObservationState)
      BY <1>2
    <3> QED BY <1>1, <3>1
  <2>2. payment \in PaymentStatus /\ crashes \in 0..MaxCrashes /\ onName \in BOOLEAN
    <3>1. 0 \in 0..MaxCrashes
      BY PaymentsAssumption
    <3> QED BY <1>1, <3>1 DEF PaymentStatus
  <2>3. /\ attempts \in Seq(AttemptRow) /\ Len(attempts) <= MaxLinkAttempts
        /\ inbox \in Seq(IngressRow) /\ Len(inbox) <= MaxWebhooks
        /\ links \in Seq(ProviderLink) /\ Len(links) <= MaxLinks
    BY <1>1, <1>2, PaymentsAssumption
  <2>4. jobs \subseteq {"create", "normalize"} \X Nat /\ txn \subseteq Transaction
    BY <1>1
  <2> QED BY <2>1, <2>2, <2>3, <2>4 DEF TypeOK
<1>4. LinksAreOwned /\ EventsAreReal /\ CreatesAreOwed /\ TransactionsAreSound /\ LocksAreApart
  BY <1>1, <1>2 DEF LinksAreOwned, EventsAreReal, CreatesAreOwed, TransactionsAreSound,
     LocksAreApart
<1>5. CapturesAreReal /\ ObservedAreReceived
  BY <1>1, <1>2, PaymentsAssumption DEF CapturesAreReal, ObservedAreReceived
<1>6. PaidIsCollected /\ LinksAreAccountedFor /\ EventsAreObservedOnce
  BY <1>1, <1>2 DEF PaidIsCollected, LinksAreAccountedFor, EventsAreObservedOnce
<1> QED BY <1>3, <1>4, <1>5, <1>6 DEF IInv

\* Every step keeps the invariant.
LEMMA NextIInv == IInv /\ [Next]_vars => IInv'
<1> SUFFICES ASSUME IInv, [Next]_vars PROVE IInv'
  OBVIOUS
<1>1. CASE PrepareLink \/ ReplaceLink
  BY <1>1, PrepareKeepsIInv, ReplaceKeepsIInv
<1>2. ASSUME NEW n \in DOMAIN attempts, Create(n) PROVE IInv'
  BY <1>2, RefuseKeepsIInv, CreateKeepsIInv, FailKeepsIInv DEF Create
<1>3. ASSUME NEW n \in DOMAIN attempts, CrashCreate(n) PROVE IInv'
  BY <1>3, CrashCreateKeepsIInv
<1>4. ASSUME NEW l \in DOMAIN links, LinkMoves(l) PROVE IInv'
  BY <1>4, LinkMovesKeepsIInv
<1>5. ASSUME NEW l \in DOMAIN links, NEW p \in Payloads, Receive(l, p) PROVE IInv'
  BY <1>5, ReceiveKeepsIInv
<1>6. ASSUME NEW i \in DOMAIN inbox, Normalize(i) PROVE IInv'
  BY <1>6, SkipKeepsIInv, StartNormalizeKeepsIInv DEF Normalize
<1>7. CASE StartSweep
  BY <1>7, StartSweepKeepsIInv
<1>8. ASSUME NEW t \in txn, Advance(t) PROVE IInv'
  BY <1>8, AdvanceKeepsIInv
<1>9. ASSUME NEW t \in txn, AbortSweep(t) PROVE IInv'
  BY <1>9, DropKeepsIInv DEF AbortSweep
<1>10. ASSUME NEW t \in txn, Crash(t) PROVE IInv'
  BY <1>10, DropKeepsIInv DEF Crash
<1>11. ASSUME NEW byJob \in BOOLEAN, Reconcile(byJob) PROVE IInv'
  BY <1>11, ReconcileKeepsIInv
<1>12. CASE UNCHANGED vars
  <2>1. UNCHANGED <<rows, inbox, jobs, txn, links, crashes, onName>>
    BY <1>12 DEF vars
  <2>2. crashes' \in 0..MaxCrashes /\ crashes' >= crashes
    BY <2>1, PaymentsAssumption DEF IInv, TypeOK
  <2> QED BY <2>1, <2>2, EndKeepsIInv
<1> QED
  BY <1>1, <1>2, <1>3, <1>4, <1>5, <1>6, <1>7, <1>8, <1>9, <1>10, <1>11, <1>12 DEF Next

\* The invariant.
THEOREM Invariance == Spec => []IInv
<1>1. Init => IInv
  BY InitIInv
<1>2. IInv /\ [Next]_vars => IInv'
  BY NextIInv
<1> QED BY <1>1, <1>2, PTL DEF Spec

\* Rows keep their types: no read of a job or a sweep goes stale in a way that its commit would
\* break, and no attempt is made beyond MaxLinkAttempts.
THEOREM PaymentTypes == Spec => []TypeOK
<1>1. IInv => TypeOK
  BY DEF IInv
<1> QED BY <1>1, Invariance, PTL

\* _transition, PaymentAttempt.captured: PAID rests on money the provider has collected,
\* whatever the order of jobs, sweeps and replays, and however stale what they read; unless a
\* replay believed an event by its name.
THEOREM PaidRestsOnMoney == Spec => []PaidIsCollected
<1>1. IInv => PaidIsCollected
  BY DEF IInv
<1> QED BY <1>1, Invariance, PTL

\* dispatch_payment_link: one provider link for an attempt, and one more for each transaction
\* that died after the provider's answer.
THEOREM LinksAreFew == Spec => []LinksAreAccountedFor
<1>1. IInv => LinksAreAccountedFor
  BY DEF IInv
<1> QED BY <1>1, Invariance, PTL

\* observe_payment_event: one observation for an event, whoever leads to it, and one for each
\* ingress row that is done.
THEOREM OneObservationPerEvent == Spec => []EventsAreObservedOnce
<1>1. IInv => EventsAreObservedOnce
  BY DEF IInv
<1> QED BY <1>1, Invariance, PTL

-----------------------------------------------------------------------------
(* How PAID is lost *)

\* No step but a commit takes PAID back, and that of a transaction that wrote another status.
LEMMA OnlyCommitsTakePaid ==
  ASSUME IInv, Next, payment = "PAID", payment' # "PAID"
  PROVE  \E t \in txn : (FinishNormalize(t) \/ CommitSweep(t)) /\ payment' = t.own.payment
<1>1. CASE PrepareLink \/ ReplaceLink
  BY <1>1 DEF PrepareLink, ReplaceLink
<1>2. ASSUME NEW n \in DOMAIN attempts, Create(n) PROVE FALSE
  BY <1>2 DEF Create, RefuseCreate, CreateLink, FailLink, Dispatchable, Eligible, rows
<1>3. ASSUME NEW n \in DOMAIN attempts, CrashCreate(n) PROVE FALSE
  BY <1>3 DEF CrashCreate, rows
<1>4. ASSUME NEW l \in DOMAIN links, LinkMoves(l) \/ \E p \in Payloads : Receive(l, p) PROVE FALSE
  BY <1>4 DEF LinkMoves, Receive, rows
<1>5. ASSUME NEW i \in DOMAIN inbox, Normalize(i) PROVE FALSE
  BY <1>5 DEF Normalize, SkipNormalize, StartNormalize, rows
<1>6. CASE StartSweep
  BY <1>6 DEF StartSweep, rows
<1>7. ASSUME NEW t \in txn, AbortSweep(t) \/ Crash(t) PROVE FALSE
  BY <1>7 DEF AbortSweep, Crash, rows
<1>8. ASSUME NEW byJob \in BOOLEAN, Reconcile(byJob) PROVE FALSE
  <2>1. Transition("PAID", "REVIEW_REQUIRED") = "PAID"
    BY DEF Transition, Frozen
  <2> QED BY <1>8, <2>1 DEF Reconcile, LinkFound, LinkMissing
<1>9. ASSUME NEW t \in txn, Advance(t)
      PROVE  (FinishNormalize(t) \/ CommitSweep(t)) /\ payment' = t.own.payment
  <2>1. CASE FinishNormalize(t) \/ CommitSweep(t)
    <3>1. payment' = Latest(t.own.payment, payment)
      BY <2>1 DEF FinishNormalize, CommitSweep, Save, View
    <3> QED BY <2>1, <3>1 DEF Latest
  <2>2. CASE \E i \in t.todo : NormalizeTurn(t, i) \/ ReplayTurn(t, i) \/ ReplayRefused(t, i)
    BY <2>2 DEF NormalizeTurn, ReplayTurn, ReplayRefused, rows
  <2>3. CASE StartReplay(t)
    BY <2>3 DEF StartReplay, rows
  <2> QED BY <1>9, <2>1, <2>2, <2>3 DEF Advance
<1> QED BY <1>1, <1>2, <1>3, <1>4, <1>5, <1>6, <1>7, <1>8, <1>9 DEF Next

\* What PaidFallsToStaleReads says of a transaction that was opened or has gone on.
Excused(t) ==
  \/ payment # "PAID"
  \/ \E old \in txn : /\ old.locked \subseteq t.locked
                      /\ \/ old.own.payment = t.own.payment
                         \/ old.request \notin {None, "PAID"}

\* A transaction that reads the request PAID, as its session has it, does not move it.
LEMMA ReadersLeavePaid ==
  ASSUME IInv, [Next]_vars, NEW t \in txn' \ txn, t.own.payment \in PaymentStatus \ {"PAID"}
  PROVE  Excused(t)
<1>1. None \notin PaymentStatus
  BY PaymentsAssumption
<1>2. ASSUME txn' \subseteq txn PROVE Excused(t)
  BY <1>2
<1>3. ASSUME NEW i \in DOMAIN inbox, StartNormalize(i) PROVE Excused(t)
  <2>1. t.own = JobWrites(i)
    BY <1>3 DEF StartNormalize, Open
  <2> QED BY <1>1, <2>1, JobWritesAreSound DEF Excused
<1>4. CASE StartSweep
  <2>1. t.own = NoWrites
    BY <1>4 DEF StartSweep, Open
  <2> QED BY <1>1, <2>1, NothingIsSound
<1>5. ASSUME NEW old \in txn, NEW i \in old.todo, NormalizeTurn(old, i) PROVE Excused(t)
  <2>1. PICK next : GoesOn(old, next) /\ next.locked = old.locked
                    /\ Continues(next.own, old.own, payment)
    BY <1>5, NormalizeTurnIsSound
  <2>2. t = next
    BY <2>1 DEF GoesOn
  <2> QED BY <2>1, <2>2 DEF Continues, Excused
<1>6. ASSUME NEW old \in txn, NEW i \in old.todo, ReplayTurn(old, i) PROVE Excused(t)
  <2>1. PICK next : GoesOn(old, next) /\ next.locked = old.locked
                    /\ Continues(next.own, old.own, HeldRequest(old))
    BY <1>6, ReplayTurnIsSound
  <2>2. t = next
    BY <2>1 DEF GoesOn
  <2>3. HeldRequest(old) # "PAID" /\ payment = "PAID" => old.request \notin {None, "PAID"}
    BY DEF HeldRequest, Latest
  <2> QED BY <2>1, <2>2, <2>3 DEF Continues, Excused
<1>7. ASSUME NEW old \in txn, StartReplay(old) PROVE Excused(t)
  <2>1. PICK next : GoesOn(old, next) /\ next.own = old.own /\ old.locked \subseteq next.locked
    BY <1>7, StartReplayIsSound
  <2>2. t = next
    BY <2>1 DEF GoesOn
  <2> QED BY <2>1, <2>2 DEF Excused
<1>8. CASE PrepareLink \/ ReplaceLink \/ \E n \in DOMAIN attempts : Create(n) \/ CrashCreate(n)
  BY <1>2, <1>8 DEF PrepareLink, ReplaceLink, Create, RefuseCreate, CreateLink, FailLink,
     CrashCreate
<1>9. CASE \E l \in DOMAIN links : LinkMoves(l) \/ \E p \in Payloads : Receive(l, p)
  BY <1>2, <1>9 DEF LinkMoves, Receive
<1>10. CASE \E i \in DOMAIN inbox : SkipNormalize(i)
  BY <1>2, <1>10 DEF SkipNormalize
<1>11. ASSUME NEW old \in txn, AbortSweep(old) \/ Crash(old) \/ FinishNormalize(old)
                               \/ CommitSweep(old) \/ \E i \in old.todo : ReplayRefused(old, i)
       PROVE  Excused(t)
  BY <1>2, <1>11 DEF AbortSweep, Crash, FinishNormalize, CommitSweep, ReplayRefused
<1>12. CASE (\E byJob \in BOOLEAN : Reconcile(byJob)) \/ UNCHANGED vars
  BY <1>2, <1>12 DEF Reconcile, vars
<1> QED BY <1>3, <1>4, <1>5, <1>6, <1>7, <1>8, <1>9, <1>10, <1>11, <1>12
        DEF Next, Normalize, Advance

\* The only way out of PAID, for every number of transactions: the commit of a job or a sweep
\* that wrote the request, and that did not read it PAID when it decided to.
THEOREM PaidFallsOnlyToStaleReads == Spec => PaidFallsToStaleReads
<1> DEFINE Kept ==
      /\ payment = "PAID" /\ payment' # "PAID" =>
           \E t \in txn : /\ FinishNormalize(t) \/ CommitSweep(t)
                          /\ payment' = t.own.payment
      /\ \A t \in txn' \ txn : t.own.payment \in PaymentStatus \ {"PAID"} => Excused(t)
<1>1. IInv /\ [Next]_vars => [Kept]_vars
  BY OnlyCommitsTakePaid, ReadersLeavePaid
<1>2. [][Kept]_vars => PaidFallsToStaleReads
  BY DEF PaidFallsToStaleReads, Excused
<1> HIDE DEF Kept
<1> QED BY <1>1, <1>2, Invariance, PTL DEF Spec
=============================================================================
