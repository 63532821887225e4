------------------------- MODULE MailboxSyncProofs -------------------------
(***************************************************************************)
(* Safety of MailboxSync for any number of jobs at a time, messages,       *)
(* pages, reconnects and troubles.                                         *)
(*                                                                         *)
(* The induction rests on pages: a history job starts at an id up to which *)
(* everything is stored or was left behind, or at an id it was told, and a *)
(* page continues from there without a hole. Nothing is assumed of what    *)
(* other jobs write between the first read of a job and its end.           *)
(***************************************************************************)
EXTENDS MailboxSync, FiniteSetTheorems, TLAPS

\* The messages in the mailbox are 1..arrived.
MailIsInOrder == \E n \in Cursor : \A m \in Messages : mail[m] # None <=> m <= n

\* Everything after the first checkpoint and up to h is stored or was left behind.
Reached(h) ==
  /\ h \in Cursor /\ h <= arrived
  /\ checkpoint # None
  /\ \A m \in Messages : checkpoint < m /\ m <= h => ingested[m] # None \/ m \in passed

CursorIsReached == conn.cursor # None => Reached(conn.cursor)

Stored(lo, hi) == \A m \in Messages : lo < m /\ m <= hi => ingested[m] # None

\* What a history job may rely on at h: a job that a push has told where to start answers
\* for what it has read itself, any other for everything before.
UpTo(j, h) ==
  /\ h \in Cursor /\ h <= arrived
  /\ IF j.by = "push" THEN j.from \in Cursor /\ j.from <= h /\ Stored(j.from, h)
                      ELSE Reached(h)

\* Where a history job starts and continues.
JobIsReached(j) ==
  /\ j.by = "push" => j.from # None
  /\ j.from # None => UpTo(j, j.from)
  /\ j.page # None => UpTo(j, j.page)

HistoryIsReached == \A j \in jobs : j.kind = "history_sync" => JobIsReached(j)

Listed == [lo : Nat, hi : Cursor, more : BOOLEAN, newest : Cursor]

\* A page leaves no hole before it, and the last page ends at the newest message.
Continues(page, j) ==
  /\ page \in Listed
  /\ UpTo(j, page.lo - 1)
  /\ page.lo - 1 <= page.hi /\ page.hi <= arrived /\ page.newest <= arrived
  /\ ~page.more => page.newest <= page.hi

\* What a running job has read.
ReadIsSound(r) ==
  /\ r.job.kind \in {"history_sync", "watch_renew"}
  /\ r.job.kind = "history_sync" => r.page = Gap \/ Continues(r.page, r.job)
  /\ r.job.kind = "watch_renew" => r.page.since \in Cursor

ReadsAreSound == \A r \in reads : ReadIsSound(r)

StateOK ==
  /\ TypeOK
  /\ conn.status = "ABSENT" => jobs = {} /\ conn.cursor = None

IInv ==
  /\ StateOK
  /\ MailIsInOrder
  /\ CursorIsReached
  /\ HistoryIsReached
  /\ ReadsAreSound
  /\ PausedIsResumable

-----------------------------------------------------------------------------
(* Numbers, messages and pages *)

\* The larger of two numbers.
LEMMA LargerOf ==
  ASSUME NEW a \in Int, NEW b \in Int
  PROVE  Max({a, b}) = IF a >= b THEN a ELSE b
<1> DEFINE m == IF a >= b THEN a ELSE b
<1>1. m \in {a, b} /\ \A y \in {a, b} : m >= y
  OBVIOUS
<1>2. \A x \in {a, b} : (\A y \in {a, b} : x >= y) => x = m
  OBVIOUS
<1> QED BY <1>1, <1>2 DEF Max

\* The smaller of two numbers.
LEMMA SmallerOf ==
  ASSUME NEW a \in Int, NEW b \in Int
  PROVE  Min({a, b}) = IF a <= b THEN a ELSE b
<1> DEFINE m == IF a <= b THEN a ELSE b
<1>1. m \in {a, b} /\ \A y \in {a, b} : m <= y
  OBVIOUS
<1>2. \A x \in {a, b} : (\A y \in {a, b} : x <= y) => x = m
  OBVIOUS
<1> QED BY <1>1, <1>2 DEF Min

\* If the messages of f are the first n, there are n of them.
LEMMA CountOfPrefix ==
  ASSUME NEW f, NEW n \in Cursor, \A m \in Messages : f[m] # None <=> m <= n
  PROVE  Cardinality({m \in Messages : f[m] # None}) = n
<1>1. {m \in Messages : f[m] # None} = 1..n
  BY MailboxAssumption DEF Messages, Cursor
<1>2. n \in Int /\ n >= 0
  BY MailboxAssumption DEF Cursor
<1>3. Cardinality(1..n) = IF 1 > n THEN 0 ELSE n - 1 + 1
  BY <1>2, FS_Interval
<1>4. Cardinality(1..n) = n
  BY <1>2, <1>3
<1> QED BY <1>1, <1>4

\* arrived is the last message of the mailbox.
LEMMA ArrivedIsLast ==
  ASSUME MailIsInOrder
  PROVE  arrived \in Cursor /\ \A m \in Messages : mail[m] # None <=> m <= arrived
<1>1. PICK n \in Cursor : \A m \in Messages : mail[m] # None <=> m <= n
  BY DEF MailIsInOrder
<1>2. arrived = n
  BY <1>1, CountOfPrefix DEF arrived
<1> QED BY <1>1, <1>2

\* A checkpoint is only moved up, to what was reported or beyond.
LEMMA ReportedRises ==
  ASSUME TypeOK, NEW h \in Cursor
  PROVE  /\ Reported(h) \in Cursor /\ h <= Reported(h)
         /\ checkpoint # None => checkpoint <= Reported(h)
<1>1. CASE checkpoint = None
  BY <1>1, MailboxAssumption DEF Reported, Cursor
<1>2. CASE checkpoint # None
  <2>1. checkpoint \in Int /\ h \in Int /\ checkpoint \in Cursor
    BY <1>2, MailboxAssumption DEF TypeOK, Cursor
  <2>2. Reported(h) = IF checkpoint >= h THEN checkpoint ELSE h
    BY <1>2, <2>1, LargerOf DEF Reported
  <2> QED BY <2>1, <2>2
<1> QED BY <1>1, <1>2

\* The first cursor moves the checkpoint, a later one does not.
LEMMA FirstCursorRises ==
  ASSUME TypeOK, NEW c \in Cursor \cup {None}
  PROVE  /\ FirstCursor(c) \in Cursor \cup {None}
         /\ checkpoint # None => FirstCursor(c) # None /\ checkpoint <= FirstCursor(c)
         /\ conn.cursor # None => FirstCursor(c) = checkpoint
         /\ conn.cursor = None /\ c # None => FirstCursor(c) # None /\ c <= FirstCursor(c)
<1>1. None \notin Cursor /\ (checkpoint # None => checkpoint <= checkpoint)
  BY MailboxAssumption DEF Cursor, TypeOK
<1>2. CASE conn.cursor = None /\ c # None
  BY <1>1, <1>2, ReportedRises DEF FirstCursor
<1>3. CASE ~(conn.cursor = None /\ c # None)
  BY <1>1, <1>3 DEF FirstCursor, TypeOK
<1> QED BY <1>2, <1>3

\* Storing a page keeps what is stored.
LEMMA IngestedGrows ==
  ASSUME TypeOK, NEW span, NEW order
  PROVE  /\ Ingested(span, order) \in [Messages -> Content \cup {None}]
         /\ \A m \in Messages : ingested[m] # None => Ingested(span, order)[m] # None
  BY DEF TypeOK, Ingested

\* Messages that are left behind are messages.
LEMMA BehindTypes ==
  ASSUME conn.cursor \in Cursor \cup {None}, NEW id \in Cursor
  PROVE  Behind(id) \subseteq Messages
  BY MailboxAssumption DEF Behind, Messages, Cursor

-----------------------------------------------------------------------------
(* Types *)

\* The initial states satisfy IInv.
LEMMA InitIInv == Init => IInv
<1> SUFFICES ASSUME Init PROVE IInv
  OBVIOUS
<1>1. 0 \in Cursor /\ \A m \in Messages : ~(m <= 0)
  BY MailboxAssumption DEF Cursor, Messages
<1>2. StateOK
  <2>1. conn \in ConnRow /\ horizon \in Cursor
    BY <1>1 DEF Init, ConnRow, ConnStatus
  <2>2. /\ ingested \in [Messages -> Content \cup {None}]
        /\ mail \in [Messages -> Content \cup {None}]
    BY DEF Init
  <2>3. budget \in 0..MaxTroubles
    BY MailboxAssumption DEF Init
  <2> QED BY <2>1, <2>2, <2>3 DEF Init, StateOK, TypeOK
<1>3. MailIsInOrder
  BY <1>1 DEF Init, MailIsInOrder
<1> QED BY <1>2, <1>3 DEF Init, IInv, CursorIsReached, HistoryIsReached, ReadsAreSound, PausedIsResumable

\* A spent budget stays one.
LEMMA SpendKeepsBudget ==
  ASSUME TypeOK, Spend
  PROVE  budget' \in 0..MaxTroubles
  BY MailboxAssumption DEF TypeOK, Spend

\* Jobs that are built from ids are jobs.
LEMMA JobTypes ==
  ASSUME NEW from \in Cursor \cup {None}, NEW page \in Cursor \cup {None},
         NEW by \in Sources, NEW kind \in {"watch_renew", "watch_stop"}
  PROVE  History(from, page, by) \in Job /\ Backfill(page) \in Job /\ Watch(kind) \in Job
  BY DEF History, Backfill, Watch, Job, Kinds, Sources

\* A poisoned job is gone, the others stay, and lost stays a boolean.
LEMMA PoisonTypes ==
  ASSUME TypeOK, NEW j \in jobs, Poison(j)
  PROVE  jobs' \subseteq Job /\ lost' \in BOOLEAN /\ jobs' = jobs \ {j}
  BY DEF TypeOK, Poison

\* A page is listed from what precedes it.
LEMMA ListingTypes ==
  ASSUME MailIsInOrder, TypeOK, NEW from \in Cursor, NEW page \in Cursor \cup {None},
         from <= arrived, page # None => page <= arrived
  PROVE  \/ Listing(from, page) = Gap
         \/ /\ Listing(from, page) \in Listed
            /\ Listing(from, page).lo = (IF page = None THEN from ELSE page) + 1
            /\ Listing(from, page).lo - 1 <= Listing(from, page).hi
            /\ Listing(from, page).hi <= arrived
            /\ Listing(from, page).newest <= arrived
            /\ ~Listing(from, page).more => Listing(from, page).newest <= Listing(from, page).hi
<1> DEFINE at == IF page = None THEN from ELSE page
           hi == Min({at + 1 + PageSize - 1, arrived})
<1>1. at \in Cursor /\ at \in Int /\ at <= arrived /\ arrived \in Cursor /\ arrived \in Int
  BY ArrivedIsLast, MailboxAssumption DEF Cursor
<1>2. PageSize \in Int /\ PageSize >= 1 /\ at + 1 + PageSize - 1 \in Int
  BY <1>1, MailboxAssumption
<1>3. hi = IF at + 1 + PageSize - 1 <= arrived THEN at + 1 + PageSize - 1 ELSE arrived
  BY <1>1, <1>2, SmallerOf
<1>4. hi \in Cursor /\ at <= hi /\ hi <= arrived
  BY <1>1, <1>2, <1>3, MailboxAssumption DEF Cursor
<1> HIDE DEF at, hi
<1>5. CASE from < horizon
  BY <1>5 DEF Listing
<1>6. CASE ~(from < horizon)
  <2>1. Listing(from, page) = [lo |-> at + 1, hi |-> hi, more |-> hi < arrived, newest |-> arrived]
    BY <1>6 DEF Listing, at, hi
  <2>2. at + 1 \in Nat /\ at + 1 - 1 = at /\ (~(hi < arrived) => arrived <= hi)
    BY <1>1, <1>4, MailboxAssumption DEF Cursor
  <2>3. Listing(from, page) \in Listed
    BY <1>1, <1>4, <2>1, <2>2 DEF Listed
  <2>4. at = IF page = None THEN from ELSE page
    BY DEF at
  <2>5. arrived <= arrived
    BY <1>1
  <2>6. /\ Listing(from, page).lo = at + 1 /\ Listing(from, page).hi = hi
        /\ Listing(from, page).newest = arrived
    BY <2>1
  <2>7. Listing(from, page).lo - 1 <= Listing(from, page).hi
    BY <1>1, <1>4, <2>6 DEF Cursor
  <2>8. ~Listing(from, page).more => Listing(from, page).newest <= Listing(from, page).hi
    <3>1. CASE hi < arrived
      <4>1. (hi < arrived) = TRUE
        BY <3>1
      <4>2. Listing(from, page) = [lo |-> at + 1, hi |-> hi, more |-> TRUE, newest |-> arrived]
        BY <2>1, <4>1, Zenon
      <4> QED BY <4>2
    <3>2. CASE ~(hi < arrived)
      BY <1>1, <1>4, <2>6, <3>2 DEF Cursor
    <3> QED BY <3>1, <3>2
  <2> QED BY <1>4, <2>3, <2>4, <2>5, <2>6, <2>7, <2>8
<1> QED BY <1>5, <1>6

\* A record of a connection keeps its shape when fields of it are written.
LEMMA ConnTypes ==
  ASSUME conn \in ConnRow
  PROVE  /\ conn.status \in ConnStatus /\ conn.cursor \in Cursor \cup {None} /\ conn.creds \in BOOLEAN
         /\ conn.watch \in {"none", "live", "expired"}
         /\ \A s \in ConnStatus : [conn EXCEPT !.status = s] \in ConnRow
         /\ \A s \in ConnStatus, c \in BOOLEAN : [conn EXCEPT !.status = s, !.creds = c] \in ConnRow
         /\ \A c \in Cursor \cup {None} : [conn EXCEPT !.cursor = c] \in ConnRow
         /\ \A c \in Cursor \cup {None} : [conn EXCEPT !.watch = "live", !.cursor = c] \in ConnRow
         /\ [conn EXCEPT !.watch = "expired"] \in ConnRow
         /\ [conn EXCEPT !.creds = TRUE] \in ConnRow
         /\ [conn EXCEPT !.watch = "none", !.creds = FALSE] \in ConnRow
  BY DEF ConnRow

\* Writing the status writes nothing else.
LEMMA StatusFields ==
  ASSUME conn \in ConnRow, NEW s
  PROVE  [conn EXCEPT !.status = s].status = s /\ [conn EXCEPT !.status = s].cursor = conn.cursor
  BY DEF ConnRow

\* The connection a backfill works with: a gap's pause is over.
Resumed == IF conn.status = "PAUSED" /\ sync.status = "GAP_DETECTED"
           THEN [conn EXCEPT !.status = "CONNECTED"] ELSE conn

\* and what it makes of it before the first page: the watch is started.
Watched(j) ==
  IF j.page = None /\ conn.watch = "none"
  THEN [Resumed EXCEPT !.watch = "live", !.cursor = IF @ = None THEN arrived ELSE @]
  ELSE Resumed

\* Resuming writes the status only, and only of a paused connection.
LEMMA ResumedTypes ==
  ASSUME conn \in ConnRow
  PROVE  /\ Resumed \in ConnRow /\ Resumed.cursor = conn.cursor
         /\ (Resumed.status = "ABSENT" <=> conn.status = "ABSENT")
<1>1. CASE conn.status = "PAUSED" /\ sync.status = "GAP_DETECTED"
  BY <1>1, ConnTypes, StatusFields DEF Resumed, ConnStatus
<1>2. CASE ~(conn.status = "PAUSED" /\ sync.status = "GAP_DETECTED")
  BY <1>2 DEF Resumed
<1> QED BY <1>1, <1>2

\* The watch gives a connection its first cursor and leaves a later one alone.
LEMMA WatchedTypes ==
  ASSUME conn \in ConnRow, arrived \in Cursor, NEW j
  PROVE  /\ Watched(j) \in ConnRow /\ (Watched(j).status = "ABSENT" <=> conn.status = "ABSENT")
         /\ Watched(j).cursor \in Cursor \cup {None}
         /\ conn.cursor # None => Watched(j).cursor = conn.cursor
         /\ Watched(j).cursor = conn.cursor \/ Watched(j).cursor = arrived
<1>1. Resumed \in ConnRow /\ Resumed.cursor = conn.cursor /\ Resumed.cursor \in Cursor \cup {None}
  BY ResumedTypes, ConnTypes
<1>2. CASE j.page = None /\ conn.watch = "none"
  <2> DEFINE c == IF Resumed.cursor = None THEN arrived ELSE Resumed.cursor
  <2>1. Watched(j) = [Resumed EXCEPT !.watch = "live", !.cursor = c]
    BY <1>2 DEF Watched
  <2>2. c \in Cursor \cup {None} /\ c \in {conn.cursor, arrived} /\ (conn.cursor # None => c = conn.cursor)
    BY <1>1
  <2> HIDE DEF c
  <2>3. /\ Watched(j) \in ConnRow /\ Watched(j).status = Resumed.status /\ Watched(j).cursor = c
    BY <1>1, <2>1, <2>2 DEF ConnRow
  <2> QED BY <2>2, <2>3, ResumedTypes
<1>3. CASE ~(j.page = None /\ conn.watch = "none")
  <2>1. Watched(j) = Resumed
    BY <1>3 DEF Watched
  <2> QED BY <1>1, <2>1, ResumedTypes
<1> QED BY <1>2, <1>3

\* A record of the sync keeps its shape, too.
LEMMA SyncTypes ==
  ASSUME sync \in SyncRow
  PROVE  \A s \in {"IDLE", "RUNNING", "PAUSED", "GAP_DETECTED"} : [sync EXCEPT !.status = s] \in SyncRow
  BY DEF SyncRow

\* Each job is run by one invocation: when it is gone, the others still run theirs.
LEMMA ReadsLeft ==
  ASSUME TypeOK, NEW r \in reads, reads' = reads \ {r}, jobs \ {r.job} \subseteq jobs'
  PROVE  \A q \in reads' : q.job \in jobs' /\ \A p \in reads' : p.job = q.job => p = q
  BY DEF TypeOK

\* So do all when a job that is not running is gone.
LEMMA ReadsStay ==
  ASSUME TypeOK, NEW j \in jobs, ~Running(j), reads' = reads, jobs \ {j} \subseteq jobs'
  PROVE  \A q \in reads' : q.job \in jobs' /\ \A p \in reads' : p.job = q.job => p = q
  BY DEF TypeOK, Running

\* And when a job that was not running is.
LEMMA ReadsMore ==
  ASSUME TypeOK, NEW j \in jobs, ~Running(j), NEW page, Read(j, page), jobs' = jobs
  PROVE  \A q \in reads' : q.job \in jobs' /\ \A p \in reads' : p.job = q.job => p = q
<1> DEFINE r == [job |-> j, cursor |-> conn.cursor, page |-> page]
<1>1. r.job = j /\ reads' = reads \cup {r}
  BY DEF Read
<1> HIDE DEF r
<1> QED BY <1>1 DEF TypeOK, Running

\* The owner's calls and the schedule keep the state well typed.
LEMMA OwnerTypes ==
  ASSUME IInv, Connect \/ Disconnect \/ (\E h \in Messages, form \in {"pubsub", "push"} : Push(h, form)) \/ Maintain \/ WatchExpires
  PROVE  StateOK'
<1> USE DEF IInv, StateOK
<1>1. CASE Connect
  <2>1. conn' \in ConnRow
    BY <1>1, ConnTypes DEF Connect, TypeOK, ConnStatus
  <2>2. sync' \in SyncRow /\ sync' # None /\ conn'.status = "CONNECTED" /\ conn'.cursor = conn.cursor
    BY <1>1, NoneAssumption DEF Connect, TypeOK, SyncRow, ConnRow
  <2>3. jobs \subseteq jobs' /\ jobs' \subseteq Job
    BY <1>1, JobTypes DEF Connect, TypeOK, Sources
  <2>4. budget' \in 0..MaxTroubles
    BY <1>1, SpendKeepsBudget DEF Connect, TypeOK
  <2> QED BY <1>1, <2>1, <2>2, <2>3, <2>4 DEF Connect, TypeOK
<1>2. CASE Disconnect
  <2>1. conn' \in ConnRow
    BY <1>2, ConnTypes DEF Disconnect, TypeOK, ConnStatus
  <2>2. sync' \in SyncRow /\ sync' # None /\ conn'.status = "DISCONNECTED" /\ conn'.cursor = conn.cursor
    BY <1>2, NoneAssumption, SyncTypes DEF Disconnect, TypeOK, ConnRow
  <2>3. jobs' \subseteq Job /\ \A r \in reads : r.job \in jobs'
    BY <1>2, JobTypes DEF Disconnect, TypeOK, Running, Sources
  <2>4. budget' \in 0..MaxTroubles
    BY <1>2, SpendKeepsBudget DEF Disconnect, TypeOK
  <2> QED BY <1>2, <2>1, <2>2, <2>3, <2>4 DEF Disconnect, TypeOK
<1>3. CASE \E h \in Messages, form \in {"pubsub", "push"} : Push(h, form)
  <2>1. PICK h \in Messages, form \in {"pubsub", "push"} : Push(h, form)
    BY <1>3
  <2>2. h \in Cursor /\ form \in Sources
    BY MailboxAssumption DEF Messages, Cursor, Sources
  <2>3. jobs \subseteq jobs' /\ jobs' \subseteq Job
    <3> DEFINE from == IF form = "push" \/ conn.cursor = None THEN h ELSE conn.cursor
    <3>1. from \in Cursor \cup {None} /\ None \in Cursor \cup {None}
      BY <2>2, ConnTypes DEF TypeOK
    <3>2. jobs' = jobs \cup {History(from, None, form)}
      BY <2>1 DEF Push
    <3> HIDE DEF from
    <3> QED BY <2>2, <3>1, <3>2, JobTypes DEF TypeOK
  <2>4. checkpoint' \in Cursor \cup {None} /\ (conn.cursor # None => checkpoint' = checkpoint)
    BY <2>1, <2>2, ReportedRises DEF Push, TypeOK
  <2>5. budget' \in 0..MaxTroubles
    BY <2>1, SpendKeepsBudget DEF Push, TypeOK
  <2> QED BY <2>1, <2>3, <2>4, <2>5 DEF Push, TypeOK
<1>4. CASE Maintain
  <2>1. jobs \subseteq jobs' /\ jobs' \subseteq Job
    BY <1>4, ConnTypes, JobTypes DEF Maintain, Due, TypeOK, Sources
  <2> QED BY <1>4, <2>1 DEF Maintain, TypeOK, connection
<1>5. CASE WatchExpires
  <2>1. conn' \in ConnRow /\ conn'.status = "CONNECTED" /\ conn'.cursor = conn.cursor
    BY <1>5, ConnTypes DEF WatchExpires, TypeOK, ConnRow
  <2>2. budget' \in 0..MaxTroubles
    BY <1>5, SpendKeepsBudget DEF WatchExpires, TypeOK
  <2> QED BY <1>5, <2>1, <2>2 DEF WatchExpires, TypeOK, work
<1> QED BY <1>1, <1>2, <1>3, <1>4, <1>5

\* What the mailbox does keeps the state well typed and the messages in order.
LEMMA MailTypes ==
  ASSUME IInv, \/ Arrive
               \/ \E m \in Messages, to \in {"relabelled", "deleted"} : Change(m, to)
               \/ HistoryExpires
  PROVE  StateOK' /\ MailIsInOrder' /\ arrived <= arrived'
<1> USE DEF IInv, StateOK
<1>0. PICK n \in Cursor : \A m \in Messages : mail[m] # None <=> m <= n
  BY DEF MailIsInOrder
<1>1. arrived = n /\ n \in Int /\ n <= n
  BY <1>0, CountOfPrefix, MailboxAssumption DEF arrived, Cursor
<1>2. CASE Arrive
  <2>1. n + 1 \in Messages /\ n + 1 \in Cursor /\ mail' = [mail EXCEPT ![n + 1] = "new"]
    BY <1>1, <1>2, MailboxAssumption DEF Arrive, Messages, Cursor
  <2>2. "new" \in Content /\ None # "new"
    BY NoneAssumption DEF Content
  <2>3. mail' \in [Messages -> Content \cup {None}]
    BY <2>1, <2>2 DEF TypeOK
  <2>4. \A m \in Messages : mail'[m] # None <=> m <= n + 1
    BY <1>0, <1>1, <2>1, <2>2, MailboxAssumption DEF TypeOK, Messages
  <2>5. arrived' = n + 1
    BY <2>1, <2>4, CountOfPrefix DEF arrived
  <2> QED BY <1>1, <1>2, <2>1, <2>3, <2>4, <2>5 DEF Arrive, connection, work, TypeOK, MailIsInOrder
<1>3. CASE \E m \in Messages, to \in {"relabelled", "deleted"} : Change(m, to)
  <2>1. PICK k \in Messages, to \in {"relabelled", "deleted"} : Change(k, to)
    BY <1>3
  <2>2. to \in Content /\ to # None /\ mail[k] # None
    BY <2>1, NoneAssumption DEF Content, Change
  <2>3. mail' \in [Messages -> Content \cup {None}]
    BY <2>1, <2>2 DEF TypeOK, Change
  <2>4. \A m \in Messages : mail'[m] # None <=> m <= n
    BY <1>0, <2>1, <2>2 DEF TypeOK, Change
  <2>5. arrived' = n
    BY <2>4, CountOfPrefix DEF arrived
  <2>6. budget' \in 0..MaxTroubles
    BY <2>1, SpendKeepsBudget DEF Change, TypeOK
  <2> QED BY <1>1, <2>1, <2>3, <2>4, <2>5, <2>6 DEF Change, connection, work, TypeOK, MailIsInOrder
<1>4. CASE HistoryExpires
  <2>1. budget' \in 0..MaxTroubles
    BY <1>4, SpendKeepsBudget DEF HistoryExpires, TypeOK
  <2>2. mail' = mail /\ horizon' \in Cursor
    BY <1>1, <1>4 DEF HistoryExpires
  <2>3. arrived' = arrived
    BY <2>2 DEF arrived
  <2> QED BY <1>0, <1>1, <1>4, <2>1, <2>2, <2>3 DEF HistoryExpires, connection, work, TypeOK, MailIsInOrder
<1> QED BY <1>2, <1>3, <1>4

\* A job that begins keeps the state well typed.
LEMMA BeginTypes ==
  ASSUME IInv, NEW j \in jobs, Begin(j)
  PROVE  StateOK'
<1> USE DEF IInv, StateOK
<1>0. ~Running(j)
  BY DEF Begin, StartHistory, RunBackfill, StartRenew, RunStop, Claimable
<1>1. /\ j.page \in Cursor \cup {None} /\ None \notin Cursor /\ ~Running(j)
      /\ jobs # {} /\ conn.status # "ABSENT" /\ sync # None
  BY <1>0, MailboxAssumption DEF TypeOK, Job, Cursor
<1>2. ASSUME NEW page, Read(j, page), UNCHANGED <<jobs, lost, conn, sync, checkpoint, passed, overrun,
                                                  ingested, mail, horizon, budget>>
      PROVE  StateOK'
  BY <1>1, <1>2, ReadsMore DEF TypeOK
<1>3. ASSUME Poison(j), UNCHANGED <<reads, conn, sync, checkpoint, passed, overrun, ingested, mail,
                                    horizon, budget>>
      PROVE  StateOK'
  BY <1>1, <1>3, PoisonTypes, ReadsStay DEF TypeOK
<1>4. CASE StartHistory(j)
  BY <1>2, <1>3, <1>4 DEF StartHistory, connection
<1>5. CASE StartRenew(j)
  BY <1>2, <1>3, <1>5 DEF StartRenew, connection
<1>6. CASE RunStop(j)
  <2>1. jobs' = jobs \ {j} /\ lost' \in BOOLEAN /\ reads' = reads
    BY <1>6 DEF RunStop, Poison, TypeOK
  <2>2. conn' \in ConnRow /\ conn'.status = conn.status /\ conn'.cursor = conn.cursor
    <3>1. conn' = conn \/ conn' = [conn EXCEPT !.watch = "none", !.creds = FALSE]
      BY <1>6 DEF RunStop
    <3>2. [conn EXCEPT !.watch = "none", !.creds = FALSE].status = conn.status
          /\ [conn EXCEPT !.watch = "none", !.creds = FALSE].cursor = conn.cursor
      BY DEF TypeOK, ConnRow
    <3> QED BY <3>1, <3>2, ConnTypes DEF TypeOK
  <2> QED BY <1>1, <1>6, <2>1, <2>2, ReadsStay DEF RunStop, TypeOK
<1>7. CASE RunBackfill(j)
  <2> DEFINE hi   == IF j.page = None THEN arrived ELSE j.page
             lo   == Max({hi - PageSize + 1, 1})
             span == {m \in lo..hi : mail[m] # "deleted"}
  <2>1. arrived \in Cursor
    BY ArrivedIsLast
  <2>2. /\ Resumed \in ConnRow /\ Resumed.cursor = conn.cursor
        /\ (Resumed.status = "ABSENT" <=> conn.status = "ABSENT")
    BY ResumedTypes DEF TypeOK
  <2>3. /\ Watched(j) \in ConnRow /\ (Watched(j).status = "ABSENT" <=> conn.status = "ABSENT")
        /\ Watched(j).cursor \in Cursor \cup {None} /\ (conn.cursor # None => Watched(j).cursor = conn.cursor)
    BY <2>1, WatchedTypes DEF TypeOK
  <2>4. UNCHANGED <<reads, passed, overrun, mail, horizon, budget>>
    BY <1>7 DEF RunBackfill
  <2>5. CASE Resumed.status = "CONNECTED" /\ conn.creds
    <3>1. /\ conn' = Watched(j) /\ checkpoint' = FirstCursor(Watched(j).cursor)
          /\ ingested' = Ingested(span, FALSE)
      BY <1>7, <2>5 DEF RunBackfill, Resumed, Watched
    <3>2. /\ checkpoint' \in Cursor \cup {None}
          /\ conn'.cursor # None => checkpoint' # None
      BY <2>3, <3>1, FirstCursorRises DEF TypeOK
    <3>3. ingested' \in [Messages -> Content \cup {None}]
      BY <3>1, IngestedGrows
    <3>4. sync' \in SyncRow /\ jobs' \subseteq Job /\ jobs \ {j} \subseteq jobs' /\ lost' \in BOOLEAN
      <4>1. CASE Conflicting(span) # {}
        <5>1. Poison(j) /\ sync' = [sync EXCEPT !.status = "RUNNING"]
          BY <1>7, <2>5, <4>1 DEF RunBackfill, Resumed, Watched
        <5> QED BY <1>1, <5>1, PoisonTypes, SyncTypes DEF TypeOK
      <4>2. CASE Conflicting(span) = {}
        <5>1. /\ sync' = [status |-> "IDLE", mode |-> IF lo > 1 THEN "INITIAL_BACKFILL" ELSE "INCREMENTAL"]
              /\ jobs' = (jobs \ {j}) \cup {Backfill(p) : p \in {q \in {lo - 1} : lo > 1}}
              /\ lost' = lost
          BY <1>7, <2>5, <4>2 DEF RunBackfill, Resumed, Watched
        <5>2. lo > 1 => lo - 1 \in Cursor
          <6>1. hi \in Cursor /\ hi \in Int /\ hi - PageSize + 1 \in Int /\ PageSize >= 1
            BY <1>1, <2>1, MailboxAssumption DEF Cursor
          <6>2. lo = IF hi - PageSize + 1 >= 1 THEN hi - PageSize + 1 ELSE 1
            BY <6>1, LargerOf
          <6> HIDE DEF hi, lo
          <6> QED BY <6>1, <6>2, MailboxAssumption DEF Cursor
        <5> HIDE DEF lo
        <5>3. sync' \in SyncRow
          BY <5>1 DEF SyncRow
        <5>4. \A p \in Cursor : Backfill(p) \in Job
          BY DEF Backfill, Job, Kinds, Sources
        <5>5. jobs' \subseteq Job
          BY <5>1, <5>2, <5>4 DEF TypeOK
        <5> QED BY <5>1, <5>3, <5>5 DEF TypeOK
      <4> QED BY <4>1, <4>2
    <3>5. sync' # None
      BY <3>4, NoneAssumption
    <3> QED BY <1>1, <2>3, <2>4, <3>1, <3>2, <3>3, <3>4, <3>5, ReadsStay DEF TypeOK
  <2>6. CASE ~(Resumed.status = "CONNECTED" /\ conn.creds)
    <3>1. Poison(j) /\ conn' = Resumed /\ UNCHANGED <<sync, checkpoint, ingested>>
      BY <1>7, <2>6 DEF RunBackfill, Resumed
    <3> QED BY <1>1, <2>2, <2>4, <3>1, PoisonTypes, ReadsStay DEF TypeOK
  <2> QED BY <2>5, <2>6
<1> QED BY <1>4, <1>5, <1>6, <1>7 DEF Begin

\* What belongs to a job that runs.
LEMMA OpenRead ==
  ASSUME IInv, NEW r \in reads
  PROVE  /\ r.job \in jobs /\ r.job \in Job /\ jobs # {}
         /\ sync \in SyncRow /\ sync # None /\ conn.status # "ABSENT"
  BY NoneAssumption DEF IInv, StateOK, TypeOK

\* A page moves the cursor only to its newest message.
LEMMA AdvancedTypes ==
  ASSUME NEW cursor \in Cursor \cup {None}, NEW read, NEW page \in Listed
  PROVE  /\ Advanced(cursor, read, page) \in Cursor \cup {None}
         /\ cursor # None => Advanced(cursor, read, page) # None
         /\ \/ Advanced(cursor, read, page) = cursor
            \/ ~page.more /\ Advanced(cursor, read, page) = page.newest
  BY MailboxAssumption DEF Advanced, Listed, Cursor

\* What a page does when none of its messages is refused.
PageIsTaken(r) ==
  /\ \A m \in r.page.lo..r.page.hi : mail[m] # "deleted"
  /\ Conflicting(r.page.lo..r.page.hi) = {}
  /\ ingested' = Ingested(r.page.lo..r.page.hi, TRUE)
  /\ overrun' = (overrun \/ conn.status = "PAUSED")
  /\ conn' = [conn EXCEPT !.cursor = Advanced(conn.cursor, r.cursor, r.page)]
  /\ checkpoint' = FirstCursor(Advanced(conn.cursor, r.cursor, r.page))
  /\ passed' = passed \cup IF r.job.by = "push" /\ Advanced(conn.cursor, r.cursor, r.page) # conn.cursor
                         THEN Behind(r.job.from) ELSE {}
  /\ sync' = [status |-> "IDLE", mode |-> "INCREMENTAL"]
  /\ jobs' = (jobs \ {r.job}) \cup
              {History(r.job.from, p, r.job.by) : p \in {q \in {r.page.hi} : r.page.more}}
  /\ lost' = lost

\* What it does when one is: nothing, if a message cannot be fetched, or the messages before
\* the one that cannot be stored are.
PageIsRefused(r) ==
  /\ Poison(r.job)
  /\ UNCHANGED <<conn, checkpoint, passed>>
  /\ \/ UNCHANGED <<sync, ingested, overrun>>
     \/ /\ ingested' = Ingested(r.page.lo..r.page.hi, TRUE)
        /\ sync' = [sync EXCEPT !.status = "RUNNING"]
        /\ overrun' = (overrun \/ conn.status = "PAUSED")

\* A page is taken or refused.
LEMMA PageEnds ==
  ASSUME IInv, NEW r \in reads, FinishHistory(r)
  PROVE  /\ PageIsTaken(r) \/ PageIsRefused(r)
         /\ r.job.kind = "history_sync" /\ Continues(r.page, r.job)
         /\ r.page \in Listed /\ JobIsReached(r.job)
         /\ reads' = reads \ {r} /\ UNCHANGED <<mail, horizon, budget>>
<1>1. r.job.kind = "history_sync" /\ r.page # Gap /\ reads' = reads \ {r} /\ UNCHANGED <<mail, horizon, budget>>
  BY DEF FinishHistory
<1>2. Continues(r.page, r.job) /\ r.page \in Listed
  BY <1>1 DEF IInv, ReadsAreSound, ReadIsSound, Continues
<1>3. PageIsTaken(r) \/ PageIsRefused(r)
  BY DEF FinishHistory, PageIsTaken, PageIsRefused, connection
<1>4. JobIsReached(r.job)
  BY <1>1, OpenRead DEF IInv, HistoryIsReached
<1> QED BY <1>1, <1>2, <1>3, <1>4

\* What a renewal writes.
LEMMA RenewEnds ==
  ASSUME IInv, NEW r \in reads, FinishRenew(r)
  PROVE  \E h \in Cursor :
           LET c == IF r.cursor = None THEN h ELSE conn.cursor
           IN /\ h <= arrived
              /\ conn' = [conn EXCEPT !.watch = "live", !.cursor = c]
              /\ conn' \in ConnRow /\ conn'.status = conn.status /\ conn'.cursor = c
              /\ c \in Cursor \cup {None} /\ checkpoint' = FirstCursor(c)
              /\ passed' = passed \cup IF r.cursor = None THEN Behind(h) ELSE {}
<1>1. PICK h \in r.page.since..arrived :
        /\ conn' = [conn EXCEPT !.watch = "live", !.cursor = IF r.cursor = None THEN h ELSE conn.cursor]
        /\ checkpoint' = FirstCursor(conn'.cursor)
        /\ passed' = passed \cup IF r.cursor = None THEN Behind(h) ELSE {}
  BY DEF FinishRenew
<1>2. r.page.since \in Cursor /\ arrived \in Cursor
  BY ArrivedIsLast DEF IInv, ReadsAreSound, ReadIsSound, FinishRenew
<1>3. h \in Cursor /\ h <= arrived
  BY <1>1, <1>2, MailboxAssumption DEF Cursor
<1> DEFINE c == IF r.cursor = None THEN h ELSE conn.cursor
<1>4. c \in Cursor \cup {None} /\ conn' = [conn EXCEPT !.watch = "live", !.cursor = c]
  BY <1>1, <1>3, ConnTypes DEF IInv, StateOK, TypeOK
<1> HIDE DEF c
<1>5. conn' \in ConnRow /\ conn'.status = conn.status /\ conn'.cursor = c
  BY <1>4 DEF IInv, StateOK, TypeOK, ConnRow
<1>6. checkpoint' = FirstCursor(c)
  BY <1>1, <1>5
<1> QED BY <1>1, <1>3, <1>4, <1>5, <1>6 DEF c

\* A job that ends keeps the state well typed.
LEMMA FinishTypes ==
  ASSUME IInv, NEW r \in reads, Finish(r)
  PROVE  StateOK'
<1> USE DEF IInv, StateOK
<1>1. /\ r.job \in jobs /\ r.job \in Job /\ sync \in SyncRow /\ sync # None /\ conn.status # "ABSENT"
      /\ reads' = reads \ {r}
  BY OpenRead DEF Finish, FinishHistory, FinishGap, FinishRenew
<1>2. /\ conn \in ConnRow /\ conn.cursor \in Cursor \cup {None}
      /\ \A id \in Cursor : Behind(id) \subseteq Messages
  BY ConnTypes, BehindTypes DEF TypeOK
<1>3. CASE FinishHistory(r)
  <2>1. r.page \in Listed /\ UNCHANGED <<mail, horizon, budget>>
    BY <1>3, PageEnds
  <2>2. CASE PageIsTaken(r)
    <3> DEFINE cursor == Advanced(conn.cursor, r.cursor, r.page)
    <3>1. cursor \in Cursor \cup {None} /\ conn' = [conn EXCEPT !.cursor = cursor]
      BY <1>2, <2>1, <2>2, AdvancedTypes DEF PageIsTaken
    <3>2. ingested' \in [Messages -> Content \cup {None}] /\ overrun' \in BOOLEAN /\ lost' \in BOOLEAN
      BY <2>2, IngestedGrows DEF PageIsTaken, TypeOK
    <3>3. checkpoint' = FirstCursor(cursor)
      BY <2>2 DEF PageIsTaken
    <3>4. passed' \subseteq Messages
      <4>1. r.job.by = "push" => r.job.from \in Cursor
        BY <1>1, <1>3, PageEnds DEF JobIsReached, UpTo
      <4> QED BY <1>2, <2>2, <4>1 DEF PageIsTaken, TypeOK
    <3>5. jobs' \subseteq Job /\ jobs \ {r.job} \subseteq jobs'
      <4>1. r.page.hi \in Cursor /\ r.job.from \in Cursor \cup {None} /\ r.job.by \in Sources
        BY <1>1, <2>1 DEF Listed, Job
      <4>2. History(r.job.from, r.page.hi, r.job.by) \in Job
        BY <4>1, JobTypes
      <4>3. jobs' \subseteq (jobs \ {r.job}) \cup {History(r.job.from, r.page.hi, r.job.by)}
        BY <2>2 DEF PageIsTaken
      <4>4. jobs \ {r.job} \subseteq jobs'
        BY <2>2 DEF PageIsTaken
      <4> QED BY <4>2, <4>3, <4>4 DEF TypeOK
    <3>6. sync' \in SyncRow /\ sync' # None
      BY <2>2, NoneAssumption DEF SyncRow, PageIsTaken
    <3> HIDE DEF cursor
    <3>7. conn' \in ConnRow /\ conn'.status = conn.status /\ conn'.cursor = cursor
      BY <1>2, <3>1, ConnTypes DEF ConnRow
    <3>8. checkpoint' \in Cursor \cup {None} /\ (conn'.cursor # None => checkpoint' # None)
      BY <3>1, <3>3, <3>7, FirstCursorRises DEF TypeOK
    <3> QED BY <1>1, <2>1, <3>2, <3>4, <3>5, <3>6, <3>7, <3>8, ReadsLeft DEF TypeOK
  <2>3. CASE PageIsRefused(r)
    <3>1. jobs' \subseteq Job /\ lost' \in BOOLEAN /\ jobs' = jobs \ {r.job}
      BY <1>1, <2>3, PoisonTypes DEF PageIsRefused
    <3>2. sync' \in SyncRow /\ sync' # None
      BY <1>1, <2>3, SyncTypes, NoneAssumption DEF PageIsRefused
    <3>3. ingested' \in [Messages -> Content \cup {None}] /\ overrun' \in BOOLEAN
      <4>1. ingested' = ingested \/ ingested' = Ingested(r.page.lo..r.page.hi, TRUE)
        BY <2>3 DEF PageIsRefused
      <4>2. overrun' = overrun \/ overrun' = (overrun \/ conn.status = "PAUSED")
        BY <2>3 DEF PageIsRefused
      <4>3. overrun' \in BOOLEAN
        BY <4>2 DEF TypeOK
      <4>4. Ingested(r.page.lo..r.page.hi, TRUE) \in [Messages -> Content \cup {None}]
        BY IngestedGrows
      <4>5. ingested \in [Messages -> Content \cup {None}]
        BY DEF TypeOK
      <4> QED BY <4>1, <4>3, <4>4, <4>5
    <3>4. UNCHANGED <<conn, checkpoint, passed>>
      BY <2>3 DEF PageIsRefused
    <3>5. \A q \in reads' : q.job \in jobs' /\ \A p \in reads' : p.job = q.job => p = q
      BY <1>1, <3>1, ReadsLeft
    <3>6. TypeOK'
      BY <1>1, <2>1, <3>1, <3>2, <3>3, <3>4, <3>5 DEF TypeOK
    <3> QED BY <1>1, <3>4, <3>6
  <2> QED BY <1>3, <2>2, <2>3, PageEnds
<1>4. CASE FinishGap(r)
  <2>1. conn' \in ConnRow /\ conn'.status = "PAUSED" /\ conn'.cursor = conn.cursor
    BY <1>2, <1>4, ConnTypes, StatusFields DEF FinishGap, ConnStatus
  <2>2. sync' \in SyncRow /\ sync' # None
    BY <1>1, <1>4, SyncTypes, NoneAssumption DEF FinishGap
  <2>3. jobs' \subseteq Job /\ jobs \ {r.job} \subseteq jobs'
    BY <1>4 DEF FinishGap, GapJobs, TypeOK, Backfill, Job, Kinds, Sources
  <2> QED BY <1>1, <1>4, <2>1, <2>2, <2>3, ReadsLeft DEF FinishGap, TypeOK
<1>5. CASE FinishRenew(r)
  <2>1. PICK h \in Cursor, c \in Cursor \cup {None} :
          /\ conn' \in ConnRow /\ conn'.status = conn.status /\ conn'.cursor = c
          /\ checkpoint' = FirstCursor(c)
          /\ passed' = passed \cup IF r.cursor = None THEN Behind(h) ELSE {}
    BY <1>5, RenewEnds
  <2>2. checkpoint' \in Cursor \cup {None} /\ (c # None => checkpoint' # None)
    BY <2>1, FirstCursorRises DEF TypeOK
  <2>3. passed' \subseteq Messages /\ jobs' = jobs \ {r.job}
    BY <1>2, <1>5, <2>1 DEF FinishRenew, TypeOK
  <2> QED BY <1>1, <1>5, <2>1, <2>2, <2>3, ReadsLeft DEF FinishRenew, TypeOK
<1> QED BY <1>3, <1>4, <1>5 DEF Finish

\* What goes wrong with a job keeps the state well typed.
LEMMA TroubleTypes ==
  ASSUME IInv,
         \/ \E r \in reads : Refresh(r) \/ TokenIsRejected(r) \/ Retried(r)
         \/ \E j \in jobs : GivenUp(j)
  PROVE  StateOK'
<1> USE DEF IInv, StateOK
<1>1. budget' \in 0..MaxTroubles
  BY SpendKeepsBudget DEF Refresh, TokenIsRejected, Retried, GivenUp
<1>2. ASSUME NEW j \in jobs, GivenUp(j) PROVE StateOK'
  <2>1. /\ Poison(j) /\ ~Running(j)
        /\ UNCHANGED <<conn, sync, checkpoint, passed, overrun, reads, ingested, mail, horizon>>
    BY <1>2 DEF GivenUp, connection
  <2> QED BY <1>1, <2>1, PoisonTypes, ReadsStay DEF TypeOK
<1>3. ASSUME NEW r \in reads, Refresh(r) \/ TokenIsRejected(r) \/ Retried(r)
      PROVE  StateOK'
  <2>1. r.job \in jobs /\ conn.status # "ABSENT" /\ sync # None
    BY OpenRead
  <2>2. CASE Refresh(r)
    <3>1. conn' \in ConnRow /\ conn'.status = conn.status /\ conn'.cursor = conn.cursor
      BY <2>2, ConnTypes DEF Refresh, TypeOK, ConnRow
    <3> QED BY <1>1, <2>2, <3>1 DEF Refresh, TypeOK, work
  <2>3. CASE TokenIsRejected(r)
    <3>1. conn' \in ConnRow /\ conn'.status = "REAUTH_REQUIRED" /\ conn'.cursor = conn.cursor
      BY <2>3, ConnTypes, StatusFields DEF TokenIsRejected, TypeOK, ConnStatus
    <3>2. jobs' \subseteq Job /\ lost' \in BOOLEAN /\ jobs' = jobs \ {r.job} /\ reads' = reads \ {r}
      BY <2>1, <2>3, PoisonTypes DEF TokenIsRejected
    <3> QED BY <1>1, <2>1, <2>3, <3>1, <3>2, ReadsLeft DEF TokenIsRejected, TypeOK
  <2>4. CASE Retried(r)
    <3>1. jobs' = jobs /\ reads' = reads \ {r}
      BY <2>4 DEF Retried
    <3> QED BY <1>1, <2>1, <2>4, <3>1, ReadsLeft DEF Retried, TypeOK, connection
  <2> QED BY <1>3, <2>2, <2>3, <2>4
<1> QED BY <1>2, <1>3

\* Every step keeps the state well typed.
LEMMA TypeStep ==
  ASSUME IInv, Next
  PROVE  StateOK'
  BY OwnerTypes, MailTypes, BeginTypes, FinishTypes, TroubleTypes DEF Next

-----------------------------------------------------------------------------
(* What is reached stays reached *)

\* The mailbox, the checkpoint, the stored messages and those left behind only grow.
Grows ==
  /\ arrived <= arrived'
  /\ checkpoint # None => checkpoint' # None /\ checkpoint <= checkpoint'
  /\ \A m \in Messages : ingested[m] # None => ingested'[m] # None
  /\ passed \subseteq passed'

\* Only the mailbox itself changes mail.
LEMMA MailStep ==
  ASSUME IInv, Next
  PROVE  MailIsInOrder' /\ arrived <= arrived' /\ arrived' \in Cursor
<1>1. CASE UNCHANGED mail
  <2>1. MailIsInOrder' /\ arrived' = arrived
    BY <1>1 DEF IInv, MailIsInOrder, arrived
  <2>2. arrived \in Cursor /\ arrived <= arrived
    BY ArrivedIsLast, MailboxAssumption DEF IInv, Cursor
  <2> QED BY <2>1, <2>2
<1>2. CASE \/ Arrive
           \/ \E m \in Messages, to \in {"relabelled", "deleted"} : Change(m, to)
           \/ HistoryExpires
  <2>1. MailIsInOrder' /\ arrived <= arrived'
    BY <1>2, MailTypes
  <2>2. arrived' \in Cursor
    <3>1. PICK n \in Cursor : \A m \in Messages : mail'[m] # None <=> m <= n
      BY <2>1 DEF MailIsInOrder
    <3> QED BY <3>1, CountOfPrefix DEF arrived
  <2> QED BY <2>1, <2>2
<1> QED
  BY <1>1, <1>2 DEF Next, Connect, Disconnect, Push, Maintain, WatchExpires, Begin, StartHistory,
     StartRenew, RunStop, RunBackfill, Finish, FinishHistory, FinishGap, FinishRenew, Refresh,
     TokenIsRejected, Retried, GivenUp

\* The steps that store messages or write the cursor.
Writes ==
  \/ \E j \in jobs : RunBackfill(j)
  \/ \E r \in reads : FinishHistory(r) \/ FinishRenew(r)

APush == \E h \in Messages, form \in {"pubsub", "push"} : Push(h, form)

\* The other steps of jobs and owner leave stored messages and the cursor alone.
LEMMA OtherSteps ==
  ASSUME IInv, Next, ~Writes
  PROVE  /\ UNCHANGED <<ingested, passed>> /\ conn'.cursor = conn.cursor
         /\ checkpoint' = checkpoint \/ APush
<1>1. ASSUME NEW s PROVE [conn EXCEPT !.status = s].cursor = conn.cursor
  BY DEF IInv, StateOK, TypeOK, ConnRow
<1>2. /\ \A s, c : [conn EXCEPT !.status = s, !.creds = c].cursor = conn.cursor
      /\ [conn EXCEPT !.watch = "expired"].cursor = conn.cursor
      /\ [conn EXCEPT !.creds = TRUE].cursor = conn.cursor
      /\ [conn EXCEPT !.watch = "none", !.creds = FALSE].cursor = conn.cursor
  BY DEF IInv, StateOK, TypeOK, ConnRow
<1>3. CASE Connect \/ Disconnect \/ Maintain \/ WatchExpires \/ APush
  <2>1. CASE Connect
    BY <1>2, <2>1 DEF Connect
  <2>2. CASE Disconnect
    BY <1>2, <2>2 DEF Disconnect
  <2>3. CASE Maintain \/ WatchExpires
    BY <1>2, <2>3 DEF Maintain, WatchExpires, connection
  <2>4. CASE APush
    BY <2>4 DEF APush, Push
  <2> QED BY <1>3, <2>1, <2>2, <2>3, <2>4
<1>4. CASE (\E j \in jobs : Begin(j)) \/ (\E r \in reads : Finish(r))
  BY <1>1, <1>2, <1>4 DEF Begin, StartHistory, StartRenew, RunStop, Finish, FinishGap, Writes, connection
<1>5. CASE \/ \E r \in reads : Refresh(r) \/ TokenIsRejected(r) \/ Retried(r)
           \/ \E j \in jobs : GivenUp(j)
  BY <1>1, <1>2, <1>5 DEF Refresh, TokenIsRejected, Retried, GivenUp, connection
<1>6. CASE \/ Arrive
           \/ \E m \in Messages, to \in {"relabelled", "deleted"} : Change(m, to)
           \/ HistoryExpires
  BY <1>6 DEF Arrive, Change, HistoryExpires, connection
<1> QED BY <1>3, <1>4, <1>5, <1>6 DEF Next, APush

\* A job that writes keeps what is stored, and its first cursor moves the checkpoint.
LEMMA WriteSteps ==
  ASSUME IInv, Next, Writes
  PROVE  /\ checkpoint' = checkpoint \/ checkpoint' = FirstCursor(conn'.cursor)
         /\ conn.cursor = None /\ conn'.cursor # None => checkpoint' = FirstCursor(conn'.cursor)
         /\ conn'.cursor \in Cursor \cup {None}
         /\ ingested' = ingested \/ \E span, order : ingested' = Ingested(span, order)
         /\ passed \subseteq passed'
<1>1. conn'.cursor \in Cursor \cup {None} /\ conn \in ConnRow
  BY TypeStep DEF IInv, StateOK, TypeOK, ConnRow
<1>2. ASSUME NEW r \in reads, FinishRenew(r)
      PROVE  /\ checkpoint' = FirstCursor(conn'.cursor)
             /\ ingested' = ingested
             /\ passed \subseteq passed'
  BY <1>2 DEF FinishRenew
<1>3. ASSUME NEW r \in reads, FinishHistory(r)
      PROVE  /\ checkpoint' = checkpoint \/ checkpoint' = FirstCursor(conn'.cursor)
             /\ conn.cursor = None /\ conn'.cursor # None => checkpoint' = FirstCursor(conn'.cursor)
             /\ ingested' = ingested \/ \E span, order : ingested' = Ingested(span, order)
             /\ passed \subseteq passed'
  <2>1. CASE PageIsTaken(r)
    <3>1. [conn EXCEPT !.cursor = Advanced(conn.cursor, r.cursor, r.page)].cursor
            = Advanced(conn.cursor, r.cursor, r.page)
      BY <1>1 DEF ConnRow
    <3>2. conn'.cursor = Advanced(conn.cursor, r.cursor, r.page)
      BY <2>1, <3>1 DEF PageIsTaken
    <3> QED BY <2>1, <3>2 DEF PageIsTaken
  <2>2. CASE PageIsRefused(r)
    BY <2>2 DEF PageIsRefused
  <2> QED BY <1>3, <2>1, <2>2, PageEnds
<1>4. ASSUME NEW j \in jobs, RunBackfill(j)
      PROVE  /\ checkpoint' = checkpoint \/ checkpoint' = FirstCursor(conn'.cursor)
             /\ conn.cursor = None /\ conn'.cursor # None => checkpoint' = FirstCursor(conn'.cursor)
             /\ ingested' = ingested \/ \E span, order : ingested' = Ingested(span, order)
             /\ passed \subseteq passed'
  <2>1. CASE Resumed.status = "CONNECTED" /\ conn.creds
    BY <1>4, <2>1 DEF RunBackfill, Resumed
  <2>2. CASE ~(Resumed.status = "CONNECTED" /\ conn.creds)
    <3>1. conn' = Resumed /\ UNCHANGED <<checkpoint, ingested, passed>>
      BY <1>4, <2>2 DEF RunBackfill, Resumed
    <3>2. Resumed.cursor = conn.cursor
      BY <1>1, ResumedTypes
    <3> QED BY <3>1, <3>2
  <2> QED BY <2>1, <2>2
<1> QED BY <1>1, <1>2, <1>3, <1>4 DEF Writes

\* Every step grows.
LEMMA GrowsStep ==
  ASSUME IInv, Next
  PROVE  Grows
<1> USE DEF IInv, StateOK
<1>1. arrived <= arrived'
  BY MailStep
<1>2. checkpoint' = checkpoint => (checkpoint # None => checkpoint' # None /\ checkpoint <= checkpoint')
  BY MailboxAssumption DEF TypeOK, Cursor
<1>3. CASE Writes
  <2>1. checkpoint # None => checkpoint' # None /\ checkpoint <= checkpoint'
    <3>1. CASE checkpoint' = FirstCursor(conn'.cursor)
      BY <1>3, <3>1, WriteSteps, FirstCursorRises
    <3> QED BY <1>2, <1>3, <3>1, WriteSteps
  <2>2. \A m \in Messages : ingested[m] # None => ingested'[m] # None
    BY <1>3, WriteSteps, IngestedGrows
  <2> QED BY <1>1, <1>3, <2>1, <2>2, WriteSteps DEF Grows
<1>4. CASE ~Writes
  <2>1. UNCHANGED <<ingested, passed>> /\ (checkpoint' = checkpoint \/ APush)
    BY <1>4, OtherSteps
  <2>2. ASSUME NEW h \in Messages, NEW form, Push(h, form)
        PROVE  checkpoint # None => checkpoint' # None /\ checkpoint <= checkpoint'
    <3>1. h \in Cursor /\ None \notin Cursor
      BY MailboxAssumption DEF Messages, Cursor
    <3> QED BY <1>2, <2>2, <3>1, ReportedRises DEF Push
  <2> QED BY <1>1, <1>2, <2>1, <2>2 DEF Grows, APush
<1> QED BY <1>3, <1>4

\* What is reached stays so.
LEMMA ReachedStays ==
  ASSUME IInv, Next, NEW h, Reached(h)
  PROVE  Reached(h)'
<1>1. TypeOK /\ TypeOK' /\ MailIsInOrder
  BY TypeStep DEF IInv, StateOK
<1>2. arrived \in Cursor /\ arrived' \in Cursor
  BY <1>1, ArrivedIsLast, MailStep
<1>3. checkpoint \in Cursor /\ checkpoint' \in Cursor
  BY <1>1, GrowsStep DEF Grows, Reached, TypeOK
<1>4. h \in Cursor /\ h <= arrived'
  BY <1>2, GrowsStep, MailboxAssumption DEF Grows, Reached, Cursor
<1>5. \A m \in Messages : checkpoint' < m /\ m <= h => ingested'[m] # None \/ m \in passed'
  BY <1>3, <1>4, GrowsStep, MailboxAssumption DEF Grows, Reached, Cursor, Messages
<1> QED BY <1>2, <1>3, <1>4, <1>5, MailboxAssumption DEF Reached, Cursor

\* So does what a job may rely on.
LEMMA UpToStays ==
  ASSUME IInv, Next, NEW j, NEW h, UpTo(j, h)
  PROVE  UpTo(j, h)'
<1>1. arrived \in Cursor /\ arrived' \in Cursor /\ arrived <= arrived'
  BY ArrivedIsLast, MailStep DEF IInv
<1>2. h \in Cursor /\ h <= arrived'
  BY <1>1, MailboxAssumption DEF UpTo, Cursor
<1>3. j.by = "push" => j.from \in Cursor /\ j.from <= h /\ Stored(j.from, h)'
  BY GrowsStep DEF UpTo, Grows, Stored
<1>4. j.by # "push" => Reached(h)'
  BY ReachedStays DEF UpTo
<1> QED BY <1>2, <1>3, <1>4 DEF UpTo

\* What the checkpoint covers is reached: nothing of it needs to be stored.
LEMMA CoveredIsReached ==
  ASSUME IInv, Next, NEW h \in Cursor, h <= arrived, checkpoint' \in Cursor, h <= checkpoint'
  PROVE  Reached(h)'
<1>1. arrived \in Cursor /\ arrived' \in Cursor /\ arrived <= arrived'
  BY ArrivedIsLast, MailStep DEF IInv
<1>2. h <= arrived' /\ checkpoint' # None
  BY <1>1, MailboxAssumption DEF Cursor
<1>3. \A m \in Messages : ~(checkpoint' < m /\ m <= h)
  BY MailboxAssumption DEF Messages, Cursor
<1> QED BY <1>2, <1>3 DEF Reached

-----------------------------------------------------------------------------
(* Cursor, pages and pauses *)

\* A page that is taken has stored every message it lists.
LEMMA PageIsStored ==
  ASSUME IInv, Next, NEW r \in reads, FinishHistory(r), PageIsTaken(r)
  PROVE  /\ \A m \in Messages : r.page.lo <= m /\ m <= r.page.hi => ingested'[m] # None
         /\ UpTo(r.job, r.page.hi)'
<1>1. PICK page \in Listed : page = r.page /\ Continues(page, r.job)
  BY PageEnds
<1>2. PICK j \in Job : j = r.job
  BY OpenRead
<1>3. /\ page.lo \in Nat /\ page.hi \in Cursor /\ page.hi \in Int
      /\ page.hi <= arrived /\ page.lo - 1 <= page.hi /\ UpTo(j, page.lo - 1)
  BY <1>1, <1>2, MailboxAssumption DEF Continues, Listed, Cursor
<1>4. ingested' = Ingested(page.lo..page.hi, TRUE) /\ Conflicting(page.lo..page.hi) = {}
  BY <1>1 DEF PageIsTaken
<1>5. arrived \in Cursor /\ arrived' \in Cursor /\ arrived <= arrived'
  BY MailStep, ArrivedIsLast DEF IInv
<1>6. ASSUME NEW m \in Messages, page.lo <= m, m <= page.hi
      PROVE  ingested'[m] # None
  <2>1. m \in Int /\ m <= arrived /\ m \in page.lo..page.hi
    BY <1>3, <1>5, <1>6, MailboxAssumption DEF Messages, Cursor
  <2>2. mail[m] # None
    BY <2>1, ArrivedIsLast DEF IInv
  <2>3. ingested'[m] = IF ingested[m] = None THEN mail[m] ELSE ingested[m]
    BY <1>4, <2>1 DEF Ingested
  <2> QED BY <2>2, <2>3
<1>7. UpTo(j, page.lo - 1)'
  BY <1>3, UpToStays
<1>8. page.hi <= arrived'
  BY <1>3, <1>5, MailboxAssumption DEF Cursor
<1>9. \A m \in Messages : m <= page.hi => m <= page.lo - 1 \/ page.lo <= m
  BY <1>3, MailboxAssumption DEF Messages, Cursor
<1>10. CASE j.by = "push"
  <2>1. j.from \in Cursor /\ j.from <= page.lo - 1 /\ Stored(j.from, page.lo - 1)'
    BY <1>7, <1>10 DEF UpTo
  <2>2. j.from <= page.hi
    BY <1>3, <2>1, MailboxAssumption DEF Cursor
  <2>3. Stored(j.from, page.hi)'
    BY <1>6, <1>9, <2>1 DEF Stored
  <2> QED BY <1>1, <1>2, <1>3, <1>6, <1>8, <1>10, <2>1, <2>2, <2>3 DEF UpTo
<1>11. CASE j.by # "push"
  <2>1. Reached(page.lo - 1)'
    BY <1>7, <1>11 DEF UpTo
  <2>2. Reached(page.hi)'
    BY <1>3, <1>6, <1>8, <1>9, <2>1 DEF Reached
  <2> QED BY <1>1, <1>2, <1>3, <1>6, <1>8, <1>11, <2>2 DEF UpTo
<1> QED BY <1>10, <1>11

\* A message that the cursor leaves behind is counted.
LEMMA BehindIsCounted ==
  ASSUME conn.cursor \in Cursor, NEW id \in Cursor, NEW m \in Messages, conn.cursor < m, m <= id,
         ingested[m] = None
  PROVE  m \in Behind(id)
  BY MailboxAssumption DEF Behind, Messages, Cursor

\* The first cursor of a connection is covered by its checkpoint.
LEMMA FirstIsReached ==
  ASSUME IInv, Next, Writes, conn.cursor = None, NEW c \in Cursor, c = conn'.cursor, c <= arrived
  PROVE  Reached(c)'
<1>1. TypeOK /\ TypeOK' /\ c # None
  BY TypeStep, MailboxAssumption DEF IInv, StateOK, Cursor
<1>2. checkpoint' = FirstCursor(c)
  BY <1>1, WriteSteps
<1>3. checkpoint' \in Cursor /\ c <= checkpoint'
  BY <1>1, <1>2, FirstCursorRises DEF TypeOK
<1> QED BY <1>3, CoveredIsReached

\* The last page of a job moves the cursor over messages that are stored or counted.
LEMMA LastPage ==
  ASSUME IInv, Next, NEW r \in reads, FinishHistory(r), PageIsTaken(r), conn.cursor # None,
         NEW c \in Cursor, c = conn'.cursor, c # conn.cursor
  PROVE  Reached(c)'
<1>1. PICK page \in Listed : page = r.page /\ Continues(page, r.job)
  BY PageEnds
<1>2. PICK j \in Job : j = r.job
  BY OpenRead
<1>3. conn \in ConnRow /\ conn.cursor \in Cursor
  BY DEF IInv, StateOK, TypeOK, ConnRow
<1>4. c = page.newest /\ c <= page.hi
  <2>1. [conn EXCEPT !.cursor = Advanced(conn.cursor, r.cursor, page)].cursor = Advanced(conn.cursor, r.cursor, page)
    BY <1>3 DEF ConnRow
  <2>2. conn'.cursor = Advanced(conn.cursor, r.cursor, page)
    BY <1>1, <2>1 DEF PageIsTaken
  <2>3. ~page.more /\ c = page.newest
    BY <1>3, <2>2, AdvancedTypes
  <2> QED BY <1>1, <2>3 DEF Continues, Listed
<1>5. UpTo(j, page.hi)' /\ page.hi \in Cursor
  BY <1>1, <1>2, PageIsStored DEF Listed
<1>6. c <= arrived' /\ checkpoint' # None /\ arrived' \in Cursor
  <2>1. checkpoint # None /\ checkpoint' # None
    BY GrowsStep DEF Grows, IInv, CursorIsReached, Reached
  <2> QED BY <1>4, <1>5, <2>1, MailStep, MailboxAssumption DEF UpTo, Cursor
<1>7. CASE j.by # "push"
  <2>1. Reached(page.hi)'
    BY <1>5, <1>7 DEF UpTo
  <2>2. \A m \in Messages : m <= c => m <= page.hi
    BY <1>4, <1>5, MailboxAssumption DEF Messages, Cursor
  <2> QED BY <1>4, <1>6, <2>1, <2>2 DEF Reached
<1>8. CASE j.by = "push"
  <2>1. j.from \in Cursor /\ Stored(j.from, page.hi)'
    BY <1>5, <1>8 DEF UpTo
  <2>2. PICK at \in Cursor : at = conn.cursor /\ Reached(at)'
    <3>1. PICK at \in Cursor : at = conn.cursor
      BY <1>3
    <3>2. Reached(at)
      BY <3>1 DEF IInv, CursorIsReached
    <3> QED BY <3>1, <3>2, ReachedStays
  <2>3. passed' = passed \cup Behind(j.from)
    <3>1. Advanced(conn.cursor, r.cursor, r.page) # conn.cursor
      <4>1. [conn EXCEPT !.cursor = Advanced(conn.cursor, r.cursor, r.page)].cursor
              = Advanced(conn.cursor, r.cursor, r.page)
        BY <1>3 DEF ConnRow
      <4> QED BY <4>1 DEF PageIsTaken
    <3> QED BY <1>2, <1>8, <3>1 DEF PageIsTaken
  <2>4. ASSUME NEW m \in Messages, checkpoint' < m, m <= c
        PROVE  ingested'[m] # None \/ m \in passed'
    <3>1. m \in Int /\ conn.cursor \in Int /\ j.from \in Int /\ page.hi \in Int /\ c \in Int
      BY <1>3, <1>5, <2>1, MailboxAssumption DEF Messages, Cursor
    <3>2. CASE m <= conn.cursor
      BY <2>2, <2>4, <3>2 DEF Reached
    <3>3. CASE conn.cursor < m /\ m <= j.from
      <4>1. CASE ingested[m] = None
        BY <1>3, <2>1, <2>3, <3>3, <4>1, BehindIsCounted
      <4>2. CASE ingested[m] # None
        BY <4>2, GrowsStep DEF Grows
      <4> QED BY <4>1, <4>2
    <3>4. CASE j.from < m
      <4>1. m <= page.hi
        BY <1>4, <2>4, <3>1
      <4> QED BY <2>1, <3>4, <4>1 DEF Stored
    <3> QED BY <3>1, <3>2, <3>3, <3>4
  <2> QED BY <1>4, <1>6, <2>4 DEF Reached
<1> QED BY <1>7, <1>8

\* The cursor is reached: it moves to the end of a stored page, starts at the checkpoint, or
\* counts what it leaves behind.
LEMMA CursorStep ==
  ASSUME IInv, Next
  PROVE  CursorIsReached'
<1>1. /\ TypeOK /\ TypeOK' /\ arrived \in Cursor /\ None \notin Cursor
      /\ conn \in ConnRow /\ conn.cursor \in Cursor \cup {None}
      /\ arrived' \in Cursor /\ arrived <= arrived'
  BY TypeStep, ArrivedIsLast, MailStep, MailboxAssumption DEF IInv, StateOK, TypeOK, ConnRow, Cursor
<1>2. CASE conn'.cursor = conn.cursor
  <2>1. CASE conn.cursor = None
    BY <1>2, <2>1 DEF CursorIsReached
  <2>2. CASE conn.cursor # None
    <3>1. PICK c \in Cursor : c = conn.cursor /\ c = conn'.cursor
      BY <1>1, <1>2, <2>2
    <3>2. Reached(c)
      BY <2>2, <3>1 DEF IInv, CursorIsReached
    <3>3. Reached(c)'
      BY <3>2, ReachedStays
    <3> QED BY <3>1, <3>3 DEF CursorIsReached, Reached
  <2> QED BY <2>1, <2>2
<1>3. ASSUME conn.cursor = None, NEW c \in Cursor, conn'.cursor = c, c <= arrived, Writes
      PROVE  CursorIsReached'
  <2>1. Reached(c)'
    BY <1>3, FirstIsReached
  <2> QED BY <1>3, <2>1 DEF CursorIsReached, Reached
<1>4. ASSUME NEW r \in reads, FinishRenew(r) PROVE CursorIsReached'
  <2>1. PICK h \in Cursor, c \in Cursor \cup {None} :
          /\ h <= arrived /\ c = IF r.cursor = None THEN h ELSE conn.cursor
          /\ conn'.cursor = c
          /\ passed' = passed \cup IF r.cursor = None THEN Behind(h) ELSE {}
    BY <1>4, RenewEnds
  <2>2. CASE r.cursor # None
    BY <1>2, <2>1, <2>2
  <2>3. CASE r.cursor = None /\ conn.cursor = None
    BY <1>3, <1>4, <2>1, <2>3 DEF Writes
  <2>4. CASE r.cursor = None /\ conn.cursor # None
    <3>1. conn.cursor \in Cursor /\ c = h /\ passed' = passed \cup Behind(h)
      BY <1>1, <2>1, <2>4
    <3>2. PICK at \in Cursor : at = conn.cursor /\ Reached(at)'
      <4>1. PICK at \in Cursor : at = conn.cursor
        BY <3>1
      <4>2. Reached(at)
        BY <2>4, <4>1 DEF IInv, CursorIsReached
      <4> QED BY <4>1, <4>2, ReachedStays
    <3>3. ASSUME NEW m \in Messages, checkpoint' < m, m <= h
          PROVE  ingested'[m] # None \/ m \in passed'
      <4>1. CASE m <= conn.cursor
        BY <3>2, <3>3, <4>1 DEF Reached
      <4>2. CASE conn.cursor < m
        BY <3>1, <3>3, <4>2, BehindIsCounted, GrowsStep DEF Grows
      <4> QED BY <3>1, <4>1, <4>2, MailboxAssumption DEF Messages, Cursor
    <3>4. h <= arrived' /\ checkpoint' # None
      BY <1>1, <2>1, <3>2, MailboxAssumption DEF Reached, Cursor
    <3>5. Reached(h)'
      BY <3>3, <3>4 DEF Reached
    <3> QED BY <2>1, <3>1, <3>5 DEF CursorIsReached, Reached
  <2> QED BY <2>2, <2>3, <2>4
<1>5. ASSUME NEW j \in jobs, RunBackfill(j) PROVE CursorIsReached'
  <2>1. conn' = Resumed \/ conn' = Watched(j)
    BY <1>5 DEF RunBackfill, Resumed, Watched
  <2>2. Resumed \in ConnRow /\ Resumed.cursor = conn.cursor
    BY <1>1, ResumedTypes DEF TypeOK
  <2>3. Watched(j).cursor = conn.cursor \/ (conn.cursor = None /\ Watched(j).cursor = arrived)
    BY <1>1, WatchedTypes DEF TypeOK
  <2>4. arrived <= arrived
    BY <1>1, MailboxAssumption DEF Cursor
  <2> QED BY <1>1, <1>2, <1>3, <1>5, <2>1, <2>2, <2>3, <2>4 DEF Writes
<1>6. ASSUME NEW r \in reads, FinishHistory(r) PROVE CursorIsReached'
  <2>1. CASE PageIsRefused(r)
    <3>1. conn' = conn
      BY <2>1 DEF PageIsRefused
    <3> QED BY <1>2, <3>1
  <2>2. CASE PageIsTaken(r) /\ conn'.cursor # conn.cursor /\ conn.cursor # None
    <3>1. conn'.cursor \in Cursor \cup {None}
      BY <1>1 DEF TypeOK, ConnRow
    <3>2. CASE conn'.cursor = None
      BY <3>2 DEF CursorIsReached
    <3>3. CASE conn'.cursor # None
      <4>1. PICK c \in Cursor : c = conn'.cursor
        BY <3>1, <3>3
      <4>2. Reached(c)'
        BY <1>6, <2>2, <4>1, LastPage
      <4> QED BY <4>1, <4>2 DEF CursorIsReached, Reached
    <3> QED BY <3>2, <3>3
  <2>3. CASE PageIsTaken(r) /\ conn'.cursor # conn.cursor /\ conn.cursor = None
    <3>1. PICK page \in Listed : page = r.page /\ Continues(page, r.job)
      BY <1>6, PageEnds
    <3>2. [conn EXCEPT !.cursor = Advanced(conn.cursor, r.cursor, page)].cursor = Advanced(conn.cursor, r.cursor, page)
      BY <1>1 DEF ConnRow
    <3>3. conn'.cursor = Advanced(conn.cursor, r.cursor, page)
      BY <2>3, <3>1, <3>2 DEF PageIsTaken
    <3>4. conn'.cursor = page.newest /\ page.newest \in Cursor /\ page.newest <= arrived
      BY <1>1, <2>3, <3>1, <3>3, AdvancedTypes DEF Continues, Listed
    <3> QED BY <1>3, <1>6, <2>3, <3>4 DEF Writes
  <2> QED BY <1>2, <1>6, <2>1, <2>2, <2>3, PageEnds
<1> QED BY <1>2, <1>4, <1>5, <1>6, OtherSteps DEF Writes

\* What an old job relies on stays so.
LEMMA JobStays ==
  ASSUME IInv, Next, NEW j, JobIsReached(j)
  PROVE  JobIsReached(j)'
  BY UpToStays DEF JobIsReached

\* Only the owner, a push, the schedule and a page that continues make history jobs.
LEMMA NewHistory ==
  ASSUME IInv, Next, ~Connect, ~APush, ~Maintain, ~\E r \in reads : FinishHistory(r)
  PROVE  \A j \in jobs' : j.kind = "history_sync" => j \in jobs
<1>1. CASE Disconnect
  BY <1>1 DEF Disconnect, Watch
<1>2. ASSUME NEW j \in jobs, RunBackfill(j)
      PROVE  \A i \in jobs' : i.kind = "history_sync" => i \in jobs
  <2>1. \/ jobs' = jobs \ {j}
        \/ \E pages : jobs' = (jobs \ {j}) \cup {Backfill(p) : p \in pages}
    <3>1. CASE Resumed.status = "CONNECTED" /\ conn.creds
      BY <1>2, <3>1 DEF RunBackfill, Resumed, Poison
    <3>2. CASE ~(Resumed.status = "CONNECTED" /\ conn.creds)
      BY <1>2, <3>2 DEF RunBackfill, Resumed, Poison
    <3> QED BY <3>1, <3>2
  <2> QED BY <2>1 DEF Backfill
<1>3. CASE \E j \in jobs : Begin(j)
  BY <1>2, <1>3 DEF Begin, StartHistory, StartRenew, RunStop, Poison
<1>4. ASSUME NEW r \in reads, Finish(r)
      PROVE  \A i \in jobs' : i.kind = "history_sync" => i \in jobs
  <2>1. FinishGap(r) \/ FinishRenew(r)
    BY <1>4 DEF Finish
  <2>2. Backfill(None).kind = "initial_backfill"
    BY DEF Backfill
  <2>3. jobs' = (jobs \ {r.job}) \cup {Backfill(None)} \/ jobs' = jobs \ {r.job}
    BY <2>1 DEF FinishGap, GapJobs, FinishRenew
  <2> QED BY <2>2, <2>3
<1>5. CASE \/ \E r \in reads : Refresh(r) \/ TokenIsRejected(r) \/ Retried(r)
           \/ \E j \in jobs : GivenUp(j)
  BY <1>5 DEF Refresh, TokenIsRejected, Retried, GivenUp, Poison, work
<1>6. CASE \/ WatchExpires \/ Arrive \/ HistoryExpires
           \/ \E m \in Messages, to \in {"relabelled", "deleted"} : Change(m, to)
  BY <1>6 DEF WatchExpires, Arrive, Change, HistoryExpires, work
<1> QED BY <1>1, <1>3, <1>4, <1>5, <1>6 DEF Next, APush

\* A job that starts at the cursor starts where everything before is reached.
LEMMA CursorIsAStart ==
  ASSUME IInv, Next, NEW j, j.by # "push", j.page = None, j.from = conn.cursor, conn.cursor # None
  PROVE  JobIsReached(j)'
<1>1. PICK c \in Cursor : c = conn.cursor
  BY DEF IInv, StateOK, TypeOK, ConnRow
<1>2. Reached(c) /\ c <= arrived
  BY <1>1 DEF IInv, CursorIsReached, Reached
<1>3. UpTo(j, c)
  BY <1>2 DEF UpTo
<1> QED BY <1>1, <1>3, UpToStays DEF JobIsReached

\* New history jobs start, or continue, where what they answer for is reached.
LEMMA HistoryStep ==
  ASSUME IInv, Next
  PROVE  HistoryIsReached'
<1> SUFFICES ASSUME NEW j \in jobs', j.kind = "history_sync"
             PROVE  JobIsReached(j)'
  BY DEF HistoryIsReached
<1>1. TypeOK /\ arrived \in Cursor /\ arrived' \in Cursor /\ arrived <= arrived' /\ None \notin Cursor
  BY ArrivedIsLast, MailStep, MailboxAssumption DEF IInv, StateOK, Cursor
<1>2. CASE j \in jobs
  BY <1>2, JobStays DEF IInv, HistoryIsReached
<1>3. ASSUME Connect, j \notin jobs PROVE JobIsReached(j)'
  <2>1. j.from = None /\ j.page = None /\ j.by = "schedule"
    BY <1>3 DEF Connect, History, Backfill
  <2> QED BY <2>1 DEF JobIsReached
<1>4. ASSUME Maintain, j \notin jobs PROVE JobIsReached(j)'
  <2>1. conn.cursor # None /\ j.from = conn.cursor /\ j.page = None /\ j.by = "schedule"
    BY <1>4 DEF Maintain, Due, History, Watch
  <2> QED BY <2>1, CursorIsAStart
<1>5. ASSUME NEW h \in Messages, NEW form \in {"pubsub", "push"}, Push(h, form), j \notin jobs
      PROVE  JobIsReached(j)'
  <2>1. /\ j.page = None /\ h <= arrived /\ h \in Cursor /\ j.by = form
        /\ j.from = IF form = "push" \/ conn.cursor = None THEN h ELSE conn.cursor
    BY <1>5, MailboxAssumption DEF Push, History, Messages, Cursor
  <2>2. CASE form = "push"
    <3>1. j.from = h /\ j.by = "push" /\ h <= h /\ h <= arrived'
      BY <1>1, <2>1, <2>2, MailboxAssumption DEF Cursor
    <3>2. \A m \in Messages : ~(h < m /\ m <= h)
      BY <2>1, MailboxAssumption DEF Messages, Cursor
    <3>3. UpTo(j, h)'
      BY <2>1, <3>1, <3>2 DEF UpTo, Stored
    <3> QED BY <1>1, <2>1, <3>1, <3>3 DEF JobIsReached
  <2>3. CASE form # "push" /\ conn.cursor = None
    <3>1. checkpoint' \in Cursor /\ h <= checkpoint'
      BY <1>1, <1>5, <2>1, <2>3, ReportedRises DEF Push
    <3>2. Reached(h)'
      BY <2>1, <3>1, CoveredIsReached
    <3>3. UpTo(j, h)'
      BY <2>1, <2>3, <3>2 DEF UpTo, Reached
    <3> QED BY <2>1, <2>3, <3>3 DEF JobIsReached
  <2>4. CASE form # "push" /\ conn.cursor # None
    <3>1. j.from = conn.cursor /\ j.by # "push"
      BY <2>1, <2>4
    <3> QED BY <2>1, <2>4, <3>1, CursorIsAStart
  <2> QED BY <2>2, <2>3, <2>4
<1>6. ASSUME NEW r \in reads, FinishHistory(r), j \notin jobs PROVE JobIsReached(j)'
  <2>1. PageIsTaken(r)
    <3>1. ~PageIsRefused(r)
      BY <1>6 DEF PageIsRefused, Poison
    <3> QED BY <1>6, <3>1, PageEnds
  <2>2. j \in {History(r.job.from, p, r.job.by) : p \in {r.page.hi}}
    BY <1>6, <2>1 DEF PageIsTaken
  <2>3. j.from = r.job.from /\ j.page = r.page.hi /\ j.by = r.job.by
    BY <2>2 DEF History
  <2>4. PICK job, hi : job = r.job /\ hi = r.page.hi
    OBVIOUS
  <2>5. JobIsReached(job)' /\ UpTo(job, hi)'
    BY <1>6, <2>1, <2>4, PageEnds, PageIsStored, JobStays
  <2>6. \A x : UpTo(job, x)' => UpTo(j, x)'
    BY <2>3, <2>4 DEF UpTo
  <2> QED BY <2>3, <2>4, <2>5, <2>6 DEF JobIsReached
<1> QED BY <1>2, <1>3, <1>4, <1>5, <1>6, NewHistory DEF APush

\* A page that continues what is stored does so after any step.
LEMMA ContinuesStays ==
  ASSUME IInv, Next, NEW page, NEW j, Continues(page, j)
  PROVE  Continues(page, j)'
<1>1. UpTo(j, page.lo - 1)'
  BY UpToStays DEF Continues
<1>2. arrived \in Cursor /\ arrived' \in Cursor /\ arrived <= arrived'
  BY ArrivedIsLast, MailStep DEF IInv
<1>3. page.hi \in Cursor /\ page.newest \in Cursor
  BY DEF Continues, Listed
<1>4. page.hi <= arrived' /\ page.newest <= arrived'
  BY <1>2, <1>3, MailboxAssumption DEF Continues, Cursor
<1> QED BY <1>1, <1>4 DEF Continues, Listed

\* So does what a running job has read: whatever others commit meanwhile.
LEMMA ReadStays ==
  ASSUME IInv, Next, NEW r, ReadIsSound(r)
  PROVE  ReadIsSound(r)'
  BY ContinuesStays DEF ReadIsSound

\* A history job reads a page that continues what it answers for.
LEMMA PageIsListed ==
  ASSUME IInv, NEW j \in jobs, StartHistory(j), reads' # reads
  PROVE  \E page : Read(j, page) /\ (page = Gap \/ Continues(page, j))
<1> DEFINE from == IF j.from = None THEN conn.cursor ELSE j.from
<1>1. from # None /\ Read(j, Listing(from, j.page)) /\ j.kind = "history_sync"
  BY DEF StartHistory
<1>2. JobIsReached(j) /\ TypeOK /\ MailIsInOrder /\ j \in Job /\ conn.cursor \in Cursor \cup {None}
  BY <1>1 DEF IInv, StateOK, TypeOK, HistoryIsReached, ConnRow
<1>3. j.page \in Cursor \cup {None} /\ from \in Cursor /\ UpTo(j, from)
  <2>1. CASE j.from # None
    BY <1>2, <2>1 DEF JobIsReached, UpTo, Job
  <2>2. CASE j.from = None
    BY <1>1, <1>2, <2>2 DEF JobIsReached, UpTo, Job, IInv, CursorIsReached, Reached
  <2> QED BY <2>1, <2>2
<1>4. j.page # None => UpTo(j, j.page)
  BY <1>2 DEF JobIsReached
<1>5. PICK at \in Cursor : at = (IF j.page = None THEN from ELSE j.page) /\ UpTo(j, at)
  BY <1>3, <1>4
<1>6. PICK page : page = Listing(from, j.page)
  OBVIOUS
<1>7. page = Gap \/ (page \in Listed /\ page.lo = at + 1 /\ page.lo - 1 <= page.hi /\ page.hi <= arrived
                     /\ page.newest <= arrived /\ (~page.more => page.newest <= page.hi))
  BY <1>2, <1>3, <1>4, <1>5, <1>6, ListingTypes DEF UpTo
<1> HIDE DEF from
<1>8. page # Gap => page.lo - 1 = at
  BY <1>7, MailboxAssumption DEF Cursor
<1>9. page # Gap => Continues(page, j)
  BY <1>5, <1>7, <1>8 DEF Continues
<1> QED BY <1>1, <1>6, <1>9

\* Running jobs have read what is so.
LEMMA ReadsStep ==
  ASSUME IInv, Next
  PROVE  ReadsAreSound'
<1> SUFFICES ASSUME NEW r \in reads' PROVE ReadIsSound(r)'
  BY DEF ReadsAreSound
<1>1. CASE r \in reads
  BY <1>1, ReadStays DEF IInv, ReadsAreSound
<1>2. CASE r \notin reads
  <2>1. PICK j \in jobs : StartHistory(j) \/ StartRenew(j)
    <3>1. CASE \E j \in jobs : RunBackfill(j) \/ RunStop(j)
      BY <1>2, <3>1 DEF RunBackfill, RunStop
    <3>2. CASE \E q \in reads : Finish(q) \/ Refresh(q) \/ TokenIsRejected(q) \/ Retried(q)
      BY <1>2, <3>2 DEF Finish, FinishHistory, FinishGap, FinishRenew, Refresh, TokenIsRejected, Retried, work
    <3>3. CASE Connect \/ Disconnect \/ Maintain \/ WatchExpires \/ APush
      BY <1>2, <3>3 DEF Connect, Disconnect, Maintain, WatchExpires, APush, Push, work
    <3>4. CASE \/ Arrive \/ HistoryExpires \/ \E j \in jobs : GivenUp(j)
               \/ \E m \in Messages, to \in {"relabelled", "deleted"} : Change(m, to)
      BY <1>2, <3>4 DEF Arrive, HistoryExpires, GivenUp, Change, work
    <3> QED BY <3>1, <3>2, <3>3, <3>4 DEF Next, Begin, APush
  <2>2. CASE StartHistory(j)
    <3>1. PICK page : Read(j, page) /\ (page = Gap \/ Continues(page, j))
      BY <1>2, <2>1, <2>2, PageIsListed
    <3>2. r = [job |-> j, cursor |-> conn.cursor, page |-> page]
      BY <1>2, <3>1 DEF Read
    <3>3. r.job = j /\ r.page = page /\ j.kind = "history_sync"
      BY <2>2, <3>2 DEF StartHistory
    <3>4. page = Gap \/ Continues(page, j)'
      BY <3>1, ContinuesStays
    <3> QED BY <3>3, <3>4 DEF ReadIsSound
  <2>3. CASE StartRenew(j)
    <3>1. Read(j, [since |-> arrived]) /\ j.kind = "watch_renew"
      BY <1>2, <2>3 DEF StartRenew
    <3>2. r = [job |-> j, cursor |-> conn.cursor, page |-> [since |-> arrived]]
      BY <1>2, <3>1 DEF Read
    <3>3. arrived \in Cursor
      BY ArrivedIsLast DEF IInv
    <3>4. r.job = j /\ r.page.since = arrived
      BY <3>2
    <3> QED BY <3>1, <3>3, <3>4 DEF ReadIsSound
  <2> QED BY <2>1, <2>2, <2>3
<1> QED BY <1>1, <1>2

\* A paused connection has a backfill that will resume it, unless a page was committed over it.
LEMMA PausedStep ==
  ASSUME IInv, Next
  PROVE  PausedIsResumable'
<1> USE DEF IInv, StateOK
<1> DEFINE Fine == sync'.status = "GAP_DETECTED" /\ (Pending("initial_backfill")' \/ lost')
<1> SUFFICES ASSUME conn'.status = "PAUSED"
             PROVE  Fine \/ overrun'
  BY DEF PausedIsResumable
<1>1. TypeOK /\ conn \in ConnRow /\ sync \in SyncRow \cup {None}
  BY DEF TypeOK
<1>2. ASSUME conn.status = "PAUSED", sync' = sync, overrun' = overrun,
             (lost' = lost /\ \A j \in jobs : j.kind = "initial_backfill" => j \in jobs') \/ \E j \in jobs : Poison(j)
      PROVE  Fine \/ overrun'
  BY <1>2 DEF PausedIsResumable, Pending, Poison
<1>3. ASSUME NEW r \in reads, FinishGap(r)
      PROVE  Fine
  <2>1. sync \in SyncRow
    BY OpenRead
  <2>2. Backfill(None) \in jobs' /\ Backfill(None).kind = "initial_backfill"
    BY <1>3 DEF FinishGap, GapJobs, Backfill
  <2> QED BY <1>3, <2>1, <2>2 DEF FinishGap, Pending, SyncRow
<1>4. ASSUME NEW r \in reads, FinishHistory(r)
      PROVE  Fine \/ overrun'
  <2>1. r.job.kind = "history_sync" /\ r.job \in jobs
    BY <1>4, OpenRead, PageEnds
  <2>2. conn'.status = conn.status
    <3>1. \A c : [conn EXCEPT !.cursor = c].status = conn.status
      BY <1>1 DEF ConnRow
    <3>2. conn' = conn \/ \E c : conn' = [conn EXCEPT !.cursor = c]
      BY <1>4, PageEnds DEF PageIsTaken, PageIsRefused
    <3> QED BY <3>1, <3>2
  <2>3. CASE UNCHANGED <<sync, overrun>> /\ Poison(r.job)
    BY <1>2, <2>1, <2>2, <2>3
  <2>4. CASE ~(UNCHANGED <<sync, overrun>> /\ Poison(r.job))
    BY <1>4, <2>2, <2>4, PageEnds DEF PageIsTaken, PageIsRefused
  <2> QED BY <2>3, <2>4
<1>5. ASSUME NEW r \in reads, FinishRenew(r)
      PROVE  Fine \/ overrun'
  <2>1. conn'.status = conn.status
    BY <1>5, RenewEnds
  <2>2. sync' = sync /\ overrun' = overrun /\ lost' = lost /\ jobs' = jobs \ {r.job} /\ r.job.kind = "watch_renew"
    BY <1>5 DEF FinishRenew
  <2> QED BY <1>2, <2>1, <2>2
<1>6. ASSUME NEW r \in reads, Refresh(r) \/ TokenIsRejected(r) \/ Retried(r)
      PROVE  Fine \/ overrun'
  <2>1. ~TokenIsRejected(r)
    BY <1>1 DEF TokenIsRejected, ConnRow
  <2>2. conn'.status = conn.status /\ UNCHANGED <<sync, overrun, lost, jobs>>
    BY <1>1, <1>6, <2>1 DEF Refresh, Retried, connection, work, ConnRow
  <2> QED BY <1>2, <2>2
<1>7. ~(Connect \/ Disconnect)
  BY <1>1 DEF Connect, Disconnect, ConnRow
<1>8. ASSUME NEW j \in jobs, RunBackfill(j)
      PROVE  overrun'
  <2>1. overrun' = overrun
    BY <1>8 DEF RunBackfill
  <2>2. conn' = Resumed \/ (Resumed.status = "CONNECTED" /\ conn' = Watched(j))
    BY <1>8 DEF RunBackfill, Resumed, Watched
  <2>3. Resumed.status = "CONNECTED" => Watched(j).status = "CONNECTED"
    <3>1. Resumed \in ConnRow
      BY <1>1, ResumedTypes
    <3>2. \A c : [Resumed EXCEPT !.watch = "live", !.cursor = c].status = Resumed.status
      BY <3>1 DEF ConnRow
    <3> QED BY <3>2 DEF Watched
  <2>4. conn.status = "PAUSED" /\ sync.status # "GAP_DETECTED"
    BY <1>1, <2>2, <2>3, StatusFields DEF Resumed
  <2> QED BY <2>1, <2>4 DEF PausedIsResumable
<1>9. ASSUME NEW j \in jobs, StartHistory(j) \/ StartRenew(j) \/ RunStop(j)
      PROVE  Fine \/ overrun'
  <2>1. conn.status = "PAUSED" /\ sync' = sync /\ overrun' = overrun
    BY <1>1, <1>9 DEF StartHistory, StartRenew, RunStop, connection, ConnRow
  <2>2. (lost' = lost /\ jobs' = jobs) \/ Poison(j)
    BY <1>9, <2>1 DEF StartHistory, StartRenew, RunStop
  <2> QED BY <1>2, <2>1, <2>2
<1>10. ~(Maintain \/ WatchExpires \/ APush)
  <2>1. ~Maintain
    BY DEF Maintain, connection
  <2>2. ~WatchExpires
    BY <1>1 DEF WatchExpires, ConnRow
  <2>3. ~APush
    BY DEF APush, Push
  <2> QED BY <2>1, <2>2, <2>3
<1>11. CASE \/ Arrive \/ HistoryExpires
            \/ \E m \in Messages, to \in {"relabelled", "deleted"} : Change(m, to)
  BY <1>2, <1>11 DEF Arrive, HistoryExpires, Change, connection, work
<1>12. CASE \E j \in jobs : GivenUp(j)
  BY <1>2, <1>12 DEF GivenUp, connection
<1> HIDE DEF Fine
<1> QED BY <1>3, <1>4, <1>5, <1>6, <1>7, <1>8, <1>9, <1>10, <1>11, <1>12 DEF Next, Begin, Finish, APush

-----------------------------------------------------------------------------
(* Theorems *)

\* Every step preserves IInv.
LEMMA NextIInv ==
  ASSUME IInv, [Next]_vars
  PROVE  IInv'
<1>1. CASE Next
  BY <1>1, TypeStep, MailStep, CursorStep, HistoryStep, ReadsStep, PausedStep DEF IInv
<1>2. CASE UNCHANGED vars
  <2>1. UNCHANGED <<conn, sync, jobs, lost, reads, ingested, checkpoint, passed, overrun, mail, horizon, budget>>
    BY <1>2 DEF vars, connection, work
  <2>2. arrived' = arrived
    BY <2>1 DEF arrived
  <2>3. \A h : Reached(h)' <=> Reached(h)
    BY <2>1, <2>2 DEF Reached
  <2>4. \A j, h : UpTo(j, h)' <=> UpTo(j, h)
    BY <2>1, <2>2, <2>3 DEF UpTo, Stored
  <2>5. \A j : JobIsReached(j)' <=> JobIsReached(j)
    BY <2>4 DEF JobIsReached
  <2>6. \A p, j : Continues(p, j)' <=> Continues(p, j)
    BY <2>2, <2>4 DEF Continues
  <2> QED BY <2>1, <2>3, <2>5, <2>6 DEF IInv, StateOK, TypeOK, MailIsInOrder, CursorIsReached,
                                  HistoryIsReached, ReadsAreSound, ReadIsSound, PausedIsResumable, Pending
<1> QED BY <1>1, <1>2

\* IInv is an invariant.
LEMMA Invariance == Spec => []IInv
<1>1. Init => IInv
  BY InitIInv
<1>2. IInv /\ [Next]_vars => IInv'
  BY NextIInv
<1> QED BY <1>1, <1>2, PTL DEF Spec

\* Every reachable state is well typed, however many jobs overlap: in particular no job runs
\* twice or goes on after it is gone, and a connection has a record of its sync as soon as it
\* exists.
THEOREM MailboxTypes == Spec => []TypeOK
<1>1. IInv => TypeOK
  BY DEF IInv, StateOK
<1> QED BY <1>1, Invariance, PTL

\* The cursor moves over no message that is not stored, for any number of overlapping jobs,
\* messages, pages, gaps, reconnects and crashes, but where a push has told the job to start
\* beyond the cursor or a renewal has read a connection without one.
THEOREM CursorSkipsNothing == Spec => []NothingSkipped
<1>1. IInv => NothingSkipped
  <2> SUFFICES ASSUME IInv, conn.cursor # None, NEW m \in (checkpoint + 1)..conn.cursor
               PROVE  ingested[m] # None \/ m \in passed
    BY DEF NothingSkipped
  <2>1. Reached(conn.cursor)
    BY DEF IInv, CursorIsReached
  <2>2. checkpoint \in Cursor /\ conn.cursor \in Cursor
    BY <2>1 DEF Reached, IInv, StateOK, TypeOK
  <2>3. m \in Messages /\ checkpoint < m /\ m <= conn.cursor
    BY <2>2, MailboxAssumption DEF Messages, Cursor
  <2> QED BY <2>1, <2>3 DEF Reached
<1> QED BY <1>1, Invariance, PTL

\* A connection that a gap has paused keeps the backfill that resumes it, or shows that it
\* was given up, whatever disconnects, pushes and rejected jobs come in between; only a page
\* that another job commits over the pause takes that away.
THEOREM PausesCanEnd == Spec => []PausedIsResumable
<1>1. IInv => PausedIsResumable
  BY DEF IInv
<1> QED BY <1>1, Invariance, PTL

=============================================================================
