---------------------------- MODULE MailboxSync -----------------------------
(***************************************************************************)
(* One Gmail account: its connection, its sync record and the jobs that    *)
(* read its mail (services/integrations/gmail.py and the gmail branches of *)
(* workers/handlers.py), with the mailbox behind the API (external).       *)
(*                                                                         *)
(* Message i of the mailbox has history id i. Calls that lock the          *)
(* connection before they read it (connect, disconnect, push, backfill,    *)
(* watch_stop) are one action. A history_sync or watch_renew job reads the *)
(* connection without a lock, calls the provider and locks only to write;  *)
(* SELECT FOR UPDATE does not refresh the row it has loaded, so it is two  *)
(* actions and decides on what the first one read.                         *)
(***************************************************************************)
EXTENDS Integers, FiniteSets, FiniteSetsExt

CONSTANTS
  Workers,         \* invocations that run jobs of this mailbox at the same time
  PageSize,        \* MAX_HISTORY_PAGE messages on a page
  MaxMessages,     \* bound: messages that arrive
  MaxTroubles,     \* bound: connects, disconnects, pushes, crashes, jobs out of retries, expired
                   \* or rejected tokens, expired watches and histories, messages changed, together
  None             \* SQL NULL

ASSUME MailboxAssumption ==
  /\ Workers \in Nat /\ PageSize \in Nat \ {0}
  /\ MaxMessages \in Nat /\ MaxTroubles \in Nat
  /\ None \notin Nat

VARIABLES
  conn,      \* IntegrationConnection: status, committed_history_id, credentials, watch
  sync,      \* MailboxSync: status, mode; None before it exists
  jobs,      \* open gmail.* jobs
  lost,      \* whether a backfill job was poisoned: it is under review
  reads,     \* what the running jobs have read
  ingested,  \* ExternalEvent of a message: the content it was stored with, or None
  checkpoint,\* history: the newest id reported up to the first cursor; what came before is
             \* the backfill's to store
  passed,    \* history: messages that were not stored when the cursor was moved over them
             \* by a job that started beyond it, or that had read no cursor
  overrun,   \* history: a page was committed while the connection was paused by a gap
  mail,      \* content of the messages in the mailbox (external)
  horizon,   \* the oldest history id the provider still accepts (external)
  budget     \* what is left of MaxTroubles

connection == <<conn, sync, checkpoint, passed, overrun>>
work == <<jobs, lost, reads>>
vars == <<connection, work, ingested, mail, horizon, budget>>

ConnStatus == {"ABSENT", "CONNECTED", "PAUSED", "DISCONNECTED", "REAUTH_REQUIRED"}
Content == {"new", "relabelled", "deleted"}
Kinds == {"history_sync", "initial_backfill", "watch_renew", "watch_stop"}
Sources == {"pubsub", "push", "schedule"}
Cursor == 0..MaxMessages

Messages == 1..MaxMessages
arrived == Cardinality({m \in Messages : mail[m] # None})

\* from: history_id of the payload; page: page_token, the message before which the page of
\* a history starts or the newest one a backfill page lists; by: what enqueued it, the first.
Job == [kind : Kinds, from : Cursor \cup {None}, page : Cursor \cup {None},
        by : Sources]

ConnRow == [status : ConnStatus, cursor : Cursor \cup {None}, creds : BOOLEAN,
            watch : {"none", "live", "expired"}]
SyncRow == [status : {"IDLE", "RUNNING", "PAUSED", "GAP_DETECTED"},
            mode : {"INITIAL_BACKFILL", "INCREMENTAL"}]

ASSUME NoneAssumption == None \notin Content \cup SyncRow

Gap == [gap |-> TRUE]

TypeOK ==
  /\ conn \in ConnRow
  /\ sync \in SyncRow \cup {None}
  /\ sync = None <=> conn.status = "ABSENT"
  /\ jobs \subseteq Job
  /\ lost \in BOOLEAN
  /\ \A r \in reads : r.job \in jobs /\ \A q \in reads : q.job = r.job => q = r
  /\ ingested \in [Messages -> Content \cup {None}]
  /\ checkpoint \in Cursor \cup {None}
  /\ conn.cursor # None => checkpoint # None
  /\ passed \subseteq Messages /\ overrun \in BOOLEAN
  /\ mail \in [Messages -> Content \cup {None}]
  /\ horizon \in Cursor
  /\ budget \in 0..MaxTroubles

Init ==
  /\ conn = [status |-> "ABSENT", cursor |-> None, creds |-> FALSE,
          watch |-> "none"]
  /\ sync = None /\ checkpoint = None /\ passed = {} /\ overrun = FALSE
  /\ jobs = {} /\ lost = FALSE /\ reads = {}
  /\ ingested = [m \in Messages |-> None]
  /\ mail = [m \in Messages |-> None]
  /\ horizon = 0
  /\ budget = MaxTroubles

Spend == budget > 0 /\ budget' = budget - 1

-----------------------------------------------------------------------------
(* Pages *)

History(from, page, by) == [kind |-> "history_sync", from |-> from, page |-> page, by |-> by]
Backfill(page) == [kind |-> "initial_backfill", from |-> None, page |-> page, by |-> "schedule"]
Watch(kind) == [kind |-> kind, from |-> None, page |-> None, by |-> "schedule"]

Running(j) == \E r \in reads : r.job = j
Claimable(j) == ~Running(j) /\ Cardinality(reads) < Workers

\* The messages of lo..hi, in the order they are processed, that could not be ingested:
\* ingest_external_event refuses a known id with another payload hash, and the hash covers
\* the labels.
Conflicting(span) == {m \in span : ingested[m] \notin {None, mail[m]}}

\* ingested after a page, oldest first or newest first: a refused message ends it, and what
\* came before it stays.
Ingested(span, oldestFirst) ==
  LET done == {m \in span : \A c \in Conflicting(span) : IF oldestFirst THEN m < c ELSE m > c}
  IN [m \in Messages |-> IF m \in done /\ ingested[m] = None THEN mail[m] ELSE ingested[m]]

\* _history_is_newer on the cursor that was read.
Newer(candidate, current) == IF current = None THEN TRUE ELSE candidate > current

\* Mutant of Advanced: every page moves the cursor.
AdvancedEachPage(cursor, read, page) == IF Newer(page.newest, read) THEN page.newest ELSE cursor

\* committed_history_id after a page: only the last one moves it.
Advanced(cursor, read, page) ==
  IF ~page.more /\ Newer(page.newest, read) THEN page.newest ELSE cursor

Reported(h) == IF checkpoint = None THEN h ELSE Max({checkpoint, h})

\* The messages after the cursor and up to id that a cursor moved beyond id leaves behind.
Behind(id) ==
  IF conn.cursor = None THEN {} ELSE {m \in (conn.cursor + 1)..id : ingested[m] = None}

FirstCursor(cursor) == IF conn.cursor = None /\ cursor # None THEN Reported(cursor) ELSE checkpoint

-----------------------------------------------------------------------------
(* The owner: OAuth, disconnect *)

\* complete_gmail_oauth(_callback), _finish_gmail_oauth, schedule_gmail_sync: one use of an
\* OAuthSession that start_gmail_oauth made and that is not older than ten minutes. A
\* connection that has a cursor resumes from it, another starts with a backfill.
Connect ==
  LET initial == sync = None \/ conn.cursor = None
  IN /\ Spend
     /\ conn' = [conn EXCEPT !.status = "CONNECTED", !.creds = TRUE]
     /\ sync' = [status |-> "RUNNING",
                 mode |-> IF initial THEN "INITIAL_BACKFILL" ELSE "INCREMENTAL"]
     /\ jobs' = jobs \cup {IF initial THEN Backfill(None) ELSE History(None, None, "schedule")}
     /\ UNCHANGED <<checkpoint, passed, overrun, lost, reads, ingested, mail, horizon>>

\* disconnect_gmail: the credentials stay until the watch is stopped, when there is one.
Disconnect ==
  LET stop  == conn.watch # "none" /\ conn.creds
      going == {j \in jobs : Running(j)}
  IN /\ conn.status # "ABSENT"
     /\ Spend
     /\ conn' = [conn EXCEPT !.status = "DISCONNECTED", !.creds = stop]
     /\ sync' = [sync EXCEPT !.status = "PAUSED"]
     /\ jobs' = going \cup (IF stop
                            THEN {Watch("watch_stop")}
                            ELSE {})
     /\ UNCHANGED <<checkpoint, passed, overrun, lost, reads, ingested, mail, horizon>>

-----------------------------------------------------------------------------
(* Wakeups: push and the minute schedule *)

\* gmail_push_webhook: a Pub/Sub envelope (accept_gmail_pubsub_push) starts at the cursor,
\* any other body (accept_gmail_push) at the id it names. A watch whose transaction died
\* pushes to a connection without a cursor.
Push(h, form) ==
  /\ conn.status = "CONNECTED"
  /\ h <= arrived
  /\ Spend
  /\ LET from == IF form = "push" \/ conn.cursor = None THEN h ELSE conn.cursor
     IN jobs' = jobs \cup {History(from, None, form)}
  /\ checkpoint' = IF conn.cursor = None THEN Reported(h) ELSE checkpoint
  /\ UNCHANGED <<conn, sync, passed, overrun, lost, reads, ingested, mail, horizon>>

Pending(kind) == \E j \in jobs : j.kind = kind

\* Mutant of Due: no catch-up without a push.
DueOnPushOnly ==
  {j \in {Watch("watch_renew")} : conn.watch # "live" /\ ~Pending("watch_renew")}

\* schedule_gmail_maintenance: one watch_renew without a watch (or with one that expires), one
\* history_sync from the cursor, each unless one is pending. Its first branch schedules a
\* backfill whose coverage is not initialised; no caller leaves one so.
Due ==
  {j \in {Watch("watch_renew")} : conn.watch # "live" /\ ~Pending("watch_renew")}
  \cup {j \in {History(conn.cursor, None, "schedule")} :
          conn.cursor # None /\ ~Pending("history_sync")}

Maintain ==
  /\ conn.status = "CONNECTED"
  /\ Due # {}
  /\ jobs' = jobs \cup Due
  /\ UNCHANGED <<connection, lost, reads, ingested, mail, horizon, budget>>

\* watch_expiry passes.
WatchExpires ==
  /\ conn.watch = "live" /\ conn.status = "CONNECTED"
  /\ Spend
  /\ conn' = [conn EXCEPT !.watch = "expired"]
  /\ UNCHANGED <<sync, checkpoint, passed, overrun, work, ingested, mail, horizon>>

-----------------------------------------------------------------------------
(* Jobs *)

Usable == conn.status = "CONNECTED" /\ conn.creds

Poison(j) == jobs' = jobs \ {j} /\ lost' = (lost \/ j.kind = "initial_backfill")

\* _run_payload_job, _connection_for_provider, fetch_gmail_history_page up to the listing.
Listing(from, page) ==
  LET lo == (IF page = None THEN from ELSE page) + 1
      hi == Min({lo + PageSize - 1, arrived})
  IN IF from < horizon THEN Gap
     ELSE [lo |-> lo, hi |-> hi, more |-> hi < arrived, newest |-> arrived]

\* The first read of a job: every later decision on the connection is made on it.
Read(j, page) == reads' = reads \cup {[job |-> j, cursor |-> conn.cursor, page |-> page]}

StartHistory(j) ==
  LET from == IF j.from = None THEN conn.cursor ELSE j.from
  IN /\ j \in jobs /\ j.kind = "history_sync" /\ Claimable(j)
     /\ IF Usable /\ from # None
        THEN Read(j, Listing(from, j.page)) /\ UNCHANGED <<jobs, lost>>
        ELSE Poison(j) /\ UNCHANGED reads
     /\ UNCHANGED <<connection, ingested, mail, horizon, budget>>

\* sync_gmail_history_page and process_history_page: the status that is checked was read
\* before the provider was called, only the sync row is read here. So a page is also
\* committed over a pause, and the sync no longer shows the gap.
FinishHistory(r) ==
  LET j    == r.job
      page == r.page
      span == page.lo..page.hi
      cursor == Advanced(conn.cursor, r.cursor, page)
  IN /\ j.kind = "history_sync" /\ page # Gap
     /\ reads' = reads \ {r}
     /\ \/ /\ \E m \in span : mail[m] = "deleted"
           /\ Poison(j)
           /\ UNCHANGED <<connection, ingested>>
        \/ /\ \A m \in span : mail[m] # "deleted"
           /\ ingested' = Ingested(span, TRUE)
           /\ overrun' = (overrun \/ conn.status = "PAUSED")
           /\ \/ /\ Conflicting(span) # {}
                 /\ Poison(j)
                 /\ sync' = [sync EXCEPT !.status = "RUNNING"]
                 /\ UNCHANGED <<conn, checkpoint, passed>>
              \/ /\ Conflicting(span) = {}
                 /\ conn' = [conn EXCEPT !.cursor = cursor]
                 /\ checkpoint' = FirstCursor(cursor)
                 /\ passed' = passed \cup IF j.by = "push" /\ cursor # conn.cursor
                                        THEN Behind(j.from) ELSE {}
                 /\ sync' = [status |-> "IDLE", mode |-> "INCREMENTAL"]
                 /\ jobs' = (jobs \ {j}) \cup
                            {History(j.from, p, j.by) : p \in {q \in {page.hi} : page.more}}
                 /\ UNCHANGED lost
     /\ UNCHANGED <<mail, horizon, budget>>

\* Mutant of GapJobs: the gap is recorded and nothing else.
NoGapJobs == {}

GapJobs == {Backfill(None)}

\* mark_history_gap: the provider has dropped the history the job asked for.
FinishGap(r) ==
  /\ r.page = Gap
  /\ jobs' = (jobs \ {r.job}) \cup GapJobs
  /\ reads' = reads \ {r}
  /\ conn' = [conn EXCEPT !.status = "PAUSED"]
  /\ sync' = [sync EXCEPT !.status = "GAP_DETECTED"]
  /\ overrun' = FALSE
  /\ UNCHANGED <<checkpoint, passed, lost, ingested, mail, horizon, budget>>

\* run_gmail_initial_backfill_page: resumes a connection paused by a gap, starts the watch
\* first, lists newest first. resumed: what is committed even when the page fails.
RunBackfill(j) ==
  LET resumed == IF conn.status = "PAUSED" /\ sync.status = "GAP_DETECTED"
                 THEN [conn EXCEPT !.status = "CONNECTED"] ELSE conn
      watched == IF j.page = None /\ conn.watch = "none"
                 THEN [resumed EXCEPT !.watch = "live", !.cursor = IF @ = None THEN arrived ELSE @]
                 ELSE resumed
      hi   == IF j.page = None THEN arrived ELSE j.page
      lo   == Max({hi - PageSize + 1, 1})
      span == {m \in lo..hi : mail[m] # "deleted"}
  IN /\ j \in jobs /\ j.kind = "initial_backfill" /\ Claimable(j)
     /\ IF resumed.status = "CONNECTED" /\ conn.creds
        THEN /\ conn' = watched
             /\ checkpoint' = FirstCursor(watched.cursor)
             /\ ingested' = Ingested(span, FALSE)
             /\ IF Conflicting(span) # {}
                THEN Poison(j) /\ sync' = [sync EXCEPT !.status = "RUNNING"]
                ELSE /\ sync' = [status |-> "IDLE",
                                 mode |-> IF lo > 1 THEN "INITIAL_BACKFILL" ELSE "INCREMENTAL"]
                     /\ jobs' = (jobs \ {j}) \cup
                                {Backfill(p) : p \in {q \in {lo - 1} : lo > 1}}
                     /\ UNCHANGED lost
        ELSE /\ Poison(j)
             /\ conn' = resumed
             /\ UNCHANGED <<sync, checkpoint, ingested>>
     /\ UNCHANGED <<passed, overrun, reads, mail, horizon, budget>>

StartRenew(j) ==
  /\ j \in jobs /\ j.kind = "watch_renew" /\ Claimable(j)
  /\ IF Usable
     THEN Read(j, [since |-> arrived]) /\ UNCHANGED <<jobs, lost>>
     ELSE Poison(j) /\ UNCHANGED reads
  /\ UNCHANGED <<connection, ingested, mail, horizon, budget>>

\* start_gmail_watch, renew_gmail_watch: a connection that was read without a cursor gets
\* the history id of the new watch, also when it has a cursor by now.
FinishRenew(r) ==
  /\ r.job.kind = "watch_renew"
  /\ \E h \in r.page.since..arrived :
       LET first == r.cursor = None
       IN /\ conn' = [conn EXCEPT !.watch = "live", !.cursor = IF first THEN h ELSE @]
          /\ checkpoint' = FirstCursor(conn'.cursor)
          /\ passed' = passed \cup IF first THEN Behind(h) ELSE {}
  /\ jobs' = jobs \ {r.job}
  /\ reads' = reads \ {r}
  /\ UNCHANGED <<sync, overrun, lost, ingested, mail, horizon, budget>>

\* stop_gmail_watch: also of a connection that was made again since.
RunStop(j) ==
  /\ j \in jobs /\ j.kind = "watch_stop" /\ Claimable(j)
  /\ IF conn.status \in {"CONNECTED", "DISCONNECTED"}
     THEN /\ conn' = [conn EXCEPT !.watch = "none", !.creds = FALSE]
          /\ jobs' = jobs \ {j}
          /\ UNCHANGED lost
     ELSE Poison(j) /\ UNCHANGED conn
  /\ UNCHANGED <<sync, checkpoint, passed, overrun, reads, ingested, mail, horizon, budget>>

\* refresh_gmail_access_token while a page is fetched: the token is replaced, also one that
\* a disconnect has cleared since, or the account must be authorized again.
Refresh(r) ==
  /\ Spend
  /\ conn' = [conn EXCEPT !.creds = TRUE]
  /\ UNCHANGED <<sync, checkpoint, passed, overrun, work, ingested, mail, horizon>>

TokenIsRejected(r) ==
  /\ Spend
  /\ conn' = [conn EXCEPT !.status = "REAUTH_REQUIRED"]
  /\ Poison(r.job)
  /\ reads' = reads \ {r}
  /\ UNCHANGED <<sync, checkpoint, passed, overrun, ingested, mail, horizon>>

\* A crash, or GmailProviderRetryable: the job comes back.
Retried(r) ==
  /\ Spend
  /\ reads' = reads \ {r}
  /\ UNCHANGED <<connection, jobs, lost, ingested, mail, horizon>>

\* A job has used its attempts up.
GivenUp(j) ==
  /\ j \in jobs /\ ~Running(j)
  /\ Spend
  /\ Poison(j)
  /\ UNCHANGED <<connection, reads, ingested, mail, horizon>>

-----------------------------------------------------------------------------
(* The mailbox (external) *)

Arrive ==
  /\ arrived < MaxMessages
  /\ mail' = [mail EXCEPT ![arrived + 1] = "new"]
  /\ UNCHANGED <<connection, work, ingested, horizon, budget>>

\* The user reads, labels or deletes a message.
Change(m, to) ==
  /\ mail[m] \in {"new", "relabelled"}
  /\ Spend
  /\ mail' = [mail EXCEPT ![m] = to]
  /\ UNCHANGED <<connection, work, ingested, horizon>>

HistoryExpires ==
  /\ horizon < arrived
  /\ Spend
  /\ horizon' = arrived
  /\ UNCHANGED <<connection, work, ingested, mail>>

-----------------------------------------------------------------------------
Begin(j) == StartHistory(j) \/ RunBackfill(j) \/ StartRenew(j) \/ RunStop(j)

Finish(r) == FinishHistory(r) \/ FinishGap(r) \/ FinishRenew(r)

Next ==
  \/ Connect \/ Disconnect
  \/ \E h \in Messages, form \in {"pubsub", "push"} : Push(h, form)
  \/ Maintain \/ WatchExpires
  \/ \E j \in jobs : Begin(j) \/ GivenUp(j)
  \/ \E r \in reads : Finish(r) \/ Refresh(r) \/ TokenIsRejected(r) \/ Retried(r)
  \/ Arrive
  \/ \E m \in Messages, to \in {"relabelled", "deleted"} : Change(m, to)
  \/ HistoryExpires

Spec == Init /\ [][Next]_vars

\* The minute schedule runs (infra/cloudformation/staging.yaml) and jobs are claimed oldest
\* first, so no job waits for ever for a worker that keeps becoming free (history jobs are
\* told apart by what they do, not by where they start), and a job that runs ends.
FairSpec ==
  /\ Spec
  /\ WF_vars(Maintain)
  /\ WF_vars(\E r \in reads : Finish(r))
  /\ SF_vars(\E j \in jobs : StartHistory(j))
  /\ \A p \in Messages \cup {None} : SF_vars(\E j \in jobs : j.page = p /\ RunBackfill(j))

-----------------------------------------------------------------------------
(* Properties *)

\* The cursor is only moved over messages that are stored: every message after the first
\* checkpoint and up to the cursor has its event, whatever jobs overlap (process_history_page),
\* but for those left behind by a job that was told to start beyond the cursor
\* (accept_gmail_push) or by a renewal that had read no cursor (start_gmail_watch).
NothingSkipped ==
  conn.cursor # None => \A m \in (checkpoint + 1)..conn.cursor : ingested[m] # None \/ m \in passed

\* The same without the exceptions. TDD.md:100: "A per-mailbox lease coalesces pushes".
NothingIsPassed ==
  conn.cursor # None => \A m \in (checkpoint + 1)..conn.cursor : ingested[m] # None

\* The cursor moves forward only. TDD.md:100: "It never regresses the cursor".
CursorOnlyAdvances ==
  [][conn.cursor # None => conn'.cursor >= conn.cursor]_vars

\* A connection that a history gap has paused can come back without the owner: the backfill
\* that resumes it is open and will not be refused, or was given up and is under review,
\* unless another job has committed a page over the pause (mark_history_gap,
\* run_gmail_initial_backfill_page, process_history_page, disconnect_gmail).
PausedIsResumable ==
  conn.status = "PAUSED" =>
    \/ sync.status = "GAP_DETECTED" /\ (Pending("initial_backfill") \/ lost)
    \/ overrun

\* The same without the exception.
PauseIsNeverStuck ==
  conn.status = "PAUSED" => sync.status = "GAP_DETECTED" /\ (Pending("initial_backfill") \/ lost)

\* A page that lists the message is refused again and again: it was changed after it was
\* stored, or is deleted, and the cursor is not beyond it.
Refused(m) ==
  /\ mail[m] = "deleted" \/ ingested[m] \notin {None, mail[m]}
  /\ conn.cursor = None \/ m > conn.cursor

\* Someone must act: the account is off or has no credentials, its backfill was given up, a
\* page was committed over its pause, or a message refuses its page.
NeedsOwner ==
  \/ conn.status \in {"DISCONNECTED", "REAUTH_REQUIRED"}
  \/ ~conn.creds
  \/ lost
  \/ conn.status = "PAUSED" /\ overrun
  \/ \E m \in Messages : Refused(m)

\* Every message that reaches a connected mailbox after its first checkpoint is stored in the
\* end, without any push, through gaps, crashes, reconnects and expired watches, unless the
\* owner must act or the cursor was moved over it as NothingSkipped says. Older messages have
\* no such promise: a disconnect cancels the first backfill, and the connection made again
\* has a cursor and does not start another.
ArrivalsAreIngested ==
  \A m \in Messages :
    (mail[m] # None /\ conn.status = "CONNECTED")
      ~> \/ ingested[m] # None \/ m \in passed
         \/ checkpoint # None /\ m <= checkpoint
         \/ NeedsOwner

=============================================================================
