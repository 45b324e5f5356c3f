------------------------------ MODULE DataSync ------------------------------
(***************************************************************************)
(* Data sources and their synchronisation: ResourceSynchronizer.sync       *)
(* (resources/sync.py) called by the dashboard and by SyncScheduler        *)
(* (resources/scheduler.py) over the data source and resource              *)
(* repositories, with the upstream sites (external) at the other end of    *)
(* the one await, adapter.fetch.                                           *)
(*                                                                         *)
(* With Postgres all repositories share one connection and none of them    *)
(* rolls back (PgConnection): a statement that fails leaves the            *)
(* transaction aborted and every later one raises, whoever issues it,      *)
(* until the process is restarted or a worker thread that was about to     *)
(* commit does.  In memory no write fails.                                 *)
(*                                                                         *)
(* A source's config never changes after it is created, so the row that a  *)
(* sync read before its await differs from the current one only in the     *)
(* status fields, which the sync overwrites.  The clock is kept as the age *)
(* of each source's last_synced_at, which nothing else reads.              *)
(***************************************************************************)
EXTENDS Naturals, Sequences, FiniteSets

CONSTANTS
    Sources,         \* ids of data sources, each created at most once
    Requests,        \* POST .../sync requests of the dashboard
    Configs,         \* the configs each source may be created with
    NoInterval,      \* sync_interval_seconds is missing or not a number
    Default,         \* _DEFAULT_SYNC_INTERVAL_SECONDS
    Snapshots,       \* the successive contents of each source's upstream
    NoId,            \* a raw row without any of the id fields
    Never,           \* last_synced_at is None
    NoSource,        \* source_id is NULL
    Backends,        \* the backends checked, "memory" and "postgres"
    MaxFaults        \* bound: fetches and SQL statements that fail by chance

\* kind, what is wrong with the config if anything, sync_interval_seconds
Config == [kind : {"html", "json_api", "webhook", "manual", "csv"},
           defect : {"none", "no_url", "no_selector", "bad_fields",
                     "bad_timeout", "bad_selector"},
           every : Nat \cup {NoInterval}]

Scheduler == "scheduler"
Jobs == Requests \cup {Scheduler}

ASSUME SyncAssumption ==
    /\ \A s \in Sources : Configs[s] \subseteq Config /\ Configs[s] # {}
    /\ \A s \in Sources :
        /\ Len(Snapshots[s]) \in Nat \ {0}
        /\ \A i \in 1..Len(Snapshots[s]) :
            LET page == Snapshots[s][i]
            IN  Len(page) \in Nat /\ DOMAIN page = 1..Len(page)
    /\ NoInterval \notin Nat
    /\ Default \in Nat /\ MaxFaults \in Nat
    /\ Never \notin Nat /\ NoSource \notin Sources
    /\ Scheduler \notin Requests
    /\ Backends \subseteq {"memory", "postgres"}

VARIABLES
    backend,     \* which repositories the process was built with
    row,         \* data_sources: status fields
    config,      \* data_sources: kind and config, fixed at creation
    order,       \* list_all_active: newest first
    res,         \* resources that a sync wrote
    site,        \* external: how many changes each upstream has seen
    job,         \* syncs in flight
    sched,       \* SyncScheduler: its task, the rest of its tick, stop()
    aborted,     \* the shared transaction: every statement raises
    faults,
    told,        \* history: raw rows of the sync each status row reports on
    dropped      \* history: keys of resources an operator deleted

vars == <<backend, config, row, order, res, site, job, sched, aborted, faults, told, dropped>>

Min2(a, b) == IF a < b THEN a ELSE b

\* config.get("sync_interval_seconds"), or the default when float() fails.
interval_s(s) == IF config[s].every = NoInterval THEN Default ELSE config[s].every

Oldest(s) == interval_s(s)          \* ages beyond the interval are all alike
exists(s) == row[s].st = "active"
NoRow == [st |-> "none", age |-> Never, ok |-> FALSE, count |-> 0]
IdleJob == [pc |-> "idle", src |-> NoSource, got |-> <<>>]

Init ==
    /\ backend \in Backends
    /\ config = [s \in Sources |-> CHOOSE c \in Configs[s] : TRUE]
    /\ row = [s \in Sources |-> NoRow]
    /\ order = <<>>
    /\ res = {}
    /\ site = [s \in Sources |-> 1]
    /\ job = [j \in Jobs |-> IdleJob]
    /\ sched = [pc |-> "sleep", queue |-> <<>>, stop |-> "none"]
    /\ aborted = FALSE
    /\ faults = 0
    /\ told = [s \in Sources |-> <<>>]
    /\ dropped = {}

(***************************************************************************)
(* Adapters                                                                *)
(***************************************************************************)
\* The adapters that never reach the network.
NoOp(s) == config[s].kind \in {"webhook", "manual", "csv"}

\* Configs that fetch rejects with an AdapterError before any await, and the
\* ones that make it raise something else: float(timeout) before the await,
\* an invalid CSS selector after it.
HtmlDefects == {"no_url", "no_selector", "bad_fields"}
Rejected(s) == \/ config[s].kind = "html" /\ config[s].defect \in HtmlDefects
               \/ config[s].kind = "json_api" /\ config[s].defect = "no_url"
RaisesEarly(s) == ~NoOp(s) /\ ~Rejected(s) /\ config[s].defect = "bad_timeout"
RaisesLate(s) == config[s].kind = "html" /\ config[s].defect = "bad_selector"
Healthy(s) == ~NoOp(s) /\ config[s].defect = "none"

\* A raw row is [id, v]: its id field and the rest of its content.  Items keep
\* the positions they had on the page, which is the order they are written in.
\* HTML items in which no field matched are dropped.
_extract_items(raws) == [k \in {k \in DOMAIN raws : raws[k].v # 0} |-> raws[k]]
fetched(s, raws) == IF config[s].kind = "html" THEN _extract_items(raws) ELSE raws

(***************************************************************************)
(* ResourceSynchronizer.sync                                               *)
(***************************************************************************)
\* An id field whatever the content, else a hash of the content.
_extract_external_id(raw) == IF raw.id = NoId THEN raw ELSE [raw EXCEPT !.v = 0]

\* The rows after the items at positions W are upserted in turn: of two items
\* with one key the later one stays.
upserted(s, items, W) ==
    LET key(k) == _extract_external_id(items[k])
    IN  {r \in res : ~(r.src = s /\ \E k \in W : r.ext = key(k))}
        \cup {[src |-> s, ext |-> key(k), v |-> items[k].v] :
                  k \in {k \in W : \A m \in W : m > k => key(m) # key(k)}}

\* The item at position p raises: the ones before it are written.
Before(items, p) == {k \in DOMAIN items : k < p}

\* Mutant: the schema has no foreign key.
ForeignKeyFails_never(s, items) == FALSE

\* resources.upsert raises: the source the row refers to is gone.
ForeignKeyFails(s, items) == backend = "postgres" /\ ~exists(s) /\ DOMAIN items # {}

\* Postgres refuses a statement for a reason of its own.
StatementFails ==
    /\ backend = "postgres" /\ ~aborted /\ faults < MaxFaults
    /\ faults' = faults + 1
    /\ aborted' = TRUE

\* Mutant: the Postgres UPDATE is an upsert.
record_status_upserts(s, ok, items) ==
    \/ aborted /\ UNCHANGED <<row, told, aborted, faults>>
    \/ StatementFails /\ UNCHANGED <<row, told>>
    \/ /\ ~aborted
       /\ row' = [row EXCEPT ![s] = [st |-> "active", age |-> 0, ok |-> ok,
                                     count |-> Cardinality(DOMAIN items)]]
       /\ told' = [told EXCEPT ![s] = items]
       /\ UNCHANGED <<aborted, faults>>

\* data_sources.update: KeyError in memory and no row updated in Postgres when
\* the source is gone.
record_status(s, ok, items) ==
    \/ aborted /\ UNCHANGED <<row, told, aborted, faults>>
    \/ StatementFails /\ UNCHANGED <<row, told>>
    \/ ~aborted /\ ~exists(s) /\ UNCHANGED <<row, told, aborted, faults>>
    \/ /\ ~aborted /\ exists(s)
       /\ row' = [row EXCEPT ![s] = [st |-> "active", age |-> 0, ok |-> ok,
                                     count |-> Cardinality(DOMAIN items)]]
       /\ told' = [told EXCEPT ![s] = items]
       /\ UNCHANGED <<aborted, faults>>

\* Mutant: a failed upsert is rolled back and the status written all the same.
sync_rest_swallows(s, items) ==
    \/ aborted /\ UNCHANGED <<res, row, told, aborted, faults>>
    \/ /\ ~aborted /\ ForeignKeyFails(s, items)
       /\ aborted' = TRUE /\ UNCHANGED <<res, row, told, faults>>
    \/ /\ ~ForeignKeyFails(s, items) /\ backend = "postgres"
       /\ \E p \in DOMAIN items : res' = upserted(s, items, Before(items, p))
       /\ record_status(s, TRUE, items)
    \/ /\ ~aborted /\ ~ForeignKeyFails(s, items)
       /\ res' = upserted(s, items, DOMAIN items)
       /\ record_status(s, TRUE, items)

\* After a fetch that gave items: write them, each in a transaction of its own,
\* then the status.  An upsert that raises leaves the items before it, no status
\* and an aborted transaction; so does a status write, after all the items.
sync_rest(s, items) ==
    \/ aborted /\ UNCHANGED <<res, row, told, aborted, faults>>
    \/ /\ ~aborted /\ ForeignKeyFails(s, items)
       /\ aborted' = TRUE /\ UNCHANGED <<res, row, told, faults>>
    \/ /\ ~ForeignKeyFails(s, items) /\ DOMAIN items # {}
       /\ StatementFails
       /\ \E p \in DOMAIN items : res' = upserted(s, items, Before(items, p))
       /\ UNCHANGED <<row, told>>
    \/ /\ ~aborted /\ ~ForeignKeyFails(s, items)
       /\ res' = upserted(s, items, DOMAIN items)
       /\ record_status(s, TRUE, items)

\* AdapterError: the source is marked as failed.
sync_failed(s) == record_status(s, FALSE, <<>>) /\ UNCHANGED res

\* What sync(s) does when nothing is awaited; job j is over.
sync_at_once(s) ==
    \/ NoOp(s) /\ record_status(s, TRUE, <<>>) /\ UNCHANGED res
    \/ Rejected(s) /\ sync_failed(s)
    \/ RaisesEarly(s) /\ UNCHANGED <<row, told, res, aborted, faults>>

Awaits(s) == ~NoOp(s) /\ ~Rejected(s) /\ ~RaisesEarly(s)
StartFetch(j, s) == job' = [job EXCEPT ![j] = [pc |-> "fetch", src |-> s, got |-> <<>>]]

\* External: the site answers with what it has now.
Answer(j) ==
    /\ job[j].pc = "fetch"
    /\ LET s == job[j].src
       IN  job' = [job EXCEPT ![j] = [pc |-> "answered", src |-> s,
                                      got |-> fetched(s, Snapshots[s][site[s]])]]
    /\ UNCHANGED <<backend, config, row, order, res, site, sched, aborted, faults, told, dropped>>

\* External: a network error, an HTTP error status or an unusable body, all of
\* them an AdapterError.
FetchFails(j) ==
    /\ job[j].pc = "fetch"
    /\ faults < MaxFaults
    /\ faults' = faults + 1
    /\ job' = [job EXCEPT ![j].pc = "failed"]
    /\ UNCHANGED <<backend, config, row, order, res, site, sched, aborted, told, dropped>>

\* The event loop resumes the sync.
Finish(j) ==
    /\ \/ job[j].pc = "failed" /\ sync_failed(job[j].src)
       \/ /\ job[j].pc = "answered" /\ RaisesLate(job[j].src)
          /\ UNCHANGED <<row, told, res, aborted, faults>>
       \/ /\ job[j].pc = "answered" /\ ~RaisesLate(job[j].src)
          /\ sync_rest(job[j].src, job[j].got)
    /\ job' = [job EXCEPT ![j] = IdleJob]
    /\ UNCHANGED <<backend, config, order, site, sched, dropped>>

(***************************************************************************)
(* Endpoints: none of them does anything once the transaction is aborted.  *)
(***************************************************************************)
create_data_source(s, c) ==
    /\ ~aborted /\ row[s].st = "none"
    /\ config' = [config EXCEPT ![s] = c]
    /\ row' = [row EXCEPT ![s].st = "active"]
    /\ order' = <<s>> \o order
    /\ UNCHANGED <<backend, res, site, job, sched, aborted, faults, told, dropped>>

\* resources.source_id is ON DELETE SET NULL in Postgres.
delete_data_source(s) ==
    /\ ~aborted /\ exists(s)
    /\ row' = [row EXCEPT ![s] = [NoRow EXCEPT !.st = "deleted"]]
    /\ order' = SelectSeq(order, LAMBDA x : x # s)
    /\ res' = IF backend = "memory" THEN res
              ELSE {[r EXCEPT !.src = IF @ = s THEN NoSource ELSE @] : r \in res}
    /\ told' = [told EXCEPT ![s] = <<>>]
    /\ UNCHANGED <<backend, config, site, job, sched, aborted, faults, dropped>>

\* Bound: one deletion.
delete_resource(r) ==
    /\ ~aborted /\ r.src \in Sources /\ dropped = {}
    /\ res' = res \ {r}
    /\ dropped' = {[src |-> r.src, ext |-> r.ext]}
    /\ UNCHANGED <<backend, config, row, order, site, job, sched, aborted, faults, told>>

\* 404 when the source is gone, else sync(s).
sync_data_source(j, s) ==
    /\ j \in Requests /\ job[j].pc = "idle"
    /\ ~aborted /\ exists(s)
    /\ \/ Awaits(s) /\ StartFetch(j, s) /\ UNCHANGED <<row, told, res, aborted, faults>>
       \/ sync_at_once(s) /\ UNCHANGED job
    /\ UNCHANGED <<backend, config, order, site, sched, dropped>>

(***************************************************************************)
(* SyncScheduler                                                           *)
(***************************************************************************)
_is_due(s) == row[s].age = Never \/ row[s].age >= interval_s(s)

\* One pass of _loop starts: the sources due now, from this listing.  With the
\* transaction aborted list_all_active raises, and the loop sleeps again.
TickStart ==
    /\ ~aborted /\ sched.pc = "sleep" /\ sched.stop = "none"
    /\ sched' = [sched EXCEPT !.pc = "tick", !.queue = SelectSeq(order, _is_due)]
    /\ UNCHANGED <<backend, config, row, order, res, site, job, aborted, faults, told, dropped>>

\* Mutant: a source whose sync raises ends the tick.
TickSource_noExcept ==
    /\ sched.pc = "tick" /\ sched.queue # <<>> /\ job[Scheduler].pc = "idle"
    /\ \E s \in Sources :
           /\ s = Head(sched.queue)
           /\ sched' = [sched EXCEPT !.queue = IF RaisesEarly(s) THEN <<>> ELSE Tail(@)]
           /\ \/ (aborted \/ ~exists(s)) /\ UNCHANGED <<job, row, told, res, aborted, faults>>
              \/ ~aborted /\ exists(s) /\ Awaits(s) /\ StartFetch(Scheduler, s)
                 /\ UNCHANGED <<row, told, res, aborted, faults>>
              \/ ~aborted /\ exists(s) /\ sync_at_once(s) /\ UNCHANGED job
    /\ UNCHANGED <<backend, config, order, site, dropped>>

\* tick_once calls sync for the next source; a KeyError, the get of an aborted
\* transaction or any other exception is logged and the tick goes on.
TickSource ==
    /\ sched.pc = "tick" /\ sched.queue # <<>> /\ job[Scheduler].pc = "idle"
    /\ \E s \in Sources :
           /\ s = Head(sched.queue)
           /\ sched' = [sched EXCEPT !.queue = Tail(@)]
           /\ \/ (aborted \/ ~exists(s)) /\ UNCHANGED <<job, row, told, res, aborted, faults>>
              \/ ~aborted /\ exists(s) /\ Awaits(s) /\ StartFetch(Scheduler, s)
                 /\ UNCHANGED <<row, told, res, aborted, faults>>
              \/ ~aborted /\ exists(s) /\ sync_at_once(s) /\ UNCHANGED job
    /\ UNCHANGED <<backend, config, order, site, dropped>>

\* The tick is over: sleep for poll_seconds, or leave the loop.
TickEnd ==
    /\ sched.pc = "tick" /\ sched.queue = <<>> /\ job[Scheduler].pc = "idle"
    /\ sched' = [sched EXCEPT !.pc = IF sched.stop = "none" THEN "sleep" ELSE "done"]
    /\ UNCHANGED <<backend, config, row, order, res, site, job, aborted, faults, told, dropped>>

\* stop(): a sleeping loop leaves at once.
Stop ==
    /\ sched.stop = "none"
    /\ sched' = [sched EXCEPT !.stop = "waiting",
                              !.pc = IF @ = "sleep" THEN "done" ELSE @]
    /\ UNCHANGED <<backend, config, row, order, res, site, job, aborted, faults, told, dropped>>

\* Mutant: the task is not cancelled when stop() gives up waiting.
Stopped_leaks ==
    /\ sched.stop = "waiting"
    /\ sched.pc = "done" \/ job[Scheduler].pc # "idle"
    /\ sched' = [sched EXCEPT !.stop = "stopped"]
    /\ UNCHANGED <<backend, config, row, order, res, site, job, aborted, faults, told, dropped>>

\* stop() returns: the task ended, or ten seconds passed and it was cancelled,
\* which reaches it at its only await, the fetch.
Stopped ==
    /\ sched.stop = "waiting"
    /\ sched.pc = "done" \/ job[Scheduler].pc # "idle"
    /\ sched' = [pc |-> "done", queue |-> <<>>, stop |-> "stopped"]
    /\ job' = [job EXCEPT ![Scheduler] = IdleJob]
    /\ UNCHANGED <<backend, config, row, order, res, site, aborted, faults, told, dropped>>

(***************************************************************************)
(* Environment                                                             *)
(***************************************************************************)
UpstreamChanges(s) ==
    /\ site[s] < Len(Snapshots[s])
    /\ site' = [site EXCEPT ![s] = @ + 1]
    /\ UNCHANGED <<backend, config, row, order, res, job, sched, aborted, faults, told, dropped>>

TimePasses ==
    /\ \E s \in Sources : row[s].age \in 0..(interval_s(s) - 1)
    /\ row' = [s \in Sources |-> IF row[s].age = Never THEN row[s]
                                 ELSE [row[s] EXCEPT !.age = Min2(@ + 1, Oldest(s))]]
    /\ UNCHANGED <<backend, config, order, res, site, job, sched, aborted, faults, told, dropped>>

\* A statement of another component fails on the shared connection.
OtherStatementFails ==
    /\ StatementFails
    /\ UNCHANGED <<backend, config, row, order, res, site, job, sched, told, dropped>>

\* A remember() that had sent both its statements before the failure commits,
\* from its worker thread: the transaction is rolled back and a new one begins.
LateCommit ==
    /\ aborted
    /\ aborted' = FALSE
    /\ UNCHANGED <<backend, config, row, order, res, site, job, sched, faults, told, dropped>>

\* The process with the aborted transaction is killed and started again; what
\* is in the database stays, syncs in flight are gone.
Restart ==
    /\ aborted /\ sched.stop = "none"
    /\ aborted' = FALSE
    /\ job' = [j \in Jobs |-> IdleJob]
    /\ sched' = [pc |-> "sleep", queue |-> <<>>, stop |-> "none"]
    /\ UNCHANGED <<backend, config, row, order, res, site, faults, told, dropped>>

Next ==
    \/ \E j \in Jobs : Answer(j) \/ FetchFails(j) \/ Finish(j)
    \/ \E s \in Sources : \/ \E c \in Configs[s] : create_data_source(s, c)
                          \/ delete_data_source(s)
    \/ \E r \in res : delete_resource(r)
    \/ \E j \in Requests, s \in Sources : sync_data_source(j, s)
    \/ TickStart \/ TickSource \/ TickEnd \/ Stop \/ Stopped
    \/ \E s \in Sources : UpstreamChanges(s)
    \/ TimePasses \/ OtherStatementFails \/ LateCommit \/ Restart

Spec == Init /\ [][Next]_vars

\* The event loop runs what is ready, a fetch ends within its timeout, the
\* clock advances.  Nothing is assumed of users, operators, upstreams, restarts and
\* late commits.
Fairness ==
    /\ \A j \in Jobs : WF_vars(Answer(j)) /\ WF_vars(Finish(j))
    /\ WF_vars(TickStart) /\ WF_vars(TickSource) /\ WF_vars(TickEnd)
    /\ WF_vars(TimePasses)

FairSpec == Spec /\ Fairness

-----------------------------------------------------------------------------
NoneRevived == \A s \in Sources : row[s].st = "deleted" => row'[s].st = "deleted"

\* A sync that was awaiting its fetch when the source was deleted never writes
\* the source back.
DeletedSourceStaysDeleted == [][NoneRevived]_vars

\* With Postgres no resource refers to a deleted source, although syncs that
\* started before the deletion still come back with items for it.
NoOrphanRows ==
    backend = "postgres" =>
        \A r \in res : r.src = NoSource \/ exists(r.src)

\* A source that shows last_sync_ok has every item of that sync in the store,
\* whatever overlapping syncs, failing writes and deletions of its rows by
\* other operators came between: an upsert that fails is never reported as ok.
OkMeansStored ==
    \A s \in Sources : (exists(s) /\ row[s].ok) =>
        \A k \in DOMAIN told[s] :
            LET x == _extract_external_id(told[s][k])
            IN  \/ [src |-> s, ext |-> x] \in dropped
                \/ \E r \in res : r.src = s /\ r.ext = x

QuietOnceStopped ==
    sched.stop = "stopped" => /\ sched' = sched
                              /\ job'[Scheduler] = job[Scheduler]
                              /\ job[Scheduler].pc = "idle"

\* After stop() returned, the scheduler's task does nothing more.
StoppedIsQuiet == [][QuietOnceStopped]_vars

Mirrors(s) ==
    LET now == fetched(s, Snapshots[s][site[s]])
    IN  \A k \in DOMAIN now :
            [src |-> s, ext |-> _extract_external_id(now[k]), v |-> now[k].v] \in res

\* While the scheduler runs, the store ends up with what each healthy upstream
\* last published, although other sources raise on every tick and fetches fail
\* or answer out of order; but only while no SQL statement fails: one failed
\* statement, of any component, ends all synchronisation until a restart or a late
\* commit, after which the store catches up, half-written syncs included.
CatalogueConverges ==
    <>[](\/ sched.stop # "none"
         \/ aborted
         \/ \A s \in Sources : exists(s) /\ Healthy(s) => Mirrors(s))
=============================================================================
