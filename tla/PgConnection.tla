---------------------------- MODULE PgConnection ----------------------------
(***************************************************************************)
(* The one psycopg connection of the process (main.py, _PG_CONNECTION),    *)
(* opened with autocommit=False and shared by every Postgres repository.   *)
(* A repository method is a sequence of statements and, when it writes, a  *)
(* commit.  Methods run on the event loop, one at a time, except those of  *)
(* PostgresBuyerMemory: each runs in a worker thread (asyncio.to_thread)   *)
(* and its statements interleave with everybody else's.                    *)
(*                                                                         *)
(* psycopg and Postgres are external: the first statement opens a          *)
(* transaction, a statement that fails aborts it, every later statement    *)
(* then raises, and commit() of an aborted transaction rolls it back       *)
(* without raising.  No method calls rollback().                           *)
(***************************************************************************)
EXTENDS Naturals, Sequences, FiniteSets

CONSTANTS
    Calls,           \* repository calls, each made at most once
    MaxRestarts      \* bound: restarts of the process

ASSUME PgAssumption == MaxRestarts \in Nat

(***************************************************************************)
(* What the methods of each repository send.  Statements:                  *)
(*   read    SELECT                                                        *)
(*   cast    SELECT that fails on data of the wrong type                   *)
(*   check   SELECT whose answer may end the method before it writes       *)
(*   write   INSERT, UPDATE or DELETE                                      *)
(*   keyed   a write that a constraint of the schema may refuse            *)
(***************************************************************************)
Writes == {"write", "keyed"}
Fallible == {"cast", "keyed"}

Reading(s) == [on |-> "loop", stmts |-> <<s>>, commits |-> FALSE]
Writing(s) == [on |-> "loop", stmts |-> s, commits |-> TRUE]
Threaded(s, c) == [on |-> "thread", stmts |-> s, commits |-> c]

\* update raises KeyError and delete-like methods return when the row is gone,
\* after their SELECT and without a commit.
PostgresTenantRepository ==
    [add |-> Writing(<<"write">>), get |-> Reading("read"),
     by_slug |-> Reading("read"), by_phone_number_id |-> Reading("read"),
     list_all |-> Reading("read"), update |-> Writing(<<"check", "write">>)]

PostgresHindsight ==
    [add_fact |-> Writing(<<"write">>), query |-> Reading("read"),
     all_for |-> Reading("read")]

\* The INSERT and the trim of the ring buffer share one transaction.
PostgresBuyerMemory ==
    [remember |-> Threaded(<<"write", "write">>, TRUE),
     recall |-> Threaded(<<"read">>, FALSE),
     list_threads |-> Threaded(<<"read">>, FALSE)]

\* (tenant_id, name, language) is unique in the schema; add and update do not
\* look first.
PostgresTemplateRepository ==
    [add |-> Writing(<<"keyed">>), get |-> Reading("read"),
     list_for |-> Reading("read"), update |-> Writing(<<"check", "keyed">>),
     delete |-> Writing(<<"check", "write">>)]

\* add looks the e-mail up first.
PostgresUserRepository ==
    [add |-> Writing(<<"check", "write">>), get |-> Reading("read"),
     by_email |-> Reading("read"), list_all |-> Reading("read")]

PostgresSessionRepository ==
    [add |-> Writing(<<"write">>), get |-> Reading("read"),
     delete |-> Writing(<<"check", "write">>)]

PostgresBotPauseRepository ==
    [is_paused |-> Reading("read"), pause |-> Writing(<<"write">>),
     resume |-> Writing(<<"write">>), get |-> Reading("read"),
     list_active |-> Reading("read")]

\* A row without a source that is upserted again collides on its primary key;
\* one whose source is gone, on the foreign key; search casts to numeric.
PostgresResourceRepository ==
    [add |-> Writing(<<"keyed">>), upsert |-> Writing(<<"keyed">>),
     get |-> Reading("read"), find_by_external_id |-> Reading("read"),
     list_for |-> Reading("read"), search |-> Reading("cast"),
     delete |-> Writing(<<"write">>)]

PostgresDataSourceRepository ==
    [add |-> Writing(<<"write">>), get |-> Reading("read"),
     list_for |-> Reading("read"), list_all_active |-> Reading("read"),
     update |-> Writing(<<"write">>), delete |-> Writing(<<"write">>)]

PostgresQueryLogRepository ==
    [record |-> Writing(<<"write">>), list_recent |-> Reading("read")]

PostgresSubscriptionRepository ==
    [add |-> Writing(<<"write">>), get |-> Reading("read"),
     get_by_preapproval_id |-> Reading("read"), list_for |-> Reading("read"),
     active_for_tenant |-> Reading("read"), update |-> Writing(<<"write">>)]

\* health_deep: SELECT 1 on the shared connection, no commit.
HealthProbe == [_check_postgres |-> Reading("read")]

MethodsOf(repo) == {repo[m] : m \in DOMAIN repo}

Methods ==
    UNION {MethodsOf(PostgresTenantRepository), MethodsOf(PostgresHindsight),
           MethodsOf(PostgresBuyerMemory), MethodsOf(PostgresTemplateRepository),
           MethodsOf(PostgresUserRepository), MethodsOf(PostgresSessionRepository),
           MethodsOf(PostgresBotPauseRepository),
           MethodsOf(PostgresResourceRepository),
           MethodsOf(PostgresDataSourceRepository),
           MethodsOf(PostgresQueryLogRepository),
           MethodsOf(PostgresSubscriptionRepository), MethodsOf(HealthProbe)}

-----------------------------------------------------------------------------
VARIABLES
    txn,         \* the connection: no transaction, an open or an aborted one
    call,        \* the method each call runs, where it stands, how it ended
    open,        \* writes of each call in the open transaction
    kept,        \* writes of each call that are durable
    restarts

vars == <<txn, call, open, kept, restarts>>

NewCall == [m |-> Reading("read"), pc |-> 1, st |-> "new"]

Init ==
    /\ txn = "idle"
    /\ call = [c \in Calls |-> NewCall]
    /\ open = [c \in Calls |-> 0]
    /\ kept = [c \in Calls |-> 0]
    /\ restarts = 0

Running(c) == call[c].st = "run"
LoopBusy == \E c \in Calls : Running(c) /\ call[c].m.on = "loop"
AllSent(c) == call[c].pc > Len(call[c].m.stmts)
WritesOf(m) == Cardinality({k \in DOMAIN m.stmts : m.stmts[k] \in Writes})

\* Mutant: handlers run in worker threads too.
Begin_anyThread(c, m) ==
    /\ call[c].st = "new"
    /\ call' = [call EXCEPT ![c] = [m |-> m, pc |-> 1, st |-> "run"]]
    /\ UNCHANGED <<txn, open, kept, restarts>>

Begin(c, m) ==
    /\ call[c].st = "new"
    /\ m.on = "loop" => ~LoopBusy
    /\ call' = [call EXCEPT ![c] = [m |-> m, pc |-> 1, st |-> "run"]]
    /\ UNCHANGED <<txn, open, kept, restarts>>

\* The statement succeeds; a method without a commit returns after its last.
Execute(c) ==
    /\ Running(c) /\ ~AllSent(c)
    /\ txn # "aborted"
    /\ txn' = "open"
    /\ LET m == call[c].m
           s == m.stmts[call[c].pc]
       IN  /\ call' = [call EXCEPT
                ![c].pc = @ + 1,
                ![c].st = IF call[c].pc = Len(m.stmts) /\ ~m.commits
                          THEN "returned" ELSE @]
           /\ open' = [open EXCEPT ![c] = IF s \in Writes THEN @ + 1 ELSE @]
    /\ UNCHANGED <<kept, restarts>>

\* A check answers that there is nothing to write: KeyError, ValueError or
\* False, with the transaction left open.
Decline(c) ==
    /\ Running(c) /\ ~AllSent(c)
    /\ txn # "aborted"
    /\ call[c].m.stmts[call[c].pc] = "check"
    /\ txn' = "open"
    /\ call' = [call EXCEPT ![c].st = "declined"]
    /\ UNCHANGED <<open, kept, restarts>>

\* Mutant: the repository rolls back when it finds the transaction aborted.
Fail_rollsBack(c) ==
    /\ Running(c) /\ ~AllSent(c)
    /\ \/ txn = "aborted"
       \/ call[c].m.stmts[call[c].pc] \in Fallible
    /\ txn' = IF txn = "aborted" THEN "idle" ELSE "aborted"
    /\ open' = [d \in Calls |-> 0]
    /\ call' = [call EXCEPT ![c].st = "raised"]
    /\ UNCHANGED <<kept, restarts>>

\* A constraint or a cast refuses the statement, or the transaction is already
\* aborted.  What it held is lost, whoever wrote it.
Fail(c) ==
    /\ Running(c) /\ ~AllSent(c)
    /\ \/ txn = "aborted"
       \/ call[c].m.stmts[call[c].pc] \in Fallible
    /\ txn' = "aborted"
    /\ open' = [d \in Calls |-> 0]
    /\ call' = [call EXCEPT ![c].st = "raised"]
    /\ UNCHANGED <<kept, restarts>>

\* Mutant: remember() leaves the commit to the next writer.
Commit_threadForgets(c) ==
    /\ Running(c) /\ AllSent(c)
    /\ IF call[c].m.on = "thread" THEN UNCHANGED <<txn, open, kept>>
       ELSE /\ txn' = "idle"
            /\ kept' = [d \in Calls |-> kept[d] + open[d]]
            /\ open' = [d \in Calls |-> 0]
    /\ call' = [call EXCEPT ![c].st = "returned"]
    /\ UNCHANGED restarts

\* commit(): everything in the transaction becomes durable; nothing when the
\* transaction is aborted, or was ended by another call's commit.
Commit(c) ==
    /\ Running(c) /\ AllSent(c)
    /\ txn' = "idle"
    /\ kept' = [d \in Calls |-> kept[d] + open[d]]
    /\ open' = [d \in Calls |-> 0]
    /\ call' = [call EXCEPT ![c].st = "returned"]
    /\ UNCHANGED restarts

\* The process dies and opens a new connection; Postgres rolls back.
Restart ==
    /\ restarts < MaxRestarts
    /\ restarts' = restarts + 1
    /\ txn' = "idle"
    /\ open' = [d \in Calls |-> 0]
    /\ call' = [d \in Calls |->
                  IF Running(d) THEN [call[d] EXCEPT !.st = "killed"] ELSE call[d]]
    /\ UNCHANGED kept

\* Every call has ended.
Quiescent ==
    /\ \A c \in Calls : call[c].st \notin {"new", "run"}
    /\ UNCHANGED vars

Next ==
    \/ \E c \in Calls : \/ \E m \in Methods : Begin(c, m)
                        \/ Execute(c) \/ Decline(c) \/ Fail(c) \/ Commit(c)
    \/ Restart
    \/ Quiescent

Spec == Init /\ [][Next]_vars

-----------------------------------------------------------------------------
CallState == [m : Methods, pc : Nat,
              st : {"new", "run", "returned", "declined", "raised", "killed"}]

\* Type invariant.
TypeOK ==
    /\ txn \in {"idle", "open", "aborted"}
    /\ call \in [Calls -> CallState]
    /\ open \in [Calls -> Nat]
    /\ kept \in [Calls -> Nat]
    /\ restarts \in 0..MaxRestarts

\* A remember() that returned to its handler although its turn is not in the
\* database was undone by the failing statement of some other call, which ended
\* the transaction they shared; nothing else loses a turn that was acknowledged.
RememberLostOnlyToFailure ==
    \A c \in Calls :
        (call[c].st = "returned" /\ kept[c] < WritesOf(call[c].m))
            => /\ call[c].m.on = "thread"
               /\ \E d \in Calls \ {c} : call[d].st = "raised"

\* No handler gets the connection out of an aborted transaction: only a
\* remember() whose statements had all been sent before the failure does, by
\* its commit, or a restart.
AbortOutlivesHandlers ==
    [][(txn = "aborted" /\ txn' # "aborted")
        => \/ restarts' # restarts
           \/ \E c \in Calls : /\ call[c].m.on = "thread" /\ AllSent(c)
                               /\ Running(c) /\ ~Running(c)']_vars

\* Calls that write from the event loop, as DurableWrites sees them.
LoopWrite(c) == call[c].m.on = "loop" /\ call[c].m.commits
DW == INSTANCE DurableWrites WITH
    Ops <- Calls,
    durable <- {c \in Calls : LoopWrite(c) /\ kept[c] = 1},
    acked <- {c \in Calls : LoopWrite(c) /\ call[c].st = "returned"}

\* The event loop's writes implement DurableWrites.
ImplementsDurableWrites == DW!Spec
=============================================================================
