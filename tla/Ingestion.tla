----------------------------- MODULE Ingestion ------------------------------
(***************************************************************************)
(* Uploaded files on their way into the tenants' fact store: the queue and *)
(* its workers (services/preprocessor/worker.py), Preprocessor.process and *)
(* the extractors (ingestion/), and the dashboard's own ingest endpoint.   *)
(* A worker is a daemon (run_forever) or a batch run (drain).  The one     *)
(* await of process is the extractor, a port whose media implementations   *)
(* are external; the ones in the repository answer at once.                *)
(*                                                                         *)
(* The half-second timeout of run_forever only makes it look at stop       *)
(* again, so it is not a step of its own.                                  *)
(***************************************************************************)
EXTENDS Naturals, Sequences, FiniteSets

CONSTANTS
    Jobs,            \* IngestionJobs, each put at most once
    Kind,            \* what the suffix of each job's file says
    Pages,           \* pages, paragraphs or lines of each file: "text", "blank"
                     \* or, in a csv, a line of empty "cells"
    Broken,          \* jobs whose file the extractor cannot read
    Daemons,         \* tasks of run_forever
    Batches,         \* calls of drain
    Posts,           \* POST .../catalog/facts requests, of PostSize facts each
    PostSize,
    NoJob,
    MaxFaults        \* bound: add_fact calls that raise

Workers == Daemons \cup Batches

ASSUME IngestionAssumption ==
    /\ Broken \subseteq Jobs /\ NoJob \notin Jobs
    /\ \A j \in Jobs : Kind[j] \in {"csv", "pdf", "docx", "media", "other"}
    /\ \A j \in Jobs : Len(Pages[j]) \in Nat
    /\ IsFiniteSet(Workers)
    /\ Daemons \cap Batches = {} /\ Posts \cap Jobs = {}
    /\ PostSize \in Nat /\ MaxFaults \in Nat

VARIABLES
    queue,       \* the asyncio.Queue
    unfinished,  \* its count of tasks not yet done, which join() waits for
    worker,      \* each worker: waiting for a job, in the extractor, over, dead
    stop,        \* the stop event
    facts,       \* InMemoryHindsight._facts
    fate,        \* history: what became of each job
    faults

vars == <<queue, unfinished, worker, stop, facts, fate, faults>>

Init ==
    /\ queue = <<>>
    /\ unfinished = 0
    /\ worker = [w \in Workers |-> [pc |-> "new", job |-> NoJob]]
    /\ stop = FALSE
    /\ facts = <<>>
    /\ fate = [j \in Jobs |-> "none"]
    /\ faults = 0

(***************************************************************************)
(* Extractors and the fact store                                           *)
(***************************************************************************)
Supported(j) == Kind[j] # "other"

\* A finite set of numbers, in increasing order.
InOrder(S) ==
    CHOOSE f \in [1..Cardinality(S) -> S] : \A a, b \in DOMAIN f : a < b => f[a] < f[b]

\* The pages and paragraphs with text, and the lines that csv.DictReader gives
\* as rows: it drops an empty line, but a row of empty cells has its column names.
Full(j) ==
    {i \in 1..Len(Pages[j]) : \/ Pages[j][i] = "text"
                              \/ Kind[j] = "csv" /\ Pages[j][i] = "cells"}

\* Mutant: the rows of a csv are numbered by their lines.
position_ofLine(j, k) ==
    IF Kind[j] = "pdf" THEN InOrder(Full(j))[k] ELSE InOrder(Full(j))[k] - 1

\* Where the k-th chunk of a file says that it comes from: pages count from 1
\* and paragraphs from 0, blank ones included; rows count from 0, without the
\* lines the reader dropped.
position(j, k) ==
    CASE Kind[j] = "pdf" -> InOrder(Full(j))[k]
      [] Kind[j] = "csv" -> k - 1
      [] OTHER -> InOrder(Full(j))[k] - 1

\* The positions of a file's chunks; a media file is one chunk.
extract(j) ==
    IF Kind[j] = "media" THEN <<0>>
    ELSE [k \in 1..Cardinality(Full(j)) |-> position(j, k)]

\* add_fact for the first n chunks.
added(from, positions, n) ==
    facts \o [i \in 1..n |-> [from |-> from, pos |-> positions[i]]]

(***************************************************************************)
(* Workers                                                                 *)
(***************************************************************************)
Start(w) ==
    /\ worker[w].pc = "new"
    /\ worker' = [worker EXCEPT ![w].pc = "loop"]
    /\ UNCHANGED <<queue, unfinished, stop, facts, fate, faults>>

put(j) ==
    /\ fate[j] = "none"
    /\ queue' = Append(queue, j)
    /\ unfinished' = unfinished + 1
    /\ fate' = [fate EXCEPT ![j] = "queued"]
    /\ UNCHANGED <<worker, stop, facts, faults>>

\* The loop takes the next job and calls process, which awaits the extractor,
\* or raises at once for a suffix nobody extracts.
Get(w) ==
    /\ worker[w].pc = "loop" /\ ~stop
    /\ queue # <<>>
    /\ queue' = Tail(queue)
    /\ LET j == Head(queue)
       IN  IF Supported(j)
           THEN /\ worker' = [worker EXCEPT ![w] = [pc |-> "extract", job |-> j]]
                /\ fate' = [fate EXCEPT ![j] = "taken"]
                /\ UNCHANGED unfinished
           ELSE /\ worker' = [worker EXCEPT ![w].pc = "dead"]
                /\ fate' = [fate EXCEPT ![j] = "failed"]
                /\ unfinished' = unfinished - 1
    /\ UNCHANGED <<stop, facts, faults>>

\* Mutant: task_done is not in a finally clause.
Raised_noFinally(w) ==
    /\ worker' = [worker EXCEPT ![w] = [pc |-> "dead", job |-> NoJob]]
    /\ fate' = [fate EXCEPT ![worker[w].job] = "failed"]
    /\ UNCHANGED unfinished

\* An exception leaves process: task_done (finally), and out of the loop.
Raised(w) ==
    /\ worker' = [worker EXCEPT ![w] = [pc |-> "dead", job |-> NoJob]]
    /\ fate' = [fate EXCEPT ![worker[w].job] = "failed"]
    /\ unfinished' = unfinished - 1

\* Mutant: a fact that cannot be stored is skipped.
Extracted_skips(w) ==
    /\ worker[w].pc = "extract" /\ worker[w].job \notin Broken
    /\ \E n \in 0..1 :
          facts' = added(worker[w].job, extract(worker[w].job),
                         Len(extract(worker[w].job)) - n)
    /\ worker' = [worker EXCEPT ![w] = [pc |-> "loop", job |-> NoJob]]
    /\ fate' = [fate EXCEPT ![worker[w].job] = "stored"]
    /\ unfinished' = unfinished - 1
    /\ UNCHANGED <<queue, stop, faults>>

\* The chunks are back: every fact is stored, or add_fact raises at one of them
\* and the ones before it stay.
Extracted(w) ==
    /\ worker[w].pc = "extract" /\ worker[w].job \notin Broken
    /\ LET j == worker[w].job
           chunks == extract(j)
       IN  \/ /\ facts' = added(j, chunks, Len(chunks))
              /\ worker' = [worker EXCEPT ![w] = [pc |-> "loop", job |-> NoJob]]
              /\ fate' = [fate EXCEPT ![j] = "stored"]
              /\ unfinished' = unfinished - 1
              /\ UNCHANGED faults
           \/ /\ faults < MaxFaults /\ chunks # <<>>
              /\ faults' = faults + 1
              /\ \E n \in 0..(Len(chunks) - 1) : facts' = added(j, chunks, n)
              /\ Raised(w)
    /\ UNCHANGED <<queue, stop>>

\* The file cannot be read.
ExtractFails(w) ==
    /\ worker[w].pc = "extract" /\ worker[w].job \in Broken
    /\ Raised(w)
    /\ UNCHANGED <<queue, stop, facts, faults>>

\* Mutant: a daemon that finds nothing to do for half a second leaves.
Leave_onTimeout(w) ==
    /\ worker[w].pc = "loop"
    /\ stop \/ queue = <<>>
    /\ worker' = [worker EXCEPT ![w].pc = "over"]
    /\ UNCHANGED <<queue, unfinished, stop, facts, fate, faults>>

\* The loop's condition: stop, or for a batch an empty queue.
Leave(w) ==
    /\ worker[w].pc = "loop"
    /\ stop \/ (w \in Batches /\ queue = <<>>)
    /\ worker' = [worker EXCEPT ![w].pc = "over"]
    /\ UNCHANGED <<queue, unfinished, stop, facts, fate, faults>>

SetStop ==
    /\ ~stop
    /\ stop' = TRUE
    /\ UNCHANGED <<queue, unfinished, worker, facts, fate, faults>>

\* The endpoint stores its facts without the queue.
ingest_catalog_facts(p) ==
    /\ \A i \in 1..Len(facts) : facts[i].from # p
    /\ facts' = added(p, [i \in 1..PostSize |-> i - 1], PostSize)
    /\ UNCHANGED <<queue, unfinished, worker, stop, fate, faults>>

Next ==
    \/ \E w \in Workers : Start(w) \/ Get(w) \/ Extracted(w) \/ ExtractFails(w) \/ Leave(w)
    \/ \E j \in Jobs : put(j)
    \/ \E p \in Posts : ingest_catalog_facts(p)
    \/ SetStop

Spec == Init /\ [][Next]_vars

\* The event loop runs the workers, and an extractor returns or raises.
Fairness == \A w \in Workers :
    /\ WF_vars(Start(w)) /\ WF_vars(Get(w)) /\ WF_vars(Leave(w))
    /\ WF_vars(Extracted(w)) /\ WF_vars(ExtractFails(w))

FairSpec == Spec /\ Fairness

-----------------------------------------------------------------------------
\* The facts of a job are those of its file, in its order, once: all of them
\* when it was stored, the first ones when it failed, none before.  They stand
\* together in the store, however many workers drain the queue.
StoredOnce ==
    \A j \in Jobs : \E a \in 0..Len(facts), n \in 0..Len(extract(j)) :
        /\ a + n <= Len(facts)
        /\ \A i \in 1..Len(facts) : facts[i].from = j <=> i \in (a + 1)..(a + n)
        /\ \A i \in 1..n : facts[a + i].pos = extract(j)[i]
        /\ fate[j] = "stored" => n = Len(extract(j))
        /\ fate[j] \in {"none", "queued", "taken"} => n = 0

\* What the metadata of a fact should say of page i: in a csv, how many rows
\* come before it, because only rows are numbered.
Place(j, i) ==
    CASE Kind[j] = "pdf" -> i
      [] Kind[j] = "csv" -> Cardinality({k \in Full(j) : k < i})
      [] OTHER -> i - 1

\* A stored file has as many facts as it has pages, paragraphs or rows to give,
\* and for each of them one that says where it is, whoever worked on the queue
\* and whatever else went into the store meanwhile.
EveryPageStored ==
    \A j \in Jobs : (fate[j] = "stored" /\ Kind[j] # "media") =>
        /\ Cardinality({i \in 1..Len(facts) : facts[i].from = j}) = Cardinality(Full(j))
        /\ \A p \in Full(j) : \E i \in 1..Len(facts) :
              facts[i].from = j /\ facts[i].pos = Place(j, p)

\* join() on the queue waits for exactly the jobs that are queued or taken: a
\* job that raises is counted off too.
JoinIsExact ==
    unfinished = Len(queue) + Cardinality({w \in Workers : worker[w].pc = "extract"})

\* A queued job is settled sooner or later as long as one daemon is alive that
\* nobody stops: the survivor works off the jobs behind the ones that killed
\* the others.
EveryJobSettled ==
    \A j \in Jobs : fate[j] = "queued" ~>
        \/ fate[j] \in {"stored", "failed"}
        \/ stop
        \/ \A d \in Daemons : worker[d].pc = "dead"
=============================================================================
