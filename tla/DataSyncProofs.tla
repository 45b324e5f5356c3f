--------------------------- MODULE DataSyncProofs ---------------------------
(***************************************************************************)
(* Proofs about DataSync, for any number of sources, requests, items and   *)
(* faults, on both backends.                                               *)
(***************************************************************************)
EXTENDS DataSync, TLAPS, FiniteSetTheorems, WellFoundedInduction

(***************************************************************************)
(* What a run of upserts leaves in the store.                              *)
(***************************************************************************)
\* Raw rows at positions of one page.
Items(f) == \E n \in Nat : DOMAIN f \subseteq 1..n

\* A set of natural numbers that is not empty has a least element.
LEMMA LeastNat ==
    ASSUME NEW T \in SUBSET Nat, T # {}
    PROVE  \E x \in T : \A y \in T : x <= y
<1> DEFINE R == {ss \in Nat \X Nat : ss[1] < ss[2]}
<1>1. IsWellFoundedOn(R, Nat)
  BY NatLessThanWellFounded DEF OpToRel
<1>2. PICK x \in T : \A y \in T : ~ (<<y, x>> \in R)
  <2> HIDE DEF R
  <2> QED BY <1>1, WFMin
<1>3. ASSUME NEW y \in T PROVE x <= y
  <2>1. ~(<<y, x>> \in R) /\ x \in Nat /\ y \in Nat
    BY <1>2
  <2>2. <<y, x>> \in Nat \X Nat /\ <<y, x>>[1] = y /\ <<y, x>>[2] = x
    BY <2>1
  <2>3. ~(y < x)
    BY <2>1, <2>2
  <2>4. QED BY <2>1, <2>3
<1>4. QED BY <1>3

\* A set of positions up to n that is not empty has a last one: of the items of
\* a page with one key, sync upserts one last.
LEMMA LastPosition ==
    ASSUME NEW n \in Nat, NEW T \in SUBSET (1..n), T # {}
    PROVE  \E x \in T : \A y \in T : y <= x
<1> DEFINE D == {n - x : x \in T}
<1>1. D \in SUBSET Nat /\ D # {}
  <2>1. \A x \in T : x \in Nat /\ x <= n /\ n - x \in Nat
    OBVIOUS
  <2>2. QED
    BY <2>1
<1> HIDE DEF D
<1>2. PICK d \in D : \A e \in D : d <= e
  BY <1>1, LeastNat
<1>3. PICK x \in T : d = n - x
  BY DEF D
<1>4. ASSUME NEW y \in T PROVE y <= x
  <2>1. n - y \in D
    BY DEF D
  <2>2. n - x <= n - y
    BY <1>2, <1>3, <2>1
  <2>3. QED BY <2>2
<1>5. QED BY <1>4

\* Upserting the items at positions W: every row after it was there before or
\* belongs to an item, no key that was in the store is lost, and every item's
\* key is in the store (ResourceSynchronizer.sync, PostgresResourceRepository.upsert).
LEMMA UpsertedKeys ==
    ASSUME NEW s, NEW items, Items(items), NEW W \in SUBSET DOMAIN items
    PROVE  /\ \A r \in upserted(s, items, W) :
                \/ r \in res
                \/ /\ W # {} /\ r.src = s
                   /\ r = [src |-> r.src, ext |-> r.ext, v |-> r.v]
           /\ \A k \in W : \E q \in upserted(s, items, W) :
                q.src = s /\ q.ext = _extract_external_id(items[k])
           /\ \A r \in res : \E q \in upserted(s, items, W) :
                q.src = r.src /\ q.ext = r.ext
<1> DEFINE key(k) == _extract_external_id(items[k])
<1> DEFINE new(k) == [src |-> s, ext |-> key(k), v |-> items[k].v]
<1> DEFINE last == {k \in W : \A m \in W : m > k => key(m) # key(k)}
<1> DEFINE U == upserted(s, items, W)
<1>1. U = {r \in res : ~(r.src = s /\ \E k \in W : r.ext = key(k))} \cup {new(k) : k \in last}
  BY DEF upserted
<1>2. \A k : new(k).src = s /\ new(k).ext = key(k)
             /\ new(k) = [src |-> new(k).src, ext |-> new(k).ext, v |-> new(k).v]
  OBVIOUS
<1> HIDE DEF key, new, U
<1>3. ASSUME NEW k \in W PROVE \E q \in U : q.src = s /\ q.ext = key(k)
  <2> DEFINE T == {m \in W : key(m) = key(k)}
  <2>1. PICK n \in Nat : DOMAIN items \subseteq 1..n
    BY DEF Items
  <2>2. T \in SUBSET (1..n) /\ T # {}
    BY <2>1
  <2>3. PICK x \in T : \A y \in T : y <= x
    <3> HIDE DEF T
    <3> QED BY <2>1, <2>2, LastPosition
  <2>4. \A m \in W : m > x => key(m) # key(x)
    <3> SUFFICES ASSUME NEW m \in W, m > x, key(m) = key(x) PROVE FALSE
      OBVIOUS
    <3>1. m \in T /\ m \in Nat /\ x \in Nat
      BY <2>1, <2>2, <2>3
    <3>2. m <= x
      BY <2>3, <3>1
    <3>3. QED BY <3>1, <3>2
  <2>5. new(x) \in U
    BY <1>1, <2>3, <2>4
  <2>6. QED
    BY <1>2, <2>3, <2>5
<1>4. \A r \in U : \/ r \in res
                   \/ /\ W # {} /\ r.src = s
                      /\ r = [src |-> r.src, ext |-> r.ext, v |-> r.v]
  BY <1>1, <1>2
<1>5. ASSUME NEW r \in res PROVE \E q \in U : q.src = r.src /\ q.ext = r.ext
  <2>1. CASE r \in U
    BY <2>1
  <2>2. CASE r \notin U
    <3>1. PICK k \in W : r.src = s /\ r.ext = key(k)
      BY <1>1, <2>2
    <3>2. QED
      BY <1>3, <3>1
  <2>3. QED
    BY <2>1, <2>2
<1>6. QED
  BY <1>3, <1>4, <1>5 DEF U, key

(***************************************************************************)
(* Status rows and stored items.                                           *)
(***************************************************************************)
SourceRow == [st : {"none", "active", "deleted"}, age : Nat \cup {Never},
              ok : BOOLEAN, count : Nat]

\* The item with key x of source s is in the store, or an operator deleted it.
Kept(s, x) == \/ [src |-> s, ext |-> x] \in dropped
              \/ \E r \in res : r.src = s /\ r.ext = x

StoreInv ==
    /\ row \in [Sources -> SourceRow]
    /\ \A s \in Sources : row[s].ok => exists(s)
    /\ told = [s \in Sources |-> told[s]]
    /\ \A r \in res : /\ r = [src |-> r.src, ext |-> r.ext, v |-> r.v]
                      /\ r.src \in Sources \cup {NoSource}
    /\ NoOrphanRows
    /\ OkMeansStored

\* OkMeansStored, with Kept.
LEMMA OkMeansKept ==
    OkMeansStored <=>
        \A s \in Sources : (exists(s) /\ row[s].ok) =>
            \A k \in DOMAIN told[s] : Kept(s, _extract_external_id(told[s][k]))
  BY DEF OkMeansStored, Kept

\* How sync ends: with items, with an AdapterError, without a fetch, or with an
\* exception that leaves no trace.
SyncEnds(s) ==
    \/ \E items : Items(items) /\ sync_rest(s, items)
    \/ sync_failed(s)
    \/ sync_at_once(s)
    \/ UNCHANGED <<row, told, res>>

\* Writing a status row: what it says afterwards.
LEMMA RecordStatus ==
    ASSUME NEW s \in Sources, NEW ok \in BOOLEAN, NEW items, Items(items),
           row \in [Sources -> SourceRow], told = [w \in Sources |-> told[w]],
           record_status(s, ok, items)
    PROVE  /\ row' \in [Sources -> SourceRow]
           /\ told' = [w \in Sources |-> told'[w]]
           /\ \A w \in Sources : row'[w].st = row[w].st
           /\ \A w \in Sources : w # s => row'[w] = row[w] /\ told'[w] = told[w]
           /\ \/ exists(s) /\ row'[s].ok = ok /\ told'[s] = items
              \/ row'[s] = row[s] /\ told'[s] = told[s]
<1>1. Cardinality(DOMAIN items) \in Nat
  <2>1. PICK n \in Nat : DOMAIN items \subseteq 1..n
    BY DEF Items
  <2>2. IsFiniteSet(1..n)
    <3>1. 1 \in Int /\ n \in Int
      BY <2>1
    <3>2. QED
      BY <3>1, FS_Interval
  <2>3. QED
    BY <2>1, <2>2, FS_Subset, FS_CardinalityType
<1>2. CASE /\ exists(s)
           /\ row' = [row EXCEPT ![s] = [st |-> "active", age |-> 0, ok |-> ok,
                                         count |-> Cardinality(DOMAIN items)]]
           /\ told' = [told EXCEPT ![s] = items]
  <2> DEFINE c == Cardinality(DOMAIN items)
  <2> DEFINE new == [st |-> "active", age |-> 0, ok |-> ok, count |-> c]
  <2>1. row' = [row EXCEPT ![s] = new] /\ told' = [told EXCEPT ![s] = items]
    BY <1>2
  <2> HIDE DEF c
  <2>2. new \in SourceRow /\ new.st = "active" /\ new.ok = ok
    BY <1>1 DEF SourceRow, c
  <2> HIDE DEF new
  <2>3. row[s].st = "active"
    BY <1>2 DEF exists
  <2>4. /\ row' \in [Sources -> SourceRow] /\ row'[s] = new
        /\ \A w \in Sources : w # s => row'[w] = row[w]
    BY <2>1, <2>2
  <2>5. /\ told' = [w \in Sources |-> told'[w]] /\ told'[s] = items
        /\ \A w \in Sources : w # s => told'[w] = told[w]
    BY <2>1
  <2>6. QED
    BY <1>2, <2>2, <2>3, <2>4, <2>5
<1>3. CASE UNCHANGED <<row, told>>
  BY <1>3
<1>4. QED
  BY <1>2, <1>3 DEF record_status

\* However a sync ends, the status rows and the store agree: an upsert that
\* fails is not reported as ok, and rows are only added for a source that exists.
LEMMA SyncKeepsStore ==
    ASSUME StoreInv, NEW s \in Sources, SyncEnds(s), UNCHANGED <<backend, dropped>>
    PROVE  StoreInv' /\ \A w \in Sources : row'[w].st = row[w].st
<1>1. /\ row \in [Sources -> SourceRow] /\ told = [w \in Sources |-> told[w]]
      /\ NoOrphanRows
  BY DEF StoreInv
<1>2. ASSUME NEW ok \in BOOLEAN, record_status(s, ok, <<>>), UNCHANGED res
      PROVE  StoreInv' /\ \A w \in Sources : row'[w].st = row[w].st
  <2>1. Items(<<>>) /\ DOMAIN <<>> = {}
    BY DEF Items
  <2>2. /\ row' \in [Sources -> SourceRow]
        /\ told' = [w \in Sources |-> told'[w]]
        /\ \A w \in Sources : row'[w].st = row[w].st
        /\ \A w \in Sources : w # s => row'[w] = row[w] /\ told'[w] = told[w]
        /\ \/ exists(s) /\ told'[s] = <<>>
           \/ row'[s] = row[s] /\ told'[s] = told[s]
    BY <1>1, <1>2, <2>1, RecordStatus
  <2>3. NoOrphanRows'
    BY <1>1, <1>2, <2>2 DEF StoreInv, NoOrphanRows, exists
  <2>4. OkMeansStored'
    <3> SUFFICES ASSUME NEW w \in Sources, exists(w)', row'[w].ok, NEW k \in DOMAIN told'[w]
                 PROVE  Kept(w, _extract_external_id(told'[w][k]))
      BY <1>2 DEF OkMeansStored, Kept
    <3>1. exists(w) /\ row'[w] = row[w] /\ told'[w] = told[w]
      BY <2>1, <2>2 DEF exists
    <3>2. QED
      BY <3>1, OkMeansKept DEF StoreInv
  <2>5. \A w \in Sources : row'[w].ok => exists(w)'
    BY <2>2 DEF StoreInv, exists
  <2>6. QED
    BY <1>2, <2>2, <2>3, <2>4, <2>5 DEF StoreInv
<1>3. ASSUME NEW items, Items(items), NEW W \in SUBSET DOMAIN items,
             res' = upserted(s, items, W), ~ForeignKeyFails(s, items)
      PROVE  /\ \A r \in res' : /\ r = [src |-> r.src, ext |-> r.ext, v |-> r.v]
                                /\ r.src \in Sources \cup {NoSource}
             /\ (\A w \in Sources : row'[w].st = row[w].st) => NoOrphanRows'
             /\ \A w, x : Kept(w, x) => Kept(w, x)'
             /\ \A k \in W : Kept(s, _extract_external_id(items[k]))'
  <2>1. /\ \A r \in res' : \/ r \in res
                           \/ /\ W # {} /\ r.src = s
                              /\ r = [src |-> r.src, ext |-> r.ext, v |-> r.v]
        /\ \A k \in W : \E q \in res' : q.src = s /\ q.ext = _extract_external_id(items[k])
        /\ \A r \in res : \E q \in res' : q.src = r.src /\ q.ext = r.ext
    BY <1>3, UpsertedKeys
  <2>2. \A r \in res' : /\ r = [src |-> r.src, ext |-> r.ext, v |-> r.v]
                        /\ r.src \in Sources \cup {NoSource}
    BY <2>1 DEF StoreInv
  <2>3. ASSUME \A w \in Sources : row'[w].st = row[w].st PROVE NoOrphanRows'
    <3> SUFFICES ASSUME backend = "postgres", NEW r \in res', r.src # NoSource
                 PROVE  exists(r.src)'
      BY DEF NoOrphanRows
    <3>1. exists(r.src)
      <4>1. CASE r \in res
        BY <1>1, <4>1 DEF NoOrphanRows
      <4>2. CASE r \notin res
        BY <1>3, <2>1, <4>2 DEF ForeignKeyFails
      <4>3. QED
        BY <4>1, <4>2
    <3>2. QED
      BY <2>2, <2>3, <3>1 DEF exists
  <2>4. \A w, x : Kept(w, x) => Kept(w, x)'
    BY <2>1 DEF Kept
  <2>5. \A k \in W : Kept(s, _extract_external_id(items[k]))'
    BY <2>1 DEF Kept
  <2>6. QED
    BY <2>2, <2>3, <2>4, <2>5
<1>4. ASSUME NEW items, Items(items), sync_rest(s, items)
      PROVE  StoreInv' /\ \A w \in Sources : row'[w].st = row[w].st
  <2>1. CASE UNCHANGED <<res, row, told>>
    BY <2>1 DEF StoreInv, NoOrphanRows, OkMeansStored, exists
  <2>2. CASE /\ ~ForeignKeyFails(s, items)
             /\ res' = upserted(s, items, DOMAIN items)
             /\ record_status(s, TRUE, items)
    <3>1. /\ row' \in [Sources -> SourceRow]
          /\ told' = [w \in Sources |-> told'[w]]
          /\ \A w \in Sources : row'[w].st = row[w].st
          /\ \A w \in Sources : w # s => row'[w] = row[w] /\ told'[w] = told[w]
          /\ \/ exists(s) /\ told'[s] = items
             \/ row'[s] = row[s] /\ told'[s] = told[s]
      BY <1>1, <1>4, <2>2, RecordStatus
    <3>2. /\ \A r \in res' : /\ r = [src |-> r.src, ext |-> r.ext, v |-> r.v]
                             /\ r.src \in Sources \cup {NoSource}
          /\ NoOrphanRows'
          /\ \A w, x : Kept(w, x) => Kept(w, x)'
          /\ \A k \in DOMAIN items : Kept(s, _extract_external_id(items[k]))'
      BY <1>3, <1>4, <2>2, <3>1
    <3>3. OkMeansStored'
      <4> SUFFICES ASSUME NEW w \in Sources, exists(w)', row'[w].ok,
                          NEW k \in DOMAIN told'[w],
                          NEW x, x = _extract_external_id(told'[w][k])
                   PROVE  Kept(w, x)'
        BY DEF OkMeansStored, Kept, _extract_external_id
      <4>1. exists(w)
        BY <3>1 DEF exists
      <4>2. CASE w = s /\ told'[s] = items
        <5>1. k \in DOMAIN items /\ x = _extract_external_id(items[k])
          BY <4>2
        <5>2. QED
          BY <3>2, <4>2, <5>1
      <4>3. CASE row'[w] = row[w] /\ told'[w] = told[w]
        <5>1. Kept(w, x)
          BY <4>1, <4>3, OkMeansKept DEF StoreInv
        <5>2. QED
          BY <3>2, <5>1
      <4>4. QED
        BY <3>1, <4>2, <4>3
    <3>4. \A w \in Sources : row'[w].ok => exists(w)'
      BY <3>1 DEF StoreInv, exists
    <3>5. QED
      BY <3>1, <3>2, <3>3, <3>4 DEF StoreInv
  <2>3. CASE /\ ~ForeignKeyFails(s, items)
             /\ \E p \in DOMAIN items : res' = upserted(s, items, Before(items, p))
             /\ UNCHANGED <<row, told>>
    <3>1. PICK p \in DOMAIN items : res' = upserted(s, items, Before(items, p))
      BY <2>3
    <3>2. Before(items, p) \in SUBSET DOMAIN items
      BY DEF Before
    <3>3. /\ \A r \in res' : /\ r = [src |-> r.src, ext |-> r.ext, v |-> r.v]
                             /\ r.src \in Sources \cup {NoSource}
          /\ NoOrphanRows'
          /\ \A w, x : Kept(w, x) => Kept(w, x)'
      BY <1>3, <1>4, <2>3, <3>1, <3>2
    <3>4. OkMeansStored'
      <4> SUFFICES ASSUME NEW w \in Sources, exists(w), row[w].ok, NEW k \in DOMAIN told[w]
                   PROVE  Kept(w, _extract_external_id(told[w][k]))'
        BY <2>3 DEF OkMeansStored, Kept, exists, _extract_external_id
      <4>1. Kept(w, _extract_external_id(told[w][k]))
        BY OkMeansKept DEF StoreInv
      <4>2. QED
        BY <2>3, <3>3, <4>1
    <3>5. QED
      BY <2>3, <3>3, <3>4 DEF StoreInv, exists
  <2>4. QED
    BY <1>4, <2>1, <2>2, <2>3 DEF sync_rest
<1>5. ASSUME UNCHANGED <<row, told, res>>
      PROVE  StoreInv' /\ \A w \in Sources : row'[w].st = row[w].st
  BY <1>5 DEF StoreInv, NoOrphanRows, OkMeansStored, exists
<1>6. CASE sync_failed(s)
  BY <1>2, <1>6 DEF sync_failed
<1>7. CASE sync_at_once(s)
  BY <1>2, <1>5, <1>7 DEF sync_at_once, sync_failed
<1>8. QED
  BY <1>4, <1>5, <1>6, <1>7 DEF SyncEnds

(***************************************************************************)
(* Jobs, the scheduler and the whole invariant.                            *)
(***************************************************************************)
JobInv ==
    /\ job = [j \in Jobs |-> job[j]]
    /\ \A j \in Jobs :
        /\ job[j] = [pc |-> job[j].pc, src |-> job[j].src, got |-> job[j].got]
        /\ job[j].pc # "idle" => job[j].src \in Sources
        /\ job[j].pc = "answered" => Items(job[j].got)

\* Once stop() returned, the task has ended and fetches nothing.
SchedInv ==
    /\ sched = [pc |-> sched.pc, queue |-> sched.queue, stop |-> sched.stop]
    /\ sched.stop = "stopped" => sched.pc = "done" /\ job[Scheduler].pc = "idle"

SettingInv ==
    /\ config \in [Sources -> Config]
    /\ site = [s \in Sources |-> site[s]]
    /\ \A s \in Sources : site[s] \in 1..Len(Snapshots[s])

Inv == StoreInv /\ JobInv /\ SchedInv /\ SettingInv

\* Nothing is synced or stored at the start.
LEMMA InvInit == Init => Inv
<1> SUFFICES ASSUME Init PROVE Inv
  OBVIOUS
<1>1. StoreInv
  <2>1. NoRow \in SourceRow /\ NoRow.st = "none"
    BY DEF NoRow, SourceRow
  <2>2. QED
    BY <2>1 DEF Init, StoreInv, NoRow, NoOrphanRows, OkMeansStored, exists
<1>2. JobInv
  BY DEF Init, JobInv, IdleJob
<1>3. SchedInv
  BY DEF Init, SchedInv
<1>4. SettingInv
  BY SyncAssumption DEF Init, SettingInv
<1>5. QED
  BY <1>1, <1>2, <1>3, <1>4 DEF Inv

\* What an adapter returns for a page are items of that page.
LEMMA FetchedItems ==
    ASSUME NEW s \in Sources, SettingInv
    PROVE  Items(fetched(s, Snapshots[s][site[s]]))
<1> DEFINE page == Snapshots[s][site[s]]
<1>1. Len(page) \in Nat /\ DOMAIN page = 1..Len(page)
  BY SyncAssumption DEF SettingInv
<1> HIDE DEF page
<1>2. Items(page)
  BY <1>1 DEF Items
<1>3. Items(_extract_items(page))
  BY <1>1 DEF Items, _extract_items
<1>4. QED
  BY <1>2, <1>3 DEF fetched, page

\* The ways a job moves: it starts a fetch, gets an error or its answer, ends.
LEMMA JobMoves ==
    ASSUME JobInv, NEW j \in Jobs,
           \/ \E s \in Sources : StartFetch(j, s)
           \/ job[j].pc = "fetch" /\ job' = [job EXCEPT ![j].pc = "failed"]
           \/ job' = [job EXCEPT ![j] = IdleJob]
           \/ \E items : /\ Items(items) /\ job[j].pc = "fetch"
                         /\ job' = [job EXCEPT ![j] =
                                   [pc |-> "answered", src |-> job[j].src, got |-> items]]
           \/ UNCHANGED job
    PROVE  /\ JobInv'
           /\ \A i \in Jobs : i # j => job'[i] = job[i]
<1>1. ASSUME NEW new, job' = [job EXCEPT ![j] = new],
             new = [pc |-> new.pc, src |-> new.src, got |-> new.got],
             new.pc # "idle" => new.src \in Sources,
             new.pc = "answered" => Items(new.got)
      PROVE  /\ JobInv'
             /\ \A i \in Jobs : i # j => job'[i] = job[i]
  BY <1>1 DEF JobInv
<1>2. CASE \E s \in Sources : StartFetch(j, s)
  <2>1. PICK s \in Sources : StartFetch(j, s)
    BY <1>2
  <2> DEFINE new == [pc |-> "fetch", src |-> s, got |-> <<>>]
  <2>2. job' = [job EXCEPT ![j] = new]
    BY <2>1 DEF StartFetch
  <2>3. /\ new = [pc |-> new.pc, src |-> new.src, got |-> new.got]
        /\ new.src \in Sources /\ new.pc = "fetch"
    BY <2>1
  <2> HIDE DEF new
  <2>4. QED
    BY <1>1, <2>2, <2>3
<1>3. CASE job' = [job EXCEPT ![j] = IdleJob]
  BY <1>1, <1>3 DEF IdleJob
<1>4. CASE \E items : /\ Items(items) /\ job[j].pc = "fetch"
                      /\ job' = [job EXCEPT ![j] =
                                   [pc |-> "answered", src |-> job[j].src, got |-> items]]
  <2>1. PICK items : /\ Items(items) /\ job[j].pc = "fetch"
                     /\ job' = [job EXCEPT ![j] =
                                   [pc |-> "answered", src |-> job[j].src, got |-> items]]
    BY <1>4
  <2> DEFINE new == [pc |-> "answered", src |-> job[j].src, got |-> items]
  <2>2. job' = [job EXCEPT ![j] = new]
    BY <2>1
  <2>3. job[j].src \in Sources
    BY <2>1 DEF JobInv
  <2>4. /\ new = [pc |-> new.pc, src |-> new.src, got |-> new.got]
        /\ new.src \in Sources /\ Items(new.got)
    BY <2>1, <2>3
  <2> HIDE DEF new
  <2>5. QED
    BY <1>1, <2>2, <2>4
<1>5. CASE UNCHANGED job
  BY <1>5 DEF JobInv
<1>6. CASE job[j].pc = "fetch" /\ job' = [job EXCEPT ![j].pc = "failed"]
  <2> DEFINE new == [pc |-> "failed", src |-> job[j].src, got |-> job[j].got]
  <2>1. job[j] = [pc |-> job[j].pc, src |-> job[j].src, got |-> job[j].got]
        /\ job[j].src \in Sources
    BY <1>6 DEF JobInv
  <2>2. job' = [job EXCEPT ![j] = new]
    <3>1. [job[j] EXCEPT !.pc = "failed"] = new
      BY <2>1
    <3>2. job' = [job EXCEPT ![j] = [job[j] EXCEPT !.pc = "failed"]]
      BY <1>6
    <3>3. QED
      BY <3>1, <3>2
  <2>3. /\ new = [pc |-> new.pc, src |-> new.src, got |-> new.got]
        /\ new.src \in Sources /\ new.pc = "failed"
    BY <2>1
  <2> HIDE DEF new
  <2>4. QED
    BY <1>1, <2>2, <2>3
<1>7. QED
  BY <1>2, <1>3, <1>4, <1>5, <1>6

\* A job's own step: Answer, FetchFails and Finish.
LEMMA JobStepKeeps ==
    ASSUME Inv, NEW j \in Jobs, Answer(j) \/ FetchFails(j) \/ Finish(j)
    PROVE  Inv' /\ NoneRevived /\ QuietOnceStopped
<1> DEFINE s == job[j].src
<1>0. /\ UNCHANGED <<backend, config, order, site, sched, dropped>>
      /\ job[j].pc # "idle"
  BY DEF Answer, FetchFails, Finish
<1>1. s \in Sources
  BY <1>0 DEF Inv, JobInv
<1>2. SyncEnds(s)
  <2>1. CASE Answer(j)
    BY <2>1 DEF Answer, SyncEnds
  <2>2. CASE FetchFails(j)
    BY <2>2 DEF FetchFails, SyncEnds
  <2>3. CASE Finish(j)
    <3>1. job[j].pc = "answered" => Items(job[j].got)
      BY DEF Inv, JobInv
    <3>2. \/ UNCHANGED <<row, told, res>>
          \/ sync_failed(s)
          \/ job[j].pc = "answered" /\ sync_rest(s, job[j].got)
      BY <2>3 DEF Finish
    <3>3. QED
      BY <3>1, <3>2 DEF SyncEnds
  <2>4. QED
    BY <2>1, <2>2, <2>3
<1>3. JobInv' /\ \A i \in Jobs : i # j => job'[i] = job[i]
  <2>1. CASE Answer(j)
    <3>1. Items(fetched(s, Snapshots[s][site[s]]))
      BY <1>1, FetchedItems DEF Inv
    <3>2. /\ job[j].pc = "fetch"
          /\ job' = [job EXCEPT ![j] = [pc |-> "answered", src |-> s,
                                        got |-> fetched(s, Snapshots[s][site[s]])]]
      BY <2>1 DEF Answer
    <3>3. QED
      BY <3>1, <3>2, JobMoves DEF Inv
  <2>2. CASE FetchFails(j) \/ Finish(j)
    <3>1. \/ job[j].pc = "fetch" /\ job' = [job EXCEPT ![j].pc = "failed"]
          \/ job' = [job EXCEPT ![j] = IdleJob]
      BY <2>2 DEF FetchFails, Finish
    <3>2. QED
      BY <3>1, JobMoves DEF Inv
  <2>3. QED
    BY <2>1, <2>2
<1>4. StoreInv' /\ \A w \in Sources : row'[w].st = row[w].st
  <2> HIDE DEF s
  <2> QED BY <1>0, <1>1, <1>2, SyncKeepsStore DEF Inv
<1>5. SettingInv'
  BY <1>0 DEF Inv, SettingInv
<1>6. sched.stop = "stopped" => j # Scheduler /\ job'[Scheduler] = job[Scheduler]
  BY <1>0, <1>3 DEF Inv, SchedInv, Jobs
<1>7. SchedInv' /\ QuietOnceStopped
  BY <1>0, <1>6 DEF Inv, SchedInv, QuietOnceStopped
<1>8. NoneRevived
  BY <1>4 DEF NoneRevived
<1>9. QED
  BY <1>3, <1>4, <1>5, <1>7, <1>8 DEF Inv

\* A sync that the dashboard or the scheduler starts.
LEMMA StartedSync ==
    ASSUME Inv, NEW j \in Jobs, NEW s \in Sources, UNCHANGED <<backend, config, site, dropped>>,
           \/ UNCHANGED <<job, row, told, res>>
           \/ StartFetch(j, s) /\ UNCHANGED <<row, told, res>>
           \/ sync_at_once(s) /\ UNCHANGED job
    PROVE  /\ StoreInv' /\ JobInv' /\ SettingInv' /\ NoneRevived
           /\ \A i \in Jobs : i # j => job'[i] = job[i]
<1>1. SyncEnds(s)
  BY DEF SyncEnds
<1>2. StoreInv' /\ \A w \in Sources : row'[w].st = row[w].st
  BY <1>1, SyncKeepsStore DEF Inv
<1>3. UNCHANGED job \/ StartFetch(j, s)
  OBVIOUS
<1>4. JobInv' /\ \A i \in Jobs : i # j => job'[i] = job[i]
  BY <1>3, JobMoves DEF Inv
<1>5. SettingInv'
  BY DEF Inv, SettingInv
<1>6. QED
  BY <1>2, <1>4, <1>5 DEF NoneRevived

\* POST .../sync.
LEMMA RequestKeeps ==
    ASSUME Inv, NEW j \in Requests, NEW s \in Sources, sync_data_source(j, s)
    PROVE  Inv' /\ NoneRevived /\ QuietOnceStopped
<1>1. j \in Jobs /\ Scheduler \in Jobs /\ j # Scheduler
  BY SyncAssumption DEF Jobs
<1>2. /\ StoreInv' /\ JobInv' /\ SettingInv' /\ NoneRevived
      /\ \A i \in Jobs : i # j => job'[i] = job[i]
  BY <1>1, StartedSync DEF sync_data_source
<1>3. sched' = sched
  BY DEF sync_data_source
<1>4. SchedInv' /\ QuietOnceStopped
  BY <1>1, <1>2, <1>3 DEF Inv, SchedInv, QuietOnceStopped
<1>5. QED
  BY <1>2, <1>4 DEF Inv

\* The scheduler's own steps, and stop().
LEMMA SchedulerKeeps ==
    ASSUME Inv, TickStart \/ TickSource \/ TickEnd \/ Stop \/ Stopped
    PROVE  Inv' /\ NoneRevived /\ QuietOnceStopped
<1>1. CASE TickSource
  <2>1. PICK s \in Sources :
          /\ sched' = [sched EXCEPT !.queue = Tail(@)]
          /\ \/ UNCHANGED <<job, row, told, res>>
             \/ StartFetch(Scheduler, s) /\ UNCHANGED <<row, told, res>>
             \/ sync_at_once(s) /\ UNCHANGED job
    BY <1>1 DEF TickSource
  <2>2. UNCHANGED <<backend, config, site, dropped>> /\ sched.pc = "tick"
    BY <1>1 DEF TickSource
  <2>3. Scheduler \in Jobs
    BY DEF Jobs
  <2>4. StoreInv' /\ JobInv' /\ SettingInv' /\ NoneRevived
    BY <2>1, <2>2, <2>3, StartedSync
  <2>5. SchedInv' /\ QuietOnceStopped
    BY <2>1, <2>2 DEF Inv, SchedInv, QuietOnceStopped
  <2>6. QED
    BY <2>4, <2>5 DEF Inv
<1>2. CASE TickStart \/ TickEnd \/ Stop \/ Stopped
  <2>1. UNCHANGED <<backend, config, row, res, site, told, dropped>>
    BY <1>2 DEF TickStart, TickEnd, Stop, Stopped
  <2>2. StoreInv' /\ SettingInv' /\ NoneRevived
    BY <2>1 DEF Inv, StoreInv, SettingInv, NoOrphanRows, OkMeansStored, exists, NoneRevived
  <2>3. CASE TickStart \/ TickEnd \/ Stop
    <3>1. UNCHANGED job
      BY <2>3 DEF TickStart, TickEnd, Stop
    <3>2. JobInv'
      BY <3>1 DEF Inv, JobInv
    <3>3. SchedInv' /\ QuietOnceStopped
      <4>1. CASE TickStart
        BY <3>1, <4>1 DEF TickStart, Inv, SchedInv, QuietOnceStopped
      <4>2. CASE TickEnd
        BY <3>1, <4>2 DEF TickEnd, Inv, SchedInv, QuietOnceStopped
      <4>3. CASE Stop
        BY <3>1, <4>3 DEF Stop, Inv, SchedInv, QuietOnceStopped
      <4>4. QED
        BY <2>3, <4>1, <4>2, <4>3
    <3>4. QED
      BY <2>2, <3>2, <3>3 DEF Inv
  <2>4. CASE Stopped
    <3>1. /\ sched.stop = "waiting" /\ job' = [job EXCEPT ![Scheduler] = IdleJob]
          /\ sched' = [pc |-> "done", queue |-> <<>>, stop |-> "stopped"]
      BY <2>4 DEF Stopped
    <3>2. Scheduler \in Jobs
      BY DEF Jobs
    <3>3. JobInv'
      BY <3>1, <3>2, JobMoves DEF Inv
    <3>4. job'[Scheduler].pc = "idle"
      BY <3>1, <3>2 DEF Inv, JobInv, IdleJob
    <3>5. SchedInv' /\ QuietOnceStopped
      BY <3>1, <3>4 DEF SchedInv, QuietOnceStopped
    <3>6. QED
      BY <2>2, <3>3, <3>5 DEF Inv
  <2>5. QED
    BY <1>2, <2>3, <2>4
<1>3. QED
  BY <1>1, <1>2

\* create_data_source: nothing refers to the new source yet.
LEMMA CreateKeeps ==
    ASSUME Inv, NEW s \in Sources, NEW c \in Configs[s], create_data_source(s, c)
    PROVE  Inv' /\ NoneRevived /\ QuietOnceStopped
<1>1. /\ row[s].st = "none" /\ row' = [row EXCEPT ![s].st = "active"]
      /\ config' = [config EXCEPT ![s] = c]
      /\ UNCHANGED <<backend, res, site, job, sched, told, dropped>>
  BY DEF create_data_source
<1>2. /\ row' \in [Sources -> SourceRow] /\ row'[s].st = "active" /\ row'[s].ok = row[s].ok
      /\ \A w \in Sources : w # s => row'[w] = row[w]
  BY <1>1 DEF Inv, StoreInv, SourceRow
<1>3. NoOrphanRows'
  BY <1>1, <1>2 DEF Inv, StoreInv, NoOrphanRows, exists
<1>4. JobInv' /\ SchedInv' /\ SettingInv'
  BY <1>1, SyncAssumption DEF Inv, JobInv, SchedInv, SettingInv
<1>5. NoneRevived /\ QuietOnceStopped
  BY <1>1, <1>2 DEF Inv, SchedInv, NoneRevived, QuietOnceStopped
<1>6. OkMeansStored'
  BY <1>1, <1>2 DEF Inv, StoreInv, OkMeansStored, exists
<1>7. \A w \in Sources : row'[w].ok => exists(w)'
  BY <1>1, <1>2 DEF Inv, StoreInv, exists
<1>8. QED
  BY <1>1, <1>2, <1>3, <1>4, <1>5, <1>6, <1>7 DEF Inv, StoreInv

\* delete_data_source: Postgres clears the references to the source, memory
\* leaves them, and the status row is gone.
LEMMA DeleteSourceKeeps ==
    ASSUME Inv, NEW s \in Sources, delete_data_source(s)
    PROVE  Inv' /\ NoneRevived /\ QuietOnceStopped
<1>1. /\ exists(s) /\ row' = [row EXCEPT ![s] = [NoRow EXCEPT !.st = "deleted"]]
      /\ told' = [told EXCEPT ![s] = <<>>]
      /\ res' = IF backend = "memory" THEN res
                ELSE {[r EXCEPT !.src = IF @ = s THEN NoSource ELSE @] : r \in res}
      /\ UNCHANGED <<backend, config, site, job, sched, dropped>>
  BY DEF delete_data_source
<1>2. /\ row' \in [Sources -> SourceRow] /\ row'[s].st = "deleted" /\ row'[s].ok = FALSE
      /\ \A w \in Sources : w # s => row'[w] = row[w]
  BY <1>1 DEF Inv, StoreInv, SourceRow, NoRow
<1>3. told' = [w \in Sources |-> told'[w]] /\ \A w \in Sources : w # s => told'[w] = told[w]
  BY <1>1 DEF Inv, StoreInv
<1> DEFINE freed(r) == [r EXCEPT !.src = IF r.src = s THEN NoSource ELSE r.src]
<1>4. ASSUME NEW r \in res
      PROVE  /\ freed(r) = [src |-> IF r.src = s THEN NoSource ELSE r.src,
                            ext |-> r.ext, v |-> r.v]
             /\ freed(r).src = (IF r.src = s THEN NoSource ELSE r.src)
             /\ freed(r).ext = r.ext
             /\ freed(r) = [src |-> freed(r).src, ext |-> freed(r).ext, v |-> freed(r).v]
  <2>1. r \in [src : Sources \cup {NoSource}, ext : {r.ext}, v : {r.v}]
    <3>1. r = [src |-> r.src, ext |-> r.ext, v |-> r.v] /\ r.src \in Sources \cup {NoSource}
      BY DEF Inv, StoreInv
    <3>2. \A a \in Sources \cup {NoSource} : \A b, c :
            [src |-> a, ext |-> b, v |-> c] \in [src : Sources \cup {NoSource}, ext : {b}, v : {c}]
      OBVIOUS
    <3>3. QED
      BY <3>1, <3>2, Zenon
  <2>2. QED
    BY <2>1
<1>5. backend = "memory" \/ res' = {freed(r) : r \in res}
  BY <1>1
<1> HIDE DEF freed
<1>6. \A r \in res' : /\ r = [src |-> r.src, ext |-> r.ext, v |-> r.v]
                      /\ r.src \in Sources \cup {NoSource}
  <2>1. CASE backend = "memory"
    BY <1>1, <2>1 DEF Inv, StoreInv
  <2>2. CASE backend # "memory"
    <3> SUFFICES ASSUME NEW r \in res
                 PROVE  /\ freed(r) = [src |-> freed(r).src, ext |-> freed(r).ext,
                                       v |-> freed(r).v]
                        /\ freed(r).src \in Sources \cup {NoSource}
      BY <1>5, <2>2
    <3>1. QED
      BY <1>4 DEF Inv, StoreInv
  <2>3. QED
    BY <2>1, <2>2
<1>7. NoOrphanRows'
  <2> SUFFICES ASSUME backend = "postgres", NEW r \in res,
                      freed(r).src # NoSource
               PROVE  exists(freed(r).src)'
    BY <1>1, <1>5 DEF NoOrphanRows
  <2>1. r.src # s /\ freed(r).src = r.src /\ r.src \in Sources /\ exists(r.src)
    BY <1>4 DEF Inv, StoreInv, NoOrphanRows
  <2>2. QED
    BY <1>2, <2>1 DEF exists
<1>8. OkMeansStored'
  <2> SUFFICES ASSUME NEW w \in Sources, exists(w)', row'[w].ok,
                      NEW k \in DOMAIN told'[w],
                      NEW x, x = _extract_external_id(told'[w][k])
               PROVE  Kept(w, x)'
    BY DEF OkMeansStored, Kept, _extract_external_id
  <2>1. w # s /\ exists(w) /\ row[w].ok /\ told'[w] = told[w]
    BY <1>2, <1>3 DEF exists
  <2>2. Kept(w, x)
    BY <2>1, OkMeansKept DEF Inv, StoreInv
  <2>3. ASSUME NEW r \in res, r.src = w
        PROVE  \E q \in res' : q.src = w /\ q.ext = r.ext
    BY <1>1, <1>4, <1>5, <2>1, <2>3
  <2>4. QED
    BY <1>1, <2>2, <2>3 DEF Kept
<1>9. JobInv' /\ SchedInv' /\ SettingInv'
  BY <1>1 DEF Inv, JobInv, SchedInv, SettingInv
<1>10. NoneRevived /\ QuietOnceStopped
  BY <1>1, <1>2 DEF Inv, SchedInv, NoneRevived, QuietOnceStopped
<1>11. \A w \in Sources : row'[w].ok => exists(w)'
  BY <1>2 DEF Inv, StoreInv, exists
<1>12. QED
  BY <1>2, <1>3, <1>6, <1>7, <1>8, <1>9, <1>10, <1>11 DEF Inv, StoreInv

\* An operator deletes one resource.
LEMMA DeleteResourceKeeps ==
    ASSUME Inv, NEW r \in res, delete_resource(r)
    PROVE  Inv' /\ NoneRevived /\ QuietOnceStopped
<1>1. /\ res' = res \ {r} /\ dropped = {} /\ dropped' = {[src |-> r.src, ext |-> r.ext]}
      /\ UNCHANGED <<backend, config, row, site, job, sched, told>>
  BY DEF delete_resource
<1>2. NoOrphanRows'
  BY <1>1 DEF Inv, StoreInv, NoOrphanRows, exists
<1>3. OkMeansStored'
  <2>1. \A w, x : Kept(w, x) => Kept(w, x)'
    BY <1>1 DEF Kept
  <2> SUFFICES ASSUME NEW w \in Sources, exists(w), row[w].ok,
                      NEW k \in DOMAIN told[w],
                      NEW x, x = _extract_external_id(told[w][k])
               PROVE  Kept(w, x)'
    BY <1>1 DEF OkMeansStored, Kept, _extract_external_id, exists
  <2>2. Kept(w, x)
    BY OkMeansKept DEF Inv, StoreInv
  <2>3. QED
    BY <2>1, <2>2
<1>4. JobInv' /\ SchedInv' /\ SettingInv'
  BY <1>1 DEF Inv, JobInv, SchedInv, SettingInv
<1>5. NoneRevived /\ QuietOnceStopped
  BY <1>1 DEF Inv, SchedInv, NoneRevived, QuietOnceStopped
<1>6. QED
  BY <1>1, <1>2, <1>3, <1>4, <1>5 DEF Inv, StoreInv, exists

\* The upstream changes, the clock advances: only ages and sites move.
LEMMA EnvironmentKeeps ==
    ASSUME Inv, TimePasses \/ \E s \in Sources : UpstreamChanges(s)
    PROVE  Inv' /\ NoneRevived /\ QuietOnceStopped
<1>1. UNCHANGED <<backend, config, res, job, sched, told, dropped>>
  BY DEF TimePasses, UpstreamChanges
<1>2. JobInv' /\ SchedInv' /\ QuietOnceStopped
  BY <1>1 DEF Inv, JobInv, SchedInv, QuietOnceStopped
<1>3. CASE TimePasses
  <2>1. site' = site
    BY <1>3 DEF TimePasses
  <2>2. SettingInv'
    BY <1>1, <2>1 DEF Inv, SettingInv
  <2>3. \A s \in Sources : Oldest(s) \in Nat
    BY SyncAssumption DEF Inv, SettingInv, Oldest, interval_s, Config
  <2>4. /\ row' \in [Sources -> SourceRow]
        /\ \A s \in Sources : row'[s].st = row[s].st /\ row'[s].ok = row[s].ok
    <3>1. row' = [s \in Sources |-> IF row[s].age = Never THEN row[s]
                     ELSE [row[s] EXCEPT !.age = Min2(row[s].age + 1, Oldest(s))]]
      BY <1>3 DEF TimePasses
    <3>2. ASSUME NEW s \in Sources, row[s].age # Never
          PROVE  Min2(row[s].age + 1, Oldest(s)) \in Nat
      BY <2>3, <3>2 DEF Inv, StoreInv, SourceRow, Min2
    <3>3. QED
      BY <3>1, <3>2 DEF Inv, StoreInv, SourceRow
  <2>5. StoreInv'
    BY <1>1, <2>4 DEF Inv, StoreInv, NoOrphanRows, OkMeansStored, exists
  <2>6. QED
    BY <1>2, <2>2, <2>4, <2>5 DEF Inv, NoneRevived
<1>4. ASSUME NEW s \in Sources, UpstreamChanges(s)
      PROVE  Inv' /\ NoneRevived /\ QuietOnceStopped
  <2>1. row' = row /\ site[s] < Len(Snapshots[s]) /\ site' = [site EXCEPT ![s] = @ + 1]
    BY <1>4 DEF UpstreamChanges
  <2>2. StoreInv' /\ NoneRevived
    BY <1>1, <2>1 DEF Inv, StoreInv, NoOrphanRows, OkMeansStored, exists, NoneRevived
  <2>3. SettingInv'
    BY <1>1, <2>1, SyncAssumption DEF Inv, SettingInv
  <2>4. QED
    BY <1>2, <2>2, <2>3 DEF Inv
<1>5. QED
  BY <1>3, <1>4

\* Another component's statement fails, its late commit ends the aborted transaction
\* or the process is started again: the tables
\* stay as they are, and a scheduler that is stopped is not restarted.
LEMMA CrashKeeps ==
    ASSUME Inv, OtherStatementFails \/ LateCommit \/ Restart
    PROVE  Inv' /\ NoneRevived /\ QuietOnceStopped
<1>1. UNCHANGED <<backend, config, row, res, site, told, dropped>>
  BY DEF OtherStatementFails, LateCommit, Restart
<1>2. StoreInv' /\ SettingInv' /\ NoneRevived
  BY <1>1 DEF Inv, StoreInv, SettingInv, NoOrphanRows, OkMeansStored, exists, NoneRevived
<1>3. JobInv' /\ SchedInv' /\ QuietOnceStopped
  <2>1. CASE OtherStatementFails \/ LateCommit
    <3>1. UNCHANGED <<job, sched>>
      BY <2>1 DEF OtherStatementFails, LateCommit
    <3>2. QED
      BY <3>1 DEF Inv, JobInv, SchedInv, QuietOnceStopped
  <2>2. CASE Restart
    <3>1. /\ sched.stop = "none" /\ job' = [j \in Jobs |-> IdleJob]
          /\ sched' = [pc |-> "sleep", queue |-> <<>>, stop |-> "none"]
      BY <2>2 DEF Restart
    <3>2. JobInv'
      BY <3>1 DEF JobInv, IdleJob
    <3>3. SchedInv' /\ QuietOnceStopped
      BY <3>1 DEF SchedInv, QuietOnceStopped
    <3>4. QED
      BY <3>2, <3>3
  <2>3. QED
    BY <2>1, <2>2
<1>4. QED
  BY <1>2, <1>3 DEF Inv

\* The invariant is inductive, and no step revives a source or moves a stopped
\* scheduler.
LEMMA InvStep == Inv /\ Next => Inv' /\ NoneRevived /\ QuietOnceStopped
  BY JobStepKeeps, CreateKeeps, DeleteSourceKeeps, DeleteResourceKeeps, RequestKeeps,
     SchedulerKeeps, EnvironmentKeeps, CrashKeeps DEF Next

(***************************************************************************)
(* The theorems.                                                           *)
(***************************************************************************)
\* Every reachable state satisfies the invariant.
THEOREM Invariance == Spec => []Inv
<1>1. Inv /\ UNCHANGED vars => Inv'
  BY DEF vars, Inv, StoreInv, JobInv, SchedInv, SettingInv, NoOrphanRows, OkMeansStored, exists
<1>2. QED
  BY <1>1, InvInit, InvStep, PTL DEF Spec

\* With Postgres, no late sync leaves a resource that refers to a deleted
\* source: the foreign key makes its upsert fail.
THEOREM NoResourceIsOrphaned == Spec => []NoOrphanRows
<1>1. Inv => NoOrphanRows
  BY DEF Inv, StoreInv
<1>2. QED
  BY <1>1, Invariance, PTL

\* last_sync_ok is never shown for a sync whose items are not all in the store
\* (an upsert that raises leaves no status), whatever other syncs of the source
\* ran meanwhile.
THEOREM OkIsTrue == Spec => []OkMeansStored
<1>1. Inv => OkMeansStored
  BY DEF Inv, StoreInv
<1>2. QED
  BY <1>1, Invariance, PTL

\* data_sources.update at the end of a late sync does not bring a deleted source
\* back.
THEOREM DeletionIsFinal == Spec => DeletedSourceStaysDeleted
<1>1. Inv /\ [Next]_vars => [NoneRevived]_vars
  BY InvStep
<1>2. QED
  BY <1>1, Invariance, PTL DEF Spec, DeletedSourceStaysDeleted

\* When SyncScheduler.stop has returned, its task syncs nothing more.
THEOREM StopIsFinal == Spec => StoppedIsQuiet
<1>1. Inv /\ [Next]_vars => [QuietOnceStopped]_vars
  BY InvStep
<1>2. QED
  BY <1>1, Invariance, PTL DEF Spec, StoppedIsQuiet
=============================================================================
