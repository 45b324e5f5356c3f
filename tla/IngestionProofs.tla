-------------------------- MODULE IngestionProofs ---------------------------
(***************************************************************************)
(* Proofs about Ingestion, for any number of jobs, workers, posts and      *)
(* faults.                                                                 *)
(***************************************************************************)
EXTENDS Ingestion, TLAPS, FiniteSetTheorems, SequenceTheorems, WellFoundedInduction

\* A set of natural numbers that is not empty has a least element.
LEMMA LeastNat ==
    ASSUME NEW T \in SUBSET Nat, T # {}
    PROVE  \E x \in T : \A y \in T : x <= y
<1> DEFINE R == {ss \in Nat \X Nat : ss[1] < ss[2]}
<1>1. IsWellFoundedOn(R, Nat)
  BY NatLessThanWellFounded DEF OpToRel
<1>2. PICK x \in T : \A y \in T : ~ (<<y, x>> \in R)
  <2> HIDE DEF R
  <2> QED BY <1>1, WFMin
<1>3. ASSUME NEW y \in T PROVE x <= y
  <2>1. ~(<<y, x>> \in R) /\ x \in Nat /\ y \in Nat
    BY <1>2
  <2>2. <<y, x>> \in Nat \X Nat /\ <<y, x>>[1] = y /\ <<y, x>>[2] = x
    BY <2>1
  <2>3. ~(y < x)
    BY <2>1, <2>2
  <2>4. QED BY <2>1, <2>3
<1>4. QED BY <1>3

\* A set of positions up to n that is not empty has a last one.
LEMMA LastPosition ==
    ASSUME NEW n \in Nat, NEW T \in SUBSET (1..n), T # {}
    PROVE  \E x \in T : \A y \in T : y <= x
<1> DEFINE D == {n - x : x \in T}
<1>1. D \in SUBSET Nat /\ D # {}
  <2>1. \A x \in T : x \in Nat /\ x <= n /\ n - x \in Nat
    OBVIOUS
  <2>2. QED
    BY <2>1
<1> HIDE DEF D
<1>2. PICK d \in D : \A e \in D : d <= e
  BY <1>1, LeastNat
<1>3. PICK x \in T : d = n - x
  BY DEF D
<1>4. ASSUME NEW y \in T PROVE y <= x
  <2>1. n - y \in D
    BY DEF D
  <2>2. n - x <= n - y
    BY <1>2, <1>3, <2>1
  <2>3. QED BY <2>2
<1>5. QED BY <1>4

\* Every set of positions can be listed in increasing order, as extract lists
\* the pages that give a chunk.
LEMMA Enumerable ==
    ASSUME NEW m \in Nat
    PROVE  \A S \in SUBSET (1..m) :
             \E f \in [1..Cardinality(S) -> S] :
                \A a, b \in 1..Cardinality(S) : a < b => f[a] < f[b]
<1> DEFINE Listed(S) == \E f \in [1..Cardinality(S) -> S] :
                           \A a, b \in 1..Cardinality(S) : a < b => f[a] < f[b]
<1> DEFINE Bad == {Cardinality(S) : S \in {S \in SUBSET (1..m) : ~Listed(S)}}
<1>0. \A S \in SUBSET (1..m) : IsFiniteSet(S) /\ Cardinality(S) \in Nat
  <2>1. 1 \in Int /\ m \in Int
    OBVIOUS
  <2>2. IsFiniteSet(1..m)
    BY <2>1, FS_Interval
  <2>3. QED
    BY <2>2, FS_Subset, FS_CardinalityType
<1>1. SUFFICES ASSUME Bad # {} PROVE FALSE
  <2>1. ASSUME Bad = {} PROVE \A S \in SUBSET (1..m) : Listed(S)
    BY <2>1
  <2>2. QED
    BY <2>1
<1> HIDE DEF Listed
<1>2. Bad \in SUBSET Nat
  BY <1>0
<1>3. PICK c \in Bad : \A d \in Bad : c <= d
  <2> HIDE DEF Bad
  <2> QED BY <1>1, <1>2, LeastNat
<1>4. PICK S \in SUBSET (1..m) : ~Listed(S) /\ c = Cardinality(S)
  BY <1>3
<1>5. S # {}
  <2> SUFFICES ASSUME S = {} PROVE FALSE
    OBVIOUS
  <2>1. Cardinality(S) = 0
    BY FS_EmptySet
  <2>2. [a \in {} |-> a] \in [1..0 -> S] /\ 1..0 = {}
    OBVIOUS
  <2>3. Listed(S)
    BY <2>1, <2>2 DEF Listed
  <2>4. QED
    BY <1>4, <2>3
<1>6. PICK x \in S : \A y \in S : y <= x
  BY <1>4, <1>5, LastPosition
<1> DEFINE P == S \ {x}
<1>7. /\ P \in SUBSET (1..m) /\ Cardinality(P) = c - 1 /\ Cardinality(P) \in Nat /\ c \in Nat
  <2>1. IsFiniteSet(S) /\ P \in SUBSET (1..m)
    BY <1>0, <1>4
  <2>2. Cardinality(P) = Cardinality(S) - 1
    BY <1>6, <2>1, FS_RemoveElement
  <2>3. QED
    BY <1>0, <1>4, <2>1, <2>2
<1>8. Listed(P)
  <2>1. ~(c <= c - 1)
    BY <1>7
  <2>2. Cardinality(P) \notin Bad
    BY <1>3, <1>7, <2>1
  <2>3. QED
    BY <1>7, <2>2
<1>9. PICK f \in [1..(c - 1) -> P] : \A a, b \in 1..(c - 1) : a < b => f[a] < f[b]
  BY <1>7, <1>8 DEF Listed
<1> DEFINE g == [k \in 1..c |-> IF k = c THEN x ELSE f[k]]
<1>10. \A k \in 1..c : k # c => k \in 1..(c - 1)
  BY <1>7
<1>11. /\ g \in [1..c -> S]
       /\ \A a, b \in 1..c : a < b => g[a] < g[b]
  <2>1. \A k \in 1..(c - 1) : f[k] \in S /\ f[k] # x
    BY <1>9
  <2>2. g \in [1..c -> S]
    BY <1>6, <1>10, <2>1
  <2>3. ASSUME NEW a \in 1..c, NEW b \in 1..c, a < b PROVE g[a] < g[b]
    <3>1. a # c /\ a \in 1..(c - 1) /\ g[a] = f[a] /\ a \in Nat
      BY <1>7, <1>10, <2>3
    <3>2. CASE b = c
      <4>1. g[b] = x /\ f[a] \in S /\ f[a] # x /\ f[a] \in Nat /\ x \in Nat
        <5>1. f[a] \in S /\ f[a] # x /\ \A y \in S : y \in Nat
          BY <1>4, <2>1, <3>1
        <5>2. g[b] = x
          BY <3>2
        <5>3. QED
          BY <1>6, <5>1, <5>2
      <4>2. f[a] <= x
        BY <1>6, <4>1
      <4>3. QED
        BY <3>1, <4>1, <4>2
    <3>3. CASE b # c
      BY <1>9, <1>10, <2>3, <3>1, <3>3
    <3>4. QED
      BY <3>2, <3>3
  <2>4. QED
    BY <2>2, <2>3
<1>12. Listed(S)
  <2> HIDE DEF g
  <2> QED BY <1>4, <1>11 DEF Listed
<1>13. QED
  BY <1>4, <1>12

(***************************************************************************)
(* Extraction and the fact store.                                          *)
(***************************************************************************)
\* A file's chunks are a sequence: as many as it has pages to give, or one.
LEMMA ChunksAreASequence ==
    ASSUME NEW j \in Jobs
    PROVE  /\ Len(extract(j)) \in Nat
           /\ DOMAIN extract(j) = 1..Len(extract(j))
<1>1. CASE Kind[j] = "media"
  BY <1>1 DEF extract
<1>2. CASE Kind[j] # "media"
  <2> DEFINE c == Cardinality(Full(j))
  <2>1. c \in Nat
    <3>1. 1 \in Int /\ Len(Pages[j]) \in Int
      BY IngestionAssumption
    <3>2. IsFiniteSet(1..Len(Pages[j]))
      BY <3>1, FS_Interval
    <3>3. Full(j) \subseteq 1..Len(Pages[j])
      BY DEF Full
    <3>4. QED
      BY <3>2, <3>3, FS_Subset, FS_CardinalityType
  <2> HIDE DEF c
  <2> DEFINE at(k) == position(j, k)
  <2> DEFINE S == {at(k) : k \in 1..c}
  <2>2. extract(j) = [k \in 1..c |-> at(k)]
    BY <1>2 DEF extract, c
  <2> HIDE DEF at
  <2>3. extract(j) \in [1..c -> S]
    BY <2>2
  <2> HIDE DEF S
  <2>4. QED
    BY <2>1, <2>3
<1>3. QED
  BY <1>1, <1>2

\* The fact store is a sequence.
IsSeq(s) == \E S : s \in Seq(S)

\* add_fact appends the first n chunks and leaves the older facts in place.
LEMMA Appended ==
    ASSUME IsSeq(facts), NEW from, NEW positions, NEW n \in Nat,
           facts' = added(from, positions, n)
    PROVE  /\ IsSeq(facts') /\ Len(facts') = Len(facts) + n
           /\ Len(facts) \in Nat
           /\ \A i \in 1..Len(facts) : facts'[i] = facts[i]
           /\ \A i \in 1..n : /\ facts'[Len(facts) + i].from = from
                              /\ facts'[Len(facts) + i].pos = positions[i]
<1> DEFINE block == [i \in 1..n |-> [from |-> from, pos |-> positions[i]]]
<1>1. PICK S : facts \in Seq(S)
  BY DEF IsSeq
<1> DEFINE B == {block[i] : i \in 1..n}
<1>2. block \in Seq(B) /\ Len(block) = n
  <2>1. block \in [1..n -> B]
    OBVIOUS
  <2> HIDE DEF block, B
  <2>2. QED
    BY <2>1
<1>3. \A i \in 1..n : block[i].from = from /\ block[i].pos = positions[i]
  OBVIOUS
<1>4. facts' = facts \o block
  BY DEF added
<1> HIDE DEF block, B
<1>5. facts \in Seq(S \cup B) /\ block \in Seq(S \cup B)
  BY <1>1, <1>2, SeqMonotonic
<1>6. /\ facts' \in Seq(S \cup B) /\ Len(facts') = Len(facts) + n
      /\ \A i \in 1..(Len(facts) + n) :
            facts'[i] = IF i <= Len(facts) THEN facts[i] ELSE block[i - Len(facts)]
  <2>1. /\ facts \o block \in Seq(S \cup B)
        /\ Len(facts \o block) = Len(facts) + Len(block)
        /\ \A i \in 1..(Len(facts) + Len(block)) : (facts \o block)[i] =
              IF i <= Len(facts) THEN facts[i] ELSE block[i - Len(facts)]
    BY <1>5, ConcatProperties
  <2>2. QED
    BY <1>2, <1>4, <2>1
<1>7. Len(facts) \in Nat
  BY <1>1
<1>8. IsSeq(facts')
  BY <1>6 DEF IsSeq
<1>9. \A i \in 1..Len(facts) : facts'[i] = facts[i]
  BY <1>6, <1>7
<1>10. ASSUME NEW i \in 1..n
       PROVE  facts'[Len(facts) + i] = block[i]
  <2>1. /\ Len(facts) + i \in 1..(Len(facts) + n) /\ ~(Len(facts) + i <= Len(facts))
        /\ (Len(facts) + i) - Len(facts) = i
    BY <1>7
  <2>2. QED
    BY <1>6, <2>1
<1>11. QED
  BY <1>3, <1>6, <1>7, <1>8, <1>9, <1>10

\* InOrder lists every element of a set of positions once, in increasing order.
LEMMA InOrderLists ==
    ASSUME NEW m \in Nat, NEW S \in SUBSET (1..m)
    PROVE  /\ InOrder(S) \in [1..Cardinality(S) -> S]
           /\ \A a, b \in 1..Cardinality(S) : a < b => InOrder(S)[a] < InOrder(S)[b]
           /\ \A x \in S : \E k \in 1..Cardinality(S) : InOrder(S)[k] = x
<1> DEFINE c == Cardinality(S)
<1> DEFINE f == InOrder(S)
<1>1. f \in [1..c -> S] /\ \A a, b \in 1..c : a < b => f[a] < f[b]
  <2>1. \E g \in [1..c -> S] : \A a, b \in DOMAIN g : a < b => g[a] < g[b]
    BY Enumerable
  <2> HIDE DEF c
  <2>2. /\ InOrder(S) \in [1..c -> S]
        /\ \A a, b \in DOMAIN InOrder(S) : a < b => InOrder(S)[a] < InOrder(S)[b]
    BY <2>1 DEF InOrder, c
  <2>3. QED
    BY <2>2
<1>2. IsFiniteSet(S) /\ c \in Nat
  <2>1. 1 \in Int /\ m \in Int
    OBVIOUS
  <2>2. IsFiniteSet(1..m)
    BY <2>1, FS_Interval
  <2>3. QED
    BY <2>2, FS_Subset, FS_CardinalityType
<1> HIDE DEF c, f
<1>3. IsFiniteSet(1..c) /\ Cardinality(1..c) = c
  <2>1. 1 \in Int /\ c \in Int /\ (~(1 > c) => c - 1 + 1 = c) /\ (1 > c => c = 0)
    BY <1>2
  <2>2. QED
    BY <2>1, FS_Interval
<1>4. f \in Injection(1..c, S)
  <2>1. ASSUME NEW a \in 1..c, NEW b \in 1..c, f[a] = f[b] PROVE a = b
    <3>1. f[a] \in Nat /\ f[b] \in Nat
      <4>1. f[a] \in S /\ f[b] \in S
        BY <1>1
      <4>2. \A x \in S : x \in Nat
        OBVIOUS
      <4>3. QED
        BY <4>1, <4>2
    <3>2. ~(f[a] < f[b]) /\ ~(f[b] < f[a])
      BY <2>1, <3>1
    <3>3. ~(a < b) /\ ~(b < a)
      BY <1>1, <3>2
    <3>4. QED
      BY <3>3
  <2>2. QED
    BY <1>1, <2>1 DEF Injection, IsInjective
<1>5. f \in Surjection(1..c, S)
  BY <1>2, <1>3, <1>4, FS_Injection DEF c
<1>6. QED
  BY <1>1, <1>5 DEF Surjection, c, f

\* The k-th of a set of positions has k - 1 of them before it.
LEMMA BeforeTheKth ==
    ASSUME NEW m \in Nat, NEW S \in SUBSET (1..m), NEW k \in 1..Cardinality(S)
    PROVE  Cardinality({x \in S : x < InOrder(S)[k]}) = k - 1
<1> DEFINE c == Cardinality(S)
<1> DEFINE f == InOrder(S)
<1> DEFINE B == {x \in S : x < f[k]}
<1>1. /\ f \in [1..c -> S]
      /\ \A a, b \in 1..c : a < b => f[a] < f[b]
      /\ \A x \in S : \E i \in 1..c : f[i] = x
  BY InOrderLists
<1>2. c \in Nat /\ k \in 1..c
  <2>1. 1 \in Int /\ m \in Int
    OBVIOUS
  <2>2. IsFiniteSet(1..m)
    BY <2>1, FS_Interval
  <2>3. QED
    BY <2>2, FS_Subset, FS_CardinalityType
<1> HIDE DEF c, f
<1>3. \A i \in 1..c : f[i] \in S /\ f[i] \in Nat
  <2>1. \A x \in S : x \in Nat
    OBVIOUS
  <2>2. QED
    BY <1>1, <2>1
<1>4. \A a, b \in 1..c : (f[a] < f[b] <=> a < b) /\ (f[a] = f[b] => a = b)
  <2> SUFFICES ASSUME NEW a \in 1..c, NEW b \in 1..c
               PROVE  (f[a] < f[b] <=> a < b) /\ (f[a] = f[b] => a = b)
    OBVIOUS
  <2>1. f[a] \in Nat /\ f[b] \in Nat /\ a \in Nat /\ b \in Nat
    BY <1>2, <1>3
  <2>2. (a < b => f[a] < f[b]) /\ (b < a => f[b] < f[a])
    BY <1>1
  <2>3. QED
    BY <2>1, <2>2
<1>5. k - 1 \in Nat /\ \A i \in 1..(k - 1) : i \in 1..c /\ i < k
  BY <1>2
<1> DEFINE g == [i \in 1..(k - 1) |-> f[i]]
<1>6. g \in [1..(k - 1) -> B]
  <2>1. \A i \in 1..(k - 1) : f[i] \in S /\ f[i] < f[k]
    BY <1>2, <1>3, <1>4, <1>5
  <2>2. QED
    BY <2>1
<1>7. \A a, b \in 1..(k - 1) : g[a] = g[b] => a = b
  BY <1>4, <1>5
<1>8. \A x \in B : \E i \in 1..(k - 1) : g[i] = x
  <2> SUFFICES ASSUME NEW x \in B PROVE \E i \in 1..(k - 1) : g[i] = x
    OBVIOUS
  <2>1. PICK i \in 1..c : f[i] = x
    BY <1>1
  <2>2. i < k
    BY <1>2, <1>4, <2>1
  <2>3. i \in 1..(k - 1)
    BY <1>2, <2>2
  <2>4. QED
    BY <2>1, <2>3
<1>9. g \in Bijection(1..(k - 1), B)
  <2> HIDE DEF g, B
  <2> QED BY <1>6, <1>7, <1>8 DEF Bijection, Injection, Surjection, IsInjective
<1>10. Cardinality(B) = k - 1
  <2>1. ExistsBijection(1..(k - 1), B)
    BY <1>9 DEF ExistsBijection
  <2> HIDE DEF B
  <2>2. QED
    BY <1>5, <2>1, FS_CountingElements
<1>11. QED
  BY <1>10 DEF f

\* There is a chunk for each page that gives one, and it says where the page is.
LEMMA ChunkOfPage ==
    ASSUME NEW j \in Jobs, Kind[j] # "media"
    PROVE  /\ Len(extract(j)) = Cardinality(Full(j))
           /\ \A p \in Full(j) : \E k \in 1..Len(extract(j)) : extract(j)[k] = Place(j, p)
<1> DEFINE S == Full(j)
<1> DEFINE c == Cardinality(S)
<1>1. Len(Pages[j]) \in Nat /\ S \in SUBSET (1..Len(Pages[j]))
  BY IngestionAssumption DEF Full
<1>2. extract(j) = [k \in 1..c |-> position(j, k)]
  BY DEF extract
<1>3. c \in Nat
  <2>1. 1 \in Int /\ Len(Pages[j]) \in Int
    BY <1>1
  <2>2. IsFiniteSet(1..Len(Pages[j]))
    BY <2>1, FS_Interval
  <2>3. QED
    BY <1>1, <2>2, FS_Subset, FS_CardinalityType
<1>4. Len(extract(j)) = c
  <2>1. DOMAIN extract(j) = 1..Len(extract(j)) /\ Len(extract(j)) \in Nat
    BY ChunksAreASequence
  <2> HIDE DEF c
  <2>2. 1..c = 1..Len(extract(j))
    BY <1>2, <2>1
  <2> DEFINE d == Len(extract(j))
  <2>3. d \in Nat /\ 1..c = 1..d
    BY <2>1, <2>2
  <2> HIDE DEF d
  <2>4. (c >= 1 => c \in 1..d) /\ (d >= 1 => d \in 1..c)
    BY <1>3, <2>3
  <2>5. c = d
    BY <1>3, <2>3, <2>4
  <2>6. QED
    BY <2>5 DEF d
<1>5. ASSUME NEW p \in S PROVE \E k \in 1..c : extract(j)[k] = Place(j, p)
  <2>1. PICK k \in 1..c : InOrder(S)[k] = p
    BY <1>1, InOrderLists
  <2>2. extract(j)[k] = position(j, k)
    BY <1>2
  <2>3. Cardinality({x \in S : x < p}) = k - 1
    BY <1>1, <2>1, BeforeTheKth
  <2>4. position(j, k) = Place(j, p)
    BY <2>1, <2>3 DEF position, Place
  <2>5. QED
    BY <2>2, <2>4
<1>6. QED
  BY <1>4, <1>5

(***************************************************************************)
(* The inductive invariant.                                                *)
(***************************************************************************)
Busy == {w \in Workers : worker[w].pc = "extract"}

Worker == [pc : {"new", "loop", "extract", "over", "dead"}, job : Jobs \cup {NoJob}]

\* A job waits once in the queue or is with one worker, and its fate says which.
QueueInv ==
    /\ queue \in Seq(Jobs)
    /\ worker \in [Workers -> Worker]
    /\ fate \in [Jobs -> {"none", "queued", "taken", "stored", "failed"}]
    /\ \A i \in 1..Len(queue) : fate[queue[i]] = "queued"
    /\ \A i, k \in 1..Len(queue) : queue[i] = queue[k] => i = k
    /\ \A w \in Busy : worker[w].job \in Jobs /\ fate[worker[w].job] = "taken"
    /\ \A v, w \in Busy : worker[v].job = worker[w].job => v = w

\* The facts of job j.
Stored(j) ==
    \E a \in 0..Len(facts), n \in 0..Len(extract(j)) :
        /\ a + n <= Len(facts)
        /\ \A i \in 1..Len(facts) : facts[i].from = j <=> i \in (a + 1)..(a + n)
        /\ \A i \in 1..n : facts[a + i].pos = extract(j)[i]
        /\ fate[j] = "stored" => n = Len(extract(j))
        /\ fate[j] \in {"none", "queued", "taken"} => n = 0

FactInv ==
    /\ IsSeq(facts)
    /\ \A j \in Jobs : Stored(j)

Inv == QueueInv /\ FactInv /\ JoinIsExact

\* The queue is empty and nothing is stored at the start.
LEMMA InvInit == Init => Inv
<1> SUFFICES ASSUME Init PROVE Inv
  OBVIOUS
<1>1. Busy = {} /\ queue = <<>> /\ Len(<<>>) = 0
  BY DEF Init, Busy
<1>2. QueueInv
  BY <1>1 DEF Init, QueueInv, Worker
<1>3. facts = <<>> /\ IsSeq(facts)
  BY DEF Init, IsSeq
<1>4. ASSUME NEW j \in Jobs PROVE Stored(j)
  <2>1. Len(extract(j)) \in Nat
    BY ChunksAreASequence
  <2>2. fate[j] = "none"
    BY DEF Init
  <2>3. 0 \in 0..Len(facts) /\ 0 \in 0..Len(extract(j)) /\ 0 + 0 <= Len(facts) /\ Len(facts) = 0
    BY <1>3, <2>1
  <2>4. QED
    BY <2>2, <2>3 DEF Stored
<1>5. JoinIsExact
  <2>1. Cardinality(Busy) = 0
    BY <1>1, FS_EmptySet
  <2>2. QED
    BY <1>1, <2>1 DEF JoinIsExact, Busy, Init
<1>6. QED
  BY <1>2, <1>3, <1>4, <1>5 DEF Inv, FactInv

\* Steps that store nothing and settle no job leave the facts as they should be.
LEMMA SameFacts ==
    ASSUME FactInv, UNCHANGED facts,
           \A j \in Jobs : \/ fate'[j] = fate[j]
                           \/ /\ fate[j] \in {"none", "queued", "taken"}
                              /\ fate'[j] # "stored"
    PROVE  FactInv'
<1> SUFFICES ASSUME NEW j \in Jobs PROVE Stored(j)'
  BY DEF FactInv
<1>1. PICK a \in 0..Len(facts), n \in 0..Len(extract(j)) :
        /\ a + n <= Len(facts)
        /\ \A i \in 1..Len(facts) : facts[i].from = j <=> i \in (a + 1)..(a + n)
        /\ \A i \in 1..n : facts[a + i].pos = extract(j)[i]
        /\ fate[j] = "stored" => n = Len(extract(j))
        /\ fate[j] \in {"none", "queued", "taken"} => n = 0
  BY DEF FactInv, Stored
<1>2. /\ fate'[j] = "stored" => n = Len(extract(j))
      /\ fate'[j] \in {"none", "queued", "taken"} => n = 0
  <2>1. fate'[j] = fate[j] \/ (fate[j] \in {"none", "queued", "taken"} /\ fate'[j] # "stored")
    OBVIOUS
  <2>2. QED
    BY <1>1, <2>1
<1>3. QED
  BY <1>1, <1>2 DEF Stored

\* Facts of one origin are added behind all others: those of the other jobs
\* stand where they stood.
LEMMA OthersFacts ==
    ASSUME FactInv, NEW from, NEW positions, NEW n \in Nat,
           facts' = added(from, positions, n),
           NEW j \in Jobs, j # from, fate'[j] = fate[j]
    PROVE  Stored(j)'
<1>1. /\ Len(facts') = Len(facts) + n /\ Len(facts) \in Nat
      /\ \A i \in 1..Len(facts) : facts'[i] = facts[i]
      /\ \A i \in 1..n : facts'[Len(facts) + i].from = from
  BY Appended DEF FactInv
<1>2. PICK a \in 0..Len(facts), m \in 0..Len(extract(j)) :
        /\ a + m <= Len(facts)
        /\ \A i \in 1..Len(facts) : facts[i].from = j <=> i \in (a + 1)..(a + m)
        /\ \A i \in 1..m : facts[a + i].pos = extract(j)[i]
        /\ fate[j] = "stored" => m = Len(extract(j))
        /\ fate[j] \in {"none", "queued", "taken"} => m = 0
  BY DEF FactInv, Stored
<1>3. Len(extract(j)) \in Nat
  BY ChunksAreASequence
<1>4. a \in 0..Len(facts') /\ a + m <= Len(facts')
  BY <1>1, <1>2
<1>5. ASSUME NEW i \in 1..Len(facts')
      PROVE  facts'[i].from = j <=> i \in (a + 1)..(a + m)
  <2>1. CASE i <= Len(facts)
    BY <1>1, <1>2, <2>1
  <2>2. CASE i > Len(facts)
    <3>1. i - Len(facts) \in 1..n /\ Len(facts) + (i - Len(facts)) = i
      BY <1>1, <2>2
    <3>2. facts'[i].from = from
      BY <1>1, <3>1
    <3>3. i \notin (a + 1)..(a + m)
      BY <1>1, <1>2, <1>3, <2>2
    <3>4. QED
      BY <3>2, <3>3
  <2>3. QED
    BY <1>1, <2>1, <2>2
<1>6. ASSUME NEW i \in 1..m PROVE facts'[a + i].pos = extract(j)[i]
  <2>1. a + i \in 1..Len(facts)
    BY <1>1, <1>2, <1>3
  <2>2. QED
    BY <1>1, <1>2, <2>1
<1>7. QED
  BY <1>2, <1>4, <1>5, <1>6 DEF Stored

\* A worker adds the facts of its job behind all others: the job had none before.
LEMMA OwnFacts ==
    ASSUME FactInv, NEW j \in Jobs, NEW n \in 0..Len(extract(j)),
           facts' = added(j, extract(j), n), fate[j] = "taken",
           (fate'[j] = "stored" /\ n = Len(extract(j))) \/ fate'[j] = "failed"
    PROVE  Stored(j)'
<1>0. Len(extract(j)) \in Nat /\ n \in Nat /\ n <= Len(extract(j))
  BY ChunksAreASequence
<1>1. /\ Len(facts') = Len(facts) + n /\ Len(facts) \in Nat
      /\ \A i \in 1..Len(facts) : facts'[i] = facts[i]
      /\ \A i \in 1..n : /\ facts'[Len(facts) + i].from = j
                         /\ facts'[Len(facts) + i].pos = extract(j)[i]
  <2> DEFINE chunks == extract(j)
  <2>1. IsSeq(facts) /\ n \in Nat /\ facts' = added(j, chunks, n)
    BY <1>0 DEF FactInv
  <2> HIDE DEF chunks
  <2>2. /\ Len(facts') = Len(facts) + n /\ Len(facts) \in Nat
        /\ \A i \in 1..Len(facts) : facts'[i] = facts[i]
        /\ \A i \in 1..n : /\ facts'[Len(facts) + i].from = j
                           /\ facts'[Len(facts) + i].pos = chunks[i]
    BY <2>1, Appended
  <2>3. QED
    BY <2>2 DEF chunks
<1>2. \A i \in 1..Len(facts) : facts[i].from # j
  <2>1. PICK a \in 0..Len(facts), m \in 0..Len(extract(j)) :
          /\ \A i \in 1..Len(facts) : facts[i].from = j <=> i \in (a + 1)..(a + m)
          /\ fate[j] \in {"none", "queued", "taken"} => m = 0
    BY DEF FactInv, Stored
  <2>2. m = 0 /\ (a + 1)..(a + 0) = {}
    BY <1>1, <2>1
  <2>3. QED
    BY <2>1, <2>2
<1>3. ASSUME NEW i \in 1..Len(facts')
      PROVE  facts'[i].from = j <=> i \in (Len(facts) + 1)..(Len(facts) + n)
  <2>1. CASE i <= Len(facts)
    <3>1. i \in 1..Len(facts) /\ i \notin (Len(facts) + 1)..(Len(facts) + n)
      BY <1>1, <2>1
    <3>2. QED
      BY <1>1, <1>2, <3>1
  <2>2. CASE i > Len(facts)
    <3>1. /\ i - Len(facts) \in 1..n /\ Len(facts) + (i - Len(facts)) = i
          /\ i \in (Len(facts) + 1)..(Len(facts) + n)
      BY <1>1, <2>2
    <3>2. facts'[i].from = j
      BY <1>1, <3>1
    <3>3. QED
      BY <3>1, <3>2
  <2>3. QED
    BY <1>1, <2>1, <2>2
<1> DEFINE a == Len(facts)
<1>4. a \in 0..Len(facts') /\ a + n <= Len(facts')
  BY <1>0, <1>1
<1> HIDE DEF a
<1>5. /\ \A i \in 1..Len(facts') : facts'[i].from = j <=> i \in (a + 1)..(a + n)
      /\ \A i \in 1..n : facts'[a + i].pos = extract(j)[i]
  BY <1>1, <1>3 DEF a
<1>6. /\ fate'[j] = "stored" => n = Len(extract(j))
      /\ fate'[j] \notin {"none", "queued", "taken"}
  OBVIOUS
<1>7. QED
  BY <1>0, <1>4, <1>5, <1>6 DEF Stored

(***************************************************************************)
(* The actions.                                                            *)
(***************************************************************************)
\* The workers that are busy can be counted.
LEMMA BusyIsFinite == IsFiniteSet(Busy) /\ Cardinality(Busy) \in Nat
<1>1. IsFiniteSet(Busy)
  BY IngestionAssumption, FS_Subset DEF Busy
<1>2. QED
  BY <1>1, FS_CardinalityType

\* One worker more or one less is busy.
LEMMA BusyCount ==
    ASSUME NEW w \in Workers
    PROVE  /\ (w \notin Busy /\ Busy' = Busy \cup {w})
                => Cardinality(Busy') = Cardinality(Busy) + 1
           /\ (w \in Busy /\ Busy' = Busy \ {w})
                => Cardinality(Busy') = Cardinality(Busy) - 1
<1>1. IsFiniteSet(Busy)
  BY BusyIsFinite
<1>2. ASSUME w \notin Busy PROVE Cardinality(Busy \cup {w}) = Cardinality(Busy) + 1
  BY <1>1, <1>2, FS_AddElement
<1>3. ASSUME w \in Busy PROVE Cardinality(Busy \ {w}) = Cardinality(Busy) - 1
  BY <1>1, <1>3, FS_RemoveElement
<1>4. QED
  BY <1>2, <1>3

\* What JoinIsExact counts.
LEMMA JoinCount == JoinIsExact <=> unfinished = Len(queue) + Cardinality(Busy)
  BY DEF JoinIsExact, Busy

\* Workers that start or leave, and stop: no job moves.
LEMMA IdleStepKeeps ==
    ASSUME Inv, SetStop \/ \E w \in Workers : Start(w) \/ Leave(w)
    PROVE  Inv'
<1>1. UNCHANGED <<queue, unfinished, facts, fate>>
  BY DEF SetStop, Start, Leave
<1>2. worker' \in [Workers -> Worker] /\ Busy' = Busy /\ \A w \in Busy : worker'[w] = worker[w]
  <2>1. CASE SetStop
    BY <2>1 DEF SetStop, Inv, QueueInv, Busy
  <2>2. ASSUME NEW w \in Workers, Start(w) \/ Leave(w)
        PROVE  /\ worker' \in [Workers -> Worker] /\ Busy' = Busy
               /\ \A v \in Busy : worker'[v] = worker[v]
    <3> DEFINE pc == IF worker[w].pc = "new" THEN "loop" ELSE "over"
    <3>1. /\ worker' = [worker EXCEPT ![w].pc = pc] /\ worker[w].pc \in {"new", "loop"}
      BY <2>2 DEF Start, Leave
    <3>2. pc \in {"loop", "over"}
      OBVIOUS
    <3> HIDE DEF pc
    <3>3. QED
      BY <3>1, <3>2 DEF Inv, QueueInv, Worker, Busy
  <2>3. QED
    BY <2>1, <2>2
<1>3. QueueInv'
  BY <1>1, <1>2 DEF Inv, QueueInv
<1>4. FactInv'
  BY <1>1, SameFacts DEF Inv
<1>5. JoinIsExact'
  <2>1. unfinished = Len(queue) + Cardinality(Busy)
    BY JoinCount DEF Inv
  <2>2. QED
    BY <1>1, <1>2, <2>1 DEF JoinIsExact, Busy
<1>6. QED
  BY <1>3, <1>4, <1>5 DEF Inv

\* A job is put: it waits behind the others.
LEMMA PutKeeps ==
    ASSUME Inv, NEW j \in Jobs, put(j)
    PROVE  Inv'
<1>1. /\ fate[j] = "none" /\ queue' = Append(queue, j) /\ unfinished' = unfinished + 1
      /\ fate' = [fate EXCEPT ![j] = "queued"] /\ UNCHANGED <<worker, facts>>
  BY DEF put
<1>2. /\ queue' \in Seq(Jobs) /\ Len(queue') = Len(queue) + 1 /\ Len(queue) \in Nat
      /\ \A i \in 1..Len(queue) : queue'[i] = queue[i]
      /\ queue'[Len(queue) + 1] = j
  BY <1>1, AppendProperties DEF Inv, QueueInv
<1>3. \A i \in 1..Len(queue) : queue[i] # j /\ fate'[queue[i]] = "queued"
  <2>1. \A i \in 1..Len(queue) : queue[i] \in Jobs /\ fate[queue[i]] = "queued"
    BY DEF Inv, QueueInv
  <2>2. QED
    BY <1>1, <2>1 DEF Inv, QueueInv
<1>4. fate'[j] = "queued"
  BY <1>1 DEF Inv, QueueInv
<1>5. \A i \in 1..Len(queue') : fate'[queue'[i]] = "queued"
  BY <1>2, <1>3, <1>4
<1>6. \A i, k \in 1..Len(queue') : queue'[i] = queue'[k] => i = k
  <2>1. \A i, k \in 1..Len(queue) : queue[i] = queue[k] => i = k
    BY DEF Inv, QueueInv
  <2>2. \A i \in 1..Len(queue') : i \in 1..Len(queue) \/ i = Len(queue) + 1
    BY <1>2
  <2>3. QED
    BY <1>2, <1>3, <2>1, <2>2
<1>7. Busy' = Busy
  BY <1>1 DEF Busy
<1>8. QueueInv'
  BY <1>1, <1>2, <1>5, <1>6, <1>7 DEF Inv, QueueInv
<1>9. FactInv'
  BY <1>1, SameFacts DEF Inv, QueueInv
<1>10. JoinIsExact'
  <2>1. unfinished = Len(queue) + Cardinality(Busy) /\ Cardinality(Busy) \in Nat
    BY JoinCount, BusyIsFinite DEF Inv
  <2>2. unfinished' = Len(queue') + Cardinality(Busy')
    BY <1>1, <1>2, <1>7, <2>1
  <2>3. QED
    BY <2>2 DEF JoinIsExact, Busy
<1>11. QED
  BY <1>8, <1>9, <1>10 DEF Inv

\* A worker takes the first job, or dies of a suffix that nobody extracts.
LEMMA GetKeeps ==
    ASSUME Inv, NEW w \in Workers, Get(w)
    PROVE  Inv'
<1> DEFINE j == Head(queue)
<1>1. /\ worker[w].pc = "loop" /\ queue # <<>> /\ queue' = Tail(queue) /\ UNCHANGED facts
      /\ IF Supported(j)
         THEN /\ worker' = [worker EXCEPT ![w] = [pc |-> "extract", job |-> j]]
              /\ fate' = [fate EXCEPT ![j] = "taken"]
              /\ UNCHANGED unfinished
         ELSE /\ worker' = [worker EXCEPT ![w].pc = "dead"]
              /\ fate' = [fate EXCEPT ![j] = "failed"]
              /\ unfinished' = unfinished - 1
  BY DEF Get
<1>2. /\ queue \in Seq(Jobs) /\ Len(queue) \in Nat \ {0} /\ j = queue[1] /\ j \in Jobs
      /\ queue' \in Seq(Jobs) /\ Len(queue') = Len(queue) - 1
      /\ \A i \in 1..Len(queue') : queue'[i] = queue[i + 1]
  <2>1. queue \in Seq(Jobs)
    BY DEF Inv, QueueInv
  <2>2. QED
    BY <1>1, <2>1, HeadTailProperties, EmptySeq
<1>3. 1 \in 1..Len(queue) /\ fate[j] = "queued"
  BY <1>2 DEF Inv, QueueInv
<1> HIDE DEF j
<1>4. \A i \in 1..Len(queue') : /\ i + 1 \in 1..Len(queue) /\ i + 1 # 1
                                /\ queue'[i] \in Jobs /\ queue'[i] # j
                                /\ fate[queue'[i]] = "queued"
  <2> SUFFICES ASSUME NEW i \in 1..Len(queue')
               PROVE  /\ i + 1 \in 1..Len(queue) /\ i + 1 # 1
                      /\ queue'[i] \in Jobs /\ queue'[i] # j
                      /\ fate[queue'[i]] = "queued"
    OBVIOUS
  <2>1. i + 1 \in 1..Len(queue) /\ i + 1 # 1
    BY <1>2
  <2>2. queue[i + 1] \in Jobs /\ fate[queue[i + 1]] = "queued"
    BY <1>2, <2>1 DEF Inv, QueueInv
  <2>3. queue[i + 1] # j
    BY <1>2, <1>3, <2>1 DEF Inv, QueueInv
  <2>4. QED
    BY <1>2, <2>1, <2>2, <2>3
<1>5. \A i, k \in 1..Len(queue') : queue'[i] = queue'[k] => i = k
  <2> SUFFICES ASSUME NEW i \in 1..Len(queue'), NEW k \in 1..Len(queue'), queue'[i] = queue'[k]
               PROVE  i = k
    OBVIOUS
  <2>1. i + 1 \in 1..Len(queue) /\ k + 1 \in 1..Len(queue) /\ queue[i + 1] = queue[k + 1]
    BY <1>2, <1>4
  <2>2. i + 1 = k + 1
    BY <2>1 DEF Inv, QueueInv
  <2>3. QED
    BY <1>2, <2>2
<1>6. /\ fate' \in [Jobs -> {"none", "queued", "taken", "stored", "failed"}]
      /\ fate'[j] = IF Supported(j) THEN "taken" ELSE "failed"
      /\ \A i \in Jobs : i # j => fate'[i] = fate[i]
  BY <1>1, <1>2 DEF Inv, QueueInv
<1>7. \A v \in Busy : worker[v].job # j /\ v # w /\ worker'[v] = worker[v]
  <2>1. \A v \in Busy : v \in Workers /\ fate[worker[v].job] = "taken" /\ v # w
    BY <1>1 DEF Inv, QueueInv, Busy
  <2>2. QED
    BY <1>1, <1>3, <2>1 DEF Inv, QueueInv
<1>8. w \notin Busy
  BY <1>1 DEF Busy
<1>9. unfinished = Len(queue) + Cardinality(Busy) /\ Cardinality(Busy) \in Nat
  BY JoinCount, BusyIsFinite DEF Inv
<1>10. /\ worker' \in [Workers -> Worker]
       /\ Busy' = IF Supported(j) THEN Busy \cup {w} ELSE Busy
       /\ Supported(j) => worker'[w].job = j
  <2>0. worker \in [Workers -> Worker]
    BY DEF Inv, QueueInv
  <2>1. CASE Supported(j)
    <3> DEFINE new == [pc |-> "extract", job |-> j]
    <3>1. new \in Worker /\ new.pc = "extract" /\ new.job = j
      BY <1>2 DEF Worker
    <3>2. worker' = [worker EXCEPT ![w] = new]
      BY <1>1, <2>1
    <3> HIDE DEF new
    <3>3. /\ worker' \in [Workers -> Worker] /\ worker'[w] = new
          /\ \A v \in Workers : v # w => worker'[v] = worker[v]
      BY <2>0, <3>1, <3>2
    <3>4. Busy' = Busy \cup {w}
      BY <3>1, <3>3 DEF Busy
    <3>5. QED
      BY <2>1, <3>1, <3>3, <3>4
  <2>2. CASE ~Supported(j)
    <3>1. worker' = [worker EXCEPT ![w].pc = "dead"]
      BY <1>1, <2>2
    <3>2. /\ worker' \in [Workers -> Worker] /\ worker'[w].pc = "dead"
          /\ \A v \in Workers : v # w => worker'[v] = worker[v]
      BY <2>0, <3>1 DEF Worker
    <3>3. Busy' = Busy
      BY <1>1, <3>2 DEF Busy
    <3>4. QED
      BY <2>2, <3>2, <3>3
  <2>3. QED
    BY <2>1, <2>2
<1>11. \A v \in Busy' : /\ worker'[v].job \in Jobs /\ fate'[worker'[v].job] = "taken"
                        /\ v # w => v \in Busy /\ worker'[v].job # j
                        /\ v = w => worker'[v].job = j
  BY <1>2, <1>6, <1>7, <1>8, <1>10 DEF Inv, QueueInv
<1>12. QueueInv'
  <2>1. \A u, v \in Busy' : worker'[u].job = worker'[v].job => u = v
    BY <1>7, <1>11 DEF Inv, QueueInv
  <2>2. \A i \in 1..Len(queue') : fate'[queue'[i]] = "queued"
    BY <1>4, <1>6
  <2>3. QED
    BY <1>2, <1>5, <1>6, <1>10, <1>11, <2>1, <2>2 DEF QueueInv
<1>13. FactInv'
  <2>1. \A i \in Jobs : \/ fate'[i] = fate[i]
                        \/ fate[i] \in {"none", "queued", "taken"} /\ fate'[i] # "stored"
    BY <1>3, <1>6
  <2>2. QED
    BY <1>1, <2>1, SameFacts DEF Inv
<1>14. JoinIsExact'
  <2>1. unfinished' = Len(queue') + Cardinality(Busy')
    <3>1. CASE Supported(j)
      <4>1. Cardinality(Busy') = Cardinality(Busy) + 1 /\ unfinished' = unfinished
        BY <1>1, <1>8, <1>10, <3>1, BusyCount
      <4>2. QED
        BY <1>2, <1>9, <4>1
    <3>2. CASE ~Supported(j)
      <4>1. Busy' = Busy /\ unfinished' = unfinished - 1
        BY <1>1, <1>10, <3>2
      <4>2. QED
        BY <1>2, <1>9, <4>1
    <3>3. QED
      BY <3>1, <3>2
  <2>2. QED
    BY <2>1 DEF JoinIsExact, Busy
<1>15. QED
  BY <1>12, <1>13, <1>14 DEF Inv

\* A worker is done with its job, one way or the other, and counts it off.
LEMMA SettledJob ==
    ASSUME Inv, NEW w \in Busy, NEW pc \in {"loop", "dead"}, NEW end \in {"stored", "failed"},
           worker' = [worker EXCEPT ![w] = [pc |-> pc, job |-> NoJob]],
           fate' = [fate EXCEPT ![worker[w].job] = end],
           unfinished' = unfinished - 1, UNCHANGED queue
    PROVE  /\ QueueInv' /\ JoinIsExact'
           /\ worker[w].job \in Jobs /\ fate[worker[w].job] = "taken"
           /\ fate'[worker[w].job] = end
           /\ \A j \in Jobs : j # worker[w].job => fate'[j] = fate[j]
<1> DEFINE j == worker[w].job
<1>1. w \in Workers /\ j \in Jobs /\ fate[j] = "taken"
  BY DEF Inv, QueueInv, Busy
<1>2. \A v \in Busy : v \in Workers /\ (v # w => worker[v].job # j /\ worker[v].job \in Jobs)
  BY DEF Inv, QueueInv, Busy
<1> HIDE DEF j
<1>3. /\ fate' \in [Jobs -> {"none", "queued", "taken", "stored", "failed"}]
      /\ fate'[j] = end /\ \A i \in Jobs : i # j => fate'[i] = fate[i]
  BY <1>1 DEF Inv, QueueInv, j
<1>4. /\ worker' \in [Workers -> Worker] /\ Busy' = Busy \ {w}
      /\ \A v \in Workers : v # w => worker'[v] = worker[v]
  BY <1>1 DEF Inv, QueueInv, Worker, Busy
<1>5. \A i \in 1..Len(queue) : queue[i] \in Jobs /\ queue[i] # j
  BY <1>1 DEF Inv, QueueInv
<1>6. QueueInv'
  <2>1. \A v \in Busy' : worker'[v].job \in Jobs /\ fate'[worker'[v].job] = "taken"
    BY <1>2, <1>3, <1>4 DEF Inv, QueueInv
  <2>2. \A u, v \in Busy' : worker'[u].job = worker'[v].job => u = v
    BY <1>2, <1>4 DEF Inv, QueueInv
  <2>3. \A i \in 1..Len(queue') : fate'[queue'[i]] = "queued"
    BY <1>3, <1>5 DEF Inv, QueueInv
  <2>4. QED
    BY <1>3, <1>4, <2>1, <2>2, <2>3 DEF Inv, QueueInv
<1>7. JoinIsExact'
  <2>1. unfinished = Len(queue) + Cardinality(Busy) /\ Cardinality(Busy) \in Nat
    BY JoinCount, BusyIsFinite DEF Inv
  <2>2. Cardinality(Busy') = Cardinality(Busy) - 1
    BY <1>1, <1>4, BusyCount
  <2>3. Len(queue) \in Nat
    BY DEF Inv, QueueInv
  <2>4. unfinished' = Len(queue') + Cardinality(Busy')
    BY <2>1, <2>2, <2>3
  <2>5. QED
    BY <2>4 DEF JoinIsExact, Busy
<1>8. QED
  BY <1>1, <1>3, <1>6, <1>7 DEF j

\* The extractor answers or fails.
LEMMA ExtractedKeeps ==
    ASSUME Inv, NEW w \in Workers, Extracted(w) \/ ExtractFails(w)
    PROVE  Inv'
<1>0. w \in Busy /\ UNCHANGED queue
  BY DEF Extracted, ExtractFails, Busy
<1>1. PICK j \in Jobs : j = worker[w].job
  BY <1>0 DEF Inv, QueueInv
<1>2. PICK pc \in {"loop", "dead"}, end \in {"stored", "failed"} :
        /\ worker' = [worker EXCEPT ![w] = [pc |-> pc, job |-> NoJob]]
        /\ fate' = [fate EXCEPT ![j] = end]
        /\ unfinished' = unfinished - 1
        /\ \/ end = "failed" /\ UNCHANGED facts
           \/ end = "stored" /\ facts' = added(j, extract(j), Len(extract(j)))
           \/ end = "failed" /\ \E n \in 0..(Len(extract(j)) - 1) :
                                    facts' = added(j, extract(j), n)
  BY <1>1 DEF Extracted, ExtractFails, Raised
<1>3. /\ QueueInv' /\ JoinIsExact'
      /\ j \in Jobs /\ fate[j] = "taken" /\ fate'[j] = end
      /\ \A i \in Jobs : i # j => fate'[i] = fate[i]
  BY <1>0, <1>1, <1>2, SettledJob
<1>4. CASE UNCHANGED facts /\ end = "failed"
  <2>1. FactInv'
    BY <1>3, <1>4, SameFacts DEF Inv
  <2>2. QED
    BY <1>3, <2>1 DEF Inv
<1>5. ASSUME NEW n \in 0..Len(extract(j)), facts' = added(j, extract(j), n),
             (end = "stored" /\ n = Len(extract(j))) \/ end = "failed"
      PROVE  Inv'
  <2>1. Stored(j)'
    BY <1>3, <1>5, OwnFacts DEF Inv
  <2>2. n \in Nat /\ FactInv
    BY <1>3, ChunksAreASequence DEF Inv
  <2> DEFINE chunks == extract(j)
  <2>3. facts' = added(j, chunks, n)
    BY <1>5
  <2> HIDE DEF chunks
  <2>4. \A i \in Jobs : i # j => Stored(i)'
    BY <1>3, <2>2, <2>3, OthersFacts
  <2>5. IsSeq(facts')
    BY <2>2, <2>3, Appended DEF FactInv
  <2>6. QED
    BY <1>3, <2>1, <2>4, <2>5 DEF Inv, FactInv
<1>6. Len(extract(j)) \in Nat
  BY <1>3, ChunksAreASequence
<1>7. QED
  BY <1>2, <1>4, <1>5, <1>6

\* The endpoint's facts are behind the others and belong to no job.
LEMMA PostKeeps ==
    ASSUME Inv, NEW p \in Posts, ingest_catalog_facts(p)
    PROVE  Inv'
<1> DEFINE block == [i \in 1..PostSize |-> i - 1]
<1>1. facts' = added(p, block, PostSize) /\ UNCHANGED <<queue, unfinished, worker, fate>>
  BY DEF ingest_catalog_facts
<1> HIDE DEF block
<1>2. PostSize \in Nat /\ \A j \in Jobs : j # p
  BY IngestionAssumption
<1>3. IsSeq(facts')
  BY <1>1, <1>2, Appended DEF Inv, FactInv
<1>4. \A j \in Jobs : Stored(j)'
  BY <1>1, <1>2, OthersFacts DEF Inv
<1>5. QueueInv' /\ JoinIsExact'
  BY <1>1 DEF Inv, QueueInv, JoinIsExact, Busy
<1>6. QED
  BY <1>3, <1>4, <1>5 DEF Inv, FactInv

\* The invariant is inductive.
LEMMA InvStep == Inv /\ [Next]_vars => Inv'
<1>1. Inv /\ UNCHANGED vars => Inv'
  <2> SUFFICES ASSUME Inv, UNCHANGED vars PROVE Inv'
    OBVIOUS
  <2>1. FactInv'
    BY SameFacts DEF vars, Inv
  <2>2. QueueInv' /\ JoinIsExact'
    BY DEF vars, Inv, QueueInv, JoinIsExact, Busy
  <2>3. QED
    BY <2>1, <2>2 DEF Inv
<1>2. Inv /\ Next => Inv'
  BY IdleStepKeeps, PutKeeps, GetKeeps, ExtractedKeeps, PostKeeps DEF Next
<1>3. QED
  BY <1>1, <1>2

(***************************************************************************)
(* The theorems.                                                           *)
(***************************************************************************)
\* Every reachable state satisfies the invariant.
THEOREM Invariance == Spec => []Inv
  BY InvInit, InvStep, PTL DEF Spec

\* Preprocessor.process stores the facts of a file once, in order and together,
\* whatever other workers and the ingest endpoint do at the same time.
THEOREM FactsAreStoredOnce == Spec => []StoredOnce
<1>1. Inv => StoredOnce
  BY DEF Inv, FactInv, Stored, StoredOnce
<1>2. QED
  BY <1>1, Invariance, PTL

\* The page numbers in the facts of a stored file are those of the file: of the
\* extractors, only the csv one numbers what its reader left over.
LEMMA StoredIsWhole == Inv => EveryPageStored
<1> SUFFICES ASSUME Inv, NEW j \in Jobs, fate[j] = "stored", Kind[j] # "media"
             PROVE  /\ Cardinality({i \in 1..Len(facts) : facts[i].from = j})
                          = Cardinality(Full(j))
                    /\ \A p \in Full(j) : \E i \in 1..Len(facts) :
                          facts[i].from = j /\ facts[i].pos = Place(j, p)
  BY DEF EveryPageStored
<1> DEFINE n == Len(extract(j))
<1>1. PICK a \in 0..Len(facts) :
        /\ a + n <= Len(facts)
        /\ \A i \in 1..Len(facts) : facts[i].from = j <=> i \in (a + 1)..(a + n)
        /\ \A i \in 1..n : facts[a + i].pos = extract(j)[i]
  BY DEF Inv, FactInv, Stored
<1>2. n \in Nat /\ Len(facts) \in Nat /\ n = Cardinality(Full(j))
  <2>1. \E T : facts \in Seq(T)
    BY DEF Inv, FactInv, IsSeq
  <2>2. QED
    BY <2>1, ChunksAreASequence, ChunkOfPage
<1>3. \A p \in Full(j) : \E k \in 1..n : extract(j)[k] = Place(j, p)
  BY ChunkOfPage
<1> HIDE DEF n
<1>4. {i \in 1..Len(facts) : facts[i].from = j} = (a + 1)..(a + n)
  <2>1. \A i \in (a + 1)..(a + n) : i \in 1..Len(facts)
    BY <1>1, <1>2
  <2>2. QED
    BY <1>1, <2>1
<1>5. Cardinality((a + 1)..(a + n)) = n
  <2>1. a + 1 \in Int /\ a + n \in Int /\ (a + 1 > a + n => n = 0)
        /\ (a + n) - (a + 1) + 1 = n
    BY <1>2
  <2>2. QED
    BY <2>1, FS_Interval
<1>6. ASSUME NEW p \in Full(j)
      PROVE  \E i \in 1..Len(facts) : facts[i].from = j /\ facts[i].pos = Place(j, p)
  <2>1. PICK k \in 1..n : extract(j)[k] = Place(j, p)
    BY <1>3
  <2>2. a + k \in 1..Len(facts) /\ a + k \in (a + 1)..(a + n)
    BY <1>1, <1>2
  <2>3. facts[a + k].from = j /\ facts[a + k].pos = Place(j, p)
    BY <1>1, <2>1, <2>2
  <2>4. QED
    BY <2>2, <2>3
<1>7. QED
  BY <1>2, <1>4, <1>5, <1>6

\* After process, InMemoryHindsight has exactly one fact for each page, paragraph
\* or row of the file that has one to give, with its number in the metadata.
THEOREM WholeFilesAreStored == Spec => []EveryPageStored
  BY StoredIsWhole, Invariance, PTL

\* queue.join() in drain and in the tests waits for exactly the jobs that are
\* queued or being extracted: task_done is called once for each, raise or not.
THEOREM JoinCountsRight == Spec => []JoinIsExact
<1>1. Inv => JoinIsExact
  BY DEF Inv
<1>2. QED
  BY <1>1, Invariance, PTL
=============================================================================
