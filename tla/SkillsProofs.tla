---------------------------- MODULE SkillsProofs ----------------------------
(***************************************************************************)
(* Theorems about the catalogue, the skills and the goal judge: Catalog    *)
(* and Skills for every set of tenants, uploads, searches and leads, every *)
(* limit, window and sample size.                                          *)
(***************************************************************************)
EXTENDS Skills, TLAPS, FiniteSetTheorems, WellFoundedInduction

\* A set of natural numbers that is not empty has a least element.
LEMMA LeastNat ==
    ASSUME NEW T \in SUBSET Nat, T # {}
    PROVE  \E x \in T : \A y \in T : x <= y
<1> DEFINE R == {ss \in Nat \X Nat : ss[1] < ss[2]}
<1>1. IsWellFoundedOn(R, Nat)
  BY NatLessThanWellFounded DEF OpToRel
<1>2. PICK x \in T : \A y \in T : ~ (<<y, x>> \in R)
  <2> HIDE DEF R
  <2> QED BY <1>1, WFMin
<1>3. ASSUME NEW y \in T PROVE x <= y
  <2>1. ~(<<y, x>> \in R) /\ x \in Nat /\ y \in Nat
    BY <1>2
  <2>2. <<y, x>> \in Nat \X Nat /\ <<y, x>>[1] = y /\ <<y, x>>[2] = x
    BY <2>1
  <2>3. ~(y < x)
    BY <2>1, <2>2
  <2>4. QED BY <2>1, <2>3
<1>4. QED BY <1>3

\* A finite set of natural numbers that is not empty has a greatest element:
\* the age of the newest of a set of rows.
LEMMA GreatestNat ==
    ASSUME NEW T \in SUBSET Nat, T # {}, IsFiniteSet(T)
    PROVE  \E x \in T : \A y \in T : y <= x
<1> DEFINE Bounded(S) == \E x \in S : \A y \in S : y <= x
<1> DEFINE Bad == {Cardinality(S) : S \in {S \in SUBSET T : S # {} /\ ~Bounded(S)}}
<1>0. \A S \in SUBSET T : IsFiniteSet(S) /\ Cardinality(S) \in Nat
  BY FS_Subset, FS_CardinalityType
<1>1. SUFFICES ASSUME Bad # {} PROVE FALSE
  <2>1. ASSUME Bad = {} PROVE \A S \in SUBSET T : S # {} => Bounded(S)
    BY <2>1
  <2>2. QED
    BY <2>1
<1> HIDE DEF Bounded
<1>2. Bad \in SUBSET Nat
  BY <1>0
<1>3. PICK c \in Bad : \A d \in Bad : c <= d
  <2> HIDE DEF Bad
  <2> QED BY <1>1, <1>2, LeastNat
<1>4. PICK S \in SUBSET T : S # {} /\ ~Bounded(S) /\ c = Cardinality(S)
  BY <1>3
<1>5. PICK x : x \in S
  BY <1>4
<1> DEFINE P == S \ {x}
<1>6. P \in SUBSET T /\ Cardinality(P) = c - 1 /\ Cardinality(P) \in Nat /\ c \in Nat
  <2>1. IsFiniteSet(S) /\ P \in SUBSET T
    BY <1>0, <1>4
  <2>2. Cardinality(P) = Cardinality(S) - 1
    BY <1>5, <2>1, FS_RemoveElement
  <2>3. QED
    BY <1>0, <1>4, <2>1, <2>2
<1>7. CASE P = {}
  <2>1. S = {x} /\ x \in Nat
    BY <1>4, <1>5, <1>7
  <2>2. Bounded(S)
    BY <2>1 DEF Bounded
  <2>3. QED
    BY <1>4, <2>2
<1>8. CASE P # {}
  <2>1. ~(c <= c - 1)
    BY <1>6
  <2>2. Cardinality(P) \notin Bad
    BY <1>3, <1>6, <2>1
  <2>3. Bounded(P)
    BY <1>6, <1>8, <2>2
  <2>4. PICK m \in P : \A y \in P : y <= m
    BY <2>3 DEF Bounded
  <2>5. x \in Nat /\ m \in Nat /\ m \in S /\ S \subseteq Nat
    BY <1>4, <1>5
  <2>6. CASE x <= m
    <3>1. \A y \in S : y <= m
      BY <2>4, <2>6
    <3>2. QED
      BY <1>4, <2>5, <3>1 DEF Bounded
  <2>7. CASE m <= x
    <3>1. \A y \in S : y <= x
      BY <2>4, <2>5, <2>7
    <3>2. QED
      BY <1>4, <1>5, <3>1 DEF Bounded
  <2>8. QED
    BY <2>5, <2>6, <2>7
<1>9. QED
  BY <1>7, <1>8

(***************************************************************************)
(* Greatest and least of two, and slices of rows sorted newest first.      *)
(***************************************************************************)
\* max(a, b), as clamped and _score use it.
LEMMA MaxOfTwo ==
    ASSUME NEW a \in Int, NEW b \in Int
    PROVE  Max({a, b}) = IF a >= b THEN a ELSE b
<1>1. \E x \in {a, b} : \A y \in {a, b} : x >= y
  OBVIOUS
<1>2. Max({a, b}) \in {a, b} /\ \A y \in {a, b} : Max({a, b}) >= y
  BY <1>1 DEF Max
<1>3. QED
  BY <1>2

\* min(a, b), likewise.
LEMMA MinOfTwo ==
    ASSUME NEW a \in Int, NEW b \in Int
    PROVE  Min({a, b}) = IF a <= b THEN a ELSE b
<1>1. \E x \in {a, b} : \A y \in {a, b} : x <= y
  OBVIOUS
<1>2. Min({a, b}) \in {a, b} /\ \A y \in {a, b} : Min({a, b}) <= y
  BY <1>1 DEF Min
<1>3. QED
  BY <1>2

\* A slice of at least one row of a list that is not empty is not empty.
LEMMA NewestIsSome ==
    ASSUME NEW S, IsFiniteSet(S), S # {}, \A r \in S : r.id \in Nat,
           NEW n \in Nat, n >= 1
    PROVE  Newest(S, n) # {}
<1> DEFINE T == {r.id : r \in S}
<1>1. T \in SUBSET Nat /\ T # {}
  OBVIOUS
<1>2. IsFiniteSet(T)
  <2> DEFINE f == [r \in S |-> r.id]
  <2>1. f \in Surjection(S, T)
    BY DEF Surjection
  <2>2. QED
    BY <2>1, FS_Surjection
<1> HIDE DEF T
<1>3. PICK m \in T : \A y \in T : y <= m
  BY <1>1, <1>2, GreatestNat
<1>4. PICK r \in S : r.id = m
  BY DEF T
<1>5. {e \in S : e.id > r.id} = {}
  <2> SUFFICES ASSUME NEW e \in S, e.id > r.id PROVE FALSE
    OBVIOUS
  <2>1. e.id \in T /\ e.id \in Nat /\ r.id \in Nat
    BY DEF T
  <2>2. QED
    BY <1>3, <1>4, <2>1
<1>6. Cardinality({e \in S : e.id > r.id}) = 0
  BY <1>5, FS_EmptySet
<1>7. QED
  BY <1>6 DEF Newest

\* What is selected from the n newest rows has no more than n to slice.
LEMMA NewestOfNewest ==
    ASSUME NEW S, IsFiniteSet(S), NEW n \in Nat, NEW M \in SUBSET Newest(S, n)
    PROVE  Newest(M, n) = M
<1>1. M \in SUBSET S
  BY DEF Newest
<1>2. SUFFICES ASSUME NEW r \in M PROVE r \in Newest(M, n)
  BY DEF Newest
<1> DEFINE older(X) == {e \in X : e.id > r.id}
<1>3. /\ older(M) \in SUBSET older(S) /\ older(S) \in SUBSET S
  BY <1>1
<1>4. Cardinality(older(S)) < n
  BY DEF Newest
<1>5. /\ Cardinality(older(M)) \in Nat /\ Cardinality(older(S)) \in Nat
      /\ Cardinality(older(M)) <= Cardinality(older(S))
  <2> HIDE DEF older
  <2>1. IsFiniteSet(older(S))
    BY <1>3, FS_Subset
  <2>2. IsFiniteSet(older(M)) /\ Cardinality(older(M)) <= Cardinality(older(S))
    BY <1>3, <2>1, FS_Subset
  <2>3. QED
    BY <2>1, <2>2, FS_CardinalityType
<1>6. QED
  BY <1>4, <1>5 DEF Newest

\* A longer slice holds a shorter one.
LEMMA NewestGrows ==
    ASSUME NEW S, IsFiniteSet(S), NEW m \in Nat, NEW n \in Nat, m <= n
    PROVE  Newest(S, m) \subseteq Newest(S, n)
<1> SUFFICES ASSUME NEW r \in Newest(S, m) PROVE r \in Newest(S, n)
  OBVIOUS
<1>1. r \in S /\ Cardinality({e \in S : e.id > r.id}) < m
  BY DEF Newest
<1>2. Cardinality({e \in S : e.id > r.id}) \in Nat
  <2>1. {e \in S : e.id > r.id} \in SUBSET S
    OBVIOUS
  <2>2. QED
    BY <2>1, FS_Subset, FS_CardinalityType
<1>3. QED
  BY <1>1, <1>2 DEF Newest

(***************************************************************************)
(* The inductive invariant.                                                *)
(***************************************************************************)
RowInv ==
    /\ IsFiniteSet(rows)
    /\ \A r \in rows : r.id \in Nat /\ \E in \in Inputs : r.data = in.data
    /\ \A r, e \in rows : r.id = e.id => r = e

KeysOf(q) == { <<q.filters[i].op, q.filters[i].field>> : i \in DOMAIN q.filters }

LogInv ==
    /\ day \in Nat
    /\ log \in Seq([tenant : Tenants, day : Nat, keys : {KeysOf(q) : q \in Queries}])

\* A sale is confirmed on the way from CONFIRM to NOTIFY, and on no other.
SaleInv ==
    /\ sale \in [stage : Stages, confirmed : BOOLEAN]
    /\ sale.confirmed <=> sale.stage \in {"NOTIFY", "CLOSED"}

Inv == RowInv /\ LogInv /\ SaleInv

\* There are no rows, no searches and no sale at the start.
LEMMA InvInit == Init => Inv
<1> SUFFICES ASSUME Init PROVE Inv
  OBVIOUS
<1>1. RowInv
  BY FS_EmptySet DEF Init, CatalogInit, RowInv
<1>2. LogInv
  BY DEF Init, CatalogInit, LogInv
<1>3. SaleInv
  BY DEF Init, SaleInv, Stages
<1>4. QED
  BY <1>1, <1>2, <1>3 DEF Inv

\* A new row is younger than every other: its id is its own.
LEMMA NewIdIsNew ==
    ASSUME RowInv
    PROVE  NewId \in Nat /\ \A r \in rows : r.id < NewId
<1>1. CASE rows = {}
  BY <1>1 DEF NewId
<1>2. CASE rows # {}
  <2> DEFINE T == {r.id : r \in rows}
  <2>1. T \in SUBSET Nat /\ T # {}
    BY <1>2 DEF RowInv
  <2>2. IsFiniteSet(T)
    <3> DEFINE f == [r \in rows |-> r.id]
    <3>1. f \in Surjection(rows, T)
      BY DEF Surjection
    <3>2. QED
      BY <3>1, FS_Surjection DEF RowInv
  <2>3. NewId = Max(T) + 1
    BY <1>2 DEF NewId
  <2>4. \A r \in rows : r.id \in T
    OBVIOUS
  <2> HIDE DEF T
  <2>5. \E x \in T : \A y \in T : x >= y
    <3>1. PICK x \in T : \A y \in T : y <= x
      BY <2>1, <2>2, GreatestNat
    <3>2. \A y \in T : x >= y
      BY <2>1, <3>1
    <3>3. QED
      BY <3>2
  <2>6. Max(T) \in T /\ \A y \in T : Max(T) >= y
    BY <2>5 DEF Max
  <2>7. Max(T) \in Nat /\ \A y \in T : y < Max(T) + 1
    <3> DEFINE m == Max(T)
    <3>1. m \in T /\ \A y \in T : m >= y
      BY <2>6
    <3> HIDE DEF m
    <3>2. m \in Nat /\ \A y \in T : y \in Nat
      BY <2>1, <3>1
    <3>3. m \in Nat /\ \A y \in T : y < m + 1
      BY <3>1, <3>2
    <3>4. QED
      BY <3>3 DEF m
  <2>8. QED
    BY <2>3, <2>4, <2>7
<1>3. QED
  BY <1>1, <1>2

\* An upload keeps the rows in order.
LEMMA CreateKeeps ==
    ASSUME Inv, NEW t \in Tenants, NEW in \in Inputs, CreateResource(t, in)
    PROVE  RowInv'
<1> DEFINE r == [id |-> NewId, tenant |-> t, source |-> in.source, ext |-> in.ext,
                 kind |-> in.kind, data |-> in.data, words |-> in.words]
<1>1. r.id = NewId /\ r.data = in.data
  OBVIOUS
<1>2. rows' = upsert(r)
  BY DEF CreateResource
<1> HIDE DEF r
<1>3. PICK K \in SUBSET rows : rows' = K \cup {r}
  BY <1>2 DEF upsert
<1>4. IsFiniteSet(rows')
  <2>1. IsFiniteSet(K)
    BY FS_Subset DEF Inv, RowInv
  <2>2. QED
    BY <1>3, <2>1, FS_AddElement
<1>5. NewId \in Nat /\ \A e \in K : e.id < NewId /\ e.id \in Nat
  BY NewIdIsNew DEF Inv, RowInv
<1>6. \A e \in rows' : e.id \in Nat /\ \E i \in Inputs : e.data = i.data
  BY <1>1, <1>3, <1>5 DEF Inv, RowInv
<1>7. \A e, d \in rows' : e.id = d.id => e = d
  BY <1>1, <1>3, <1>5 DEF Inv, RowInv
<1>8. QED
  BY <1>4, <1>6, <1>7 DEF RowInv

\* A search is logged with the keys of its filters.
LEMMA LoggedKeeps ==
    ASSUME Inv, NEW t \in Tenants, NEW q \in Queries,
           log' = Append(log, Entry(t, q)), UNCHANGED day
    PROVE  LogInv'
<1>1. Entry(t, q) \in [tenant : Tenants, day : Nat, keys : {KeysOf(p) : p \in Queries}]
  BY DEF Entry, KeysOf, Inv, LogInv
<1>2. QED
  BY <1>1 DEF Inv, LogInv

\* The closer's stages.
LEMMA CloserKeeps ==
    ASSUME Inv, NEW m \in Messages, CloserStep(m)
    PROVE  SaleInv'
<1> DEFINE paid == sale.stage = "CONFIRM" /\ m \cap {"ok", "pagado"} # {}
<1> DEFINE s == transition(sale.stage, m)
<1> DEFINE c == sale.confirmed \/ paid
<1>1. sale' = [stage |-> s, confirmed |-> c]
  BY DEF CloserStep
<1>2. sale.stage \in Stages /\ sale.confirmed \in BOOLEAN
  BY DEF Inv, SaleInv
<1>3. s \in Stages
  BY <1>2 DEF transition, Stages
<1>4. c \in BOOLEAN
  BY <1>2
<1>5. c <=> s \in {"NOTIFY", "CLOSED"}
  <2>1. sale.confirmed <=> sale.stage \in {"NOTIFY", "CLOSED"}
    BY DEF Inv, SaleInv
  <2>2. QED
    BY <1>2, <2>1 DEF transition, Stages
<1> HIDE DEF s, c
<1>6. QED
  BY <1>1, <1>3, <1>4, <1>5 DEF SaleInv

\* Every step keeps the invariant.
LEMMA InvStep == Inv /\ [Next]_vars => Inv'
<1> SUFFICES ASSUME Inv, [Next]_vars PROVE Inv'
  OBVIOUS
<1>1. ASSUME NEW t \in Tenants, NEW in \in Inputs, CreateResource(t, in), UNCHANGED sale
      PROVE  Inv'
  <2>1. RowInv'
    BY <1>1, CreateKeeps
  <2>2. LogInv' /\ SaleInv'
    BY <1>1 DEF CreateResource, Inv, LogInv, SaleInv
  <2>3. QED
    BY <2>1, <2>2 DEF Inv
<1>2. ASSUME NEW t \in Tenants, NEW r \in rows, DeleteResource(t, r), UNCHANGED sale
      PROVE  Inv'
  <2>1. rows' = rows \ {r}
    BY <1>2 DEF DeleteResource
  <2>2. IsFiniteSet(rows')
    BY <2>1, FS_RemoveElement DEF Inv, RowInv
  <2>3. RowInv'
    BY <2>1, <2>2 DEF Inv, RowInv
  <2>4. LogInv' /\ SaleInv'
    BY <1>2 DEF DeleteResource, Inv, LogInv, SaleInv
  <2>5. QED
    BY <2>3, <2>4 DEF Inv
<1>3. ASSUME NEW t \in Tenants, NEW q \in Queries, UNCHANGED sale,
             SearchResources(t, q) \/ ResourceSearchSkill(t, q)
      PROVE  Inv'
  <2>1. log' = Append(log, Entry(t, q)) /\ UNCHANGED <<rows, day>>
    BY <1>3 DEF SearchResources, ResourceSearchSkill
  <2>2. LogInv'
    BY <2>1, LoggedKeeps
  <2>3. RowInv' /\ SaleInv'
    BY <1>3, <2>1 DEF Inv, RowInv, SaleInv
  <2>4. QED
    BY <2>2, <2>3 DEF Inv
<1>4. CASE NextDay /\ UNCHANGED sale
  <2>1. RowInv' /\ SaleInv'
    BY <1>4 DEF NextDay, Inv, RowInv, SaleInv
  <2>2. LogInv'
    BY <1>4 DEF NextDay, Inv, LogInv
  <2>3. QED
    BY <2>1, <2>2 DEF Inv
<1>5. ASSUME NEW m \in Messages, CloserStep(m) PROVE Inv'
  <2>1. SaleInv'
    BY <1>5, CloserKeeps
  <2>2. RowInv' /\ LogInv'
    BY <1>5 DEF CloserStep, Inv, RowInv, LogInv
  <2>3. QED
    BY <2>1, <2>2 DEF Inv
<1>6. CASE UNCHANGED vars
  BY <1>6 DEF vars, Inv, RowInv, LogInv, SaleInv
<1>7. QED
  BY <1>1, <1>2, <1>3, <1>4, <1>5, <1>6 DEF Next, CatalogNext

\* The invariant holds in every state of the catalogue and the skills.
THEOREM Invariance == Spec => []Inv
<1>1. QED
  BY InvInit, InvStep, PTL DEF Spec

(***************************************************************************)
(* The two search back ends.                                               *)
(***************************************************************************)
\* The candidates of a search are rows; whatever is selected of them is not cut.
LEMMA Candidates ==
    ASSUME RowInv, NEW t, NEW q
    PROVE  /\ IsFiniteSet(candidates(t, q))
           /\ candidates(t, q) \subseteq rows
           /\ \A r \in candidates(t, q) :
                 RowMatches(r, q) => r \in search(t, q, MaxCandidates)
<1> DEFINE S == { r \in rows : r.tenant = t /\ q.kind \in {None, r.kind} }
<1> DEFINE M == { r \in candidates(t, q) : RowMatches(r, q) }
<1>1. candidates(t, q) = Newest(S, MaxCandidates) /\ candidates(t, q) \in SUBSET S
  BY DEF candidates, list_for, Newest
<1>2. IsFiniteSet(S) /\ S \in SUBSET rows
  <2>1. S \in SUBSET rows
    OBVIOUS
  <2>2. QED
    BY <2>1, FS_Subset DEF RowInv
<1>3. MaxCandidates \in Nat
  BY CatalogAssumption
<1>4. M \in SUBSET Newest(S, MaxCandidates)
  BY <1>1
<1>5. search(t, q, MaxCandidates) = Newest(M, MaxCandidates)
  BY DEF search
<1>6. Newest(M, MaxCandidates) = M
  <2> HIDE DEF S, M
  <2> QED BY <1>2, <1>3, <1>4, NewestOfNewest
<1>7. IsFiniteSet(candidates(t, q))
  <2> HIDE DEF S
  <2> QED BY <1>1, <1>2, FS_Subset
<1>8. QED
  BY <1>1, <1>2, <1>5, <1>6, <1>7

\* The fields of rows hold values.
LEMMA RowValues ==
    ASSUME RowInv, NEW r \in rows, NEW field
    PROVE  IsValue(value(r, field))
<1>1. CASE field \in Fields(r)
  <2>1. PICK in \in Inputs : r.data = in.data
    BY DEF RowInv
  <2>2. IsValue(in.data[field])
    BY <1>1, <2>1, CatalogAssumption DEF Fields
  <2>3. QED
    BY <1>1, <2>1, <2>2 DEF value
<1>2. CASE field \notin Fields(r)
  <2>1. value(r, field) = Null
    BY <1>2 DEF value
  <2>2. Null.type = "null" /\ Null.num = NoNumber
    BY DEF Null
  <2>3. QED
    BY <2>1, <2>2 DEF IsValue
<1>3. QED
  BY <1>1, <1>2

\* A filter that SQL takes as met is met in memory, but for lists and NaN.
LEMMA SqlFilterIsFilter ==
    ASSUME RowInv, NEW t, PgHolds(t), NEW q \in Queries, ~PgRaises(t, q),
           NEW r \in rows, r.tenant = t, q.kind \in {None, r.kind}, PgRowMatches(r, q),
           NEW i \in DOMAIN q.filters, ~SqlOnly(r, q.filters[i])
    PROVE  matches_filter(r, q.filters[i])
<1> DEFINE f == q.filters[i]
           n == as_number(r, f.field)
<1>1. f.op \in {"max", "min", "eq"} /\ IsValue(f.val)
  BY CatalogAssumption
<1>2. f.field \in Fields(r) /\ n = value(r, f.field).num /\ IsValue(value(r, f.field))
  BY RowValues DEF PgRowMatches, as_number
<1>3. ASSUME f.op \in {"max", "min"}
      PROVE  n \in Int \cup {NaN} /\ f.val.num \in Int \cup {NaN}
  <2>1. ~uncastable(f.val) /\ ~uncastable(value(r, f.field))
    BY <1>3 DEF PgRaises
  <2>2. f.val.type # "null" /\ value(r, f.field).type # "null"
    BY <1>3 DEF PgRowMatches
  <2>3. f.val.num # NoNumber /\ value(r, f.field).num # NoNumber
    BY <2>1, <2>2 DEF uncastable
  <2>4. QED
    BY <1>1, <1>2, <2>3 DEF IsValue
<1>4. CASE f.op = "max"
  <2>1. PgAtMost(n, f.val.num)
    BY <1>2, <1>4 DEF PgRowMatches
  <2>2. f.val.num # NaN
    BY <1>4 DEF SqlOnly
  <2>3. AtMost(n, f.val.num)
    <3>1. n # NaN /\ n <= f.val.num
      BY <2>1, <2>2 DEF PgAtMost
    <3>2. n # NoNumber /\ f.val.num # NoNumber
      BY <1>3, <1>4, CatalogAssumption
    <3>3. QED
      BY <2>2, <3>1, <3>2 DEF AtMost
  <2>4. QED
    BY <1>4, <2>3 DEF matches_filter
<1>5. CASE f.op = "min"
  <2>1. PgAtMost(f.val.num, n)
    BY <1>2, <1>5 DEF PgRowMatches
  <2>2. n # NaN
    BY <1>5 DEF SqlOnly
  <2>3. AtMost(f.val.num, n)
    <3>1. f.val.num # NaN /\ f.val.num <= n
      BY <2>1, <2>2 DEF PgAtMost
    <3>2. n # NoNumber /\ f.val.num # NoNumber
      BY <1>3, <1>5, CatalogAssumption
    <3>3. QED
      BY <2>2, <3>1, <3>2 DEF AtMost
  <2>4. QED
    BY <1>5, <2>3 DEF matches_filter
<1>6. CASE f.op = "eq"
  <2> DEFINE v == value(r, f.field)
  <2>1. PgContains(v, f.val)
    BY <1>6 DEF PgRowMatches
  <2>2. v.type = f.val.type
    BY <2>1 DEF PgContains
  <2>3. CASE f.val.type = "list"
    <3>1. v.items = f.val.items
      BY <1>6, <2>3 DEF SqlOnly
    <3>2. QED
      BY <1>6, <2>2, <2>3, <3>1 DEF matches_filter, Equal
  <2>4. CASE f.val.type # "list"
    <3>1. v = f.val
      BY <2>1, <2>4 DEF PgContains
    <3>2. ~NoJson(f.val)
      BY <1>6 DEF PgRaises
    <3>3. f.val.type \in {"number", "bool"} => f.val.num # NaN
      BY <1>1, <3>2, CatalogAssumption DEF NoJson, IsValue
    <3>4. f.val.type \in {"number", "text", "bool", "null"}
      BY <1>1, <2>4 DEF IsValue
    <3>5. Equal(v, f.val)
      BY <3>1, <3>3, <3>4 DEF Equal
    <3>6. QED
      BY <1>6, <3>5 DEF matches_filter
  <2>5. QED
    BY <2>3, <2>4
<1>7. QED
  BY <1>1, <1>4, <1>5, <1>6

\* A search in memory finds all that the Postgres twin finds, other than by
\* lists and NaN, and raises where the twin cannot only for a null bound:
\* PostgresHitsAreMemoryHits of resource search.
THEOREM BackEndsAgree == Spec => []PostgresHitsAreMemoryHits
<1>1. ASSUME RowInv PROVE PostgresHitsAreMemoryHits
  <2> SUFFICES ASSUME NEW t \in Tenants, NEW q \in Queries,
                      q.needle = None, PgHolds(t), ~PgRaises(t, q)
               PROVE  /\ Raises(t, q) => \E i \in DOMAIN q.filters :
                                            /\ q.filters[i].op \in {"max", "min"}
                                            /\ q.filters[i].val.type = "null"
                      /\ \A r \in candidates(t, q) :
                            PgRowMatches(r, q) =>
                               \/ r \in search(t, q, MaxCandidates)
                               \/ \E i \in DOMAIN q.filters : SqlOnly(r, q.filters[i])
    BY DEF PostgresHitsAreMemoryHits
  <2>1. ASSUME Raises(t, q)
        PROVE  \E i \in DOMAIN q.filters : /\ q.filters[i].op \in {"max", "min"}
                                           /\ q.filters[i].val.type = "null"
    <3>1. PICK r \in candidates(t, q), i \in DOMAIN q.filters : FilterRaises(r, q.filters[i])
      BY <2>1 DEF Raises, RowRaises
    <3>2. q.filters[i].op \in {"max", "min"} /\ q.filters[i].val.num = NoNumber
      BY <3>1 DEF FilterRaises
    <3>3. ~uncastable(q.filters[i].val)
      BY <3>2 DEF PgRaises
    <3>4. QED
      BY <3>2, <3>3 DEF uncastable
  <2>2. ASSUME NEW r \in candidates(t, q), PgRowMatches(r, q),
               \A i \in DOMAIN q.filters : ~SqlOnly(r, q.filters[i])
        PROVE  r \in search(t, q, MaxCandidates)
    <3>1. r \in rows /\ r.tenant = t /\ q.kind \in {None, r.kind}
      BY <1>1, Candidates DEF candidates, list_for, Newest
    <3>2. \A i \in DOMAIN q.filters : matches_filter(r, q.filters[i])
      BY <1>1, <2>2, <3>1, SqlFilterIsFilter
    <3>3. RowMatches(r, q)
      BY <3>2 DEF RowMatches
    <3>4. QED
      BY <1>1, <3>3, Candidates
  <2>3. QED
    BY <2>1, <2>2
<1>2. Inv => PostgresHitsAreMemoryHits
  BY <1>1 DEF Inv
<1>3. QED
  BY <1>2, Invariance, PTL

(***************************************************************************)
(* Numeric hints.                                                          *)
(***************************************************************************)
\* The newest SampleSize rows are among the candidates of a search of all rows.
LEMMA SampleIsSearched ==
    ASSUME RowInv, NEW t, NEW q, q.kind = None
    PROVE  list_for(t, None, SampleSize) \subseteq candidates(t, q)
<1> DEFINE S == { r \in rows : r.tenant = t /\ None \in {None, r.kind} }
<1>1. /\ candidates(t, q) = Newest(S, MaxCandidates)
      /\ list_for(t, None, SampleSize) = Newest(S, SampleSize)
  BY DEF candidates, list_for
<1>2. IsFiniteSet(S)
  <2>1. S \in SUBSET rows
    OBVIOUS
  <2>2. QED
    BY <2>1, FS_Subset DEF RowInv
<1>3. SampleSize \in Nat /\ MaxCandidates \in Nat /\ SampleSize <= MaxCandidates
  BY CatalogAssumption
<1>4. Newest(S, SampleSize) \subseteq Newest(S, MaxCandidates)
  <2> HIDE DEF S
  <2> QED BY <1>2, <1>3, NewestGrows
<1>5. QED
  BY <1>1, <1>4

\* The number of a numeric field of a row is one of the uploads' numbers.
LEMMA NumbersOfRows ==
    ASSUME RowInv, NEW r \in rows, NEW g \in Fields(r), r.data[g].num \notin {NaN, NoNumber}
    PROVE  r.data[g].num \in Numbers
<1>1. PICK in \in Inputs : r.data = in.data
  BY DEF RowInv
<1>2. g \in DOMAIN in.data /\ r.data[g].num = in.data[g].num
  BY <1>1 DEF Fields
<1>3. QED
  BY <1>2 DEF Numbers

\* The bounds to search for are integers.
LEMMA NumbersAreInts == Numbers \subseteq Int
<1>1. QED
  BY CatalogAssumption DEF Numbers, IsValue

\* The one filter of a search for at least n.
LEMMA TheFilter ==
    ASSUME NEW g, NEW n
    PROVE  /\ AtLeast(g, n).kind = None /\ AtLeast(g, n).needle = None
           /\ DOMAIN AtLeast(g, n).filters = {1}
           /\ AtLeast(g, n).filters[1].op = "min" /\ AtLeast(g, n).filters[1].field = g
           /\ AtLeast(g, n).filters[1].val.num = n
           /\ AtLeast(g, n).filters[1].val.type = "number"
<1> DEFINE val == [type |-> "number", num |-> n, word |-> "", lower |-> TRUE, items |-> <<>>]
           bound == [op |-> "min", field |-> g, val |-> val]
           q == AtLeast(g, n)
<1>1. val.num = n /\ val.type = "number"
  OBVIOUS
<1> HIDE DEF val
<1>2. bound.op = "min" /\ bound.field = g /\ bound.val = val
  OBVIOUS
<1>3. q.filters = <<bound>> /\ q.kind = None /\ q.needle = None
  BY DEF AtLeast, val
<1> HIDE DEF bound, q
<1>4. DOMAIN q.filters = {1} /\ q.filters[1] = bound
  BY <1>3
<1>5. QED
  BY <1>1, <1>2, <1>3, <1>4 DEF q

\* A row of the sample with a number in the field is found by a bound that is
\* no greater than any number, in memory unless it says "nan", and in SQL.
LEMMA NumericRowFound ==
    ASSUME RowInv, NEW t, NEW g, NEW n \in Numbers, \A m \in Numbers : n <= m,
           NEW r \in list_for(t, None, SampleSize), g \in Fields(r), is_numeric(r.data[g])
    PROVE  /\ r \in search(t, AtLeast(g, n), MaxCandidates) \/ as_number(r, g) = NaN
           /\ PgRowMatches(r, AtLeast(g, n))
<1> DEFINE q == AtLeast(g, n)
<1>1. /\ q.kind = None /\ q.needle = None /\ DOMAIN q.filters = {1}
      /\ q.filters[1].op = "min" /\ q.filters[1].field = g /\ q.filters[1].val.num = n
      /\ q.filters[1].val.type = "number"
  BY TheFilter
<1> HIDE DEF q
<1>2. r \in candidates(t, q)
  BY <1>1, SampleIsSearched
<1>3. r \in rows
  BY <1>2, Candidates
<1>4. /\ value(r, g) = r.data[g] /\ as_number(r, g) = r.data[g].num
      /\ r.data[g].num # NoNumber /\ IsValue(r.data[g])
  BY <1>3, RowValues DEF value, as_number, is_numeric
<1>5. n \in Int /\ n # NaN /\ n # NoNumber
  BY NumbersAreInts, CatalogAssumption
<1>6. ASSUME r.data[g].num # NaN PROVE n <= r.data[g].num
  BY <1>3, <1>4, <1>6, NumbersOfRows
<1>7. ASSUME r.data[g].num # NaN PROVE r \in search(t, q, MaxCandidates)
  <2>1. AtMost(n, as_number(r, g))
    BY <1>4, <1>5, <1>6, <1>7 DEF AtMost
  <2>2. matches_filter(r, q.filters[1])
    BY <1>1, <2>1 DEF matches_filter
  <2>3. RowMatches(r, q)
    BY <1>1, <2>2 DEF RowMatches
  <2>4. QED
    BY <1>2, <2>3, Candidates
<1>8. PgRowMatches(r, q)
  <2>1. PgAtMost(n, r.data[g].num)
    BY <1>5, <1>6 DEF PgAtMost
  <2>2. r.data[g].type # "null"
    BY <1>4 DEF IsValue
  <2>3. QED
    BY <1>1, <1>4, <2>1, <2>2 DEF PgRowMatches
<1>9. QED
  BY <1>4, <1>7, <1>8 DEF q

\* At least as many of a sample as of a part of it.
LEMMA AtLeastAsMany ==
    ASSUME NEW sample, IsFiniteSet(sample), NEW found \in SUBSET sample,
           NEW part \in SUBSET found, NEW having \in SUBSET sample,
           10 * Cardinality(part) >= 7 * Cardinality(having)
    PROVE  10 * Cardinality(found) >= 7 * Cardinality(having)
<1>1. IsFiniteSet(found) /\ IsFiniteSet(having)
  BY FS_Subset
<1>2. IsFiniteSet(part) /\ Cardinality(part) <= Cardinality(found)
  BY <1>1, FS_Subset
<1>3. /\ Cardinality(part) \in Nat /\ Cardinality(found) \in Nat
      /\ Cardinality(having) \in Nat
  BY <1>1, <1>2, FS_CardinalityType
<1>4. QED
  BY <1>2, <1>3

\* A field the agent's prompt calls numeric finds at least 70% of its sampled
\* rows in a search by number, in memory but for the rows that say "nan", and
\* on Postgres if every value casts: NumericHintsSearchable of the learning
\* service.
THEOREM HintsAreSearchable == Spec => []NumericHintsSearchable
<1>1. ASSUME RowInv PROVE NumericHintsSearchable
  <2> SUFFICES ASSUME NEW t \in Tenants, NEW f \in useful(t, None), NEW n \in Numbers,
                      f.numeric, \A m \in Numbers : n <= m
               PROVE  LET q      == AtLeast(f.field, n)
                          sample == list_for(t, None, SampleSize)
                          nans   == { r \in sample : as_number(r, f.field) = NaN }
                      IN  /\ 10 * Cardinality((search(t, q, MaxCandidates) \cup nans) \cap sample)
                                >= 7 * f.count
                          /\ 10 * Cardinality({ r \in sample : PgRowMatches(r, q) })
                                >= 7 * f.count
    BY DEF NumericHintsSearchable
  <2> DEFINE sample == list_for(t, None, SampleSize)
  <2>1. PICK g : f = [field |-> g, count |-> Cardinality(Having(sample, g)),
                      numeric |-> tagged_numeric(sample, g)]
    BY DEF useful, discover_schema
  <2> DEFINE nans == { r \in sample : as_number(r, g) = NaN }
             found == (search(t, AtLeast(g, n), MaxCandidates) \cup nans) \cap sample
             hits == { r \in sample : PgRowMatches(r, AtLeast(g, n)) }
             numbers == { r \in Having(sample, g) : is_numeric(r.data[g]) }
             having == Having(sample, g)
  <2>2. \A r \in numbers : r \in found /\ r \in hits
    BY <1>1, NumericRowFound DEF Having
  <2>3. IsFiniteSet(sample)
    <3>1. sample \in SUBSET rows
      BY DEF list_for, Newest
    <3>2. QED
      BY <1>1, <3>1, FS_Subset DEF RowInv
  <2>4. 10 * Cardinality(numbers) >= 7 * Cardinality(having)
    BY <2>1 DEF tagged_numeric
  <2>5. found \in SUBSET sample /\ hits \in SUBSET sample /\ having \in SUBSET sample
    BY DEF Having
  <2>6. f.field = g /\ f.count = Cardinality(having)
    BY <2>1
  <2>7. /\ 10 * Cardinality(found) >= 7 * Cardinality(having)
        /\ 10 * Cardinality(hits) >= 7 * Cardinality(having)
    <3> HIDE DEF sample, found, hits, numbers, having
    <3>1. numbers \in SUBSET found /\ numbers \in SUBSET hits
      BY <2>2
    <3>2. QED
      BY <2>3, <2>4, <2>5, <3>1, AtLeastAsMany
  <2>8. QED
    BY <2>6, <2>7
<1>2. Inv => NumericHintsSearchable
  BY <1>1 DEF Inv
<1>3. QED
  BY <1>2, Invariance, PTL

(***************************************************************************)
(* Goals.                                                                  *)
(***************************************************************************)
\* The resource-search skill answers at least one row if any candidate matches.
LEMMA SkillHitsSome ==
    ASSUME RowInv, NEW t, NEW q \in Queries
    PROVE  skill_hits(t, q) # {} <=> \E r \in candidates(t, q) : RowMatches(r, q)
<1> DEFINE M == { r \in candidates(t, q) : RowMatches(r, q) }
<1>1. skill_hits(t, q) = Newest(M, clamped(q.limit))
  BY DEF skill_hits, search
<1>2. clamped(q.limit) \in Nat /\ clamped(q.limit) >= 1
  <2> DEFINE asked == IF q.limit = 0 THEN DefaultLimit ELSE q.limit
  <2>1. asked \in Int /\ MaxLimit \in Int
    BY CatalogAssumption
  <2>2. clamped(q.limit) = Max({1, Min({asked, MaxLimit})})
    BY DEF clamped
  <2> HIDE DEF asked
  <2>3. Min({asked, MaxLimit}) \in Int
    BY <2>1, MinOfTwo
  <2> DEFINE least == Min({asked, MaxLimit})
  <2> HIDE DEF least
  <2>4. Max({1, least}) = IF 1 >= least THEN 1 ELSE least
    BY <2>3, MaxOfTwo DEF least
  <2>5. QED
    BY <2>2, <2>3, <2>4 DEF least
<1>3. IsFiniteSet(M) /\ \A r \in M : r.id \in Nat
  <2>1. M \in SUBSET candidates(t, q)
    OBVIOUS
  <2>2. IsFiniteSet(M)
    BY <2>1, Candidates, FS_Subset
  <2>3. \A r \in M : r \in rows
    BY <2>1, Candidates
  <2>4. QED
    BY <2>2, <2>3 DEF RowInv
<1>4. Newest(M, clamped(q.limit)) # {} <=> M # {}
  <2> HIDE DEF M
  <2>1. Newest(M, clamped(q.limit)) \subseteq M
    BY DEF Newest
  <2>2. QED
    BY <1>2, <1>3, <2>1, NewestIsSome
<1>5. QED
  BY <1>1, <1>4

\* The score of a lead is a number from 0 to 100.
LEMMA ScoreInRange ==
    ASSUME NEW l \in Leads
    PROVE  score(l) \in 0..100
<1> DEFINE s == 50 + 10 * (l.high + l.both) - 8 * l.low + 15 * (l.urgent + l.both)
                + 5 * l.budget
<1>1. s \in Int
  BY SkillsAssumption
<1>2. score(l) = Max({0, Min({100, s})})
  BY DEF score
<1> HIDE DEF s
<1> DEFINE least == Min({100, s})
<1>3. least = IF 100 <= s THEN 100 ELSE s
  BY <1>1, MinOfTwo
<1> HIDE DEF least
<1>4. least \in Int /\ least <= 100
  BY <1>1, <1>3
<1>5. Max({0, least}) = IF 0 >= least THEN 0 ELSE least
  BY <1>4, MaxOfTwo
<1>6. QED
  BY <1>2, <1>4, <1>5 DEF least

\* A goal is achieved on evidence, on that of POST /goal only a qualification:
\* GoalsNeedEvidence of the judge.
THEOREM GoalsAreEvident == Spec => []GoalsNeedEvidence
<1>1. ASSUME Inv PROVE GoalsNeedEvidence
  <2>1. ASSUME NEW paid \in BOOLEAN
        PROVE  judge("sell", [stage |-> sale.stage, payment_confirmed |-> paid])
                 <=> (paid /\ sale.confirmed /\ sale.stage = "CLOSED")
    <3> DEFINE ctx == [stage |-> sale.stage, payment_confirmed |-> paid]
    <3>1. Get(ctx, "stage", "IDENTIFY") = sale.stage /\ Get(ctx, "payment_confirmed", FALSE) = paid
      BY DEF Get
    <3>2. judge("sell", ctx) <=> sale.stage = "CLOSED" /\ paid
      BY <3>1 DEF judge, judge_sell
    <3>3. sale.stage = "CLOSED" => sale.confirmed
      BY <1>1 DEF Inv, SaleInv
    <3>4. QED
      BY <3>2, <3>3
  <2>2. ASSUME NEW t \in Tenants, NEW q \in Queries
        PROVE  judge("lookup", [matches |-> skill_hits(t, q)])
                 <=> \E r \in candidates(t, q) : RowMatches(r, q)
    <3>1. Get([matches |-> skill_hits(t, q)], "matches", {}) = skill_hits(t, q)
      BY DEF Get
    <3>2. judge("lookup", [matches |-> skill_hits(t, q)]) <=> skill_hits(t, q) # {}
      BY <3>1 DEF judge, judge_lookup
    <3>3. QED
      BY <1>1, <3>2, SkillHitsSome DEF Inv
  <2>3. ASSUME NEW l \in Leads
        PROVE  /\ \A type \in {"sell", "lookup", "follow_up"} : ~judge(type, context(l))
               /\ judge("qualify", context(l)) <=> (context(l).tag # "cold")
               /\ (~l.empty /\ next_action(score(l)) # "monitor") => judge("qualify", context(l))
    <3> DEFINE n == IF l.empty THEN 0 ELSE score(l)
    <3>1. n \in Int /\ context(l) = [intent_score |-> n, tag |-> tag(n)]
      BY ScoreInRange DEF context, tag
    <3>2. ~l.empty => n = score(l)
      OBVIOUS
    <3> HIDE DEF n
    <3>3. /\ Get(context(l), "stage", "IDENTIFY") = "IDENTIFY"
          /\ Get(context(l), "matches", {}) = {}
      BY <3>1 DEF Get
    <3>4. \A type \in {"sell", "lookup", "follow_up"} : ~judge(type, context(l))
      BY <3>3 DEF judge, judge_sell, judge_lookup
    <3>5. judge("qualify", context(l)) <=> n >= 40
      BY <3>1 DEF judge, judge_qualify, tag
    <3>6. (context(l).tag # "cold") <=> n >= 40
      BY <3>1 DEF tag
    <3>7. next_action(n) # "monitor" => n >= 40
      BY <3>1 DEF next_action, tag
    <3>8. QED
      BY <3>2, <3>4, <3>5, <3>6, <3>7
  <2>4. QED
    BY <2>1, <2>2, <2>3 DEF GoalsNeedEvidence
<1>2. QED
  BY <1>1, Invariance, PTL

(***************************************************************************)
(* The heatmap of filters.                                                 *)
(***************************************************************************)
\* The keys of a logged search are operators with fields, and finitely many.
LEMMA LoggedKeys ==
    ASSUME LogInv, NEW i \in DOMAIN log
    PROVE  /\ IsFiniteSet(log[i].keys)
           /\ \A k \in log[i].keys : k = <<k[1], k[2]>> /\ k[1] \in {"max", "min", "eq"}
<1>1. PICK q \in Queries : log[i].keys = KeysOf(q)
  <2> DEFINE Keys == {KeysOf(q) : q \in Queries}
  <2>1. log \in Seq([tenant : Tenants, day : Nat, keys : Keys])
    BY DEF LogInv
  <2> HIDE DEF Keys
  <2> DEFINE E == [tenant : Tenants, day : Nat, keys : Keys]
  <2>2. log[i] \in E
    <3>1. log \in Seq(E)
      BY <2>1
    <3> HIDE DEF E
    <3>2. i \in 1..Len(log)
      BY <3>1
    <3>3. QED
      BY <3>1, <3>2
  <2>3. log[i].keys \in Keys
    BY <2>2
  <2>4. QED
    BY <2>3 DEF Keys
<1> DEFINE f == [x \in DOMAIN q.filters |-> <<q.filters[x].op, q.filters[x].field>>]
<1>2. f \in Surjection(DOMAIN q.filters, KeysOf(q))
  BY DEF KeysOf, Surjection
<1>3. IsFiniteSet(KeysOf(q))
  BY <1>2, FS_Surjection, CatalogAssumption
<1>4. \A k \in KeysOf(q) : k = <<k[1], k[2]>> /\ k[1] \in {"max", "min", "eq"}
  BY CatalogAssumption DEF KeysOf
<1>5. QED
  BY <1>1, <1>3, <1>4

\* The window holds finitely many searches, and they name finitely many fields.
LEMMA WindowIsFinite ==
    ASSUME LogInv, NEW t
    PROVE  /\ IsFiniteSet(recent(t)) /\ recent(t) \subseteq DOMAIN log
           /\ IsFiniteSet(UNION { Filtered(i) : i \in recent(t) })
<1>1. recent(t) \in SUBSET DOMAIN log
  BY DEF recent
<1>2. IsFiniteSet(DOMAIN log)
  <2>1. DOMAIN log = 1..Len(log) /\ 1 \in Int /\ Len(log) \in Int
    BY DEF LogInv
  <2>2. QED
    BY <2>1, FS_Interval
<1>3. IsFiniteSet(recent(t))
  BY <1>1, <1>2, FS_Subset
<1> DEFINE P == UNION { log[i].keys : i \in recent(t) }
<1> DEFINE Q == { log[i].keys : i \in recent(t) }
<1>4. IsFiniteSet(P)
  <2> DEFINE f == [i \in recent(t) |-> log[i].keys]
  <2>1. f \in Surjection(recent(t), Q)
    BY DEF Surjection
  <2>2. IsFiniteSet(Q)
    BY <1>3, <2>1, FS_Surjection
  <2>3. \A K \in Q : IsFiniteSet(K)
    BY <1>1, LoggedKeys
  <2> HIDE DEF Q
  <2>4. QED
    BY <2>2, <2>3, FS_UNION DEF Q
<1> DEFINE R == UNION { Filtered(i) : i \in recent(t) }
<1>5. IsFiniteSet(R)
  <2> DEFINE g == [k \in P |-> k[2]]
  <2>1. \A k \in P : g[k] \in R
    BY DEF Filtered
  <2>2. \A f \in R : \E k \in P : g[k] = f
    BY DEF Filtered
  <2>3. g \in Surjection(P, R)
    <3> HIDE DEF P, R
    <3> QED BY <2>1, <2>2 DEF Surjection
  <2> HIDE DEF P, R
  <2>4. QED
    BY <1>4, <2>3, FS_Surjection
<1>6. QED
  BY <1>1, <1>3, <1>5

\* What is reported of a field counts each search on it at least once, and one
\* more than once only if it gave two bounds on the field.
LEMMA UsesCountSearches ==
    ASSUME LogInv, NEW t, NEW f
    PROVE  /\ uses(t, f) >= Cardinality(Searches(t, f))
           /\ uses(t, f) > Cardinality(Searches(t, f)) =>
                 \E e \in Searches(t, f) : Cardinality({ k \in log[e].keys : k[2] = f }) > 1
<1> DEFINE s == Searches(t, f)
<1> DEFINE B == { p \in recent(t) \X {"max", "min", "eq"} : <<p[2], f>> \in log[p[1]].keys }
<1> DEFINE fst == [p \in B |-> p[1]]
<1>1. uses(t, f) = Cardinality(B)
  BY DEF uses
<1>2. \A p \in B : p[1] \in s
  BY DEF Searches, Filtered
<1>3. \A i \in s : \E p \in B : p[1] = i
  <2> SUFFICES ASSUME NEW i \in s PROVE \E p \in B : p[1] = i
    OBVIOUS
  <2>1. i \in recent(t) /\ i \in DOMAIN log
    BY WindowIsFinite DEF Searches
  <2>2. PICK k \in log[i].keys : k[2] = f
    BY DEF Searches, Filtered
  <2>3. k = <<k[1], f>> /\ k[1] \in {"max", "min", "eq"}
    BY <2>1, <2>2, LoggedKeys
  <2>4. <<i, k[1]>> \in B
    BY <2>1, <2>2, <2>3
  <2>5. QED
    BY <2>4
<1>4. IsFiniteSet(B)
  <2>1. IsFiniteSet({"max", "min", "eq"})
    <3>1. IsFiniteSet({} \cup {"max"})
      BY FS_EmptySet, FS_AddElement
    <3>2. IsFiniteSet(({} \cup {"max"}) \cup {"min"})
      BY <3>1, FS_AddElement
    <3>3. IsFiniteSet((({} \cup {"max"}) \cup {"min"}) \cup {"eq"})
      BY <3>2, FS_AddElement
    <3>4. (({} \cup {"max"}) \cup {"min"}) \cup {"eq"} = {"max", "min", "eq"}
      OBVIOUS
    <3>5. QED
      BY <3>3, <3>4
  <2>2. IsFiniteSet(recent(t) \X {"max", "min", "eq"})
    BY <2>1, WindowIsFinite, FS_Product
  <2>3. QED
    BY <2>2, FS_Subset
<1>5. fst \in Surjection(B, s)
  <2> HIDE DEF B, s
  <2> QED BY <1>2, <1>3 DEF Surjection
<1>6. /\ IsFiniteSet(s) /\ Cardinality(s) <= Cardinality(B)
      /\ Cardinality(s) = Cardinality(B) <=> fst \in Injection(B, s)
  <2> HIDE DEF B, s, fst
  <2> QED BY <1>4, <1>5, FS_Surjection
<1>7. Cardinality(s) \in Nat /\ Cardinality(B) \in Nat
  <2> HIDE DEF B, s
  <2> QED BY <1>4, <1>6, FS_CardinalityType
<1>8. ASSUME Cardinality(B) > Cardinality(s)
      PROVE  \E e \in s : Cardinality({ k \in log[e].keys : k[2] = f }) > 1
  <2>1. fst \notin Injection(B, s)
    <3> HIDE DEF B, s, fst
    <3> QED BY <1>6, <1>7, <1>8
  <2>2. PICK p \in B, r \in B : p[1] = r[1] /\ p # r
    <3>1. fst \in [B -> s]
      BY <1>5 DEF Surjection
    <3>2. \E p, r \in B : fst[p] = fst[r] /\ p # r
      <4> HIDE DEF B, s, fst
      <4> QED BY <2>1, <3>1 DEF Injection, IsInjective
    <3>3. QED
      BY <3>2
  <2> DEFINE e == p[1]
  <2> DEFINE K == { k \in log[e].keys : k[2] = f }
  <2>3. <<p[2], f>> \in K /\ <<r[2], f>> \in K /\ <<p[2], f>> # <<r[2], f>>
    <3>1. p = <<p[1], p[2]>> /\ r = <<r[1], r[2]>>
      OBVIOUS
    <3>2. p[2] # r[2]
      BY <2>2, <3>1
    <3>3. QED
      BY <2>2, <3>2
  <2>4. e \in s /\ e \in DOMAIN log
    BY <1>2, WindowIsFinite DEF Searches
  <2>5. IsFiniteSet(K)
    BY <2>4, LoggedKeys, FS_Subset
  <2>6. Cardinality(K) > 1
    <3> HIDE DEF K, e
    <3>1. Cardinality(K) \in Nat /\ K # {}
      BY <2>3, <2>5, FS_CardinalityType
    <3>2. Cardinality(K) # 0
      BY <2>5, <3>1, FS_EmptySet
    <3>3. Cardinality(K) # 1
      BY <2>3, <2>5, FS_Singleton
    <3>4. QED
      BY <3>1, <3>2, <3>3
  <2>7. QED
    BY <2>4, <2>6
<1>9. QED
  <2> HIDE DEF B, s
  <2>1. uses(t, f) >= Cardinality(s)
    BY <1>1, <1>6, <1>7
  <2>2. QED
    BY <1>1, <1>8, <2>1 DEF s

\* The fields that the prompt calls the most filtered are: HeatmapCountsSearches
\* of top_filter_keys.
THEOREM HeatmapIsRight == Spec => []HeatmapCountsSearches
<1>1. ASSUME LogInv PROVE HeatmapCountsSearches
  <2> SUFFICES ASSUME NEW t \in Tenants, NEW top \in top_filter_keys(t)
               PROVE  /\ \A f \in top :
                           LET s == Searches(t, f)
                           IN  /\ s # {} /\ uses(t, f) >= Cardinality(s)
                               /\ uses(t, f) > Cardinality(s) =>
                                   \E e \in s : Cardinality({ k \in log[e].keys : k[2] = f }) > 1
                      /\ \A f \in (UNION { Filtered(i) : i \in DOMAIN log }) \ top :
                           Searches(t, f) # {} =>
                              /\ Cardinality(top) = TopFilters
                              /\ \A g \in top : uses(t, g) >= uses(t, f)
    BY DEF HeatmapCountsSearches
  <2> DEFINE used == UNION { Filtered(i) : i \in recent(t) }
  <2>1. /\ top \in SUBSET used
        /\ Cardinality(top) = Min({TopFilters, Cardinality(used)})
        /\ \A f \in top, g \in used \ top : uses(t, f) >= uses(t, g)
    BY DEF top_filter_keys
  <2>2. ASSUME NEW f \in top PROVE Searches(t, f) # {}
    BY <2>1 DEF Searches
  <2>3. ASSUME NEW f, f \notin top, Searches(t, f) # {}
        PROVE  /\ Cardinality(top) = TopFilters
               /\ \A g \in top : uses(t, g) >= uses(t, f)
    <3>1. f \in used \ top
      BY <2>3 DEF Searches
    <3>2. IsFiniteSet(used)
      BY <1>1, WindowIsFinite
    <3> HIDE DEF used
    <3>3. Cardinality(top) # Cardinality(used) /\ Cardinality(used) \in Nat
      BY <2>1, <3>1, <3>2, FS_Subset, FS_CardinalityType
    <3>4. TopFilters \in Nat
      BY CatalogAssumption
    <3>5. Cardinality(top) = IF TopFilters <= Cardinality(used) THEN TopFilters
                             ELSE Cardinality(used)
      BY <2>1, <3>3, <3>4, MinOfTwo
    <3>6. QED
      BY <2>1, <3>1, <3>3, <3>5
  <2>4. \A f \in top :
           /\ Searches(t, f) # {} /\ uses(t, f) >= Cardinality(Searches(t, f))
           /\ uses(t, f) > Cardinality(Searches(t, f)) =>
                 \E e \in Searches(t, f) : Cardinality({ k \in log[e].keys : k[2] = f }) > 1
    BY <1>1, <2>2, UsesCountSearches
  <2>5. \A f \in (UNION { Filtered(i) : i \in DOMAIN log }) \ top : f \notin top
    OBVIOUS
  <2>6. QED
    BY <2>3, <2>4, <2>5
<1>2. Inv => HeatmapCountsSearches
  BY <1>1 DEF Inv
<1>3. QED
  BY <1>2, Invariance, PTL

=============================================================================
