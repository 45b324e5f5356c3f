------------------------------ MODULE Catalog -------------------------------
(***************************************************************************)
(* The tenants' catalogue rows as the agent and the dashboard search them: *)
(* the in-memory resource repository and its Postgres twin                 *)
(* (resources/repository.py), the endpoints and the resource-search skill  *)
(* over them, the log of searches, and what the learning service           *)
(* (resources/learning.py) makes of rows and log for the agent's prompt.   *)
(*                                                                         *)
(* The value of a field is a record: its JSON type (an object is a list of *)
(* its entries in the order of their keys), the number that float() makes  *)
(* of it (NaN of the text "nan"; NoNumber where it raises), its text in    *)
(* lower case and whether it is written so, and its items.  Every row is   *)
(* active: no operation of the repository gives a row another status.  Ids *)
(* count up with created_at, so a list sorted newest first and cut is a    *)
(* set of the greatest ids.                                                *)
(***************************************************************************)
EXTENDS Integers, Sequences, SequencesExt, FiniteSetsExt

CONSTANTS
    Tenants,
    Inputs,          \* bodies of POST .../resources: source, external id, kind, data, words
    Queries,         \* searches: filters, needle, kind, limit
    None,            \* no source, external id, needle or kind
    NaN, NoNumber,   \* float() gives nan; float() raises
    DefaultLimit, MaxLimit,      \* of the resource-search skill, 5 and 25
    LogWindow,       \* entries that top_filter_keys reads, 500
    WindowDays,      \* and how old they may be
    TopFilters,      \* how many filter keys it returns, 5
    SampleSize,      \* rows that discover_schema reads, 50
    MaxCandidates,   \* rows that the in-memory search filters, 10 000
    MaxOps, MaxDay               \* bounds: uploads, searches and skill calls; the clock

IsValue(v) ==
    /\ v.type \in {"number", "text", "bool", "null", "list"}
    /\ v.num \in Int \cup {NaN, NoNumber}
    /\ v.type \in {"null", "list"} => v.num = NoNumber
    /\ v.type = "bool" => v.num \in {0, 1}

ASSUME CatalogAssumption ==
    /\ {DefaultLimit, MaxLimit, LogWindow, WindowDays, TopFilters, SampleSize} \subseteq Nat \ {0}
    /\ DefaultLimit <= MaxLimit
    /\ MaxCandidates \in Nat /\ SampleSize <= MaxCandidates
    /\ {MaxOps, MaxDay} \subseteq Nat
    /\ NaN \notin Int /\ NoNumber \notin Int /\ NaN # NoNumber
    /\ \A in \in Inputs : \A f \in DOMAIN in.data : IsValue(in.data[f])
    /\ \A q \in Queries :
          /\ q.limit \in Int /\ IsFiniteSet(DOMAIN q.filters)
          /\ \A i \in DOMAIN q.filters :
                q.filters[i].op \in {"max", "min", "eq"} /\ IsValue(q.filters[i].val)

VARIABLES
    rows,        \* InMemoryResourceRepository._by_id, with all tenants' rows
    log,         \* InMemoryQueryLogRepository._entries
    day,         \* the clock
    ops          \* operations so far

CatalogInit == rows = {} /\ log = <<>> /\ day = 0 /\ ops = 0

Operation == ops < MaxOps /\ ops' = ops + 1

\* [:n] in Python of a set of rows sorted newest first: a negative n drops that
\* many from the end.
Newest(S, n) ==
    { r \in S : Cardinality({ e \in S : e.id > r.id }) < IF n >= 0 THEN n ELSE Cardinality(S) + n }

Fields(r) == DOMAIN r.data

(***************************************************************************)
(* Filters                                                                 *)
(***************************************************************************)
Null == [type |-> "null", num |-> NoNumber, word |-> "", lower |-> TRUE, items |-> <<>>]

\* data.get(field): null and missing are the same.
value(r, field) == IF field \in Fields(r) THEN r.data[field] ELSE Null

\* Mutant: only JSON numbers are numbers.
as_number_strict(r, field) ==
    IF value(r, field).type = "number" THEN value(r, field).num ELSE NoNumber

\* float() of the field: texts may be numbers, True is 1.
as_number(r, field) == value(r, field).num

\* Python's ==, with texts compared without case: True equals 1, nan nothing.
Equal(a, b) ==
    \/ a.type = "text" /\ b.type = "text" /\ a.word = b.word
    \/ a.type = "list" /\ b.type = "list" /\ a.items = b.items
    \/ a.type = "null" /\ b.type = "null"
    \/ {a.type, b.type} \subseteq {"number", "bool"} /\ a.num = b.num /\ a.num # NaN

\* Python's <= of two floats.
AtMost(a, b) == {a, b} \cap {NaN, NoNumber} = {} /\ a <= b

\* float(value) is only reached for a row that has a number.
FilterRaises(r, f) ==
    f.op \in {"max", "min"} /\ f.val.num = NoNumber /\ as_number(r, f.field) # NoNumber

\* A max_ bound keeps the rows without a number, a min_ bound drops them.
matches_filter(r, f) ==
    LET n == as_number(r, f.field)
    IN  CASE f.op = "max" -> n = NoNumber \/ AtMost(n, f.val.num)
          [] f.op = "min" -> AtMost(f.val.num, n)
          [] f.op = "eq"  -> Equal(value(r, f.field), f.val)

\* The filters are tried in turn, up to the first that fails or raises.
RowRaises(r, q) ==
    \E i \in DOMAIN q.filters :
       /\ FilterRaises(r, q.filters[i])
       /\ \A j \in 1..(i - 1) : matches_filter(r, q.filters[j])

RowMatches(r, q) ==
    /\ \A i \in DOMAIN q.filters : matches_filter(r, q.filters[i])
    /\ q.needle = None \/ q.needle \in r.words

\* The tenant's newest rows.
list_for(t, kind, limit) ==
    Newest({ r \in rows : r.tenant = t /\ kind \in {None, r.kind} }, limit)

candidates(t, q) == list_for(t, q.kind, MaxCandidates)

Raises(t, q) == \E r \in candidates(t, q) : RowRaises(r, q)

search(t, q, limit) == Newest({ r \in candidates(t, q) : RowMatches(r, q) }, limit)

(***************************************************************************)
(* The same search in SQL: (data ? k AND (data->>k)::numeric <= v) for the *)
(* bounds, data @> {...} for the rest.  A null casts to NULL, which no     *)
(* comparison accepts; a cast of the bound that fails, or of the value of  *)
(* any of the tenant's rows of the kind that the planner gets to, fails    *)
(* the query: PgRaises says when it may.                                   *)
(***************************************************************************)
uncastable(v) == v.type = "bool" \/ (v.type # "null" /\ v.num = NoNumber)

\* json.dumps writes NaN for it, which jsonb refuses.
NoJson(v) == v.type = "number" /\ v.num = NaN

PgRaises(t, q) ==
    \E i \in DOMAIN q.filters :
       LET f == q.filters[i]
       IN  \/ f.op = "eq" /\ NoJson(f.val)
           \/ /\ f.op \in {"max", "min"}
              /\ \/ uncastable(f.val)
                 \/ \E r \in rows : /\ r.tenant = t /\ q.kind \in {None, r.kind}
                                    /\ uncastable(value(r, f.field))

\* numeric sorts NaN after every number.
PgAtMost(a, b) == b = NaN \/ (a # NaN /\ a <= b)

\* @> of two values: equal scalars of one type, or a list with all its items.
PgContains(a, b) ==
    /\ a.type = b.type
    /\ IF b.type = "list" THEN ToSet(b.items) \subseteq ToSet(a.items) ELSE a = b

PgRowMatches(r, q) ==
    \A i \in DOMAIN q.filters :
       LET f == q.filters[i]
           v == value(r, f.field)
       IN  /\ f.field \in Fields(r)
           /\ f.op \in {"max", "min"} => "null" \notin {v.type, f.val.type}
           /\ CASE f.op = "max" -> PgAtMost(v.num, f.val.num)
                [] f.op = "min" -> PgAtMost(f.val.num, v.num)
                [] f.op = "eq"  -> PgContains(v, f.val)

\* Another row with the same source and external id is replaced; a row that
\* lacks one of the two is not.
upsert(r) ==
    { e \in rows : \/ None \in {r.source, r.ext}
                  \/ <<e.tenant, e.source, e.ext>> # <<r.tenant, r.source, r.ext>> } \cup {r}

\* Every row is younger than those before it.
NewId == IF rows = {} THEN 0 ELSE Max({ r.id : r \in rows }) + 1

CreateResource(t, in) ==
    /\ Operation
    /\ rows' = upsert([id |-> NewId, tenant |-> t, source |-> in.source, ext |-> in.ext,
                       kind |-> in.kind, data |-> in.data, words |-> in.words])
    /\ UNCHANGED <<log, day>>

DeleteResource(t, r) ==
    /\ r.tenant = t
    /\ rows' = rows \ {r}
    /\ UNCHANGED <<log, day, ops>>

Entry(t, q) == [tenant |-> t, day |-> day,
                keys |-> { <<q.filters[i].op, q.filters[i].field>> : i \in DOMAIN q.filters }]

\* A search that raises is answered 500 and not logged; a log that fails does
\* not fail the search.
SearchResources(t, q) ==
    /\ Operation
    /\ ~Raises(t, q)
    /\ log' = Append(log, Entry(t, q))
    /\ UNCHANGED <<rows, day>>

\* max(1, min(int(limit or default), maximum))
clamped(limit) == Max({1, Min({IF limit = 0 THEN DefaultLimit ELSE limit, MaxLimit})})

skill_hits(t, q) == search(t, q, clamped(q.limit))

ResourceSearchSkill(t, q) ==
    /\ Operation
    /\ ~Raises(t, q)
    /\ log' = Append(log, Entry(t, q))
    /\ UNCHANGED <<rows, day>>

(***************************************************************************)
(* Learning                                                                *)
(***************************************************************************)
\* float() takes it and it is no bool.
is_numeric(v) == v.type # "bool" /\ v.num # NoNumber

Having(sample, field) == { r \in sample : field \in Fields(r) }

\* Mutant: one number makes a field numeric.
tagged_numeric_any(sample, field) ==
    \E r \in Having(sample, field) : is_numeric(r.data[field])

\* At least 70% of the values are numeric.
tagged_numeric(sample, field) ==
    10 * Cardinality({ r \in Having(sample, field) : is_numeric(r.data[field]) })
      >= 7 * Cardinality(Having(sample, field))

\* Each field of the SampleSize newest rows, how many of them have it, and
\* whether it is numeric.
discover_schema(t, kind) ==
    LET sample == list_for(t, kind, SampleSize)
    IN  { [field |-> f, count |-> Cardinality(Having(sample, f)),
           numeric |-> tagged_numeric(sample, f)] :
            f \in UNION { Fields(r) : r \in sample } }

\* The fields that render_soul_hints names: those of a quarter of the rows.
useful(t, kind) ==
    { f \in discover_schema(t, kind) : 4 * f.count >= Cardinality(list_for(t, kind, SampleSize)) }

\* The tenant's newest log entries that are young enough, by position.
recent(t) ==
    { i \in DOMAIN log :
        /\ log[i].tenant = t /\ log[i].day >= day - WindowDays
        /\ Cardinality({ j \in DOMAIN log : j > i /\ log[j].tenant = t }) < LogWindow }

Filtered(i) == { k[2] : k \in log[i].keys }

\* Mutant: an entry counts once for the first of a field's bounds.
uses_maxOnly(t, field) ==
    Cardinality({ i \in recent(t) : <<"max", field>> \in log[i].keys })

\* max_price and min_price both count for price.
uses(t, field) ==
    Cardinality({ p \in recent(t) \X {"max", "min", "eq"} : <<p[2], field>> \in log[p[1]].keys })

\* Every way to take the TopFilters most used fields.
top_filter_keys(t) ==
    LET used == UNION { Filtered(i) : i \in recent(t) }
    IN  { top \in SUBSET used :
            /\ Cardinality(top) = Min({TopFilters, Cardinality(used)})
            /\ \A f \in top, g \in used \ top : uses(t, f) >= uses(t, g) }

NextDay ==
    /\ day < MaxDay
    /\ day' = day + 1
    /\ UNCHANGED <<rows, log, ops>>

CatalogNext ==
    \/ \E t \in Tenants, in \in Inputs : CreateResource(t, in)
    \/ \E t \in Tenants, r \in rows : DeleteResource(t, r)
    \/ \E t \in Tenants, q \in Queries : SearchResources(t, q) \/ ResourceSearchSkill(t, q)
    \/ NextDay
=============================================================================
