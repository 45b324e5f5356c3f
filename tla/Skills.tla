------------------------------- MODULE Skills -------------------------------
(***************************************************************************)
(* The skills of the agent (skills/) and the goal judge (goal.py) over the *)
(* catalogue: resource-search is an action of Catalog; here are            *)
(* lead-qualifier, the sales-closer stage machine and POST /goal.  The     *)
(* closer keeps no state of its own: whoever invokes it passes the stage   *)
(* of the last answer back, and sale is that caller's copy.                *)
(*                                                                         *)
(* A message is what the substring tests and the regular expressions find  *)
(* in it: the set of words the closer looks for, the number of words of    *)
(* each kind that the qualifier counts.                                    *)
(***************************************************************************)
EXTENDS Catalog

CONSTANTS
    Leads            \* messages: empty, or words counted as high, low, urgent, both, budget

ASSUME SkillsAssumption ==
    \A l \in Leads : /\ l.empty \in BOOLEAN
                     /\ {l.high, l.low, l.urgent, l.both, l.budget} \subseteq Nat

VARIABLES
    sale             \* the conversation's stage, and history: was CONFIRM answered

vars == <<rows, log, day, ops, sale>>

Stages == {"IDENTIFY", "PRESENT", "OBJECTIONS", "CONFIRM", "NOTIFY", "CLOSED", "ESCALATED"}

\* "no" stands for the objections, "humano" for the calls for a person (it
\* contains "no"), "quiero" for the buy words; "ok" buys and confirms,
\* "pagado" confirms.
Words == {"no", "humano", "quiero", "ok", "pagado"}
Messages == { m \in SUBSET Words : "humano" \in m => "no" \in m }

Init == CatalogInit /\ sale = [stage |-> "IDENTIFY", confirmed |-> FALSE]

(***************************************************************************)
(* sales-closer                                                            *)
(***************************************************************************)
\* Mutant: any answer confirms.
transition_eager(stage, m) ==
    CASE stage = "IDENTIFY"   -> "PRESENT"
      [] stage = "PRESENT"    -> IF "no" \in m THEN "OBJECTIONS" ELSE "CONFIRM"
      [] stage = "OBJECTIONS" -> IF "humano" \in m THEN "ESCALATED" ELSE "CONFIRM"
      [] stage = "CONFIRM"    -> "NOTIFY"
      [] stage = "NOTIFY"     -> "CLOSED"
      [] OTHER                -> stage

transition(stage, m) ==
    CASE stage = "IDENTIFY"   -> "PRESENT"
      [] stage = "PRESENT"    -> IF "no" \in m THEN "OBJECTIONS" ELSE "CONFIRM"
      [] stage = "OBJECTIONS" -> IF "humano" \in m THEN "ESCALATED"
                                 ELSE IF m \cap {"ok", "quiero"} # {} THEN "CONFIRM"
                                 ELSE "OBJECTIONS"
      [] stage = "CONFIRM"    -> IF m \cap {"ok", "pagado"} # {} THEN "NOTIFY" ELSE "CONFIRM"
      [] stage = "NOTIFY"     -> "CLOSED"
      [] OTHER                -> stage

CloserStep(m) ==
    /\ Operation
    /\ sale' = [stage |-> transition(sale.stage, m),
                confirmed |-> sale.confirmed \/ (sale.stage = "CONFIRM" /\ m \cap {"ok", "pagado"} # {})]
    /\ UNCHANGED <<rows, log, day>>

(***************************************************************************)
(* lead-qualifier and the judge                                            *)
(***************************************************************************)
\* Words of both kinds ("urgente", "hoy") count as intent and as urgency.
score(l) ==
    Max({0, Min({100, 50 + 10 * (l.high + l.both) - 8 * l.low
                         + 15 * (l.urgent + l.both) + 5 * l.budget})})

tag(n) == IF n >= 70 THEN "hot" ELSE IF n >= 40 THEN "warm" ELSE "cold"

next_action(n) ==
    IF tag(n) = "hot" THEN "prioritize"
    ELSE IF tag(n) = "warm" /\ n >= 55 THEN "nurture" ELSE "monitor"

\* What the qualifier's answer holds, or POST /goal puts in its place when the
\* message is empty: no stage, no payment and no list of matches.
context(l) ==
    IF l.empty THEN [intent_score |-> 0, tag |-> "cold"]
    ELSE [intent_score |-> score(l), tag |-> tag(score(l))]

judge_qualify(ctx) == ctx.intent_score >= 40 /\ ctx.tag \in {"warm", "hot"}

\* What a context lacks has its default: stage IDENTIFY, no payment, no matches.
Get(ctx, key, default) == IF key \in DOMAIN ctx THEN ctx[key] ELSE default

judge_sell(ctx) == Get(ctx, "stage", "IDENTIFY") = "CLOSED" /\ Get(ctx, "payment_confirmed", FALSE)
judge_lookup(ctx) == Get(ctx, "matches", {}) # {}

judge(type, ctx) ==
    CASE type = "qualify" -> judge_qualify(ctx)
      [] type = "sell"    -> judge_sell(ctx)
      [] type = "lookup"  -> judge_lookup(ctx)
      [] OTHER            -> FALSE

Next ==
    \/ CatalogNext /\ UNCHANGED sale
    \/ \E m \in Messages : CloserStep(m)

Spec == Init /\ [][Next]_vars

\* What the upload of such a row would have raised on Postgres.
PgHolds(t) ==
    \A r \in rows : r.tenant = t => \A f \in Fields(r) : ~NoJson(r.data[f])

\* What SQL alone takes for a match: a list with more items than were asked
\* for, or in another order, and NaN as the greatest number.
SqlOnly(r, f) ==
    \/ f.op = "eq" /\ f.val.type = "list" /\ value(r, f.field).items # f.val.items
    \/ f.op = "min" /\ as_number(r, f.field) = NaN
    \/ f.op = "max" /\ f.val.num = NaN

(* The two repositories agree in one direction, up to three differences:   *)
(* whenever the SQL search without free text cannot fail, the in-memory    *)
(* search raises only for a bound that is null, and finds every one of its *)
(* candidates that the SQL search finds, other than by the items of a list *)
(* or by NaN.  (Not the other way: it also finds rows that lack a bounded  *)
(* field, and texts written in another case.)                              *)
PostgresHitsAreMemoryHits ==
    \A t \in Tenants, q \in Queries :
       (q.needle = None /\ PgHolds(t) /\ ~PgRaises(t, q)) =>
          /\ Raises(t, q) => \E i \in DOMAIN q.filters :
                                /\ q.filters[i].op \in {"max", "min"}
                                /\ q.filters[i].val.type = "null"
          /\ \A r \in candidates(t, q) :
                PgRowMatches(r, q) =>
                   \/ r \in search(t, q, MaxCandidates)
                   \/ \E i \in DOMAIN q.filters : SqlOnly(r, q.filters[i])

\* The tenant's searches of the window that filtered on the field.
Searches(t, field) == { i \in recent(t) : field \in Filtered(i) }

(* The fields the prompt calls the most filtered are: what is reported of  *)
(* a field is at least the number of the tenant's searches on it, and more *)
(* only when a search gave two bounds on it; a field that was searched for *)
(* is left out only for TopFilters others reported no lower.               *)
HeatmapCountsSearches ==
    \A t \in Tenants : \A top \in top_filter_keys(t) :
       /\ \A f \in top :
             LET s == Searches(t, f)
             IN  /\ s # {} /\ uses(t, f) >= Cardinality(s)
                 /\ uses(t, f) > Cardinality(s) =>
                       \E e \in s : Cardinality({ k \in log[e].keys : k[2] = f }) > 1
       /\ \A f \in (UNION { Filtered(i) : i \in DOMAIN log }) \ top :
             Searches(t, f) # {} =>
                /\ Cardinality(top) = TopFilters
                /\ \A g \in top : uses(t, g) >= uses(t, f)

\* A search of all rows for field >= n.
AtLeast(field, n) ==
    [filters |-> <<[op |-> "min", field |-> field,
                    val |-> [type |-> "number", num |-> n, word |-> "", lower |-> TRUE,
                             items |-> <<>>]]>>,
     needle |-> None, kind |-> None, limit |-> MaxCandidates]

\* The numbers that the fields of the uploads hold.
Numbers ==
    (UNION { { in.data[f].num : f \in DOMAIN in.data } : in \in Inputs }) \ {NaN, NoNumber}

(* What the prompt's tag "numeric" is worth to a search of all rows with a *)
(* bound no greater than any number.  Of the sampled rows with the field   *)
(* at least 70% are found: in memory, except for those that say "nan",     *)
(* which no bound finds; on Postgres, provided that every value of the     *)
(* field in the tenant's catalogue casts.  (The tag leaves room for 30%    *)
(* that do not, and one of them fails the search.)                         *)
NumericHintsSearchable ==
    \A t \in Tenants : \A f \in useful(t, None) : \A n \in Numbers :
       (f.numeric /\ \A m \in Numbers : n <= m) =>
          LET q      == AtLeast(f.field, n)
              sample == list_for(t, None, SampleSize)
              nans   == { r \in sample : as_number(r, f.field) = NaN }
          IN  /\ 10 * Cardinality((search(t, q, MaxCandidates) \cup nans) \cap sample)
                    >= 7 * f.count
              /\ (PgHolds(t) /\ ~PgRaises(t, q)) =>
                    10 * Cardinality({ r \in sample : PgRowMatches(r, q) }) >= 7 * f.count

(* A goal is achieved on evidence: a sale once it is confirmed and closed, *)
(* a lookup when a row matches, and through POST /goal, whose context has  *)
(* neither stage nor matches, only a qualification, for exactly the leads  *)
(* not tagged cold and so for all that the qualifier wants followed up.    *)
GoalsNeedEvidence ==
    /\ \A paid \in BOOLEAN :
          judge("sell", [stage |-> sale.stage, payment_confirmed |-> paid])
             <=> (paid /\ sale.confirmed /\ sale.stage = "CLOSED")
    /\ \A t \in Tenants, q \in Queries :
          ~Raises(t, q) =>
             (judge("lookup", [matches |-> skill_hits(t, q)])
                <=> \E r \in candidates(t, q) : RowMatches(r, q))
    /\ \A l \in Leads :
          /\ \A type \in {"sell", "lookup", "follow_up"} : ~judge(type, context(l))
          /\ judge("qualify", context(l)) <=> (context(l).tag # "cold")
          /\ (~l.empty /\ next_action(score(l)) # "monitor") => judge("qualify", context(l))
=============================================================================
