----------------------------- MODULE Analytics ------------------------------
(***************************************************************************)
(* GET /tenants/{id}/analytics (services/api/main.py) over the buyer       *)
(* memory.  The report is one list_threads and then one recall per thread; *)
(* with the Postgres memory each of them leaves the event loop, so buyers  *)
(* and agents go on writing, and the memory on dropping its oldest turns,  *)
(* between the reads of one report.  What a recall returned is tallied     *)
(* turn by turn; the clock and the memory's worker threads go on then too. *)
(*                                                                         *)
(* A buyer_id is "slug:number", and the tenant's threads are asked for by   *)
(* the prefix "slug:".  In memory that is startswith; in Postgres it is     *)
(* LIKE with the slug as it is, and a "_" or "%" in it also matches other   *)
(* tenants' threads, which are then listed, counted and use up the limit    *)
(* like the tenant's own.  The model says Listed for either.                *)
(*                                                                         *)
(* Time is counted in ticks, TicksPerDay of them to a UTC day.  The        *)
(* handoff and takeover counters, tallied in the same loop from the turns' *)
(* metadata, are left out.                                                 *)
(***************************************************************************)
EXTENDS Integers, Sequences, FiniteSets, SequencesExt, FiniteSetsExt

CONSTANTS
    Threads,         \* buyer_ids with a history
    Listed,          \* those whose id the prefix of the tenant asked about matches
    Nobody,          \* no median, no pending buyer turn
    TicksPerDay,
    MaxItems,        \* turns the memory keeps of a buyer
    ThreadLimit,     \* limit of list_threads, 100 by default
    WindowDays,      \* values of the query parameter days
    MaxDays,         \* _ANALYTICS_MAX_DAYS
    MaxNow,          \* bound: the clock
    MaxTurns         \* bound: turns written

ASSUME AnalyticsAssumption ==
    /\ Listed \subseteq Threads /\ IsFiniteSet(Threads)
    /\ Nobody \notin Int /\ Nobody \notin Threads
    /\ {TicksPerDay, MaxItems, ThreadLimit, MaxDays} \subseteq Nat \ {0}
    /\ WindowDays \subseteq Int /\ {MaxNow, MaxTurns} \subseteq Nat

VARIABLES
    now,
    turns,       \* buyer_interactions: the turns of each thread, by time
    written,     \* turns written so far; numbers the turns
    call         \* the locals of the request in progress

vars == <<now, turns, written, call>>

Day(tick) == tick \div TicksPerDay
InWindow(turn, since) == turn.at >= since

Zero == [d \in 0..Day(MaxNow) |-> 0]
Empty == [buyer |-> 0, agent |-> 0, daily |-> [buyer |-> Zero, agent |-> Zero],
          seconds |-> <<>>, buyers |-> {}, pending |-> Nobody, counted |-> {}]
Idle == [pc |-> "idle", days |-> 0, now |-> 0, todo |-> <<>>, thread |-> Nobody,
         rest |-> <<>>, acc |-> Empty, before |-> {}]

\* The other threads have a history that nobody adds to here.
Foreign == <<[n |-> 0, at |-> 0, role |-> "buyer"]>>

Init ==
    /\ now = 0
    /\ turns = [t \in Threads |-> IF t \in Listed THEN <<>> ELSE Foreign]
    /\ written = 1
    /\ call = Idle

kept(bucket) == SubSeq(bucket, Max({1, Len(bucket) - MaxItems + 1}), Len(bucket))

Remember(t, role) ==
    /\ written < MaxTurns
    /\ written' = written + 1
    /\ turns' = [turns EXCEPT ![t] =
          kept(Append(@, [n |-> written, at |-> now, role |-> role]))]
    /\ UNCHANGED <<now, call>>

Tick ==
    /\ now < MaxNow
    /\ now' = now + 1
    /\ UNCHANGED <<turns, written, call>>

\* Mutant: the cut is made in no particular order.
list_threads_unsorted == SetToSeqs({ t \in Listed : turns[t] # <<>> })

\* The threads that match, the most recently active first; the caller gets the
\* first ThreadLimit.  Nothing orders threads whose last turns have the same time.
list_threads ==
    { s \in SetToSeqs({ t \in Listed : turns[t] # <<>> }) :
         \A i, j \in DOMAIN s : i < j => Last(turns[s[i]]).at >= Last(turns[s[j]]).at }

(***************************************************************************)
(* The request                                                             *)
(***************************************************************************)
\* Mutant: the buyer's turn goes on waiting after the first reply to it.
replied_again(acc, turn) ==
    IF acc.pending = Nobody THEN acc
    ELSE [acc EXCEPT !.seconds = Append(@, turn.at - acc.pending)]

\* One agent reply per buyer prompt counts.
replied(acc, turn) ==
    IF acc.pending = Nobody THEN acc
    ELSE [acc EXCEPT !.seconds = Append(@, turn.at - acc.pending), !.pending = Nobody]

tallied_buyer(acc, turn) ==
    [acc EXCEPT !.buyer = @ + 1, !.daily.buyer[Day(turn.at)] = @ + 1,
                !.pending = turn.at]

\* Mutant: the agents' bars are built from the buyers' counts.
tallied_agent_asBuyer(acc, turn) ==
    replied([acc EXCEPT !.agent = @ + 1, !.daily.buyer[Day(turn.at)] = @ + 1], turn)

tallied_agent(acc, turn) ==
    replied([acc EXCEPT !.agent = @ + 1, !.daily.agent[Day(turn.at)] = @ + 1], turn)

\* The body of the loop over one thread's turns; counted is history.
tallied(acc, t, turn, since) ==
    IF ~InWindow(turn, since) THEN acc
    ELSE LET seen == [acc EXCEPT !.buyers = @ \cup {t}, !.counted = @ \cup {<<t, turn>>}]
         IN  IF turn.role = "buyer" THEN tallied_buyer(seen, turn)
             ELSE tallied_agent(seen, turn)

\* The values in ascending order.
sorted(values) ==
    LET order == CHOOSE p \in SetToSeqs(DOMAIN values) :
                     \A i, j \in DOMAIN p : i < j => values[p[i]] <= values[p[j]]
    IN  [i \in DOMAIN values |-> values[order[i]]]

\* Twice the median, which may be half a tick.
median(values) ==
    IF values = <<>> THEN Nobody
    ELSE LET sorted_v == sorted(values)
             mid == (Len(values) \div 2) + 1
         IN  IF Len(values) % 2 = 1 THEN 2 * sorted_v[mid]
             ELSE sorted_v[mid - 1] + sorted_v[mid]

\* days buckets from the day of since on.
daily_series(acc, since, days) ==
    [i \in 1..days |-> LET d == Day(since) + i - 1
                       IN  [date |-> d,
                            buyer |-> IF d \in DOMAIN Zero THEN acc.daily.buyer[d] ELSE 0,
                            agent |-> IF d \in DOMAIN Zero THEN acc.daily.agent[d] ELSE 0]]

\* days out of range is answered 422.  Else the clock is read and the threads
\* are listed; before is history.
GetAnalytics(days) ==
    /\ call.pc = "idle"
    /\ 0 < days /\ days <= MaxDays
    /\ \E threads \in list_threads :
          call' = [pc |-> "recall", days |-> days, now |-> now,
                   todo |-> SubSeq(threads, 1, Min({Len(threads), ThreadLimit})),
                   thread |-> Nobody, rest |-> <<>>, acc |-> Empty,
                   before |-> UNION { { <<t, turn>> : turn \in Range(turns[t]) } : t \in Listed }]
    /\ UNCHANGED <<now, turns, written>>

RecallThread ==
    /\ call.pc = "recall" /\ call.rest = <<>> /\ call.todo # <<>>
    /\ call' = [call EXCEPT !.thread = Head(call.todo), !.todo = Tail(@),
                            !.rest = turns[Head(call.todo)], !.acc.pending = Nobody]
    /\ UNCHANGED <<now, turns, written>>

Since == call.now - call.days * TicksPerDay

\* One round of the loop over the turns that the recall returned.
TallyTurn ==
    /\ call.rest # <<>>
    /\ call' = [call EXCEPT !.rest = Tail(@),
                            !.acc = tallied(@, call.thread, Head(call.rest), Since)]
    /\ UNCHANGED <<now, turns, written>>

Answered == call.pc = "recall" /\ call.todo = <<>> /\ call.rest = <<>>

\* What the request answers once every thread is tallied.
AnalyticsOut ==
    LET acc == call.acc
    IN  [since |-> Since, now |-> call.now,
         messages_total |-> acc.buyer + acc.agent,
         unique_buyers |-> Cardinality(acc.buyers),
         median_response |-> median(acc.seconds),
         daily |-> daily_series(acc, Since, call.days)]

Answer ==
    /\ Answered
    /\ call' = Idle
    /\ UNCHANGED <<now, turns, written>>

Next ==
    \/ Tick
    \/ \E t \in Listed, role \in {"buyer", "agent"} : Remember(t, role)
    \/ \E days \in WindowDays : GetAnalytics(days)
    \/ RecallThread \/ TallyTurn
    \/ Answer

Spec == Init /\ [][Next]_vars

\* When the thread was last active, as the request's list_threads saw it.
LastSeen(t) == Max({ p[2].at : p \in { q \in call.before : q[1] = t } })

(* A report leaves out no message of its window that was there when it     *)
(* began and is still there when it is answered, unless its thread had     *)
(* ThreadLimit others at least as recent before it in list_threads, other  *)
(* tenants' included where the prefix matches theirs; and every message it *)
(* counts is from a listed thread and from the window.                     *)
NothingMissed ==
    Answered =>
      /\ \A p \in call.before :
            (InWindow(p[2], AnalyticsOut.since) /\ p[2] \in Range(turns[p[1]])) =>
               \/ p \in call.acc.counted
               \/ Cardinality({ t \in Listed \ {p[1]} :
                     /\ \E q \in call.before : q[1] = t
                     /\ LastSeen(t) >= LastSeen(p[1]) }) >= ThreadLimit
      /\ \A p \in call.acc.counted : p[1] \in Listed /\ InWindow(p[2], AnalyticsOut.since)

(* The chart and the headline number agree inside the window:              *)
(* messages_total counts each message once, each bar is the number of its  *)
(* day's messages on either side, no two bars are of one day, and a        *)
(* message without a bar is of the day the window starts or ends in.       *)
BarsMatchTotals ==
    Answered =>
      LET counted(d, role) == { p \in call.acc.counted : Day(p[2].at) = d /\ p[2].role = role }
          bars == AnalyticsOut.daily
      IN  /\ AnalyticsOut.messages_total = Cardinality(call.acc.counted)
          /\ \A i \in DOMAIN bars :
                /\ bars[i].buyer = Cardinality(counted(bars[i].date, "buyer"))
                /\ bars[i].agent = Cardinality(counted(bars[i].date, "agent"))
          /\ \A i, j \in DOMAIN bars : bars[i].date = bars[j].date => i = j
          /\ \A p \in call.acc.counted :
                (\A i \in DOMAIN bars : bars[i].date # Day(p[2].at)) =>
                    \/ Day(p[2].at) = Day(AnalyticsOut.since)
                    \/ Day(p[2].at) >= Day(AnalyticsOut.now)

(* The comment on the series in get_analytics: "Always end at today UTC so *)
(* the right edge is stable".                                              *)
ChartEndsToday ==
    Answered => \E i \in DOMAIN AnalyticsOut.daily :
                   AnalyticsOut.daily[i].date = Day(AnalyticsOut.now)

\* The counted turns of a thread that an agent's counted turn directly follows.
RepliedTo(p) ==
    { q \in call.acc.counted :
        /\ q[1] = p[1] /\ q[2].n < p[2].n /\ q[2].role = "buyer"
        /\ ~ \E r \in call.acc.counted : r[1] = p[1] /\ q[2].n < r[2].n /\ r[2].n < p[2].n }

(* The response times are those of exactly the agents' messages that       *)
(* directly follow a buyer's message in the window: a second reply, or one *)
(* to a message from before the window, counts for nothing.  Their median  *)
(* lies half way between the smallest that at least half of them do not    *)
(* exceed and the greatest that at least half reach.                       *)
ResponseTimesAreRight ==
    Answered =>
      LET s == call.acc.seconds
          replies == { p \in call.acc.counted : p[2].role = "agent" /\ RepliedTo(p) # {} }
          wait(p) == p[2].at - (CHOOSE q \in RepliedTo(p) : TRUE)[2].at
          half == (Len(s) + 1) \div 2
          equal(d) == { i \in DOMAIN s : s[i] = d }
          below(d) == { i \in DOMAIN s : s[i] < d }
          above(d) == { i \in DOMAIN s : s[i] > d }
      IN  /\ \A d \in 0..MaxNow \cup Range(s) :
                Cardinality(equal(d)) = Cardinality({ p \in replies : wait(p) = d })
          /\ IF s = <<>> THEN AnalyticsOut.median_response = Nobody
             ELSE \E a, b \in Range(s) :
                     /\ Cardinality(below(a)) < half
                     /\ half <= Cardinality(below(a) \cup equal(a))
                     /\ Cardinality(above(b)) < half
                     /\ half <= Cardinality(above(b) \cup equal(b))
                     /\ AnalyticsOut.median_response = a + b
=============================================================================
