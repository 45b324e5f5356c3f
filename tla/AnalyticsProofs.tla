-------------------------- MODULE AnalyticsProofs ---------------------------
(***************************************************************************)
(* Theorems about Analytics, for any threads, windows, limits and memory.  *)
(***************************************************************************)
EXTENDS Analytics, TLAPS, FiniteSetTheorems

Turn == [n : Nat, at : 0..MaxNow, role : {"buyer", "agent"}]
Message == Listed \X Turn

Days == 0..Day(MaxNow)
PerDay == [Days -> Nat]

Acc == [buyer : Nat, agent : Nat, daily : [buyer : PerDay, agent : PerDay],
        seconds : Seq(Int), buyers : SUBSET Listed, pending : Int \cup {Nobody},
        counted : SUBSET Message]

Call == [pc : {"idle", "recall"}, days : Nat, now : Nat, todo : Seq(Listed),
         thread : Listed \cup {Nobody}, rest : Seq(Turn), acc : Acc, before : SUBSET Message]

\* A thread's turns stand in the order in which they were written.
Chronological(s) ==
    \A i, j \in 1..Len(s) : i < j => s[i].n < s[j].n /\ s[i].at <= s[j].at

MemoryInv ==
    /\ now \in 0..MaxNow /\ written \in Nat
    /\ turns \in [Threads -> Seq(Turn)]
    /\ \A t \in Listed : /\ Chronological(turns[t])
                       /\ \A i \in 1..Len(turns[t]) : /\ turns[t][i].n < written
                                                      /\ turns[t][i].at <= now

\* While one thread is tallied the others wait in todo, each once; what is
\* counted is from the window, and of the thread at hand older than the rest.
LoopInv ==
    /\ call \in Call
    /\ \A i, j \in 1..Len(call.todo) : i # j => call.todo[i] # call.todo[j]
    /\ \A i \in 1..Len(call.todo) : call.todo[i] # call.thread
    /\ call.rest # <<>> => call.pc = "recall" /\ call.thread \in Listed
    /\ Chronological(call.rest)
    /\ IsFiniteSet(call.acc.counted)
    /\ \A p \in call.acc.counted :
          /\ InWindow(p[2], Since)
          /\ \A i \in 1..Len(call.todo) : call.todo[i] # p[1]
          /\ p[1] = call.thread => \A i \in 1..Len(call.rest) : p[2].n < call.rest[i].n

\* The messages of S of one day on one side.
OnDay(S, d, role) == { p \in S : Day(p[2].at) = d /\ p[2].role = role }
CountedOn(d, role) == OnDay(call.acc.counted, d, role)

\* The counters of get_analytics agree with the messages they count.
TotalsInv ==
    /\ call.acc.buyer + call.acc.agent = Cardinality(call.acc.counted)
    /\ \A d \in Days : /\ call.acc.daily.buyer[d] = Cardinality(CountedOn(d, "buyer"))
                       /\ call.acc.daily.agent[d] = Cardinality(CountedOn(d, "agent"))

\* Among the messages of C: the one that p answers directly, those that answer one
\* after d, and a thread's last.
AnsweredBy(C, p) ==
    { q \in C : /\ q[1] = p[1] /\ q[2].n < p[2].n /\ q[2].role = "buyer"
                /\ ~ \E r \in C : r[1] = p[1] /\ q[2].n < r[2].n /\ r[2].n < p[2].n }
WaitOf(C, p) == p[2].at - (CHOOSE q \in AnsweredBy(C, p) : TRUE)[2].at
WaitsOf(C, d) ==
    { p \in { q \in C : q[2].role = "agent" /\ AnsweredBy(C, q) # {} } : WaitOf(C, p) = d }
LastOf(C, t) == { q \in C : q[1] = t /\ \A r \in C : r[1] = t => r[2].n <= q[2].n }

Numbered(C) == \A p, q \in C : p[1] = q[1] /\ p[2].n = q[2].n => p = q
TimesAt(s, d) == { i \in DOMAIN s : s[i] = d }
TimesUnder(s, d) == { i \in DOMAIN s : s[i] < d }
TimesUpTo(s, d) == { i \in DOMAIN s : s[i] <= d }
TimesOver(s, d) == { i \in DOMAIN s : s[i] > d }
TimesFrom(s, d) == { i \in DOMAIN s : s[i] >= d }

\* Each response time is the wait of one direct reply; what waits for the next
\* is the thread's last message, if that is a buyer's.
TimesInv ==
    LET C == call.acc.counted
    IN  /\ Numbered(C)
        /\ \A d \in Int : Cardinality(TimesAt(call.acc.seconds, d)) = Cardinality(WaitsOf(C, d))
        /\ \A q \in LastOf(C, call.thread) : q[2].role = "buyer" => call.acc.pending = q[2].at
        /\ call.acc.pending # Nobody => \E q \in LastOf(C, call.thread) : q[2].role = "buyer"

\* The threads at least as recent as t, as list_threads saw them, fill the listing.
CutOff(t) ==
    Cardinality({ s \in Listed \ {t} : /\ \E q \in call.before : q[1] = s
                                     /\ LastSeen(s) >= LastSeen(t) }) >= ThreadLimit

\* Where a message that must be counted is found until it is.
Ahead(p) ==
    \/ p \in call.acc.counted
    \/ \E i \in 1..Len(call.todo) : call.todo[i] = p[1]
    \/ p[1] = call.thread /\ \E i \in 1..Len(call.rest) : call.rest[i] = p[2]
    \/ CutOff(p[1])

\* No message is lost from sight: one that list_threads saw and the memory keeps
\* is counted, still to come, or cut off.
MissInv ==
    call.pc = "recall" =>
       \A p \in call.before :
          /\ p[2].n < written
          /\ (InWindow(p[2], Since) /\ p[2] \in Range(turns[p[1]])) => Ahead(p)

\* The shapes of the constants, one by one.
LEMMA Constants ==
    /\ Listed \subseteq Threads /\ IsFiniteSet(Threads)
    /\ TicksPerDay \in Nat \ {0} /\ MaxItems \in Nat \ {0} /\ ThreadLimit \in Nat \ {0}
    /\ MaxDays \in Nat /\ MaxNow \in Nat /\ Nobody \notin Int /\ Nobody \notin Listed
  BY AnalyticsAssumption

\* Max of two numbers is the greater one.
LEMMA MaxOfTwo ==
    ASSUME NEW a \in Int, NEW b \in Int
    PROVE  Max({a, b}) = IF a >= b THEN a ELSE b
<1>1. CASE a >= b
  <2>1. a \in {a, b} /\ \A y \in {a, b} : a >= y
    BY <1>1
  <2>2. \A x \in {a, b} : (\A y \in {a, b} : x >= y) => x = a
    BY <1>1
  <2>3. QED
    BY <1>1, <2>1, <2>2 DEF Max
<1>2. CASE ~(a >= b)
  <2>1. b \in {a, b} /\ \A y \in {a, b} : b >= y
    BY <1>2
  <2>2. \A x \in {a, b} : (\A y \in {a, b} : x >= y) => x = b
    BY <1>2
  <2>3. QED
    BY <1>2, <2>1, <2>2 DEF Max
<1>3. QED
  BY <1>1, <1>2

\* Min of two numbers is the smaller one.
LEMMA MinOfTwo ==
    ASSUME NEW a \in Int, NEW b \in Int
    PROVE  Min({a, b}) = IF a <= b THEN a ELSE b
<1>1. CASE a <= b
  <2>1. a \in {a, b} /\ \A y \in {a, b} : a <= y
    BY <1>1
  <2>2. \A x \in {a, b} : (\A y \in {a, b} : x <= y) => x = a
    BY <1>1
  <2>3. QED
    BY <1>1, <2>1, <2>2 DEF Min
<1>2. CASE ~(a <= b)
  <2>1. b \in {a, b} /\ \A y \in {a, b} : b <= y
    BY <1>2
  <2>2. \A x \in {a, b} : (\A y \in {a, b} : x <= y) => x = b
    BY <1>2
  <2>3. QED
    BY <1>2, <2>1, <2>2 DEF Min
<1>3. QED
  BY <1>1, <1>2

\* remember appends a turn and trims the bucket from its old end.
LEMMA KeptTurns ==
    ASSUME NEW b \in Seq(Turn), NEW x \in Turn
    PROVE  LET k == kept(Append(b, x))
           IN  /\ k \in Seq(Turn)
               /\ \E m \in 0..Len(b) :
                     /\ Len(k) = Len(b) + 1 - m
                     /\ \A i \in 1..Len(k) : k[i] = IF i + m = Len(b) + 1 THEN x ELSE b[i + m]
<1> DEFINE c == Append(b, x)
           k == kept(c)
           first == Max({1, Len(c) - MaxItems + 1})
           m == first - 1
<1>1. c \in Seq(Turn) /\ Len(c) = Len(b) + 1 /\ Len(b) \in Nat
  OBVIOUS
<1>2. \A i \in 1..Len(c) : c[i] = IF i = Len(b) + 1 THEN x ELSE b[i]
  OBVIOUS
<1> HIDE DEF c
<1>3. MaxItems \in Nat \ {0}
  BY AnalyticsAssumption
<1>4. first = IF 1 >= Len(c) - MaxItems + 1 THEN 1 ELSE Len(c) - MaxItems + 1
  BY <1>1, <1>3, MaxOfTwo
<1> HIDE DEF first
<1>5. first \in 1..Len(c)
  BY <1>1, <1>3, <1>4
<1>6. k = SubSeq(c, first, Len(c))
  BY DEF kept, first
<1>7. k \in Seq(Turn) /\ Len(k) = Len(c) - first + 1
  BY <1>1, <1>5, <1>6
<1>8. \A i \in 1..Len(k) : k[i] = c[i + first - 1]
  BY <1>1, <1>5, <1>6, <1>7
<1> HIDE DEF k
<1>9. m \in 0..Len(b) /\ Len(k) = Len(b) + 1 - m
  BY <1>1, <1>5, <1>7
<1>10. ASSUME NEW i \in 1..Len(k)
       PROVE  k[i] = IF i + m = Len(b) + 1 THEN x ELSE b[i + m]
  <2>1. i + m = i + first - 1 /\ i + m \in 1..Len(c)
    BY <1>1, <1>5, <1>7
  <2>2. QED
    BY <1>2, <1>8, <2>1
<1>11. QED
  BY <1>7, <1>9, <1>10 DEF k, c

\* The clock and the writers keep the buckets in order, whatever the memory drops.
LEMMA MemoryKept ==
    ASSUME MemoryInv, Tick \/ (\E t \in Listed, role \in {"buyer", "agent"} : Remember(t, role))
                      \/ UNCHANGED <<now, turns, written>>
    PROVE  /\ MemoryInv'
           /\ written' >= written
           /\ \A t \in Listed : \A i \in 1..Len(turns'[t]) :
                 turns'[t][i].n < written => \E j \in 1..Len(turns[t]) : turns'[t][i] = turns[t][j]
<1>1. CASE Tick
  <2>1. now' = now + 1 /\ now < MaxNow /\ UNCHANGED <<turns, written>> /\ MaxNow \in Nat
    BY <1>1, AnalyticsAssumption DEF Tick
  <2>2. \A t \in Listed : \A i \in 1..Len(turns[t]) : turns[t][i] \in Turn
    BY AnalyticsAssumption DEF MemoryInv
  <2>3. \A t \in Listed : \A i \in 1..Len(turns[t]) : turns[t][i].at <= now'
    <3> SUFFICES ASSUME NEW t \in Listed, NEW i \in 1..Len(turns[t])
                 PROVE  turns[t][i].at <= now'
      OBVIOUS
    <3>1. turns[t][i].at <= now /\ turns[t][i].at \in 0..MaxNow
      BY <2>2 DEF MemoryInv, Turn
    <3>2. QED
      BY <2>1, <3>1 DEF MemoryInv
  <2>4. QED
    BY <2>1, <2>3 DEF MemoryInv, Chronological
<1>2. ASSUME NEW t \in Listed, NEW role \in {"buyer", "agent"}, Remember(t, role)
      PROVE  /\ MemoryInv'
             /\ written' >= written
             /\ \A s \in Listed : \A i \in 1..Len(turns'[s]) :
                   turns'[s][i].n < written => \E j \in 1..Len(turns[s]) : turns'[s][i] = turns[s][j]
  <2> DEFINE x == [n |-> written, at |-> now, role |-> role]
  <2>1. /\ written' = written + 1 /\ UNCHANGED now
        /\ turns' = [turns EXCEPT ![t] = kept(Append(turns[t], x))]
    BY <1>2 DEF Remember
  <2>2. x \in Turn /\ turns[t] \in Seq(Turn) /\ t \in Threads /\ Len(turns[t]) \in Nat
    <3>1. x \in Turn
      BY DEF MemoryInv, Turn
    <3>2. t \in Threads
      BY Constants
    <3>3. turns[t] \in Seq(Turn)
      BY <3>2 DEF MemoryInv
    <3>4. QED
      BY <3>1, <3>2, <3>3
  <2> DEFINE b == turns[t]
             k == turns'[t]
  <2>3. /\ k = kept(Append(b, x))
        /\ \A s \in Threads : s # t => turns'[s] = turns[s]
    BY <2>1, <2>2 DEF MemoryInv
  <2>4. k \in Seq(Turn)
    BY <2>2, <2>3, KeptTurns
  <2>5. PICK m \in 0..Len(b) :
           /\ Len(k) = Len(b) + 1 - m
           /\ \A i \in 1..Len(k) : k[i] = IF i + m = Len(b) + 1 THEN x ELSE b[i + m]
    <3> HIDE DEF b, k, x
    <3>1. b \in Seq(Turn)
      BY <2>2 DEF b
    <3>2. QED
      BY <2>2, <2>3, <3>1, KeptTurns
  <2>6. turns' \in [Threads -> Seq(Turn)]
    BY <2>1, <2>2, <2>3, <2>4 DEF MemoryInv
  <2>7. /\ Chronological(b)
        /\ \A i \in 1..Len(b) : b[i].n < written /\ b[i].at <= now /\ b[i] \in Turn
    BY <2>2 DEF MemoryInv
  <2>8. written \in Nat /\ now \in Int
    BY DEF MemoryInv
  <2> HIDE DEF b, k
  <2>9. \A i \in 1..Len(k) : /\ i + m \in 1..(Len(b) + 1)
                             /\ i + m # Len(b) + 1 => i + m \in 1..Len(b)
    BY <2>2, <2>5 DEF b
  <2>10. x.n = written /\ x.at = now
    OBVIOUS
  <2> HIDE DEF x
  <2>11. Chronological(k)
    <3> SUFFICES ASSUME NEW i \in 1..Len(k), NEW j \in 1..Len(k), i < j
                 PROVE  k[i].n < k[j].n /\ k[i].at <= k[j].at
      BY DEF Chronological
    <3>1. i + m # Len(b) + 1 /\ i + m \in 1..Len(b) /\ i + m < j + m
      BY <2>9, <2>2 DEF b
    <3>2. k[i] = b[i + m]
      BY <2>5, <3>1
    <3>3. CASE j + m = Len(b) + 1
      BY <2>5, <2>7, <2>10, <3>1, <3>2, <3>3
    <3>4. CASE j + m # Len(b) + 1
      BY <2>5, <2>7, <2>9, <3>1, <3>2, <3>4 DEF Chronological
    <3>5. QED
      BY <3>3, <3>4
  <2>12. ASSUME NEW i \in 1..Len(k)
         PROVE  /\ k[i].n < written' /\ k[i].at <= now'
                /\ k[i].n < written => \E j \in 1..Len(b) : k[i] = b[j]
    <3>1. CASE i + m = Len(b) + 1
      <4>1. k[i].n = written /\ k[i].at = now
        BY <2>5, <2>10, <3>1
      <4>2. QED
        BY <2>1, <2>8, <4>1
    <3>2. CASE i + m # Len(b) + 1
      <4>1. i + m \in 1..Len(b) /\ k[i] = b[i + m]
        BY <2>5, <2>9, <3>2
      <4>2. b[i + m].n \in Nat /\ b[i + m].at \in Int
        BY <2>7, <4>1 DEF Turn
      <4>3. QED
        BY <2>1, <2>7, <2>8, <4>1, <4>2
    <3>3. QED
      BY <3>1, <3>2
  <2>13. ASSUME NEW s \in Listed
         PROVE  /\ Chronological(turns'[s])
                /\ \A i \in 1..Len(turns'[s]) :
                      /\ turns'[s][i].n < written' /\ turns'[s][i].at <= now'
                      /\ turns'[s][i].n < written =>
                            \E j \in 1..Len(turns[s]) : turns'[s][i] = turns[s][j]
    <3>1. CASE s = t
      BY <2>11, <2>12, <3>1 DEF b, k
    <3>2. CASE s # t
      <4>1. turns'[s] = turns[s] /\ s \in Threads
        BY <2>3, <3>2, AnalyticsAssumption
      <4>2. \A i \in 1..Len(turns[s]) : turns[s][i] \in Turn
        BY <4>1 DEF MemoryInv
      <4>3. \A i \in 1..Len(turns[s]) : turns[s][i].n < written'
        BY <2>1, <2>8, <4>2 DEF MemoryInv, Turn
      <4>4. QED
        BY <2>1, <4>1, <4>3 DEF MemoryInv
    <3>3. QED
      BY <3>1, <3>2
  <2>14. MemoryInv'
    BY <2>1, <2>6, <2>8, <2>13 DEF MemoryInv
  <2>15. QED
    BY <2>1, <2>8, <2>13, <2>14
<1>3. CASE UNCHANGED <<now, turns, written>>
  <2>1. now' = now /\ turns' = turns /\ written' = written
    BY <1>3
  <2>2. MemoryInv'
    BY <2>1 DEF MemoryInv, Chronological
  <2>3. written' >= written
    BY <2>1 DEF MemoryInv
  <2>4. QED
    BY <2>1, <2>2, <2>3
<1>4. QED
  BY <1>1, <1>2, <1>3

(***************************************************************************)
(* The tally of one turn                                                   *)
(***************************************************************************)
\* Days are whole numbers, and an earlier moment has no later day.
LEMMA DaysAreOrdered ==
    /\ \A a \in Int : Day(a) \in Int
    /\ \A a, b \in Int : a <= b => Day(a) <= Day(b)
  BY Constants DEF Day

\* The turns' days are those that the daily counters have.
LEMMA DayInRange ==
    ASSUME NEW a \in 0..MaxNow
    PROVE  Day(a) \in Days
<1>1. a \in Int /\ 0 <= a /\ a <= MaxNow /\ MaxNow \in Int
  BY Constants
<1>2. Day(0) = 0
  BY Constants DEF Day
<1>3. Day(a) \in Int /\ Day(MaxNow) \in Int /\ Day(0) <= Day(a) /\ Day(a) <= Day(MaxNow)
  BY <1>1, DaysAreOrdered
<1>4. QED
  BY <1>2, <1>3 DEF Days

\* What the loop body of get_analytics does to each counter.
Outcome(acc, t, turn, since, a) ==
    /\ a \in Acc
    /\ ~InWindow(turn, since) => a = acc
    /\ InWindow(turn, since) =>
          /\ a.counted = acc.counted \cup {<<t, turn>>}
          /\ turn.role = "buyer" =>
                /\ a.buyer = acc.buyer + 1 /\ a.agent = acc.agent
                /\ a.daily.buyer = [acc.daily.buyer EXCEPT ![Day(turn.at)] = @ + 1]
                /\ a.daily.agent = acc.daily.agent
                /\ a.seconds = acc.seconds /\ a.pending = turn.at
          /\ turn.role = "agent" =>
                /\ a.agent = acc.agent + 1 /\ a.buyer = acc.buyer
                /\ a.daily.agent = [acc.daily.agent EXCEPT ![Day(turn.at)] = @ + 1]
                /\ a.daily.buyer = acc.daily.buyer
                /\ a.seconds = IF acc.pending = Nobody THEN acc.seconds
                               ELSE Append(acc.seconds, turn.at - acc.pending)
                /\ a.pending = Nobody

\* The loop body does that.
LEMMA Tallied ==
    ASSUME NEW acc \in Acc, NEW t \in Listed, NEW turn \in Turn, NEW since \in Int
    PROVE  Outcome(acc, t, turn, since, tallied(acc, t, turn, since))
<1> DEFINE a == tallied(acc, t, turn, since)
           d == Day(turn.at)
           seen == [acc EXCEPT !.buyers = @ \cup {t}, !.counted = @ \cup {<<t, turn>>}]
<1>1. turn.at \in 0..MaxNow /\ turn.at \in Int /\ turn.role \in {"buyer", "agent"}
  BY Constants DEF Turn
<1>2. d \in Days
  BY <1>1, DayInRange
<1> DEFINE nb == acc.buyer
           na == acc.agent
           db == acc.daily.buyer
           da == acc.daily.agent
           ss == acc.seconds
           bs == acc.buyers
           p  == acc.pending
           cs == acc.counted
<1>3. /\ nb \in Nat /\ na \in Nat /\ db \in PerDay /\ da \in PerDay
      /\ ss \in Seq(Int) /\ bs \in SUBSET Listed
      /\ p \in Int \cup {Nobody} /\ cs \in SUBSET Message
  BY DEF Acc
<1>0. acc = [buyer |-> nb, agent |-> na, daily |-> [buyer |-> db, agent |-> da],
             seconds |-> ss, buyers |-> bs, pending |-> p, counted |-> cs]
  BY DEF Acc
<1>4. <<t, turn>> \in Message
  BY DEF Message
<1>5. \A f \in PerDay : [f EXCEPT ![d] = @ + 1] \in PerDay
  BY <1>2 DEF PerDay
<1> HIDE DEF d, nb, na, db, da, ss, bs, p, cs
<1>6. CASE ~InWindow(turn, since)
  BY <1>6 DEF tallied, Outcome
<1>7. CASE InWindow(turn, since)
  <2>1. a = IF turn.role = "buyer" THEN tallied_buyer(seen, turn) ELSE tallied_agent(seen, turn)
    BY <1>7 DEF tallied
  <2>2. seen = [buyer |-> nb, agent |-> na, daily |-> [buyer |-> db, agent |-> da],
                seconds |-> ss, buyers |-> bs \cup {t}, pending |-> p,
                counted |-> cs \cup {<<t, turn>>}]
    <3> DEFINE half == [acc EXCEPT !.buyers = @ \cup {t}]
    <3>1. half = [buyer |-> nb, agent |-> na, daily |-> [buyer |-> db, agent |-> da],
                  seconds |-> ss, buyers |-> bs \cup {t}, pending |-> p, counted |-> cs]
      BY <1>0
    <3>2. seen = [half EXCEPT !.counted = cs \cup {<<t, turn>>}]
      BY <1>0
    <3> HIDE DEF half, seen
    <3>3. QED
      BY <3>1, <3>2
  <2> HIDE DEF a, seen
  <2>3. CASE turn.role = "buyer"
    <3> DEFINE b == [db EXCEPT ![d] = @ + 1]
    <3>1. a = [seen EXCEPT !.buyer = @ + 1, !.daily.buyer[d] = @ + 1, !.pending = turn.at]
      BY <2>1, <2>3 DEF tallied_buyer, d
    <3>2. a = [buyer |-> nb + 1, agent |-> na, daily |-> [buyer |-> b, agent |-> da],
               seconds |-> ss, buyers |-> bs \cup {t},
               pending |-> turn.at, counted |-> cs \cup {<<t, turn>>}]
      BY <2>2, <3>1
    <3>3. b \in PerDay
      BY <1>3, <1>5
    <3>4. a \in Acc
      <4> HIDE DEF b
      <4>1. nb + 1 \in Nat
        BY <1>3
      <4>3. bs \cup {t} \in SUBSET Listed /\ cs \cup {<<t, turn>>} \in SUBSET Message
        BY <1>3, <1>4
      <4>2. QED
        BY <1>1, <1>3, <3>2, <3>3, <4>1, <4>3 DEF Acc
    <3>5. /\ a.counted = cs \cup {<<t, turn>>} /\ a.buyer = nb + 1 /\ a.agent = na
          /\ a.daily.buyer = b /\ a.daily.agent = da /\ a.seconds = ss /\ a.pending = turn.at
      BY <3>2
    <3>6. QED
      BY <1>7, <2>3, <3>4, <3>5 DEF Outcome, a, d, nb, na, db, da, ss, cs
  <2>4. CASE turn.role = "agent"
    <3> DEFINE b == [da EXCEPT ![d] = @ + 1]
               s == IF p = Nobody THEN ss ELSE Append(ss, turn.at - p)
               c == [seen EXCEPT !.agent = @ + 1, !.daily.agent[d] = @ + 1]
    <3>1. a = replied(c, turn)
      BY <2>1, <2>4 DEF tallied_agent, d
    <3>2. c = [buyer |-> nb, agent |-> na + 1, daily |-> [buyer |-> db, agent |-> b],
               seconds |-> ss, buyers |-> bs \cup {t}, pending |-> p,
               counted |-> cs \cup {<<t, turn>>}]
      <4> DEFINE half == [seen EXCEPT !.agent = @ + 1]
      <4>1. half = [buyer |-> nb, agent |-> na + 1, daily |-> [buyer |-> db, agent |-> da],
                    seconds |-> ss, buyers |-> bs \cup {t}, pending |-> p,
                    counted |-> cs \cup {<<t, turn>>}]
        <5>1. seen.agent = na
          BY <2>2
        <5>2. half = [seen EXCEPT !.agent = na + 1]
          BY <5>1
        <5> HIDE DEF half
        <5>3. QED
          BY <2>2, <5>2
      <4>2. c = [half EXCEPT !.daily.agent[d] = seen.daily.agent[d] + 1]
        OBVIOUS
      <4>3. seen.daily.agent = da
        BY <2>2
      <4> HIDE DEF half, c
      <4>4. QED
        BY <4>1, <4>2, <4>3
    <3> HIDE DEF c, b
    <3>3. a = [buyer |-> nb, agent |-> na + 1, daily |-> [buyer |-> db, agent |-> b],
               seconds |-> s, buyers |-> bs \cup {t}, pending |-> Nobody,
               counted |-> cs \cup {<<t, turn>>}]
      BY <3>1, <3>2 DEF replied
    <3>4. b \in PerDay /\ s \in Seq(Int)
      BY <1>1, <1>3, <1>5 DEF b
    <3>5. a \in Acc
      <4> HIDE DEF s
      <4>1. na + 1 \in Nat /\ bs \cup {t} \in SUBSET Listed /\ cs \cup {<<t, turn>>} \in SUBSET Message
        BY <1>3, <1>4
      <4>2. QED
        BY <1>3, <3>3, <3>4, <4>1 DEF Acc
    <3>6. /\ a.counted = cs \cup {<<t, turn>>} /\ a.buyer = nb /\ a.agent = na + 1
          /\ a.daily.buyer = db /\ a.daily.agent = b /\ a.seconds = s /\ a.pending = Nobody
      BY <3>3
    <3>7. QED
      BY <1>7, <2>4, <3>5, <3>6 DEF Outcome, a, b, d, nb, na, db, da, ss, cs, p
  <2>5. QED
    BY <1>1, <2>3, <2>4
<1>8. QED
  BY <1>6, <1>7

(***************************************************************************)
(* The request                                                             *)
(***************************************************************************)
\* Recalling a thread changes these locals of get_analytics and no others.
LEMMA RecallFacts ==
    ASSUME LoopInv, MemoryInv, RecallThread
    PROVE  /\ call.pc = "recall" /\ call.rest = <<>> /\ call.todo # <<>> /\ call'.pc = "recall"
           /\ call'.days = call.days /\ call'.now = call.now /\ call'.before = call.before
           /\ call'.thread = call.todo[1] /\ call.todo[1] \in Listed
           /\ call'.rest = turns[call.todo[1]]
           /\ call'.todo = Tail(call.todo) /\ Len(call'.todo) = Len(call.todo) - 1
           /\ \A i \in 1..Len(call'.todo) : i + 1 \in 1..Len(call.todo)
                                             /\ call'.todo[i] = call.todo[i + 1]
           /\ call'.acc = [call.acc EXCEPT !.pending = Nobody]
           /\ call' \in Call
           /\ UNCHANGED <<now, turns, written>>
<1> DEFINE td == call.todo
           t == Head(td)
           acc == [call.acc EXCEPT !.pending = Nobody]
<1>1. call \in Call /\ call.acc \in Acc /\ td \in Seq(Listed) /\ td # <<>>
  BY DEF LoopInv, Call, RecallThread
<1>2. /\ t = td[1] /\ td[1] \in Listed /\ Tail(td) \in Seq(Listed) /\ Len(Tail(td)) = Len(td) - 1
      /\ \A i \in 1..Len(Tail(td)) : i + 1 \in 1..Len(td) /\ Tail(td)[i] = td[i + 1]
  <2> HIDE DEF td
  <2> QED BY <1>1
<1>3. turns[t] \in Seq(Turn)
  BY <1>2, Constants DEF MemoryInv
<1>4. acc \in Acc
  BY <1>1 DEF Acc
<1>5. call.pc = "recall" /\ call.rest = <<>> /\ UNCHANGED <<now, turns, written>>
  BY DEF RecallThread
<1>6. call' = [call EXCEPT !.thread = t, !.todo = Tail(td), !.rest = turns[t], !.acc = acc]
  BY DEF RecallThread
<1>7. call' \in Call
  <2> HIDE DEF td, t, acc
  <2>1. t \in Listed
    BY <1>2
  <2>2. QED
    BY <1>1, <1>2, <1>3, <1>4, <1>6, <2>1 DEF Call
<1>8. QED
  <2> HIDE DEF acc, td, t
  <2>1. /\ call'.pc = call.pc /\ call'.days = call.days /\ call'.now = call.now
        /\ call'.before = call.before /\ call'.thread = t /\ call'.rest = turns[t]
        /\ call'.todo = Tail(td) /\ call'.acc = acc
    BY <1>1, <1>6 DEF Call
  <2>2. QED
    BY <1>1, <1>2, <1>5, <1>7, <2>1 DEF acc, td

\* So does a round of the loop over its turns, and the message it counts is new.
LEMMA TallyFacts ==
    ASSUME LoopInv, TallyTurn
    PROVE  LET p == <<call.thread, call.rest[1]>>
           IN  /\ call.pc = "recall" /\ call'.pc = "recall"
               /\ call'.days = call.days /\ call'.now = call.now /\ call'.before = call.before
               /\ call'.thread = call.thread /\ call'.todo = call.todo
               /\ call.thread \in Listed /\ call.rest[1] \in Turn /\ Len(call.rest) \in Nat \ {0}
               /\ Len(call'.rest) = Len(call.rest) - 1
               /\ \A i \in 1..Len(call'.rest) : i + 1 \in 1..Len(call.rest)
                                                 /\ call'.rest[i] = call.rest[i + 1]
               /\ call.acc \in Acc /\ Since \in Int
               /\ call'.acc = tallied(call.acc, call.thread, call.rest[1], Since)
               /\ p \notin call.acc.counted
               /\ call' \in Call
               /\ UNCHANGED <<now, turns, written>>
<1> DEFINE rest == call.rest
           acc == tallied(call.acc, call.thread, rest[1], Since)
<1>1. call \in Call /\ call.acc \in Acc /\ rest \in Seq(Turn) /\ rest # <<>>
  BY DEF LoopInv, Call, TallyTurn
<1>2. /\ Head(rest) = rest[1] /\ rest[1] \in Turn /\ Tail(rest) \in Seq(Turn)
      /\ Len(rest) \in Nat \ {0} /\ Len(Tail(rest)) = Len(rest) - 1
      /\ \A i \in 1..Len(Tail(rest)) : i + 1 \in 1..Len(rest) /\ Tail(rest)[i] = rest[i + 1]
  <2> HIDE DEF rest
  <2> QED BY <1>1
<1>3. call.pc = "recall" /\ call.thread \in Listed
  BY <1>1 DEF LoopInv
<1>4. Since \in Int
  BY <1>1, Constants DEF Since, Call
<1>5. acc \in Acc
  BY <1>1, <1>2, <1>3, <1>4, Tallied DEF Outcome
<1>6. UNCHANGED <<now, turns, written>>
  BY DEF TallyTurn
<1>7. <<call.thread, rest[1]>> \notin call.acc.counted
  <2> SUFFICES ASSUME <<call.thread, rest[1]>> \in call.acc.counted PROVE FALSE
    OBVIOUS
  <2>1. 1 \in 1..Len(rest) /\ rest[1].n \in Nat
    BY <1>2 DEF Turn
  <2>2. rest[1].n < rest[1].n
    BY <2>1 DEF LoopInv
  <2>3. QED
    BY <2>1, <2>2
<1>8. call' = [call EXCEPT !.rest = Tail(rest), !.acc = acc]
  BY <1>2 DEF TallyTurn
<1>9. call' \in Call
  <2> HIDE DEF rest, acc
  <2>1. QED
    BY <1>1, <1>2, <1>5, <1>8 DEF Call
<1>10. QED
  <2> HIDE DEF acc, rest
  <2>1. /\ call'.pc = call.pc /\ call'.days = call.days /\ call'.now = call.now
        /\ call'.before = call.before /\ call'.thread = call.thread /\ call'.todo = call.todo
        /\ call'.rest = Tail(rest) /\ call'.acc = acc
    BY <1>1, <1>8 DEF Call
  <2>2. QED
    BY <1>1, <1>2, <1>3, <1>4, <1>6, <1>7, <1>9, <2>1 DEF acc, rest

\* The listing has every thread of the tenant with a history once, in order.
LEMMA ListsInOrder ==
    ASSUME MemoryInv, NEW s \in list_threads
    PROVE  /\ s \in Seq(Listed)
           /\ \A i, j \in 1..Len(s) : i # j => s[i] # s[j]
           /\ \A t \in Listed : turns[t] # <<>> => \E i \in 1..Len(s) : s[i] = t
           /\ \A i \in 1..Len(s) : turns[s[i]] # <<>>
           /\ \A i, j \in 1..Len(s) : i < j => Last(turns[s[i]]).at >= Last(turns[s[j]]).at
<1> DEFINE T == { t \in Listed : turns[t] # <<>> }
           n == Cardinality(T)
<1>1. IsFiniteSet(T) /\ n \in Nat
  <2>1. IsFiniteSet(Listed)
    BY Constants, FS_Subset
  <2>2. T \in SUBSET Listed
    OBVIOUS
  <2> HIDE DEF T
  <2>3. QED
    BY <2>1, <2>2, FS_Subset, FS_CardinalityType
<1>2. /\ s \in [1..n -> T] /\ \A i, j \in 1..n : i # j => s[i] # s[j]
      /\ \A i, j \in DOMAIN s : i < j => Last(turns[s[i]]).at >= Last(turns[s[j]]).at
  BY DEF list_threads, SetToSeqs
<1> HIDE DEF n
<1>3. s \in Seq(T) /\ Len(s) = n
  BY <1>1, <1>2
<1>4. s \in Surjection(1..n, T)
  <2>1. s \in Injection(1..n, T)
    BY <1>2 DEF Injection, IsInjective
  <2>2. Cardinality(1..n) = n
    BY <1>1, FS_Interval
  <2> HIDE DEF T
  <2>3. QED
    BY <1>1, <2>1, <2>2, FS_Injection DEF n
<1>5. \A t \in T : \E i \in 1..n : s[i] = t
  BY <1>4 DEF Surjection
<1>6. QED
  BY <1>2, <1>3, <1>5

\* What a request begins with.
LEMMA GetFacts ==
    ASSUME MemoryInv, NEW days \in WindowDays, GetAnalytics(days)
    PROVE  \E s \in list_threads :
             LET c == call'
             IN  /\ c.pc = "recall" /\ c.days = days /\ days \in Nat /\ c.now = now
                 /\ c.todo \in Seq(Listed)
                 /\ Len(c.todo) = (IF Len(s) <= ThreadLimit THEN Len(s) ELSE ThreadLimit)
                 /\ \A i \in 1..Len(c.todo) : i \in 1..Len(s) /\ c.todo[i] = s[i]
                 /\ c.thread = Nobody /\ c.rest = <<>> /\ c.acc = Empty
                 /\ c.before = UNION { { <<t, turn>> : turn \in Range(turns[t]) } : t \in Listed }
                 /\ UNCHANGED <<now, turns, written>>
<1>1. days \in Nat /\ UNCHANGED <<now, turns, written>>
  <2>1. days \in Int
    BY AnalyticsAssumption
  <2>2. 0 < days /\ UNCHANGED <<now, turns, written>>
    BY DEF GetAnalytics
  <2>3. QED
    BY <2>1, <2>2
<1>2. PICK s \in list_threads :
          call' = [pc |-> "recall", days |-> days, now |-> now,
                   todo |-> SubSeq(s, 1, Min({Len(s), ThreadLimit})),
                   thread |-> Nobody, rest |-> <<>>, acc |-> Empty,
                   before |-> UNION { { <<t, turn>> : turn \in Range(turns[t]) } : t \in Listed }]
  BY DEF GetAnalytics
<1>3. s \in Seq(Listed) /\ Len(s) \in Nat
  BY <1>2, ListsInOrder
<1>4. ThreadLimit \in Nat \ {0}
  BY Constants
<1> DEFINE m == Min({Len(s), ThreadLimit})
<1>5. m = IF Len(s) <= ThreadLimit THEN Len(s) ELSE ThreadLimit
  BY <1>3, <1>4, MinOfTwo
<1> DEFINE td == SubSeq(s, 1, m)
<1>6. /\ td \in Seq(Listed) /\ Len(td) = m
      /\ \A i \in 1..Len(td) : i \in 1..Len(s) /\ td[i] = s[i]
  <2> HIDE DEF m
  <2> QED BY <1>3, <1>4, <1>5
<1>7. call'.todo = td
  BY <1>2
<1> HIDE DEF m, td
<1>8. QED
  BY <1>1, <1>2, <1>5, <1>6, <1>7

\* The locals of a request that has counted nothing.
LEMMA EmptyTyped == Empty \in Acc /\ Idle \in Call
<1>1. Zero \in PerDay
  BY DEF Zero, PerDay, Days
<1>2. Empty \in Acc
  BY <1>1 DEF Empty, Acc
<1>3. QED
  BY <1>2 DEF Idle, Call

\* No request, or one that has just begun, has counted anything.
LEMMA LoopStarts ==
    /\ Init => MemoryInv /\ LoopInv
    /\ call' = Idle => LoopInv'
    /\ MemoryInv /\ (\E days \in WindowDays : GetAnalytics(days)) => LoopInv'
<1>1. /\ Idle \in Call /\ Idle.pc = "idle" /\ Idle.todo = <<>> /\ Idle.rest = <<>>
      /\ Idle.acc.counted = {}
  BY EmptyTyped DEF Idle, Empty
<1>2. IsFiniteSet({}) /\ 1..Len(<<>>) = {} /\ Empty.counted = {}
  <2>1. Len(<<>>) = 0 /\ 1..0 = {}
    OBVIOUS
  <2>2. QED
    BY <2>1, FS_EmptySet DEF Empty
<1>3. ASSUME Init PROVE MemoryInv /\ LoopInv
  <2>1. call = Idle /\ now = 0 /\ written = 1
    BY <1>3 DEF Init
  <2>2. LoopInv
    BY <1>1, <1>2, <2>1 DEF LoopInv, Chronological
  <2>3. Foreign \in Seq(Turn) /\ MaxNow \in Nat
    BY Constants DEF Foreign, Turn
  <2>4. turns = [t \in Threads |-> IF t \in Listed THEN <<>> ELSE Foreign]
    BY <1>3 DEF Init
  <2>5. turns \in [Threads -> Seq(Turn)]
    BY <2>3, <2>4
  <2>6. \A t \in Listed : turns[t] = <<>>
    BY <2>4, Constants
  <2>7. QED
    BY <1>2, <2>1, <2>2, <2>3, <2>5, <2>6 DEF MemoryInv, Chronological
<1>4. ASSUME call' = Idle PROVE LoopInv'
  BY <1>1, <1>2, <1>4 DEF LoopInv, Chronological
<1>5. ASSUME MemoryInv, NEW days \in WindowDays, GetAnalytics(days) PROVE LoopInv'
  <2>1. PICK s \in list_threads :
             LET c == call'
             IN  /\ c.pc = "recall" /\ c.days = days /\ days \in Nat /\ c.now = now
                 /\ c.todo \in Seq(Listed)
                 /\ Len(c.todo) = (IF Len(s) <= ThreadLimit THEN Len(s) ELSE ThreadLimit)
                 /\ \A i \in 1..Len(c.todo) : i \in 1..Len(s) /\ c.todo[i] = s[i]
                 /\ c.thread = Nobody /\ c.rest = <<>> /\ c.acc = Empty
                 /\ c.before = UNION { { <<t, turn>> : turn \in Range(turns[t]) } : t \in Listed }
                 /\ UNCHANGED <<now, turns, written>>
    BY <1>5, GetFacts
  <2>2. \A i, j \in 1..Len(s) : i # j => s[i] # s[j]
    BY <1>5, ListsInOrder
  <2>3. call'.before \in SUBSET Message
    <3>1. \A t \in Listed : \A turn \in Range(turns[t]) : <<t, turn>> \in Message
      <4> SUFFICES ASSUME NEW t \in Listed, NEW turn \in Range(turns[t]) PROVE turn \in Turn
        BY DEF Message
      <4>1. turns[t] \in Seq(Turn)
        BY <1>5, Constants DEF MemoryInv
      <4>2. QED
        BY <4>1 DEF Range
    <3>2. QED
      BY <2>1, <3>1
  <2>4. call' \in Call
    <3>1. call' = [pc |-> call'.pc, days |-> call'.days, now |-> call'.now, todo |-> call'.todo,
                   thread |-> call'.thread, rest |-> call'.rest, acc |-> call'.acc,
                   before |-> call'.before]
      BY <1>5 DEF GetAnalytics
    <3>2. now \in Nat /\ <<>> \in Seq(Turn)
      BY <1>5, Constants DEF MemoryInv
    <3>3. call'.days \in Nat /\ call'.now \in Nat /\ call'.rest \in Seq(Turn)
      BY <2>1, <3>2
    <3>4. QED
      BY <2>1, <2>3, <3>1, <3>3, EmptyTyped DEF Call
  <2>5. \A i, j \in 1..Len(call'.todo) : i # j => call'.todo[i] # call'.todo[j]
    BY <2>1, <2>2
  <2>6. \A i \in 1..Len(call'.todo) : call'.todo[i] # call'.thread
    BY <2>1, Constants
  <2>7. QED
    BY <1>2, <2>1, <2>4, <2>5, <2>6 DEF LoopInv, Chronological
<1>6. QED
  BY <1>3, <1>4, <1>5

\* Every step keeps the loop's bookkeeping.
LEMMA LoopKept ==
    ASSUME LoopInv, MemoryInv, [Next]_vars
    PROVE  LoopInv' /\ MemoryInv'
<1>1. CASE Tick \/ (\E t \in Listed, role \in {"buyer", "agent"} : Remember(t, role)) \/ UNCHANGED vars
  <2>1. UNCHANGED call
    BY <1>1 DEF Tick, Remember, vars
  <2>2. Since' = Since
    BY <2>1 DEF Since
  <2>3. LoopInv'
    BY <2>1, <2>2 DEF LoopInv, Chronological, InWindow
  <2>4. Tick \/ (\E t \in Listed, role \in {"buyer", "agent"} : Remember(t, role))
             \/ UNCHANGED <<now, turns, written>>
    BY <1>1 DEF vars
  <2>5. QED
    BY <2>3, <2>4, MemoryKept
<1>2. CASE \E days \in WindowDays : GetAnalytics(days)
  <2>1. UNCHANGED <<now, turns, written>>
    BY <1>2 DEF GetAnalytics
  <2>2. QED
    BY <1>2, <2>1, LoopStarts, MemoryKept
<1>3. CASE RecallThread
  <2>1. LoopInv!1
    BY DEF LoopInv
  <2>2. call'.acc.counted = call.acc.counted
    <3>1. call.acc \in Acc
      BY <2>1 DEF Call
    <3>2. QED
      BY <1>3, <3>1, RecallFacts DEF Acc
  <2>3. \A i, j \in 1..Len(call'.todo) : i # j => call'.todo[i] # call'.todo[j]
    <3> SUFFICES ASSUME NEW i \in 1..Len(call'.todo), NEW j \in 1..Len(call'.todo), i # j
                 PROVE  call'.todo[i] # call'.todo[j]
      OBVIOUS
    <3>1. /\ i + 1 \in 1..Len(call.todo) /\ call'.todo[i] = call.todo[i + 1]
          /\ j + 1 \in 1..Len(call.todo) /\ call'.todo[j] = call.todo[j + 1]
      BY <1>3, RecallFacts
    <3>2. i + 1 # j + 1
      OBVIOUS
    <3>3. QED
      BY <3>1, <3>2 DEF LoopInv
  <2>4. Len(call.todo) \in Nat /\ 1 \in 1..Len(call.todo)
    <3>1. call.todo \in Seq(Listed) /\ call.todo # <<>>
      BY <1>3, <2>1, RecallFacts DEF Call
    <3>2. QED
      BY <3>1
  <2>5. \A i \in 1..Len(call'.todo) : call'.todo[i] # call'.thread
    <3> SUFFICES ASSUME NEW i \in 1..Len(call'.todo) PROVE call'.todo[i] # call'.thread
      OBVIOUS
    <3>1. i + 1 # 1 /\ i + 1 \in 1..Len(call.todo) /\ call'.todo[i] = call.todo[i + 1]
      BY <1>3, RecallFacts
    <3>2. QED
      BY <1>3, <2>4, <3>1, RecallFacts DEF LoopInv
  <2>6. Chronological(call'.rest)
    BY <1>3, RecallFacts DEF MemoryInv
  <2>7. Since' = Since
    BY <1>3, RecallFacts DEF Since
  <2>8. ASSUME NEW p \in call.acc.counted
        PROVE  /\ InWindow(p[2], Since)'
               /\ \A i \in 1..Len(call'.todo) : call'.todo[i] # p[1]
               /\ p[1] # call'.thread
    <3>1. InWindow(p[2], Since) /\ \A i \in 1..Len(call.todo) : call.todo[i] # p[1]
      BY DEF LoopInv
    <3>2. QED
      BY <1>3, <2>4, <2>7, <3>1, RecallFacts DEF InWindow
  <2>9. Chronological(call.rest)'
    BY <2>6 DEF Chronological
  <2>10. LoopInv'
    <3>1. IsFiniteSet(call'.acc.counted)
      BY <2>2 DEF LoopInv
    <3>2. call'.rest # <<>> => call'.pc = "recall" /\ call'.thread \in Listed
      BY <1>3, RecallFacts
    <3>3. call' \in Call
      BY <1>3, RecallFacts
    <3>4. QED
      BY <2>2, <2>3, <2>5, <2>8, <2>9, <3>1, <3>2, <3>3 DEF LoopInv
  <2>11. QED
    BY <1>3, <2>10, MemoryKept, RecallFacts
<1>4. CASE TallyTurn
  <2> DEFINE p == <<call.thread, call.rest[1]>>
             cs == call.acc.counted
  <2>1. Since' = Since
    BY <1>4, TallyFacts DEF Since
  <2>2. /\ call'.acc.counted \subseteq cs \cup {p}
        /\ call'.acc.counted \in {cs, cs \cup {p}}
        /\ p \in call'.acc.counted => InWindow(call.rest[1], Since)
    <3> DEFINE a == tallied(call.acc, call.thread, call.rest[1], Since)
    <3>1. call'.acc = a /\ call.acc \in Acc /\ call.thread \in Listed /\ call.rest[1] \in Turn
          /\ Since \in Int
      BY <1>4, TallyFacts
    <3>2. /\ ~InWindow(call.rest[1], Since) => a = call.acc
          /\ InWindow(call.rest[1], Since) => a.counted = cs \cup {p}
      <4>1. Outcome(call.acc, call.thread, call.rest[1], Since, a)
        BY <3>1, Tallied
      <4>2. QED
        BY <4>1 DEF Outcome
    <3>3. p \notin cs
      BY <1>4, TallyFacts
    <3> HIDE DEF a, p, cs
    <3>4. call.acc.counted = cs
      BY DEF cs
    <3>5. QED
      BY <3>1, <3>2, <3>3, <3>4
  <2>3. IsFiniteSet(call'.acc.counted)
    <3>1. IsFiniteSet(cs)
      BY DEF LoopInv
    <3> HIDE DEF cs, p
    <3>2. QED
      BY <2>2, <3>1, FS_AddElement
  <2>4. Chronological(call.rest)'
    <3> SUFFICES ASSUME NEW i \in 1..Len(call'.rest), NEW j \in 1..Len(call'.rest), i < j
                 PROVE  /\ call'.rest[i].n < call'.rest[j].n
                        /\ call'.rest[i].at <= call'.rest[j].at
      BY DEF Chronological
    <3>1. /\ i + 1 \in 1..Len(call.rest) /\ call'.rest[i] = call.rest[i + 1]
          /\ j + 1 \in 1..Len(call.rest) /\ call'.rest[j] = call.rest[j + 1]
      BY <1>4, TallyFacts
    <3>2. i + 1 < j + 1
      OBVIOUS
    <3>3. QED
      BY <3>1, <3>2 DEF LoopInv, Chronological
  <2>5. ASSUME NEW q \in call'.acc.counted
        PROVE  /\ InWindow(q[2], Since)
               /\ \A i \in 1..Len(call'.todo) : call'.todo[i] # q[1]
               /\ q[1] = call'.thread => \A i \in 1..Len(call'.rest) : q[2].n < call'.rest[i].n
    <3>1. CASE q \in cs
      <4>1. \A i \in 1..Len(call'.rest) : i + 1 \in 1..Len(call.rest)
                                           /\ call'.rest[i] = call.rest[i + 1]
        BY <1>4, TallyFacts
      <4>2. call'.thread = call.thread /\ call'.todo = call.todo
        BY <1>4, TallyFacts
      <4>3. QED
        BY <3>1, <4>1, <4>2 DEF LoopInv
    <3>2. CASE q = p
      <4>1. q[1] = call.thread /\ q[2] = call.rest[1] /\ InWindow(call.rest[1], Since)
        BY <2>2, <3>2
      <4>2. ASSUME NEW i \in 1..Len(call'.rest) PROVE call.rest[1].n < call'.rest[i].n
        <5>1. i + 1 \in 1..Len(call.rest) /\ 1 \in 1..Len(call.rest) /\ 1 < i + 1
              /\ call'.rest[i] = call.rest[i + 1]
          BY <1>4, TallyFacts
        <5>2. QED
          BY <5>1 DEF LoopInv, Chronological
      <4>3. call'.todo = call.todo
        BY <1>4, TallyFacts
      <4>4. QED
        BY <4>1, <4>2, <4>3 DEF LoopInv
    <3>3. QED
      BY <2>2, <3>1, <3>2
  <2>6. /\ call' \in Call /\ call'.todo = call.todo /\ call'.thread = call.thread
        /\ call'.pc = "recall" /\ call.thread \in Listed
    BY <1>4, TallyFacts
  <2>7. LoopInv'
    <3>1. /\ \A i, j \in 1..Len(call.todo) : i # j => call.todo[i] # call.todo[j]
          /\ \A i \in 1..Len(call.todo) : call.todo[i] # call.thread
      BY DEF LoopInv
    <3>2. \A q \in call'.acc.counted : InWindow(q[2], Since)'
      BY <2>1, <2>5 DEF InWindow
    <3>3. QED
      BY <2>3, <2>4, <2>5, <2>6, <3>1, <3>2 DEF LoopInv
  <2>8. QED
    BY <1>4, <2>7, MemoryKept, TallyFacts
<1>5. CASE Answer
  <2>1. call' = Idle /\ UNCHANGED <<now, turns, written>>
    BY <1>5 DEF Answer
  <2>2. QED
    BY <2>1, LoopStarts, MemoryKept
<1>6. QED
  BY <1>1, <1>2, <1>3, <1>4, <1>5 DEF Next

(***************************************************************************)
(* No message is missed                                                    *)
(***************************************************************************)
\* A thread's last turn is its latest: what list_threads orders the threads by.
LEMMA LastIsLatest ==
    ASSUME MemoryInv, NEW days \in WindowDays, GetAnalytics(days),
           NEW t \in Listed, turns[t] # <<>>
    PROVE  /\ LastSeen(t)' = Last(turns[t]).at
           /\ \E q \in call'.before : q[1] = t
<1> DEFINE b == turns[t]
           n == Len(b)
           A == { p[2].at : p \in { q \in call'.before : q[1] = t } }
<1>1. b \in Seq(Turn) /\ b # <<>> /\ n \in Nat \ {0}
  <2>1. b \in Seq(Turn)
    BY Constants DEF MemoryInv
  <2> HIDE DEF b
  <2>2. QED
    BY <2>1 DEF b
<1>2. call'.before = UNION { { <<s, turn>> : turn \in Range(turns[s]) } : s \in Listed }
  BY GetFacts
<1>3. /\ \A q \in call'.before : q[1] = t => \E i \in 1..n : q[2] = b[i]
      /\ \A i \in 1..n : <<t, b[i]>> \in call'.before
  <2>1. Range(b) = { b[i] : i \in 1..n }
    BY <1>1 DEF Range
  <2>2. ASSUME NEW q \in call'.before, q[1] = t
        PROVE  \E i \in 1..n : q[2] = b[i]
    <3>1. PICK s \in Listed : q \in { <<s, turn>> : turn \in Range(turns[s]) }
      BY <1>2, <2>2
    <3>2. PICK turn \in Range(turns[s]) : q = <<s, turn>>
      BY <3>1
    <3>3. s = t /\ q[2] = turn
      BY <2>2, <3>2
    <3>4. QED
      BY <2>1, <3>2, <3>3
  <2>3. ASSUME NEW i \in 1..n PROVE <<t, b[i]>> \in call'.before
    <3>1. b[i] \in Range(b)
      BY <2>1
    <3>2. QED
      BY <1>2, <3>1
  <2>4. QED
    BY <2>2, <2>3
<1>4. \A i \in 1..n : b[i].at <= b[n].at /\ b[i].at \in Int
  <2> SUFFICES ASSUME NEW i \in 1..n PROVE b[i].at <= b[n].at /\ b[i].at \in Int
    OBVIOUS
  <2>1. b[i] \in Turn /\ n \in 1..n /\ b[i].at \in Int
    <3> HIDE DEF b, n
    <3>1. n \in 1..n
      BY <1>1
    <3>2. b[i] \in Turn
      BY <1>1 DEF n
    <3>3. QED
      BY <3>1, <3>2, Constants DEF Turn
  <2>2. CASE i = n
    BY <2>1, <2>2
  <2>3. CASE i # n
    BY <1>1, <2>1, <2>3 DEF MemoryInv, Chronological
  <2>4. QED
    BY <2>2, <2>3
<1>5. b[n].at \in A /\ \A x \in A : x <= b[n].at /\ x \in Int
  <2>1. <<t, b[n]>> \in call'.before /\ n \in 1..n
    BY <1>1, <1>3
  <2>2. \A q \in call'.before : q[1] = t => q[2].at <= b[n].at /\ q[2].at \in Int
    BY <1>3, <1>4
  <2>3. <<t, b[n]>>[1] = t /\ <<t, b[n]>>[2] = b[n]
    OBVIOUS
  <2> HIDE DEF b, n
  <2>4. QED
    BY <2>1, <2>2, <2>3
<1>6. LastSeen(t)' = Max(A)
  BY DEF LastSeen
<1>7. Last(turns[t]).at = b[n].at
  BY DEF Last
<1> HIDE DEF A, b, n
<1>8. Max(A) = b[n].at
  <2>1. \A x \in A : (\A y \in A : x >= y) => x = b[n].at
    BY <1>5
  <2>2. \A y \in A : b[n].at >= y
    BY <1>5
  <2>3. QED
    BY <1>5, <2>1, <2>2 DEF Max
<1>9. QED
  <2>1. \E q \in call'.before : q[1] = t
    <3>1. 1 \in 1..n /\ <<t, b[1]>>[1] = t
      BY <1>1
    <3>2. QED
      BY <1>3, <3>1
  <2>2. QED
    BY <1>6, <1>7, <1>8, <2>1

\* Every message that list_threads saw is of a thread to be recalled, or of one
\* that ThreadLimit others precede.
LEMMA MissStarts ==
    ASSUME MemoryInv, NEW days \in WindowDays, GetAnalytics(days)
    PROVE  MissInv'
<1>1. PICK s \in list_threads :
             LET c == call'
             IN  /\ c.pc = "recall" /\ c.days = days /\ days \in Nat /\ c.now = now
                 /\ c.todo \in Seq(Listed)
                 /\ Len(c.todo) = (IF Len(s) <= ThreadLimit THEN Len(s) ELSE ThreadLimit)
                 /\ \A i \in 1..Len(c.todo) : i \in 1..Len(s) /\ c.todo[i] = s[i]
                 /\ c.thread = Nobody /\ c.rest = <<>> /\ c.acc = Empty
                 /\ c.before = UNION { { <<t, turn>> : turn \in Range(turns[t]) } : t \in Listed }
                 /\ UNCHANGED <<now, turns, written>>
  BY GetFacts
<1>2. /\ s \in Seq(Listed) /\ Len(s) \in Nat
      /\ \A i, j \in 1..Len(s) : i # j => s[i] # s[j]
      /\ \A t \in Listed : turns[t] # <<>> => \E i \in 1..Len(s) : s[i] = t
      /\ \A i \in 1..Len(s) : turns[s[i]] # <<>>
      /\ \A i, j \in 1..Len(s) : i < j => Last(turns[s[i]]).at >= Last(turns[s[j]]).at
  BY ListsInOrder
<1>3. ThreadLimit \in Nat \ {0}
  BY Constants
<1> SUFFICES ASSUME NEW p \in call'.before
             PROVE  p[2].n < written' /\ Ahead(p)'
  BY DEF MissInv
<1>4. PICK t \in Listed : p \in { <<t, turn>> : turn \in Range(turns[t]) }
  BY <1>1
<1>5. p[1] = t /\ p[2] \in Range(turns[t])
  BY <1>4
<1>6. turns[t] \in Seq(Turn)
  BY Constants DEF MemoryInv
<1>7. PICK k \in 1..Len(turns[t]) : p[2] = turns[t][k]
  BY <1>5, <1>6 DEF Range
<1>8. p[2].n < written'
  BY <1>1, <1>7 DEF MemoryInv
<1>9. turns[t] # <<>>
  <2>1. Len(turns[t]) # 0
    BY <1>6, <1>7
  <2>2. QED
    BY <2>1
<1>10. PICK i \in 1..Len(s) : s[i] = t
  BY <1>2, <1>9
<1>11. CASE i \in 1..Len(call'.todo)
  <2>1. call'.todo[i] = p[1]
    BY <1>1, <1>5, <1>10, <1>11
  <2>2. \E j \in 1..Len(call'.todo) : call'.todo[j] = p[1]
    BY <1>11, <2>1
  <2>3. Ahead(p)'
    BY <2>2 DEF Ahead
  <2>4. QED
    BY <1>8, <2>3
<1>12. CASE i \notin 1..Len(call'.todo)
  <2>1. ThreadLimit < i /\ ThreadLimit < Len(s)
    BY <1>1, <1>2, <1>3, <1>12
  <2> DEFINE C == { u \in Listed \ {t} : /\ \E q \in call'.before : q[1] = u
                                       /\ LastSeen(u)' >= LastSeen(t)' }
             f == [j \in 1..ThreadLimit |-> s[j]]
  <2>2. ASSUME NEW j \in 1..ThreadLimit PROVE s[j] \in C
    <3>1. j \in 1..Len(s) /\ j < i
      BY <1>2, <1>3, <2>1
    <3>2. s[j] \in Listed /\ s[j] # t /\ turns[s[j]] # <<>>
      BY <1>2, <1>10, <3>1
    <3>3. Last(turns[s[j]]).at >= Last(turns[t]).at
      BY <1>2, <1>10, <3>1
    <3>4. LastSeen(s[j])' = Last(turns[s[j]]).at /\ \E q \in call'.before : q[1] = s[j]
      BY <3>2, LastIsLatest
    <3>5. LastSeen(t)' = Last(turns[t]).at
      BY <1>9, LastIsLatest
    <3>6. QED
      BY <3>2, <3>3, <3>4, <3>5
  <2>3. IsFiniteSet(C)
    <3>1. IsFiniteSet(Listed) /\ C \in SUBSET Listed
      BY Constants, FS_Subset
    <3> HIDE DEF C
    <3>2. QED
      BY <3>1, FS_Subset
  <2> HIDE DEF C
  <2>4. f \in Injection(1..ThreadLimit, C)
    <3>1. \A j \in 1..ThreadLimit : j \in 1..Len(s)
      BY <1>2, <1>3, <2>1
    <3>2. QED
      BY <1>2, <2>2, <3>1 DEF Injection, IsInjective
  <2>5. Cardinality(1..ThreadLimit) = ThreadLimit
    BY <1>3, FS_Interval
  <2> HIDE DEF f
  <2>6. Cardinality(C) >= ThreadLimit
    <3>1. Cardinality(1..ThreadLimit) <= Cardinality(C)
      BY <2>3, <2>4, FS_Injection
    <3>2. Cardinality(C) \in Nat
      BY <2>3, FS_CardinalityType
    <3>3. QED
      BY <1>3, <2>5, <3>1, <3>2
  <2>7. CutOff(t)'
    BY <2>6 DEF CutOff, C
  <2>8. QED
    BY <1>5, <1>8, <2>7 DEF Ahead, CutOff, LastSeen
<1>13. QED
  BY <1>8, <1>11, <1>12

\* A message that the memory has not dropped stays ahead of the report, or counted.
LEMMA MissKept ==
    ASSUME MissInv, LoopInv, MemoryInv, [Next]_vars
    PROVE  MissInv'
<1>1. CASE Tick \/ (\E t \in Listed, role \in {"buyer", "agent"} : Remember(t, role)) \/ UNCHANGED vars
  <2>1. UNCHANGED call
    BY <1>1 DEF Tick, Remember, vars
  <2>2. Tick \/ (\E t \in Listed, role \in {"buyer", "agent"} : Remember(t, role))
             \/ UNCHANGED <<now, turns, written>>
    BY <1>1 DEF vars
  <2>3. /\ written' >= written /\ written \in Nat /\ written' \in Nat
        /\ turns' \in [Threads -> Seq(Turn)]
        /\ \A t \in Listed : \A i \in 1..Len(turns'[t]) :
              turns'[t][i].n < written => \E j \in 1..Len(turns[t]) : turns'[t][i] = turns[t][j]
    BY <2>2, MemoryKept DEF MemoryInv
  <2>4. \A p \in call.before : p[1] \in Listed /\ p[2] \in Turn
    BY DEF LoopInv, Call, Message
  <2> SUFFICES ASSUME call.pc = "recall", NEW p \in call.before
               PROVE  /\ p[2].n < written'
                      /\ (InWindow(p[2], Since) /\ p[2] \in Range(turns'[p[1]])) => Ahead(p)'
    BY <2>1 DEF MissInv, Since, InWindow
  <2>5. p[2].n < written /\ p[2].n \in Nat
    BY <2>4 DEF MissInv, Turn
  <2>6. ASSUME p[2] \in Range(turns'[p[1]]) PROVE p[2] \in Range(turns[p[1]])
    <3>1. turns'[p[1]] \in Seq(Turn) /\ turns[p[1]] \in Seq(Turn)
      BY <2>3, <2>4, Constants DEF MemoryInv
    <3>2. PICK i \in 1..Len(turns'[p[1]]) : p[2] = turns'[p[1]][i]
      BY <2>6, <3>1 DEF Range
    <3>3. PICK j \in 1..Len(turns[p[1]]) : p[2] = turns[p[1]][j]
      BY <2>3, <2>4, <2>5, <3>2
    <3>4. QED
      BY <3>1, <3>3 DEF Range
  <2>7. Ahead(p)' = Ahead(p)
    BY <2>1 DEF Ahead, CutOff, LastSeen
  <2>8. QED
    BY <2>3, <2>5, <2>6, <2>7 DEF MissInv
<1>2. CASE \E days \in WindowDays : GetAnalytics(days)
  BY <1>2, MissStarts
<1>3. CASE RecallThread
  <2>1. /\ call.pc = "recall" /\ call'.before = call.before /\ call.rest = <<>>
        /\ UNCHANGED <<now, turns, written>> /\ Since' = Since
    BY <1>3, RecallFacts DEF Since
  <2>2. call'.acc.counted = call.acc.counted
    <3>1. call.acc \in Acc
      BY DEF LoopInv, Call
    <3>2. QED
      BY <1>3, <3>1, RecallFacts DEF Acc
  <2> SUFFICES ASSUME NEW p \in call.before, InWindow(p[2], Since), p[2] \in Range(turns[p[1]]),
                      Ahead(p)
               PROVE  Ahead(p)'
    BY <2>1 DEF MissInv, InWindow
  <2>3. CASE p \in call.acc.counted
    BY <2>2, <2>3 DEF Ahead
  <2>4. ASSUME NEW i \in 1..Len(call.todo), call.todo[i] = p[1] PROVE Ahead(p)'
    <3>1. CASE i = 1
      <4>1. call'.thread = p[1] /\ call'.rest = turns[p[1]] /\ p[1] \in Listed
        BY <1>3, <2>4, <3>1, RecallFacts
      <4>2. turns[p[1]] \in Seq(Turn)
        BY <4>1, Constants DEF MemoryInv
      <4>3. \E j \in 1..Len(call'.rest) : call'.rest[j] = p[2]
        BY <4>1, <4>2 DEF Range
      <4>4. QED
        BY <4>1, <4>3 DEF Ahead
    <3>2. CASE i # 1
      <4>1. call.todo \in Seq(Listed) /\ call'.todo = Tail(call.todo) /\ call.todo # <<>>
        BY <1>3, RecallFacts DEF LoopInv, Call
      <4>2. i - 1 \in 1..Len(call'.todo) /\ call'.todo[i - 1] = call.todo[i]
        BY <2>4, <3>2, <4>1
      <4>3. QED
        BY <2>4, <4>2 DEF Ahead
    <3>3. QED
      BY <3>1, <3>2
  <2>5. CASE CutOff(p[1])
    BY <2>1, <2>5 DEF Ahead, CutOff, LastSeen
  <2>6. ~ \E i \in 1..Len(call.rest) : call.rest[i] = p[2]
    <3>1. Len(<<>>) = 0 /\ 1..0 = {}
      OBVIOUS
    <3>2. QED
      BY <2>1, <3>1
  <2>7. QED
    BY <2>3, <2>4, <2>5, <2>6 DEF Ahead
<1>4. CASE TallyTurn
  <2>1. /\ call.pc = "recall" /\ call'.before = call.before /\ call'.thread = call.thread
        /\ call'.todo = call.todo /\ UNCHANGED <<now, turns, written>> /\ Since' = Since
    BY <1>4, TallyFacts DEF Since
  <2>2. /\ call.acc.counted \subseteq call'.acc.counted
        /\ InWindow(call.rest[1], Since) => <<call.thread, call.rest[1]>> \in call'.acc.counted
    <3> DEFINE a == tallied(call.acc, call.thread, call.rest[1], Since)
    <3>1. call'.acc = a /\ call.acc \in Acc /\ call.thread \in Listed /\ call.rest[1] \in Turn
          /\ Since \in Int
      BY <1>4, TallyFacts
    <3>2. Outcome(call.acc, call.thread, call.rest[1], Since, a)
      BY <3>1, Tallied
    <3> HIDE DEF a
    <3>3. QED
      BY <3>1, <3>2 DEF Outcome
  <2> SUFFICES ASSUME NEW p \in call.before, InWindow(p[2], Since), p[2] \in Range(turns[p[1]]),
                      Ahead(p)
               PROVE  Ahead(p)'
    BY <2>1 DEF MissInv, InWindow
  <2>3. CASE p \in call.acc.counted
    BY <2>2, <2>3 DEF Ahead
  <2>4. CASE \E i \in 1..Len(call.todo) : call.todo[i] = p[1]
    BY <2>1, <2>4 DEF Ahead
  <2>5. ASSUME p[1] = call.thread, NEW i \in 1..Len(call.rest), call.rest[i] = p[2]
        PROVE  Ahead(p)'
    <3>1. CASE i = 1
      <4>1. p = <<p[1], p[2]>>
        BY DEF LoopInv, Call, Message
      <4>2. p = <<call.thread, call.rest[1]>>
        BY <2>5, <3>1, <4>1
      <4>3. QED
        BY <2>2, <2>5, <3>1, <4>2 DEF Ahead
    <3>2. CASE i # 1
      <4>1. i - 1 \in 1..Len(call'.rest) /\ call'.rest[i - 1] = call.rest[i]
        <5>1. Len(call'.rest) = Len(call.rest) - 1 /\ Len(call.rest) \in Nat
          BY <1>4, TallyFacts
        <5>2. i - 1 \in 1..Len(call'.rest) /\ (i - 1) + 1 = i
          BY <3>2, <5>1
        <5>3. QED
          BY <1>4, <5>2, TallyFacts
      <4>2. QED
        BY <2>1, <2>5, <4>1 DEF Ahead
    <3>3. QED
      BY <3>1, <3>2
  <2>6. CASE CutOff(p[1])
    BY <2>1, <2>6 DEF Ahead, CutOff, LastSeen
  <2>7. QED
    BY <2>3, <2>4, <2>5, <2>6 DEF Ahead
<1>5. CASE Answer
  <2>1. call'.pc = "idle"
    BY <1>5 DEF Answer, Idle
  <2>2. QED
    BY <2>1 DEF MissInv
<1>6. QED
  BY <1>1, <1>2, <1>3, <1>4, <1>5 DEF Next

\* The report's bookkeeping and what is ahead of it, together.
ReportInv == MemoryInv /\ LoopInv /\ MissInv

\* Both hold in every state.
LEMMA ReportInvariant == Spec => []ReportInv
<1>1. Init => ReportInv
  <2>1. Init => call.pc = "idle"
    BY DEF Init, Idle
  <2>2. QED
    BY <2>1, LoopStarts DEF ReportInv, MissInv
<1>2. ReportInv /\ [Next]_vars => ReportInv'
  BY LoopKept, MissKept DEF ReportInv
<1>3. QED
  BY <1>1, <1>2, PTL DEF Spec

\* get_analytics misses no message of its window in the threads that list_threads
\* matched, whichever tenant they are of, but for those that the limit cut off.
THEOREM NoMessageIsMissed == Spec => []NothingMissed
<1>1. ReportInv => NothingMissed
  <2> SUFFICES ASSUME ReportInv, Answered PROVE NothingMissed!2
    BY DEF NothingMissed
  <2>1. /\ call.pc = "recall" /\ call.todo = <<>> /\ call.rest = <<>>
    BY DEF Answered
  <2>2. AnalyticsOut.since = Since
    BY DEF AnalyticsOut
  <2>3. 1..Len(<<>>) = {}
    <3>1. Len(<<>>) = 0 /\ 1..0 = {}
      OBVIOUS
    <3>2. QED
      BY <3>1
  <2>4. ASSUME NEW p \in call.before, InWindow(p[2], AnalyticsOut.since),
               p[2] \in Range(turns[p[1]])
        PROVE  p \in call.acc.counted \/ CutOff(p[1])
    BY <2>1, <2>2, <2>3, <2>4 DEF ReportInv, MissInv, Ahead
  <2>5. \A p \in call.acc.counted : p[1] \in Listed /\ InWindow(p[2], AnalyticsOut.since)
    BY <2>2 DEF ReportInv, LoopInv, Call, Acc, Message
  <2>6. QED
    BY <2>4, <2>5 DEF CutOff
<1>2. QED
  BY <1>1, ReportInvariant, PTL

(***************************************************************************)
(* The chart and the total                                                 *)
(***************************************************************************)
\* One message more is one more of its kind and none more of another.
LEMMA CountOneMore ==
    ASSUME NEW C, IsFiniteSet(C), NEW x, x \notin C, NEW d, NEW role
    PROVE  /\ Cardinality(OnDay(C, d, role)) \in Nat
           /\ Cardinality(OnDay(C \cup {x}, d, role)) =
                 IF Day(x[2].at) = d /\ x[2].role = role THEN Cardinality(OnDay(C, d, role)) + 1
                 ELSE Cardinality(OnDay(C, d, role))
<1> DEFINE on == OnDay(C, d, role)
<1>1. on \in SUBSET C /\ x \notin on
  BY DEF OnDay
<1>2. IsFiniteSet(on) /\ Cardinality(on) \in Nat
  <2> HIDE DEF on
  <2> QED BY <1>1, FS_Subset, FS_CardinalityType
<1>3. CASE Day(x[2].at) = d /\ x[2].role = role
  <2>1. OnDay(C \cup {x}, d, role) = on \cup {x}
    BY <1>3 DEF OnDay
  <2> HIDE DEF on
  <2>2. Cardinality(on \cup {x}) = Cardinality(on) + 1
    BY <1>1, <1>2, FS_AddElement
  <2>3. QED
    BY <1>2, <1>3, <2>1, <2>2 DEF on
<1>4. CASE ~(Day(x[2].at) = d /\ x[2].role = role)
  <2>1. OnDay(C \cup {x}, d, role) = on
    BY <1>4 DEF OnDay
  <2>2. QED
    BY <1>2, <1>4, <2>1
<1>5. QED
  BY <1>3, <1>4

\* Every step keeps the counters in agreement with what they count.
LEMMA TotalsKept ==
    ASSUME TotalsInv, LoopInv, MemoryInv, [Next]_vars
    PROVE  TotalsInv'
<1>1. CASE UNCHANGED call.acc
  BY <1>1 DEF TotalsInv, CountedOn
<1>2. ASSUME call'.acc = Empty PROVE TotalsInv'
  <2>1. /\ call'.acc.buyer = 0 /\ call'.acc.agent = 0 /\ call'.acc.counted = {}
        /\ call'.acc.daily.buyer = Zero /\ call'.acc.daily.agent = Zero
    BY <1>2 DEF Empty
  <2>2. \A d \in Days : Zero[d] = 0
    BY DEF Zero, Days
  <2>3. Cardinality({}) = 0
    BY FS_EmptySet
  <2>4. \A d, role : OnDay({}, d, role) = {}
    BY DEF OnDay
  <2>5. \A d \in Days : /\ call'.acc.daily.buyer[d] = Cardinality(CountedOn(d, "buyer")')
                        /\ call'.acc.daily.agent[d] = Cardinality(CountedOn(d, "agent")')
    BY <2>1, <2>2, <2>3, <2>4 DEF CountedOn
  <2>6. call'.acc.buyer + call'.acc.agent = Cardinality(call'.acc.counted)
    BY <2>1, <2>3
  <2>7. QED
    BY <2>5, <2>6 DEF TotalsInv
<1>3. CASE RecallThread
  <2>1. call.acc \in Acc /\ call'.acc = [call.acc EXCEPT !.pending = Nobody]
    BY <1>3, RecallFacts DEF LoopInv, Call
  <2>2. /\ call'.acc.buyer = call.acc.buyer /\ call'.acc.agent = call.acc.agent
        /\ call'.acc.daily = call.acc.daily /\ call'.acc.counted = call.acc.counted
    BY <2>1 DEF Acc
  <2>3. QED
    BY <2>2 DEF TotalsInv, CountedOn
<1>4. CASE TallyTurn
  <2> DEFINE turn == call.rest[1]
             p == <<call.thread, turn>>
             cs == call.acc.counted
             a == call'.acc
             e == Day(turn.at)
  <2>1. /\ call.acc \in Acc /\ call.thread \in Listed /\ turn \in Turn /\ Since \in Int
        /\ a = tallied(call.acc, call.thread, turn, Since) /\ p \notin cs
    BY <1>4, TallyFacts
  <2>2. Outcome(call.acc, call.thread, turn, Since, a)
    BY <2>1, Tallied
  <2>3. CASE ~InWindow(turn, Since)
    <3>1. UNCHANGED call.acc
      BY <2>2, <2>3 DEF Outcome
    <3>2. QED
      BY <1>1, <3>1
  <2>4. CASE InWindow(turn, Since)
    <3>1. /\ turn.role \in {"buyer", "agent"} /\ e \in Days
      <4>1. turn.at \in 0..MaxNow /\ turn.role \in {"buyer", "agent"}
        BY <2>1 DEF Turn
      <4>2. QED
        BY <4>1, DayInRange
    <3>2. /\ call.acc.buyer \in Nat /\ call.acc.agent \in Nat
          /\ call.acc.daily.buyer \in PerDay /\ call.acc.daily.agent \in PerDay
      BY <2>1 DEF Acc
    <3>3. a.counted = cs \cup {p}
      BY <2>2, <2>4 DEF Outcome
    <3>4. IsFiniteSet(cs)
      BY DEF LoopInv
    <3>5. Cardinality(a.counted) = Cardinality(cs) + 1
      <4> HIDE DEF cs, p, a
      <4> QED BY <2>1, <3>3, <3>4, FS_AddElement
    <3>6. a.buyer + a.agent = call.acc.buyer + call.acc.agent + 1
      <4>1. CASE turn.role = "buyer"
        BY <2>2, <2>4, <3>2, <4>1 DEF Outcome
      <4>2. CASE turn.role = "agent"
        BY <2>2, <2>4, <3>2, <4>2 DEF Outcome
      <4>3. QED
        BY <3>1, <4>1, <4>2
    <3>7. \A d \in Days :
            /\ a.daily.buyer[d] = IF e = d /\ turn.role = "buyer" THEN call.acc.daily.buyer[d] + 1
                                  ELSE call.acc.daily.buyer[d]
            /\ a.daily.agent[d] = IF e = d /\ turn.role = "agent" THEN call.acc.daily.agent[d] + 1
                                  ELSE call.acc.daily.agent[d]
      <4>1. CASE turn.role = "buyer"
        <5>1. /\ a.daily.buyer = [call.acc.daily.buyer EXCEPT ![e] = @ + 1]
              /\ a.daily.agent = call.acc.daily.agent
          BY <2>2, <2>4, <4>1 DEF Outcome
        <5>2. QED
          BY <3>1, <3>2, <4>1, <5>1 DEF PerDay
      <4>2. CASE turn.role = "agent"
        <5>1. /\ a.daily.agent = [call.acc.daily.agent EXCEPT ![e] = @ + 1]
              /\ a.daily.buyer = call.acc.daily.buyer
          BY <2>2, <2>4, <4>2 DEF Outcome
        <5>2. QED
          BY <3>1, <3>2, <4>2, <5>1 DEF PerDay
      <4>3. QED
        BY <3>1, <4>1, <4>2
    <3>8. ASSUME NEW d \in Days, NEW role \in {"buyer", "agent"}
          PROVE  Cardinality(CountedOn(d, role)') =
                    IF e = d /\ turn.role = role THEN Cardinality(CountedOn(d, role)) + 1
                    ELSE Cardinality(CountedOn(d, role))
      <4>1. CountedOn(d, role)' = OnDay(cs \cup {p}, d, role)
        BY <3>3 DEF CountedOn
      <4>2. p[2] = turn /\ CountedOn(d, role) = OnDay(cs, d, role)
        BY DEF CountedOn
      <4> HIDE DEF cs, p, turn
      <4>3. Cardinality(OnDay(cs \cup {p}, d, role)) =
               IF Day(p[2].at) = d /\ p[2].role = role THEN Cardinality(OnDay(cs, d, role)) + 1
               ELSE Cardinality(OnDay(cs, d, role))
        BY <2>1, <3>4, CountOneMore
      <4>4. QED
        BY <4>1, <4>2, <4>3
    <3>9. QED
      <4> HIDE DEF a, e, turn, cs
      <4>1. a.buyer + a.agent = Cardinality(a.counted)
        BY <3>5, <3>6 DEF TotalsInv, cs
      <4>2. ASSUME NEW d \in Days
            PROVE  /\ a.daily.buyer[d] = Cardinality(CountedOn(d, "buyer")')
                   /\ a.daily.agent[d] = Cardinality(CountedOn(d, "agent")')
        BY <3>7, <3>8 DEF TotalsInv
      <4>3. QED
        BY <4>1, <4>2 DEF TotalsInv, a
  <2>5. QED
    BY <2>3, <2>4
<1>5. CASE \E days \in WindowDays : GetAnalytics(days)
  BY <1>2, <1>5, GetFacts
<1>6. CASE Answer
  <2>1. call'.acc = Empty
    BY <1>6 DEF Answer, Idle
  <2>2. QED
    BY <1>2, <2>1
<1>7. QED
  BY <1>1, <1>3, <1>4, <1>5, <1>6 DEF Next, Tick, Remember, vars

\* The counters agree with the messages in every state.
LEMMA TotalsInvariant == Spec => []TotalsInv
<1>1. Init => TotalsInv
  <2> SUFFICES ASSUME Init PROVE TotalsInv
    OBVIOUS
  <2>1. /\ call.acc.buyer = 0 /\ call.acc.agent = 0 /\ call.acc.counted = {}
        /\ call.acc.daily.buyer = Zero /\ call.acc.daily.agent = Zero
    BY DEF Init, Idle, Empty
  <2>2. \A d \in Days : Zero[d] = 0
    BY DEF Zero, Days
  <2>3. Cardinality({}) = 0 /\ \A d, role : OnDay({}, d, role) = {}
    BY FS_EmptySet DEF OnDay
  <2>4. QED
    BY <2>1, <2>2, <2>3 DEF TotalsInv, CountedOn
<1>2. TotalsInv /\ ReportInv /\ [Next]_vars => TotalsInv'
  BY TotalsKept DEF ReportInv
<1>3. QED
  BY <1>1, <1>2, ReportInvariant, PTL DEF Spec

\* The series of get_analytics ends the day before the request.
LEMMA LastBars ==
    ASSUME NEW a \in Int, NEW k \in Nat
    PROVE  Day(a - k * TicksPerDay) = Day(a) - k
<1>1. TicksPerDay \in Int /\ TicksPerDay > 0
  BY Constants
<1>2. QED
  BY <1>1 DEF Day

\* The daily series of get_analytics shows every counted message once, on its day,
\* but for those of the edges of the window.
THEOREM ChartAgreesWithTotal == Spec => []BarsMatchTotals
<1>1. ReportInv /\ TotalsInv => BarsMatchTotals
  <2> SUFFICES ASSUME ReportInv, TotalsInv, Answered PROVE BarsMatchTotals!2
    BY DEF BarsMatchTotals
  <2> DEFINE cs == call.acc.counted
             bars == AnalyticsOut.daily
             today == Day(call.now)
             days == call.days
  <2>1. /\ call \in Call /\ call.acc \in Acc /\ days \in Nat /\ call.now \in Int
    BY DEF ReportInv, LoopInv, Call, Answered
  <2>2. /\ today \in Int /\ Day(Since) = today - days /\ AnalyticsOut.now = call.now
        /\ AnalyticsOut.messages_total = Cardinality(cs)
    BY <2>1, DaysAreOrdered, LastBars DEF Since, AnalyticsOut, TotalsInv
  <2>3. /\ DOMAIN bars = 1..days
        /\ \A i \in 1..days :
              LET d == today - days + i - 1
              IN  /\ bars[i].date = d
                  /\ bars[i].buyer = IF d \in Days THEN call.acc.daily.buyer[d] ELSE 0
                  /\ bars[i].agent = IF d \in Days THEN call.acc.daily.agent[d] ELSE 0
    <3>1. bars = daily_series(call.acc, Since, days)
      BY DEF AnalyticsOut
    <3>2. DOMAIN Zero = Days
      BY DEF Zero, Days
    <3> HIDE DEF bars, days, today
    <3>3. QED
      BY <2>2, <3>1, <3>2 DEF daily_series
  <2>4. \A p \in cs : Day(p[2].at) \in Days /\ Day(p[2].at) >= today - days
    <3> SUFFICES ASSUME NEW p \in cs
                 PROVE  Day(p[2].at) \in Days /\ Day(p[2].at) >= today - days
      OBVIOUS
    <3>1. p[2] \in Turn
      BY <2>1 DEF Acc, Message
    <3>2. p[2].at \in 0..MaxNow /\ p[2].at \in Int /\ Since \in Int
      BY <2>1, <3>1, Constants DEF Turn, Since
    <3>3. p[2].at >= Since
      BY DEF ReportInv, LoopInv, InWindow
    <3>4. Day(Since) <= Day(p[2].at) /\ Day(Since) \in Int /\ Day(p[2].at) \in Int
      BY <3>2, <3>3, DaysAreOrdered
    <3> HIDE DEF today, days
    <3>5. QED
      BY <2>2, <3>2, <3>4, DayInRange
  <2>5. ASSUME NEW i \in DOMAIN bars
        PROVE  /\ bars[i].buyer = Cardinality(CountedOn(bars[i].date, "buyer"))
               /\ bars[i].agent = Cardinality(CountedOn(bars[i].date, "agent"))
    <3> DEFINE d == bars[i].date
    <3>1. i \in 1..days /\ d = today - days + i - 1
      BY <2>3
    <3>2. /\ bars[i].buyer = IF d \in Days THEN call.acc.daily.buyer[d] ELSE 0
          /\ bars[i].agent = IF d \in Days THEN call.acc.daily.agent[d] ELSE 0
      BY <2>3, <3>1
    <3>3. CASE d \in Days
      BY <3>2, <3>3 DEF TotalsInv
    <3>4. CASE d \notin Days
      <4>1. CountedOn(d, "buyer") = {} /\ CountedOn(d, "agent") = {}
        BY <2>4, <3>4 DEF CountedOn, OnDay
      <4>2. QED
        BY <3>2, <3>4, <4>1, FS_EmptySet
    <3>5. QED
      BY <3>3, <3>4
  <2>6. \A i, j \in DOMAIN bars : bars[i].date = bars[j].date => i = j
    <3> SUFFICES ASSUME NEW i \in 1..days, NEW j \in 1..days, bars[i].date = bars[j].date
                 PROVE  i = j
      BY <2>3
    <3>1. today - days + i - 1 = today - days + j - 1
      BY <2>3
    <3> HIDE DEF today, days
    <3>2. QED
      BY <2>1, <2>2, <3>1
  <2>7. ASSUME NEW p \in cs
        PROVE  (\A i \in DOMAIN bars : bars[i].date # Day(p[2].at)) => Day(p[2].at) >= today
    <3> DEFINE e == Day(p[2].at)
    <3>1. e \in Int /\ e >= today - days
      BY <2>4, Constants, DaysAreOrdered DEF Days
    <3>2. ASSUME e < today PROVE \E i \in DOMAIN bars : bars[i].date = e
      <4> DEFINE i == e - (today - days) + 1
      <4> HIDE DEF e, today, days, bars
      <4>1. i \in 1..days /\ today - days + i - 1 = e
        BY <2>1, <2>2, <3>1, <3>2
      <4> HIDE DEF i
      <4>2. QED
        BY <2>3, <4>1 DEF bars, days, today
    <3>3. today \in Int
      BY <2>2
    <3> HIDE DEF e, today, bars
    <3>4. QED
      BY <3>1, <3>2, <3>3 DEF e
  <2>8. QED
    BY <2>2, <2>5, <2>6, <2>7 DEF CountedOn, OnDay
<1>2. QED
  BY <1>1, ReportInvariant, TotalsInvariant, PTL

(***************************************************************************)
(* The response times                                                      *)
(***************************************************************************)
\* What counting the message p of thread t after those in C does to them.
OneMore(C, p, t) ==
    /\ Numbered(C \cup {p})
    /\ \A x \in C : AnsweredBy(C \cup {p}, x) = AnsweredBy(C, x)
    /\ \A q : q \in AnsweredBy(C \cup {p}, p) <=> q \in LastOf(C, t) /\ q[2].role = "buyer"
    /\ LastOf(C \cup {p}, t) = {p}
    /\ \A q, r \in LastOf(C, t) : q = r

\* A later message of a thread changes no earlier reply, and answers the last one
\* before it if a buyer sent that.
LEMMA OneMoreTurn ==
    ASSUME NEW C \in SUBSET Message, Numbered(C), NEW t \in Listed, NEW turn \in Turn,
           \A q \in C : q[1] = t => q[2].n < turn.n, NEW p, p = <<t, turn>>
    PROVE  OneMore(C, p, t)
<1>1. /\ p[1] = t /\ p[2] = turn /\ turn.n \in Nat
      /\ \A q \in C : q[2].n \in Nat
  BY DEF Message, Turn
<1>2. Numbered(C \cup {p})
  BY <1>1 DEF Numbered
<1>3. ASSUME NEW x \in C PROVE AnsweredBy(C \cup {p}, x) = AnsweredBy(C, x)
  <2>1. ~(p[1] = x[1] /\ p[2].n < x[2].n)
    BY <1>1
  <2>2. QED
    BY <1>1, <2>1 DEF AnsweredBy
<1>4. ASSUME NEW q \in C, q[1] = t, q[2].role = "buyer"
      PROVE  q \in AnsweredBy(C \cup {p}, p) <=> q \in LastOf(C, t)
  <2>1. q[2].n < p[2].n
    BY <1>1, <1>4
  <2>2. (\E r \in C \cup {p} : r[1] = t /\ q[2].n < r[2].n /\ r[2].n < p[2].n)
           <=> \E r \in C : r[1] = t /\ ~(r[2].n <= q[2].n)
    BY <1>1, <1>4
  <2>3. QED
    BY <1>1, <1>4, <2>1, <2>2 DEF AnsweredBy, LastOf
<1>5. \A q : q \in AnsweredBy(C \cup {p}, p) <=> q \in LastOf(C, t) /\ q[2].role = "buyer"
  <2>1. \A q \in AnsweredBy(C \cup {p}, p) : q \in C /\ q[1] = t /\ q[2].role = "buyer"
    BY <1>1 DEF AnsweredBy
  <2>2. \A q \in LastOf(C, t) : q \in C /\ q[1] = t
    BY DEF LastOf
  <2>3. QED
    BY <1>4, <2>1, <2>2
<1>6. LastOf(C \cup {p}, t) = {p}
  BY <1>1 DEF LastOf
<1>7. ASSUME NEW q \in LastOf(C, t), NEW r \in LastOf(C, t) PROVE q = r
  BY <1>1 DEF LastOf, Numbered
<1>8. QED
  BY <1>2, <1>3, <1>5, <1>6, <1>7 DEF OneMore

\* One response time more is one more of its length and none more of another.
LEMMA OneMoreTime ==
    ASSUME NEW s \in Seq(Int), NEW x \in Int, NEW d \in Int
    PROVE  /\ Cardinality(TimesAt(s, d)) \in Nat
           /\ Cardinality(TimesAt(Append(s, x), d)) =
                 IF x = d THEN Cardinality(TimesAt(s, d)) + 1 ELSE Cardinality(TimesAt(s, d))
<1> DEFINE n == Len(s)
           T == TimesAt(s, d)
<1>1. /\ n \in Nat /\ DOMAIN s = 1..n /\ DOMAIN Append(s, x) = 1..(n + 1)
      /\ Append(s, x)[n + 1] = x /\ \A i \in 1..n : Append(s, x)[i] = s[i]
  OBVIOUS
<1>2. T \in SUBSET (1..n) /\ n + 1 \notin T
  BY <1>1 DEF TimesAt
<1>3. IsFiniteSet(T) /\ Cardinality(T) \in Nat
  <2>1. IsFiniteSet(1..n)
    BY <1>1, FS_Interval
  <2> HIDE DEF T, n
  <2>2. QED
    BY <1>2, <2>1, FS_Subset, FS_CardinalityType
<1>4. TimesAt(Append(s, x), d) = IF x = d THEN T \cup {n + 1} ELSE T
  <2> HIDE DEF n
  <2>1. 1..(n + 1) = (1..n) \cup {n + 1} /\ n + 1 \notin 1..n
    BY <1>1
  <2>2. QED
    BY <1>1, <2>1 DEF TimesAt
<1> HIDE DEF T, n
<1>5. Cardinality(T \cup {n + 1}) = Cardinality(T) + 1
  BY <1>2, <1>3, FS_AddElement
<1>6. QED
  BY <1>3, <1>4, <1>5 DEF T

\* Every step keeps the response times true to the replies.
LEMMA TimesKept ==
    ASSUME TimesInv, LoopInv, MemoryInv, [Next]_vars
    PROVE  TimesInv'
<1>1. CASE UNCHANGED <<call.acc, call.thread>>
  BY <1>1 DEF TimesInv
<1>2. ASSUME call'.acc = Empty PROVE TimesInv'
  <2>1. call'.acc.counted = {} /\ call'.acc.seconds = <<>> /\ call'.acc.pending = Nobody
    BY <1>2 DEF Empty
  <2>2. /\ Numbered({}) /\ \A t : LastOf({}, t) = {}
        /\ \A d \in Int : WaitsOf({}, d) = {} /\ TimesAt(<<>>, d) = {}
    BY DEF Numbered, LastOf, WaitsOf, TimesAt
  <2>3. QED
    BY <2>1, <2>2 DEF TimesInv
<1>3. CASE RecallThread
  <2>1. call.acc \in Acc /\ call'.acc = [call.acc EXCEPT !.pending = Nobody]
    BY <1>3, RecallFacts DEF LoopInv, Call
  <2>2. /\ call'.acc.counted = call.acc.counted /\ call'.acc.seconds = call.acc.seconds
        /\ call'.acc.pending = Nobody
    BY <2>1 DEF Acc
  <2>3. 1 \in 1..Len(call.todo) /\ call'.thread = call.todo[1]
    <3>1. call.todo \in Seq(Listed) /\ call.todo # <<>>
      BY <1>3, RecallFacts DEF LoopInv, Call
    <3>2. QED
      BY <1>3, <3>1, RecallFacts
  <2>4. LastOf(call.acc.counted, call'.thread) = {}
    BY <2>3 DEF LoopInv, LastOf
  <2>5. QED
    BY <2>2, <2>4 DEF TimesInv
<1>4. CASE TallyTurn
  <2> DEFINE turn == call.rest[1]
             t == call.thread
             p == <<t, turn>>
             C == call.acc.counted
             s == call.acc.seconds
             pending == call.acc.pending
             a == call'.acc
  <2>1. /\ call.acc \in Acc /\ t \in Listed /\ turn \in Turn /\ Since \in Int
        /\ a = tallied(call.acc, t, turn, Since) /\ call'.thread = t /\ p \notin C
        /\ Len(call.rest) \in Nat \ {0}
    BY <1>4, TallyFacts
  <2>2. Outcome(call.acc, t, turn, Since, a)
    BY <2>1, Tallied
  <2>3. CASE ~InWindow(turn, Since)
    <3>1. UNCHANGED <<call.acc, call.thread>>
      BY <2>1, <2>2, <2>3 DEF Outcome
    <3>2. QED
      BY <1>1, <3>1
  <2>4. CASE InWindow(turn, Since)
    <3>1. /\ C \in SUBSET Message /\ s \in Seq(Int) /\ pending \in Int \cup {Nobody}
          /\ turn.role \in {"buyer", "agent"} /\ turn.at \in Int /\ IsFiniteSet(C)
      BY <2>1, Constants DEF Acc, Turn, LoopInv
    <3>2. /\ Numbered(C)
          /\ \A d \in Int : Cardinality(TimesAt(s, d)) = Cardinality(WaitsOf(C, d))
          /\ \A q \in LastOf(C, t) : q[2].role = "buyer" => pending = q[2].at
          /\ pending # Nobody => \E q \in LastOf(C, t) : q[2].role = "buyer"
      BY DEF TimesInv
    <3>3. \A q \in C : q[1] = t => q[2].n < turn.n
      <4>1. 1 \in 1..Len(call.rest)
        BY <2>1
      <4>2. QED
        BY <4>1 DEF LoopInv
    <3>4. /\ a.counted = C \cup {p}
          /\ turn.role = "buyer" => a.seconds = s /\ a.pending = turn.at
          /\ turn.role = "agent" =>
                /\ a.seconds = IF pending = Nobody THEN s ELSE Append(s, turn.at - pending)
                /\ a.pending = Nobody
      BY <2>2, <2>4 DEF Outcome
    <3> HIDE DEF turn, t, C, s, pending, a
    <3> DEFINE D == C \cup {p}
    <3>5. /\ Numbered(D)
          /\ \A x \in C : AnsweredBy(D, x) = AnsweredBy(C, x)
          /\ \A q : q \in AnsweredBy(D, p) <=> q \in LastOf(C, t) /\ q[2].role = "buyer"
          /\ LastOf(D, t) = {p}
          /\ \A q, r \in LastOf(C, t) : q = r
      <4>1. p = <<t, turn>>
        OBVIOUS
      <4> HIDE DEF p
      <4>2. C \in SUBSET Message /\ Numbered(C) /\ t \in Listed /\ turn \in Turn
        BY <2>1, <3>1, <3>2
      <4>3. OneMore(C, p, t)
        BY <3>3, <4>1, <4>2, OneMoreTurn
      <4>4. QED
        BY <4>3 DEF OneMore
    <3>6. p[1] = t /\ p[2] = turn /\ turn.at # Nobody
      BY <3>1, Constants
    <3> HIDE DEF p, D
    <3>7. \A x \in C : WaitOf(D, x) = WaitOf(C, x)
      BY <3>5 DEF WaitOf
    <3> DEFINE waited == turn.role = "agent" /\ pending # Nobody
               wait == turn.at - pending
    <3>8. /\ AnsweredBy(D, p) # {} <=> pending # Nobody
          /\ pending # Nobody => WaitOf(D, p) = wait
      <4>1. ASSUME NEW q \in AnsweredBy(D, p) PROVE pending = q[2].at
        BY <3>2, <3>5, <4>1
      <4>2. \A q \in LastOf(C, t) : q \in C /\ q[2].at \in Int
        BY <3>1, Constants DEF LastOf, Message, Turn
      <4>3. AnsweredBy(D, p) # {} <=> pending # Nobody
        BY <3>2, <3>5, <4>1, <4>2, Constants
      <4>4. ASSUME pending # Nobody PROVE WaitOf(D, p) = wait
        <5>1. (CHOOSE q \in AnsweredBy(D, p) : TRUE) \in AnsweredBy(D, p)
          BY <4>3, <4>4
        <5>2. QED
          BY <3>6, <4>1, <5>1 DEF WaitOf
      <4>5. QED
        BY <4>3, <4>4
    <3>9. ASSUME NEW d \in Int
          PROVE  WaitsOf(D, d) = IF waited /\ wait = d THEN WaitsOf(C, d) \cup {p}
                                 ELSE WaitsOf(C, d)
      <4>1. ASSUME NEW x \in C PROVE x \in WaitsOf(D, d) <=> x \in WaitsOf(C, d)
        BY <3>5, <3>7 DEF WaitsOf, D
      <4>2. p \in WaitsOf(D, d) <=> waited /\ wait = d
        BY <3>6, <3>8 DEF WaitsOf, D
      <4>3. \A x \in WaitsOf(D, d) : x \in C \/ x = p
        BY DEF WaitsOf, D
      <4>4. \A x \in WaitsOf(C, d) : x \in C
        BY DEF WaitsOf
      <4> HIDE DEF waited, wait
      <4>5. QED
        BY <4>1, <4>2, <4>3, <4>4
    <3>10. a.seconds = IF waited THEN Append(s, wait) ELSE s
      BY <3>1, <3>4
    <3>11. waited => wait \in Int
      BY <3>1
    <3> HIDE DEF waited, wait
    <3>12. ASSUME NEW d \in Int
           PROVE  Cardinality(TimesAt(a.seconds, d)) = Cardinality(WaitsOf(D, d))
      <4>1. IsFiniteSet(WaitsOf(C, d)) /\ p \notin WaitsOf(C, d)
        <5>1. WaitsOf(C, d) \in SUBSET C
          BY DEF WaitsOf
        <5>2. QED
          BY <2>1, <3>1, <5>1, FS_Subset DEF p, C, t, turn
      <4>2. Cardinality(WaitsOf(C, d) \cup {p}) = Cardinality(WaitsOf(C, d)) + 1
        BY <4>1, FS_AddElement
      <4>3. Cardinality(TimesAt(s, d)) = Cardinality(WaitsOf(C, d))
        BY <3>2
      <4>4. CASE waited
        <5>1. Cardinality(TimesAt(Append(s, wait), d)) =
                 IF wait = d THEN Cardinality(TimesAt(s, d)) + 1 ELSE Cardinality(TimesAt(s, d))
          BY <3>1, <3>11, <4>4, OneMoreTime
        <5>2. QED
          BY <3>9, <3>10, <4>2, <4>3, <4>4, <5>1
      <4>5. CASE ~waited
        BY <3>9, <3>10, <4>3, <4>5
      <4>6. QED
        BY <4>4, <4>5
    <3>13. /\ \A q \in LastOf(D, t) : q[2].role = "buyer" => a.pending = q[2].at
           /\ a.pending # Nobody => \E q \in LastOf(D, t) : q[2].role = "buyer"
      BY <3>1, <3>4, <3>5, <3>6
    <3>14. call'.acc.counted = D /\ call'.thread = t
      BY <2>1, <3>4 DEF D, a
    <3>15. QED
      BY <3>5, <3>12, <3>13, <3>14 DEF TimesInv, a
  <2>5. QED
    BY <2>3, <2>4
<1>5. CASE \E days \in WindowDays : GetAnalytics(days)
  BY <1>2, <1>5, GetFacts
<1>6. CASE Answer
  <2>1. call'.acc = Empty
    BY <1>6 DEF Answer, Idle
  <2>2. QED
    BY <1>2, <2>1
<1>7. QED
  BY <1>1, <1>3, <1>4, <1>5, <1>6 DEF Next, Tick, Remember, vars

\* The response times are the replies' in every state.
LEMMA TimesInvariant == Spec => []TimesInv
<1>1. Init => TimesInv
  <2> SUFFICES ASSUME Init PROVE TimesInv
    OBVIOUS
  <2>1. call.acc.counted = {} /\ call.acc.seconds = <<>> /\ call.acc.pending = Nobody
    BY DEF Init, Idle, Empty
  <2>2. /\ Numbered({}) /\ \A t : LastOf({}, t) = {}
        /\ \A d \in Int : WaitsOf({}, d) = {} /\ TimesAt(<<>>, d) = {}
    BY DEF Numbered, LastOf, WaitsOf, TimesAt
  <2>3. QED
    BY <2>1, <2>2 DEF TimesInv
<1>2. TimesInv /\ ReportInv /\ [Next]_vars => TimesInv'
  BY TimesKept DEF ReportInv
<1>3. QED
  BY <1>1, <1>2, ReportInvariant, PTL DEF Spec

\* Values can be put in ascending order: each goes to the place that the number of
\* those before it gives, equal ones in the order they came.
LEMMA SortingOrder ==
    ASSUME NEW n \in Nat, NEW v \in [1..n -> Int]
    PROVE  \E p \in [1..n -> 1..n] :
              /\ \A i, j \in 1..n : i # j => p[i] # p[j]
              /\ \A i, j \in 1..n : i < j => v[p[i]] <= v[p[j]]
<1> DEFINE Upto(i) == { j \in 1..n : v[j] < v[i] \/ (v[j] = v[i] /\ j <= i) }
           rank == [i \in 1..n |-> Cardinality(Upto(i))]
<1>1. IsFiniteSet(1..n) /\ Cardinality(1..n) = n
  BY FS_Interval
<1>2. ASSUME NEW i \in 1..n
      PROVE  /\ Upto(i) \in SUBSET (1..n) /\ i \in Upto(i) /\ IsFiniteSet(Upto(i))
             /\ Cardinality(Upto(i)) \in 1..n
  <2>1. Upto(i) \in SUBSET (1..n) /\ i \in Upto(i)
    OBVIOUS
  <2> HIDE DEF Upto
  <2>2. IsFiniteSet(Upto(i)) /\ Cardinality(Upto(i)) <= n /\ Cardinality(Upto(i)) \in Nat
    BY <1>1, <2>1, FS_Subset, FS_CardinalityType
  <2>3. Cardinality(Upto(i)) # 0
    BY <2>1, <2>2, FS_EmptySet
  <2>4. QED
    BY <2>1, <2>2, <2>3
<1>3. ASSUME NEW i \in 1..n, NEW j \in 1..n, Upto(i) \subseteq Upto(j), j \notin Upto(i)
      PROVE  rank[i] < rank[j]
  <2> HIDE DEF Upto
  <2>1. Cardinality(Upto(i)) <= Cardinality(Upto(j)) /\ Cardinality(Upto(i)) # Cardinality(Upto(j))
    BY <1>2, <1>3, FS_Subset
  <2>2. QED
    BY <1>2, <2>1
<1>4. ASSUME NEW i \in 1..n, NEW j \in 1..n, v[i] < v[j] \/ (v[i] = v[j] /\ i < j)
      PROVE  rank[i] < rank[j]
  <2>1. Upto(i) \subseteq Upto(j) /\ j \notin Upto(i)
    BY <1>4
  <2> HIDE DEF Upto, rank
  <2>2. QED
    BY <1>3, <2>1
<1> HIDE DEF Upto
<1>5. rank \in [1..n -> 1..n]
  BY <1>2
<1> HIDE DEF rank
<1>6. \A i, j \in 1..n : i # j => rank[i] # rank[j]
  <2> SUFFICES ASSUME NEW i \in 1..n, NEW j \in 1..n, i # j PROVE rank[i] # rank[j]
    OBVIOUS
  <2>1. \/ v[i] < v[j] \/ (v[i] = v[j] /\ i < j)
        \/ v[j] < v[i] \/ (v[j] = v[i] /\ j < i)
    OBVIOUS
  <2>2. rank[i] < rank[j] \/ rank[j] < rank[i]
    BY <1>4, <2>1
  <2>3. QED
    BY <1>5, <2>2
<1>7. rank \in Injection(1..n, 1..n)
  BY <1>5, <1>6 DEF Injection, IsInjective
<1>8. rank \in Surjection(1..n, 1..n)
  BY <1>1, <1>7, FS_Injection
<1>9. \A k \in 1..n : \E i \in 1..n : rank[i] = k
  BY <1>8 DEF Surjection
<1> DEFINE p == [k \in 1..n |-> CHOOSE i \in 1..n : rank[i] = k]
<1>10. \A k \in 1..n : p[k] \in 1..n /\ rank[p[k]] = k
  BY <1>9
<1>11. p \in [1..n -> 1..n]
  BY <1>10
<1> HIDE DEF p
<1>12. \A i, j \in 1..n : i # j => p[i] # p[j]
  BY <1>10
<1>13. \A i, j \in 1..n : i < j => v[p[i]] <= v[p[j]]
  <2> SUFFICES ASSUME NEW i \in 1..n, NEW j \in 1..n, i < j PROVE ~(v[p[j]] < v[p[i]])
    BY <1>11
  <2>1. ASSUME v[p[j]] < v[p[i]] PROVE FALSE
    <3>1. rank[p[j]] < rank[p[i]]
      BY <1>4, <1>10, <2>1
    <3>2. QED
      BY <1>10, <3>1
  <2>2. QED
    BY <2>1
<1>14. QED
  BY <1>11, <1>12, <1>13

\* As many places of the values as there are ranks from lo to hi.
LEMMA Segment ==
    ASSUME NEW n \in Nat, NEW p \in [1..n -> 1..n], \A i, j \in 1..n : i # j => p[i] # p[j],
           NEW lo \in 1..(n + 1), NEW hi \in 0..n, lo <= hi + 1
    PROVE  /\ IsFiniteSet({ p[k] : k \in lo..hi })
           /\ Cardinality({ p[k] : k \in lo..hi }) = hi - lo + 1
<1> DEFINE T == { p[k] : k \in lo..hi }
           f == [k \in lo..hi |-> p[k]]
<1>1. IsFiniteSet(lo..hi) /\ Cardinality(lo..hi) = hi - lo + 1
  <2>1. lo \in Int /\ hi \in Int
    OBVIOUS
  <2>2. IsFiniteSet(lo..hi) /\ Cardinality(lo..hi) = IF lo > hi THEN 0 ELSE hi - lo + 1
    BY <2>1, FS_Interval
  <2>3. QED
    BY <2>1, <2>2
<1>2. \A k \in lo..hi : k \in 1..n
  OBVIOUS
<1>3. f \in Injection(lo..hi, T)
  BY <1>2 DEF Injection, IsInjective
<1>4. f \in Surjection(lo..hi, T)
  BY DEF Surjection
<1> HIDE DEF f, T
<1>5. IsFiniteSet(T) /\ Cardinality(T) = Cardinality(lo..hi)
  BY <1>1, <1>3, <1>4, FS_Surjection
<1>6. QED
  BY <1>1, <1>5 DEF T

\* sorted puts the values in ascending order.
LEMMA SortedOrder ==
    ASSUME NEW s \in Seq(Int)
    PROVE  \E p \in [1..Len(s) -> 1..Len(s)] :
              /\ \A i, j \in 1..Len(s) : i # j => p[i] # p[j]
              /\ \A i, j \in 1..Len(s) : i < j => s[p[i]] <= s[p[j]]
              /\ sorted(s) = [i \in 1..Len(s) |-> s[p[i]]]
<1> DEFINE n == Len(s)
           Orders == { q \in SetToSeqs(DOMAIN s) :
                          \A i, j \in DOMAIN q : i < j => s[q[i]] <= s[q[j]] }
           p == CHOOSE q \in SetToSeqs(DOMAIN s) :
                          \A i, j \in DOMAIN q : i < j => s[q[i]] <= s[q[j]]
<1>1. n \in Nat /\ DOMAIN s = 1..n /\ s \in [1..n -> Int]
  OBVIOUS
<1> HIDE DEF n
<1>2. Cardinality(1..n) = n
  BY <1>1, FS_Interval
<1>3. SetToSeqs(DOMAIN s) = { q \in [1..n -> 1..n] : \A i, j \in 1..n : i # j => q[i] # q[j] }
  BY <1>1, <1>2 DEF SetToSeqs
<1>4. PICK q \in [1..n -> 1..n] : /\ \A i, j \in 1..n : i # j => q[i] # q[j]
                                  /\ \A i, j \in 1..n : i < j => s[q[i]] <= s[q[j]]
  BY <1>1, SortingOrder
<1>5. q \in SetToSeqs(DOMAIN s) /\ DOMAIN q = 1..n
  BY <1>3, <1>4
<1>6. /\ p \in SetToSeqs(DOMAIN s)
      /\ \A i, j \in DOMAIN p : i < j => s[p[i]] <= s[p[j]]
  BY <1>4, <1>5
<1>7. sorted(s) = [i \in 1..n |-> s[p[i]]]
  BY <1>1 DEF sorted
<1> HIDE DEF p
<1>8. /\ p \in [1..n -> 1..n]
      /\ \A i, j \in 1..n : i # j => p[i] # p[j]
      /\ \A i, j \in 1..n : i < j => s[p[i]] <= s[p[j]]
  BY <1>3, <1>6
<1>9. QED
  BY <1>7, <1>8 DEF n

\* Fewer than k values are below the one of rank k, and at least k are not above it.
LEMMA RankFromBelow ==
    ASSUME NEW n \in Nat, NEW s \in [1..n -> Int], NEW p \in [1..n -> 1..n],
           \A i, j \in 1..n : i # j => p[i] # p[j],
           \A i, j \in 1..n : i < j => s[p[i]] <= s[p[j]],
           NEW k \in 1..n, NEW a, a = s[p[k]]
    PROVE  /\ Cardinality(TimesUnder(s, a)) < k
           /\ k <= Cardinality(TimesUpTo(s, a))
<1> DEFINE Below == { i \in 1..n : s[i] < a }
           Upto == { i \in 1..n : s[i] <= a }
           Lower == { p[j] : j \in 1..(k - 1) }
           Leading == { p[j] : j \in 1..k }
<1>1. IsFiniteSet(1..n) /\ Cardinality(1..n) = n
  BY FS_Interval
<1>2. /\ IsFiniteSet(Lower) /\ Cardinality(Lower) = k - 1
      /\ IsFiniteSet(Leading) /\ Cardinality(Leading) = k
  <2>1. /\ 1 \in 1..(n + 1) /\ k - 1 \in 0..n /\ 1 <= (k - 1) + 1
        /\ k \in 0..n /\ 1 <= k + 1 /\ (k - 1) - 1 + 1 = k - 1 /\ k - 1 + 1 = k
    OBVIOUS
  <2>2. IsFiniteSet(Lower) /\ Cardinality(Lower) = (k - 1) - 1 + 1
    BY <2>1, Segment
  <2>3. IsFiniteSet(Leading) /\ Cardinality(Leading) = k - 1 + 1
    BY <2>1, Segment
  <2>4. QED
    BY <2>1, <2>2, <2>3
<1>3. \A i \in 1..n : \E j \in 1..n : p[j] = i
  <2>1. p \in Injection(1..n, 1..n)
    BY DEF Injection, IsInjective
  <2>2. p \in Surjection(1..n, 1..n)
    BY <1>1, <2>1, FS_Injection
  <2>3. QED
    BY <2>2 DEF Surjection
<1>4. Below \subseteq Lower
  <2> SUFFICES ASSUME NEW i \in 1..n, s[i] < a PROVE i \in Lower
    OBVIOUS
  <2>1. PICK j \in 1..n : p[j] = i
    BY <1>3
  <2>2. ~(k <= j)
    <3> SUFFICES ASSUME k <= j PROVE FALSE
      OBVIOUS
    <3>1. p[k] \in 1..n /\ s[p[k]] \in Int /\ s[i] \in Int
      OBVIOUS
    <3>2. CASE k = j
      BY <2>1, <3>1, <3>2
    <3>3. CASE k # j
      <4>1. k < j
        BY <3>3
      <4>2. s[p[k]] <= s[p[j]]
        BY <4>1
      <4>3. QED
        BY <2>1, <3>1, <4>2
    <3>4. QED
      BY <3>2, <3>3
  <2>3. j \in 1..(k - 1)
    BY <2>2
  <2>4. QED
    BY <2>1, <2>3
<1>5. Leading \subseteq Upto
  <2> SUFFICES ASSUME NEW j \in 1..k PROVE p[j] \in 1..n /\ s[p[j]] <= a
    OBVIOUS
  <2>1. j \in 1..n /\ p[j] \in 1..n /\ s[p[j]] \in Int
    OBVIOUS
  <2>2. CASE j = k
    BY <2>1, <2>2
  <2>3. CASE j # k
    BY <2>1, <2>3
  <2>4. QED
    BY <2>1, <2>2, <2>3
<1>6. Upto \in SUBSET (1..n)
  OBVIOUS
<1> HIDE DEF Below, Upto, Lower, Leading
<1>7. Cardinality(Below) <= k - 1 /\ Cardinality(Below) \in Nat
  <2>1. Below \in SUBSET Lower
    BY <1>4
  <2>2. IsFiniteSet(Below) /\ Cardinality(Below) <= Cardinality(Lower)
    BY <1>2, <2>1, FS_Subset
  <2>3. Cardinality(Below) \in Nat
    BY <2>2, FS_CardinalityType
  <2>4. QED
    BY <1>2, <2>2, <2>3
<1>8. k <= Cardinality(Upto)
  BY <1>1, <1>2, <1>5, <1>6, FS_Subset
<1>9. QED
  BY <1>7, <1>8 DEF Below, Upto, TimesUnder, TimesUpTo

\* The same from the other end.
LEMMA RankFromAbove ==
    ASSUME NEW n \in Nat, NEW s \in [1..n -> Int], NEW p \in [1..n -> 1..n],
           \A i, j \in 1..n : i # j => p[i] # p[j],
           \A i, j \in 1..n : i < j => s[p[i]] <= s[p[j]],
           NEW k \in 1..n, NEW b, b = s[p[n + 1 - k]]
    PROVE  /\ Cardinality(TimesOver(s, b)) < k
           /\ k <= Cardinality(TimesFrom(s, b))
<1> DEFINE t == [i \in 1..n |-> 0 - s[i]]
           q == [i \in 1..n |-> p[n + 1 - i]]
           a == 0 - b
<1>1. \A i \in 1..n : n + 1 - i \in 1..n
  OBVIOUS
<1>2. t \in [1..n -> Int] /\ q \in [1..n -> 1..n] /\ b \in Int
  BY <1>1
<1>3. \A i, j \in 1..n : i # j => q[i] # q[j]
  BY <1>1
<1>4. \A i, j \in 1..n : i < j => t[q[i]] <= t[q[j]]
  <2> SUFFICES ASSUME NEW i \in 1..n, NEW j \in 1..n, i < j PROVE t[q[i]] <= t[q[j]]
    OBVIOUS
  <2>1. n + 1 - j \in 1..n /\ n + 1 - i \in 1..n /\ n + 1 - j < n + 1 - i
    OBVIOUS
  <2>2. s[p[n + 1 - j]] <= s[p[n + 1 - i]]
    BY <2>1
  <2>3. p[n + 1 - j] \in 1..n /\ p[n + 1 - i] \in 1..n
    BY <2>1
  <2>4. QED
    BY <2>2, <2>3
<1>5. a = t[q[k]]
  <2>1. n + 1 - k \in 1..n /\ p[n + 1 - k] \in 1..n
    BY <1>1
  <2>2. QED
    BY <2>1
<1>6. TimesUnder(t, a) = TimesOver(s, b) /\ TimesUpTo(t, a) = TimesFrom(s, b)
  <2>1. \A i \in 1..n : (t[i] < a <=> s[i] > b) /\ (t[i] <= a <=> s[i] >= b)
    <3> SUFFICES ASSUME NEW i \in 1..n PROVE (t[i] < a <=> s[i] > b) /\ (t[i] <= a <=> s[i] >= b)
      OBVIOUS
    <3>1. t[i] = 0 - s[i] /\ s[i] \in Int /\ b \in Int /\ a = 0 - b
      BY <1>2
    <3>2. \A x, y \in Int : (0 - x < 0 - y <=> x > y) /\ (0 - x <= 0 - y <=> x >= y)
      OBVIOUS
    <3> HIDE DEF t, a
    <3>3. (0 - s[i] < 0 - b <=> s[i] > b) /\ (0 - s[i] <= 0 - b <=> s[i] >= b)
      BY <3>1, <3>2
    <3>4. QED
      BY <3>1, <3>3, Zenon
  <2>2. DOMAIN t = 1..n /\ DOMAIN s = 1..n
    OBVIOUS
  <2> HIDE DEF t, a
  <2>3. QED
    BY <2>1, <2>2 DEF TimesUnder, TimesOver, TimesUpTo, TimesFrom
<1> HIDE DEF t, q, a
<1>7. Cardinality(TimesUnder(t, a)) < k /\ k <= Cardinality(TimesUpTo(t, a))
  BY <1>2, <1>3, <1>4, <1>5, RankFromBelow
<1>8. QED
  BY <1>6, <1>7

\* median is half way between the value of the middle rank from below and the one of
\* the middle rank from above.
LEMMA MedianIsMiddle ==
    ASSUME NEW s \in Seq(Int), s # <<>>
    PROVE  LET half == (Len(s) + 1) \div 2
           IN  \E i, j \in DOMAIN s :
                  /\ Cardinality(TimesUnder(s, s[i])) < half
                  /\ half <= Cardinality(TimesUpTo(s, s[i]))
                  /\ Cardinality(TimesOver(s, s[j])) < half
                  /\ half <= Cardinality(TimesFrom(s, s[j]))
                  /\ median(s) = s[i] + s[j]
<1> DEFINE n == Len(s)
           half == (n + 1) \div 2
           mid == (n \div 2) + 1
<1>1. n \in Nat \ {0} /\ DOMAIN s = 1..n /\ s \in [1..n -> Int]
  OBVIOUS
<1> HIDE DEF n
<1>2. PICK p \in [1..n -> 1..n] :
              /\ \A i, j \in 1..n : i # j => p[i] # p[j]
              /\ \A i, j \in 1..n : i < j => s[p[i]] <= s[p[j]]
              /\ sorted(s) = [i \in 1..n |-> s[p[i]]]
  BY SortedOrder DEF n
<1>3. /\ half \in 1..n /\ n + 1 - half \in 1..n
      /\ n % 2 = 1 => mid = half /\ mid = n + 1 - half
      /\ n % 2 # 1 => mid - 1 = half /\ mid = n + 1 - half
  <2>1. n % 2 = 1 => n = 2 * (n \div 2) + 1
    BY <1>1
  <2>2. n % 2 # 1 => n = 2 * (n \div 2)
    BY <1>1
  <2>3. n \div 2 \in Nat
    BY <1>1
  <2>4. n % 2 = 1 => half = (n \div 2) + 1
    BY <1>1, <2>1, <2>3
  <2>5. n % 2 # 1 => half = n \div 2
    BY <1>1, <2>2, <2>3
  <2> HIDE DEF half
  <2>6. QED
    BY <1>1, <2>1, <2>2, <2>3, <2>4, <2>5
<1>4. median(s) = IF n % 2 = 1 THEN 2 * sorted(s)[mid] ELSE sorted(s)[mid - 1] + sorted(s)[mid]
  BY DEF median, n
<1> HIDE DEF half, mid
<1>5. p[half] \in 1..n /\ p[n + 1 - half] \in 1..n
  BY <1>2, <1>3
<1>6. median(s) = s[p[half]] + s[p[n + 1 - half]]
  <2>1. /\ \A k \in 1..n : sorted(s)[k] = s[p[k]]
        /\ s[p[half]] \in Int
    BY <1>1, <1>2, <1>5
  <2>2. CASE n % 2 = 1
    BY <1>3, <1>4, <2>1, <2>2
  <2>3. CASE n % 2 # 1
    BY <1>3, <1>4, <2>1, <2>3
  <2>4. QED
    BY <2>2, <2>3
<1>7. /\ Cardinality(TimesUnder(s, s[p[half]])) < half
      /\ half <= Cardinality(TimesUpTo(s, s[p[half]]))
  BY <1>1, <1>2, <1>3, RankFromBelow
<1>8. /\ Cardinality(TimesOver(s, s[p[n + 1 - half]])) < half
      /\ half <= Cardinality(TimesFrom(s, s[p[n + 1 - half]]))
  BY <1>1, <1>2, <1>3, RankFromAbove
<1>9. QED
  BY <1>1, <1>5, <1>6, <1>7, <1>8 DEF half, n

\* The response times of a report are those of the direct replies that it counts,
\* and the median it gives is theirs.
THEOREM ResponseTimesAreTrue == Spec => []ResponseTimesAreRight
<1>1. ReportInv /\ TimesInv => ResponseTimesAreRight
  <2> SUFFICES ASSUME ReportInv, TimesInv, Answered PROVE ResponseTimesAreRight!2
    BY DEF ResponseTimesAreRight
  <2> DEFINE s == call.acc.seconds
             C == call.acc.counted
             half == (Len(s) + 1) \div 2
             equal(d) == { i \in DOMAIN s : s[i] = d }
             below(d) == { i \in DOMAIN s : s[i] < d }
             above(d) == { i \in DOMAIN s : s[i] > d }
             replies == { p \in C : p[2].role = "agent" /\ RepliedTo(p) # {} }
             wait(p) == p[2].at - (CHOOSE q \in RepliedTo(p) : TRUE)[2].at
  <2>1. s \in Seq(Int)
    BY DEF ReportInv, LoopInv, Call, Acc
  <2>2. \A p : RepliedTo(p) = AnsweredBy(C, p)
    BY DEF RepliedTo, AnsweredBy
  <2>3. ASSUME NEW d \in 0..MaxNow \cup Range(s)
        PROVE  Cardinality(equal(d)) = Cardinality({ p \in replies : wait(p) = d })
    <3>1. d \in Int
      BY <2>1, Constants DEF Range
    <3>2. WaitsOf(C, d) = { p \in replies : wait(p) = d }
      BY <2>2 DEF WaitsOf, WaitOf
    <3>3. TimesAt(s, d) = equal(d)
      BY DEF TimesAt
    <3>4. Cardinality(TimesAt(s, d)) = Cardinality(WaitsOf(C, d))
      BY <3>1 DEF TimesInv
    <3>5. QED
      BY <3>2, <3>3, <3>4
  <2>4. AnalyticsOut.median_response = median(s)
    BY DEF AnalyticsOut
  <2>5. ASSUME s # <<>>
        PROVE  \E a, b \in Range(s) :
                  /\ Cardinality(below(a)) < half
                  /\ half <= Cardinality(below(a) \cup equal(a))
                  /\ Cardinality(above(b)) < half
                  /\ half <= Cardinality(above(b) \cup equal(b))
                  /\ AnalyticsOut.median_response = a + b
    <3>1. PICK i \in DOMAIN s, j \in DOMAIN s :
                  /\ Cardinality(TimesUnder(s, s[i])) < half
                  /\ half <= Cardinality(TimesUpTo(s, s[i]))
                  /\ Cardinality(TimesOver(s, s[j])) < half
                  /\ half <= Cardinality(TimesFrom(s, s[j]))
                  /\ median(s) = s[i] + s[j]
      BY <2>1, <2>5, MedianIsMiddle
    <3>2. \A k \in DOMAIN s : s[k] \in Int
      BY <2>1
    <3>3. /\ below(s[i]) = TimesUnder(s, s[i]) /\ above(s[j]) = TimesOver(s, s[j])
          /\ below(s[i]) \cup equal(s[i]) = TimesUpTo(s, s[i])
          /\ above(s[j]) \cup equal(s[j]) = TimesFrom(s, s[j])
      BY <3>2 DEF TimesUnder, TimesOver, TimesUpTo, TimesFrom
    <3>4. s[i] \in Range(s) /\ s[j] \in Range(s)
      BY DEF Range
    <3>5. QED
      BY <2>4, <3>1, <3>3, <3>4
  <2>6. s = <<>> => AnalyticsOut.median_response = Nobody
    BY <2>4 DEF median
  <2>7. QED
    BY <2>3, <2>5, <2>6
<1>2. QED
  BY <1>1, ReportInvariant, TimesInvariant, PTL
=============================================================================
