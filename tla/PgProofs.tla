------------------------------ MODULE PgProofs ------------------------------
(***************************************************************************)
(* Proofs about PgConnection, for any number of calls and restarts.        *)
(***************************************************************************)
EXTENDS PgConnection, TLAPS, FiniteSetTheorems

\* The statement sequences that the repositories send, and how many of their
\* statements write.
Shapes == {<<"read">>, <<"cast">>, <<"write">>, <<"keyed">>, <<"check", "write">>,
           <<"check", "keyed">>, <<"write", "write">>}

Shaped(m) ==
    /\ m.on \in {"loop", "thread"}
    /\ m.commits \in BOOLEAN
    /\ m.stmts \in Shapes
    /\ m.on = "loop" => m.stmts # <<"write", "write">>
    /\ m.on = "thread" => m.stmts \in {<<"read">>, <<"write", "write">>}
    /\ m.commits <=> m.stmts \notin {<<"read">>, <<"cast">>}

\* Each way a repository builds a method has one of the shapes.
LEMMA ConstructorShapes ==
    /\ Shaped(Reading("read")) /\ Shaped(Reading("cast"))
    /\ Shaped(Writing(<<"write">>)) /\ Shaped(Writing(<<"keyed">>))
    /\ Shaped(Writing(<<"check", "write">>)) /\ Shaped(Writing(<<"check", "keyed">>))
    /\ Shaped(Threaded(<<"write", "write">>, TRUE)) /\ Shaped(Threaded(<<"read">>, FALSE))
<1>1. Shaped(Reading("read")) /\ Shaped(Reading("cast"))
  BY DEF Shaped, Shapes, Reading
<1>2. Shaped(Writing(<<"write">>)) /\ Shaped(Writing(<<"keyed">>))
  BY DEF Shaped, Shapes, Writing
<1>3. Shaped(Writing(<<"check", "write">>)) /\ Shaped(Writing(<<"check", "keyed">>))
  BY DEF Shaped, Shapes, Writing
<1>4. Shaped(Threaded(<<"write", "write">>, TRUE)) /\ Shaped(Threaded(<<"read">>, FALSE))
  BY DEF Shaped, Shapes, Threaded
<1>5. QED
  BY <1>1, <1>2, <1>3, <1>4

\* What Methods holds, without the repositories' names.
LEMMA MethodShapes == \A m \in Methods : Shaped(m)
<1> SUFFICES ASSUME NEW m \in Methods PROVE Shaped(m)
  OBVIOUS
<1>1. CASE m \in MethodsOf(PostgresTenantRepository)
  BY <1>1, ConstructorShapes DEF MethodsOf, PostgresTenantRepository
<1>2. CASE m \in MethodsOf(PostgresHindsight)
  BY <1>2, ConstructorShapes DEF MethodsOf, PostgresHindsight
<1>3. CASE m \in MethodsOf(PostgresBuyerMemory)
  <2>1. m = Threaded(<<"write", "write">>, TRUE) \/ m = Threaded(<<"read">>, FALSE)
    BY <1>3, SMT DEF MethodsOf, PostgresBuyerMemory, Threaded
  <2>2. QED
    BY <2>1, ConstructorShapes
<1>4. CASE m \in MethodsOf(PostgresTemplateRepository)
  BY <1>4, ConstructorShapes DEF MethodsOf, PostgresTemplateRepository
<1>5. CASE m \in MethodsOf(PostgresUserRepository)
  BY <1>5, ConstructorShapes DEF MethodsOf, PostgresUserRepository
<1>6. CASE m \in MethodsOf(PostgresSessionRepository)
  BY <1>6, ConstructorShapes DEF MethodsOf, PostgresSessionRepository
<1>7. CASE m \in MethodsOf(PostgresBotPauseRepository)
  BY <1>7, ConstructorShapes DEF MethodsOf, PostgresBotPauseRepository
<1>8. CASE m \in MethodsOf(PostgresResourceRepository)
  BY <1>8, ConstructorShapes DEF MethodsOf, PostgresResourceRepository
<1>9. CASE m \in MethodsOf(PostgresDataSourceRepository)
  BY <1>9, ConstructorShapes DEF MethodsOf, PostgresDataSourceRepository
<1>10. CASE m \in MethodsOf(PostgresQueryLogRepository)
  BY <1>10, ConstructorShapes DEF MethodsOf, PostgresQueryLogRepository
<1>11. CASE m \in MethodsOf(PostgresSubscriptionRepository)
  BY <1>11, ConstructorShapes DEF MethodsOf, PostgresSubscriptionRepository
<1>12. CASE m \in MethodsOf(HealthProbe)
  BY <1>12, ConstructorShapes DEF MethodsOf, HealthProbe
<1>13. QED
  BY <1>1, <1>2, <1>3, <1>4, <1>5, <1>6, <1>7, <1>8, <1>9, <1>10, <1>11, <1>12
  DEF Methods

\* How many writes a method has sent when it stands at statement pc.
Sent(m, pc) ==
    IF m.stmts = <<"write", "write">> THEN pc - 1
    ELSE IF pc > Len(m.stmts) /\ m.commits THEN 1 ELSE 0

\* A method that stands behind its last statement has sent all its writes.
LEMMA WritesAreSent ==
    ASSUME NEW m \in Methods
    PROVE  WritesOf(m) = Sent(m, Len(m.stmts) + 1)
<1> DEFINE W == {k \in DOMAIN m.stmts : m.stmts[k] \in Writes}
<1>1. Shaped(m)
  BY MethodShapes
<1>2. WritesOf(m) = Cardinality(W)
  BY DEF WritesOf
<1> HIDE DEF W
<1>3. CASE m.stmts \in {<<"read">>, <<"cast">>}
  <2>1. W = {}
    BY <1>3 DEF W, Writes
  <2>2. Cardinality(W) = 0
    BY <2>1, FS_EmptySet
  <2>3. Sent(m, Len(m.stmts) + 1) = 0
    BY <1>1, <1>3 DEF Sent, Shaped
  <2>4. QED
    BY <1>2, <2>2, <2>3
<1>4. CASE m.stmts \in {<<"write">>, <<"keyed">>}
  <2>1. W = {1}
    BY <1>4 DEF W, Writes
  <2>2. Cardinality(W) = 1
    BY <2>1, FS_Singleton
  <2>3. Sent(m, Len(m.stmts) + 1) = 1
    BY <1>1, <1>4 DEF Sent, Shaped
  <2>4. QED
    BY <1>2, <2>2, <2>3
<1>5. CASE m.stmts \in {<<"check", "write">>, <<"check", "keyed">>}
  <2>1. W = {2}
    BY <1>5 DEF W, Writes
  <2>2. Cardinality(W) = 1
    BY <2>1, FS_Singleton
  <2>3. Sent(m, Len(m.stmts) + 1) = 1
    BY <1>1, <1>5 DEF Sent, Shaped
  <2>4. QED
    BY <1>2, <2>2, <2>3
<1>6. CASE m.stmts = <<"write", "write">>
  <2>1. W = {1} \cup {2}
    BY <1>6 DEF W, Writes
  <2>2. IsFiniteSet({1}) /\ Cardinality({1}) = 1
    BY FS_Singleton
  <2>3. Cardinality({1} \cup {2}) = 2
    BY <2>2, FS_AddElement
  <2>4. Sent(m, Len(m.stmts) + 1) = 2
    BY <1>6 DEF Sent
  <2>5. QED
    BY <1>2, <2>1, <2>3, <2>4
<1>7. QED
  BY <1>1, <1>3, <1>4, <1>5, <1>6 DEF Shaped, Shapes

(***************************************************************************)
(* The inductive invariant.                                                *)
(***************************************************************************)
SomeRaised == \E d \in Calls : call[d].st = "raised"

\* Where a call may stand in its method.
PcInv(c) ==
    /\ call[c].pc \in 1..(Len(call[c].m.stmts) + 1)
    /\ (Running(c) /\ ~call[c].m.commits) => ~AllSent(c)

\* While a method runs on the event loop, everything it sent is in the open
\* transaction or in the database: only its own statements could abort it.  A
\* worker thread's may also be gone with a transaction that some call aborted.
RunInv(c) ==
    Running(c) =>
        /\ call[c].m.on = "loop" => /\ open[c] + kept[c] = Sent(call[c].m, call[c].pc)
                                    /\ call[c].pc > 1 => txn # "aborted"
        /\ open[c] + kept[c] <= Sent(call[c].m, call[c].pc)
        /\ open[c] + kept[c] = Sent(call[c].m, call[c].pc) \/ SomeRaised

\* A call that does not run has nothing in the open transaction.
EndInv(c) ==
    /\ ~Running(c) => open[c] = 0
    /\ call[c].st = "new" => /\ kept[c] = 0
                             /\ call[c].m = Reading("read")
    /\ call[c].m.on = "loop" => open[c] + kept[c] <= 1
    /\ call[c].st = "returned" =>
          LET all == Sent(call[c].m, Len(call[c].m.stmts) + 1)
          IN  /\ call[c].m.on = "loop" => kept[c] = all
              /\ kept[c] = all \/ SomeRaised

Inv ==
    /\ TypeOK
    /\ \A c \in Calls : PcInv(c) /\ RunInv(c) /\ EndInv(c)
    /\ \A c, d \in Calls :
          (Running(c) /\ call[c].m.on = "loop" /\ Running(d) /\ call[d].m.on = "loop")
              => c = d
    /\ txn = "aborted" => SomeRaised

\* What a statement is worth: sending a write adds one to Sent.
LEMMA SentStep ==
    ASSUME NEW m \in Methods, NEW pc \in 1..Len(m.stmts)
    PROVE  /\ Sent(m, 1) = 0
           /\ Len(m.stmts) \in Nat
           /\ Sent(m, pc) \in Nat
           /\ Sent(m, pc + 1) = IF m.stmts[pc] \in Writes THEN Sent(m, pc) + 1
                                                          ELSE Sent(m, pc)
           /\ m.on = "loop" => Sent(m, pc + 1) <= 1
           /\ m.stmts[pc] = "check" => pc = 1
           /\ m.stmts[pc] \in Fallible => m.on = "loop"
<1>1. Shaped(m)
  BY MethodShapes
<1>2. CASE m.stmts = <<"read">>
  BY <1>1, <1>2 DEF Sent, Shaped, Writes, Fallible
<1>3. CASE m.stmts = <<"cast">>
  BY <1>1, <1>3 DEF Sent, Shaped, Writes, Fallible
<1>4. CASE m.stmts = <<"write">>
  BY <1>1, <1>4 DEF Sent, Shaped, Writes, Fallible
<1>5. CASE m.stmts = <<"keyed">>
  BY <1>1, <1>5 DEF Sent, Shaped, Writes, Fallible
<1>6. CASE m.stmts = <<"check", "write">>
  BY <1>1, <1>6 DEF Sent, Shaped, Writes, Fallible
<1>7. CASE m.stmts = <<"check", "keyed">>
  BY <1>1, <1>7 DEF Sent, Shaped, Writes, Fallible
<1>8. CASE m.stmts = <<"write", "write">>
  BY <1>1, <1>8 DEF Sent, Shaped, Writes, Fallible
<1>9. QED
  BY <1>1, <1>2, <1>3, <1>4, <1>5, <1>6, <1>7, <1>8 DEF Shaped, Shapes

\* The invariant holds when the process starts.
LEMMA InitInv == Init => Inv
<1> SUFFICES ASSUME Init PROVE Inv
  OBVIOUS
<1>1. Reading("read") \in Methods
  BY DEF Methods, MethodsOf, HealthProbe
<1>2. TypeOK
  BY <1>1, PgAssumption DEF Init, TypeOK, CallState, NewCall
<1>3. \A c \in Calls : PcInv(c) /\ RunInv(c) /\ EndInv(c)
  <2> SUFFICES ASSUME NEW c \in Calls PROVE PcInv(c) /\ RunInv(c) /\ EndInv(c)
    OBVIOUS
  <2>1. call[c] = NewCall /\ open[c] = 0 /\ kept[c] = 0
    BY DEF Init
  <2>2. ~Running(c) /\ call[c].st = "new" /\ call[c].pc = 1
    BY <2>1 DEF NewCall, Running
  <2>3. call[c].m = Reading("read") /\ Len(call[c].m.stmts) = 1
    BY <2>1 DEF NewCall, Reading
  <2>4. QED
    BY <2>1, <2>2, <2>3 DEF PcInv, RunInv, EndInv
<1>4. QED
  BY <1>2, <1>3 DEF Inv, Init, Running, NewCall

\* The parts of the invariant that speak of one call.
Each(c) == PcInv(c) /\ RunInv(c) /\ EndInv(c)

\* Facts about a call that every step lemma uses.
LEMMA CallFacts ==
    ASSUME Inv, NEW c \in Calls
    PROVE  /\ call[c] \in CallState /\ call[c].m \in Methods /\ call[c].pc \in Nat \ {0}
           /\ open[c] \in Nat /\ kept[c] \in Nat
           /\ call[c].m.on \in {"loop", "thread"}
           /\ Len(call[c].m.stmts) \in Nat \ {0}
<1>1. call[c] \in CallState /\ open[c] \in Nat /\ kept[c] \in Nat
  BY DEF Inv, TypeOK
<1>2. call[c].m \in Methods /\ call[c].pc \in Nat
  BY <1>1 DEF CallState
<1>3. Shaped(call[c].m)
  BY <1>2, MethodShapes
<1>4. call[c].pc \in 1..(Len(call[c].m.stmts) + 1)
  BY DEF Inv, PcInv
<1>5. Len(call[c].m.stmts) \in Nat \ {0}
  BY <1>3 DEF Shaped, Shapes
<1>6. QED
  BY <1>1, <1>2, <1>3, <1>4, <1>5 DEF Shaped

\* A call that moves on stays a call.
LEMMA MovedCall ==
    ASSUME NEW r \in CallState, NEW pc \in Nat,
           NEW st \in {"new", "run", "returned", "declined", "raised", "killed"}
    PROVE  [r EXCEPT !.pc = pc, !.st = st] \in CallState
  BY DEF CallState

\* Sent is a number wherever a call can stand.
LEMMA SentIsNat ==
    ASSUME Inv, NEW c \in Calls
    PROVE  /\ Sent(call[c].m, call[c].pc) \in Nat
           /\ Sent(call[c].m, 1) = 0
           /\ Sent(call[c].m, Len(call[c].m.stmts) + 1) \in Nat
           /\ call[c].m.on = "loop" => Sent(call[c].m, Len(call[c].m.stmts) + 1) <= 1
  BY CallFacts, SentStep DEF Sent

\* A repository method is called: the event loop must be free of another.
LEMMA BeginStep ==
    ASSUME Inv, NEW c \in Calls, NEW m \in Methods, Begin(c, m)
    PROVE  Inv'
<1>1. call' = [call EXCEPT ![c] = [m |-> m, pc |-> 1, st |-> "run"]]
  BY DEF Begin
<1>2. /\ call'[c].m = m /\ call'[c].pc = 1 /\ call'[c].st = "run" /\ Running(c)'
      /\ \A d \in Calls \ {c} : call'[d] = call[d] /\ Running(d)' = Running(d)
  BY <1>1 DEF Inv, TypeOK, Running
<1>3. TypeOK'
  BY <1>1 DEF Begin, Inv, TypeOK, CallState
<1>4. SomeRaised' = SomeRaised
  BY <1>2 DEF SomeRaised, Begin
<1>5. ASSUME NEW d \in Calls \ {c} PROVE Each(d)'
  BY <1>2, <1>4 DEF Inv, Each, PcInv, RunInv, EndInv, AllSent, Begin
<1>6. Each(c)'
  <2>1. open[c] = 0 /\ kept[c] = 0
    BY DEF Inv, EndInv, Begin, Running
  <2>2. Shaped(m)
    BY MethodShapes
  <2>3. Len(m.stmts) \in Nat \ {0} /\ Sent(m, 1) = 0
    BY <2>2, SentStep DEF Shaped, Shapes
  <2>4. QED
    BY <1>2, <2>1, <2>3 DEF Each, PcInv, RunInv, EndInv, AllSent, Begin
<1>7. \A d, e \in Calls :
        (Running(d)' /\ call'[d].m.on = "loop" /\ Running(e)' /\ call'[e].m.on = "loop")
            => d = e
  BY <1>2 DEF Inv, Begin, LoopBusy
<1>8. QED
  BY <1>3, <1>4, <1>5, <1>6, <1>7 DEF Inv, Each, Begin

\* cursor.execute succeeds; the conjuncts at stake are the counts of open writes.
LEMMA ExecuteStep ==
    ASSUME Inv, NEW c \in Calls, Execute(c)
    PROVE  Inv'
<1> DEFINE m == call[c].m
           pc == call[c].pc
           ends == pc = Len(m.stmts) /\ ~m.commits
<1>1. /\ call[c] \in CallState /\ m \in Methods /\ pc \in 1..Len(m.stmts)
      /\ m.on \in {"loop", "thread"} /\ Len(m.stmts) \in Nat
  BY CallFacts DEF Execute, AllSent, Inv, PcInv
<1>2. /\ call'[c].m = m /\ call'[c].pc = pc + 1
      /\ call'[c].st = IF ends THEN "returned" ELSE "run"
      /\ \A d \in Calls \ {c} : call'[d] = call[d] /\ open'[d] = open[d]
                                /\ Running(d)' = Running(d)
      /\ open'[c] = IF m.stmts[pc] \in Writes THEN open[c] + 1 ELSE open[c]
      /\ kept' = kept /\ txn' = "open"
  BY <1>1 DEF Execute, Inv, TypeOK, Running, CallState
<1> HIDE DEF ends
<1>3. TypeOK'
  <2>1. call[c].st = "run" /\ open[c] \in Nat
    BY DEF Execute, Running, Inv, TypeOK
  <2>2. call' \in [Calls -> CallState]
    <3> DEFINE st == IF ends THEN "returned" ELSE "run"
               next == [call[c] EXCEPT !.pc = pc + 1, !.st = st]
    <3>1. call' = [call EXCEPT ![c] = next]
      BY <2>1 DEF Execute, ends
    <3>2. pc + 1 \in Nat /\ st \in {"new", "run", "returned", "declined", "raised", "killed"}
      BY <1>1
    <3> HIDE DEF st
    <3>3. next \in CallState
      BY <1>1, <3>2, MovedCall
    <3>4. QED
      BY <3>1, <3>3 DEF Inv, TypeOK
  <2>3. open' \in [Calls -> Nat]
    BY <2>1 DEF Execute, Inv, TypeOK
  <2>4. QED
    BY <2>2, <2>3 DEF Execute, Inv, TypeOK
<1>4. /\ call[c].st = "run" /\ Running(c)
      /\ call'[c].st \in {"run", "returned"}
      /\ SomeRaised' <=> SomeRaised
  <2>1. call[c].st = "run" /\ call'[c].st \in {"run", "returned"}
    BY <1>2 DEF Execute, Running
  <2>2. QED
    BY <1>2, <2>1 DEF SomeRaised, Running
<1>5. ASSUME NEW d \in Calls \ {c} PROVE Each(d)'
  BY <1>2, <1>4 DEF Inv, Each, PcInv, RunInv, EndInv, AllSent
<1>6. Each(c)'
  <2>1. /\ Sent(m, pc) \in Nat
        /\ Sent(m, pc + 1) = IF m.stmts[pc] \in Writes THEN Sent(m, pc) + 1 ELSE Sent(m, pc)
        /\ m.on = "loop" => Sent(m, pc + 1) <= 1
    BY <1>1, SentStep
  <2>2. /\ open[c] \in Nat /\ kept[c] \in Nat
        /\ m.on = "loop" => open[c] + kept[c] = Sent(m, pc)
        /\ open[c] + kept[c] <= Sent(m, pc)
        /\ open[c] + kept[c] = Sent(m, pc) \/ SomeRaised
    BY CallFacts DEF Inv, RunInv, Execute
  <2>3. /\ m.on = "loop" => open'[c] + kept'[c] = Sent(m, pc + 1)
        /\ open'[c] + kept'[c] <= Sent(m, pc + 1)
        /\ open'[c] + kept'[c] = Sent(m, pc + 1) \/ SomeRaised'
    BY <1>2, <1>4, <2>1, <2>2
  <2>4. PcInv(c)'
    BY <1>1, <1>2 DEF PcInv, Running, AllSent, ends
  <2>5. RunInv(c)'
    BY <1>2, <2>3 DEF RunInv
  <2>6. EndInv(c)'
    <3>1. CASE ~ends
      BY <1>2, <2>1, <2>3, <3>1 DEF EndInv, Running
    <3>2. CASE ends
      <4>1. Shaped(m)
        BY <1>1, MethodShapes
      <4>2. m.stmts = <<"read">> \/ m.stmts = <<"cast">>
        BY <3>2, <4>1 DEF Shaped, ends
      <4>3. m.stmts[pc] \notin Writes /\ Sent(m, Len(m.stmts) + 1) = 0 /\ Sent(m, pc + 1) = 0
            /\ Sent(m, pc) = 0
        BY <1>1, <3>2, <4>2 DEF Writes, Sent, ends
      <4>4. open[c] = 0 /\ kept[c] = 0
        BY <2>2, <4>3
      <4>5. QED
        BY <1>2, <3>2, <4>3, <4>4 DEF EndInv, Running
    <3>3. QED
      BY <3>1, <3>2
  <2>7. QED
    BY <2>4, <2>5, <2>6 DEF Each
<1>7. \A d, e \in Calls :
        (Running(d)' /\ call'[d].m.on = "loop" /\ Running(e)' /\ call'[e].m.on = "loop")
            => d = e
  BY <1>2, <1>4 DEF Inv
<1>8. QED
  BY <1>2, <1>3, <1>4, <1>5, <1>6, <1>7 DEF Inv, Each

\* A look-up ends its method: nothing was written yet.
LEMMA DeclineStep ==
    ASSUME Inv, NEW c \in Calls, Decline(c)
    PROVE  Inv'
<1>1. /\ call[c] \in CallState /\ call[c].m \in Methods
      /\ call[c].pc \in 1..Len(call[c].m.stmts) /\ call[c].st = "run"
  BY CallFacts DEF Decline, AllSent, Inv, PcInv, Running
<1>2. /\ call'[c].m = call[c].m /\ call'[c].pc = call[c].pc /\ call'[c].st = "declined"
      /\ \A d \in Calls \ {c} : call'[d] = call[d] /\ Running(d)' = Running(d)
      /\ open' = open /\ kept' = kept /\ txn' = "open" /\ txn # "aborted"
  BY <1>1 DEF Decline, Inv, TypeOK, Running, CallState
<1>3. TypeOK'
  BY <1>1 DEF Decline, Inv, TypeOK, CallState
<1>4. SomeRaised' <=> SomeRaised
  BY <1>1, <1>2 DEF SomeRaised
<1>5. ASSUME NEW d \in Calls \ {c} PROVE Each(d)'
  BY <1>2, <1>4 DEF Inv, Each, PcInv, RunInv, EndInv, AllSent
<1>6. Each(c)'
  <2>1. call[c].pc = 1 /\ Sent(call[c].m, 1) = 0
    BY <1>1, SentStep DEF Decline
  <2>2. open[c] = 0 /\ kept[c] = 0
    BY <1>1, <2>1, CallFacts DEF Inv, RunInv, Running
  <2>3. QED
    BY <1>1, <1>2, <2>2 DEF Inv, Each, PcInv, RunInv, EndInv, Running
<1>7. \A d, e \in Calls :
        (Running(d)' /\ call'[d].m.on = "loop" /\ Running(e)' /\ call'[e].m.on = "loop")
            => d = e
  <2>1. ~Running(c)'
    BY <1>2 DEF Running
  <2>2. QED
    BY <1>2, <2>1 DEF Inv
<1>8. QED
  BY <1>2, <1>3, <1>4, <1>5, <1>6, <1>7 DEF Inv, Each

\* A statement raises: open writes are gone, and SomeRaised explains their loss.
LEMMA FailStep ==
    ASSUME Inv, NEW c \in Calls, Fail(c)
    PROVE  Inv'
<1>1. /\ call[c] \in CallState /\ call[c].m \in Methods
      /\ call[c].pc \in 1..Len(call[c].m.stmts) /\ call[c].st = "run"
  BY CallFacts DEF Fail, AllSent, Inv, PcInv, Running
<1>2. /\ call'[c].m = call[c].m /\ call'[c].pc = call[c].pc /\ call'[c].st = "raised"
      /\ \A d \in Calls \ {c} : call'[d] = call[d] /\ Running(d)' = Running(d)
      /\ \A d \in Calls : open'[d] = 0
      /\ kept' = kept /\ txn' = "aborted"
  BY <1>1 DEF Fail, Inv, TypeOK, Running, CallState
<1>3. TypeOK'
  BY <1>1 DEF Fail, Inv, TypeOK, CallState
<1>4. SomeRaised'
  BY <1>2 DEF SomeRaised
<1>5. ASSUME NEW d \in Calls \ {c} PROVE Each(d)'
  <2>1. PcInv(d)'
    BY <1>2 DEF Inv, PcInv, AllSent
  \* A method on the event loop has sent nothing yet when someone else fails.
  <2>2. ASSUME Running(d), call[d].m.on = "loop" PROVE call[d].pc = 1
    <3>1. CASE txn = "aborted"
      BY <2>2, <3>1, CallFacts DEF Inv, RunInv
    <3>2. CASE txn # "aborted"
      <4>1. call[c].m.on = "loop"
        BY <1>1, <3>2, SentStep DEF Fail
      <4>2. QED
        BY <1>1, <2>2, <4>1 DEF Inv, Running
    <3>3. QED
      BY <3>1, <3>2
  <2>3. RunInv(d)'
    <3> SUFFICES ASSUME Running(d) PROVE RunInv(d)'
      BY <1>2 DEF RunInv
    <3>1. /\ open[d] \in Nat /\ kept[d] \in Nat /\ Sent(call[d].m, 1) = 0
          /\ call[d].pc \in Nat
      BY CallFacts, SentStep
    <3>2. kept[d] <= Sent(call[d].m, call[d].pc)
      BY <3>1, SentIsNat DEF Inv, RunInv
    <3>3. QED
      BY <1>2, <1>4, <2>2, <3>1, <3>2 DEF Inv, RunInv
  <2>4. EndInv(d)'
    BY <1>2, <1>4, CallFacts DEF Inv, EndInv
  <2>5. QED
    BY <2>1, <2>3, <2>4 DEF Each
<1>6. Each(c)'
  <2>1. PcInv(c)'
    BY <1>2 DEF Inv, PcInv, Running
  <2>2. EndInv(c)'
    BY <1>2, CallFacts DEF Inv, EndInv
  <2>3. QED
    BY <1>2, <2>1, <2>2 DEF Each, RunInv, Running
<1>7. \A d, e \in Calls :
        (Running(d)' /\ call'[d].m.on = "loop" /\ Running(e)' /\ call'[e].m.on = "loop")
            => d = e
  BY <1>1, <1>2 DEF Inv, Running
<1>8. QED
  BY <1>2, <1>3, <1>4, <1>5, <1>6, <1>7 DEF Inv, Each

\* A commit keeps what was open; only the call that commits moves.
LEMMA CommitStep ==
    ASSUME Inv, NEW c \in Calls, Commit(c)
    PROVE  Inv'
<1>1. /\ call[c] \in CallState /\ call[c].m \in Methods /\ call[c].st = "run"
      /\ call[c].pc = Len(call[c].m.stmts) + 1
  BY CallFacts DEF Commit, AllSent, Inv, PcInv, Running
<1>2. /\ call'[c].m = call[c].m /\ call'[c].pc = call[c].pc /\ call'[c].st = "returned"
      /\ \A d \in Calls \ {c} : call'[d] = call[d] /\ Running(d)' = Running(d)
      /\ \A d \in Calls : open'[d] = 0 /\ kept'[d] = kept[d] + open[d]
      /\ txn' = "idle"
  BY <1>1 DEF Commit, Inv, TypeOK, Running, CallState
<1>3. TypeOK'
  <2>1. call' \in [Calls -> CallState]
    BY <1>1 DEF Commit, Inv, TypeOK, CallState
  <2>2. kept' \in [Calls -> Nat] /\ open' \in [Calls -> Nat]
    BY CallFacts DEF Commit
  <2>3. QED
    BY <2>1, <2>2 DEF Commit, Inv, TypeOK
<1>4. SomeRaised' <=> SomeRaised
  BY <1>1, <1>2 DEF SomeRaised
<1>5. \A d \in Calls : /\ open[d] \in Nat /\ kept[d] \in Nat
                       /\ open'[d] + kept'[d] = open[d] + kept[d]
  BY <1>2, CallFacts
<1>6. ASSUME NEW d \in Calls \ {c} PROVE Each(d)'
  <2>1. PcInv(d)'
    BY <1>2 DEF Inv, PcInv, AllSent
  <2>2. RunInv(d)'
    BY <1>2, <1>4, <1>5 DEF Inv, RunInv
  <2>3. EndInv(d)'
    BY <1>2, <1>4, <1>5 DEF Inv, EndInv, Running
  <2>4. QED
    BY <2>1, <2>2, <2>3 DEF Each
<1>7. Each(c)'
  <2>1. PcInv(c)' /\ RunInv(c)'
    BY <1>2 DEF Inv, PcInv, RunInv, Running
  <2>2. /\ call[c].m.on = "loop" => kept'[c] = Sent(call[c].m, call[c].pc)
        /\ kept'[c] = Sent(call[c].m, call[c].pc) \/ SomeRaised
    BY <1>1, <1>2, <1>5 DEF Inv, RunInv, Running
  <2>3. EndInv(c)'
    BY <1>1, <1>2, <1>4, <1>5, <2>2 DEF Inv, EndInv, Running
  <2>4. QED
    BY <2>1, <2>3 DEF Each
<1>8. \A d, e \in Calls :
        (Running(d)' /\ call'[d].m.on = "loop" /\ Running(e)' /\ call'[e].m.on = "loop")
            => d = e
  <2>1. ~Running(c)'
    BY <1>2 DEF Running
  <2>2. QED
    BY <1>2, <2>1 DEF Inv
<1>9. QED
  BY <1>2, <1>3, <1>6, <1>7, <1>8 DEF Inv, Each

\* A restart rolls back, and the calls it interrupts never return.
LEMMA RestartStep ==
    ASSUME Inv, Restart
    PROVE  Inv'
<1>1. ASSUME NEW d \in Calls
      PROVE  /\ call'[d] = IF Running(d) THEN [call[d] EXCEPT !.st = "killed"] ELSE call[d]
             /\ call[d] \in CallState /\ open'[d] = 0 /\ kept' = kept /\ txn' = "idle"
  BY DEF Restart, Inv, TypeOK
<1>2. ASSUME NEW d \in Calls
      PROVE  /\ call'[d].m = call[d].m /\ call'[d].pc = call[d].pc
             /\ call'[d].st = IF Running(d) THEN "killed" ELSE call[d].st
             /\ call'[d] \in CallState /\ ~Running(d)'
  BY <1>1 DEF CallState, Running
<1>3. TypeOK'
  <2>1. call' \in [Calls -> CallState]
    BY <1>2 DEF Restart
  <2>2. restarts' \in 0..MaxRestarts
    BY PgAssumption DEF Restart, Inv, TypeOK
  <2>3. QED
    BY <2>1, <2>2 DEF Restart, Inv, TypeOK
<1>4. SomeRaised => SomeRaised'
  BY <1>2 DEF SomeRaised, Running
<1>5. ASSUME NEW d \in Calls PROVE Each(d)'
  <2>1. PcInv(d)' /\ RunInv(d)'
    BY <1>2 DEF Inv, PcInv, RunInv
  <2>2. EndInv(d)'
    <3>1. /\ open'[d] = 0 /\ kept'[d] = kept[d]
          /\ call'[d].m = call[d].m /\ ~Running(d)'
          /\ open[d] \in Nat /\ kept[d] \in Nat
      BY <1>1, <1>2, CallFacts
    <3>2. EndInv(d)
      BY DEF Inv
    <3>3. CASE Running(d)
      BY <1>2, <3>1, <3>2, <3>3 DEF EndInv
    <3>4. CASE ~Running(d)
      BY <1>2, <1>4, <3>1, <3>2, <3>4 DEF EndInv
    <3>5. QED
      BY <3>3, <3>4
  <2>3. QED
    BY <2>1, <2>2 DEF Each
<1>6. QED
  BY <1>2, <1>3, <1>5 DEF Inv, Each, Restart

\* Every step preserves the invariant, one lemma per action.
LEMMA NextInv == Inv /\ [Next]_vars => Inv'
<1> SUFFICES ASSUME Inv, [Next]_vars PROVE Inv'
  OBVIOUS
<1>1. CASE UNCHANGED vars
  BY <1>1 DEF vars, Inv, TypeOK, PcInv, RunInv, EndInv, SomeRaised, Running, AllSent
<1>2. CASE Next
  BY <1>1, <1>2, BeginStep, ExecuteStep, DeclineStep, FailStep, CommitStep, RestartStep
  DEF Next, Quiescent
<1>3. QED
  BY <1>1, <1>2

\* The invariant holds throughout.
LEMMA Invariance == Spec => []Inv
  BY InitInv, NextInv, PTL DEF Spec

(***************************************************************************)
(* The theorems.                                                           *)
(***************************************************************************)
\* The connection, the calls and their writes stay well typed, through every
\* failure and restart.
THEOREM TypeCorrect == Spec => []TypeOK
<1>1. Inv => TypeOK
  BY DEF Inv
<1>2. QED
  BY <1>1, Invariance, PTL

\* A turn that PostgresBuyerMemory.remember acknowledged is missing only when
\* another call's statement failed in the transaction they shared.
THEOREM LostOnlyToFailure == Spec => []RememberLostOnlyToFailure
<1>1. Inv => RememberLostOnlyToFailure
  <2> SUFFICES ASSUME Inv, NEW c \in Calls, call[c].st = "returned",
                      kept[c] < WritesOf(call[c].m)
               PROVE  /\ call[c].m.on = "thread"
                      /\ \E d \in Calls \ {c} : call[d].st = "raised"
    BY DEF RememberLostOnlyToFailure
  <2>1. WritesOf(call[c].m) = Sent(call[c].m, Len(call[c].m.stmts) + 1)
    BY CallFacts, WritesAreSent
  <2>2. kept[c] # Sent(call[c].m, Len(call[c].m.stmts) + 1)
    BY <2>1, CallFacts, SentIsNat
  <2>3. call[c].m.on # "loop" /\ SomeRaised
    BY <2>2 DEF Inv, EndInv
  <2>4. QED
    BY <2>3, CallFacts DEF SomeRaised
<1>2. QED
  BY <1>1, Invariance, PTL

\* No handler on the event loop ever gets the connection out of an aborted
\* transaction.
THEOREM AbortOutlives == Spec => AbortOutlivesHandlers
<1> DEFINE Released ==
      (txn = "aborted" /\ txn' # "aborted")
        => \/ restarts' # restarts
           \/ \E c \in Calls : /\ call[c].m.on = "thread" /\ AllSent(c)
                               /\ Running(c) /\ ~Running(c)'
<1>1. Inv /\ [Next]_vars => [Released]_vars
  <2> SUFFICES ASSUME Inv, Next, txn = "aborted", txn' # "aborted", restarts' = restarts
               PROVE  \E c \in Calls : /\ call[c].m.on = "thread" /\ AllSent(c)
                                       /\ Running(c) /\ ~Running(c)'
    OBVIOUS
  <2>1. restarts \in Nat
    BY PgAssumption DEF Inv, TypeOK
  <2>2. ~Restart /\ ~Quiescent
    BY <2>1 DEF Restart, Quiescent, vars
  <2>3. PICK c \in Calls : Commit(c)
    BY <2>2 DEF Next, Begin, Execute, Decline, Fail
  <2>4. ~Running(c)'
    BY <2>3 DEF Commit, Running, Inv, TypeOK, CallState
  <2>5. call[c].pc > 1
    BY <2>3, CallFacts DEF Commit, AllSent
  <2>6. call[c].m.on # "loop"
    BY <2>3, <2>5 DEF Inv, RunInv, Commit
  <2>7. QED
    BY <2>3, <2>4, <2>6, CallFacts DEF Commit
<1>2. QED
  BY <1>1, Invariance, PTL DEF Spec, AbortOutlivesHandlers

\* A call keeps its method once it has begun, and its end.
LEMMA MethodStays ==
    ASSUME Inv, [Next]_vars, NEW c \in Calls, call[c].st # "new"
    PROVE  /\ call'[c].m = call[c].m
           /\ call[c].st = "returned" => call'[c].st = "returned"
<1>1. call \in [Calls -> CallState] /\ call[c] \in CallState
  BY DEF Inv, TypeOK
<1>2. CASE \E d \in Calls : \E m \in Methods : Begin(d, m)
  BY <1>1, <1>2 DEF Begin
<1>3. CASE \E d \in Calls : Execute(d)
  BY <1>1, <1>3 DEF Execute, Running, CallState
<1>4. CASE \E d \in Calls : Decline(d) \/ Fail(d) \/ Commit(d)
  BY <1>1, <1>4 DEF Decline, Fail, Commit, Running, CallState
<1>5. CASE Restart
  BY <1>1, <1>5 DEF Restart, Running, CallState
<1>6. CASE Quiescent \/ UNCHANGED vars
  BY <1>6 DEF Quiescent, vars
<1>7. QED
  BY <1>2, <1>3, <1>4, <1>5, <1>6 DEF Next

\* What the event loop writes through any repository is durable once the
\* method returns: the connection implements DurableWrites.
THEOREM Implements == Spec => ImplementsDurableWrites
<1> DEFINE Durable == {c \in Calls : LoopWrite(c) /\ kept[c] = 1}
           Acked == {c \in Calls : LoopWrite(c) /\ call[c].st = "returned"}
<1>1. Init => DW!Init
  <2> SUFFICES ASSUME Init PROVE Durable = {} /\ Acked = {}
    BY DEF DW!Init
  <2>1. \A c \in Calls : kept[c] = 0 /\ call[c].st = "new"
    BY DEF Init, NewCall
  <2>2. QED
    BY <2>1
<1>2. Inv /\ Inv' /\ [Next]_vars => [DW!Next]_<<Durable, Acked>>
  <2> SUFFICES ASSUME Inv, Inv', [Next]_vars
               PROVE  [DW!Next]_<<Durable, Acked>>
    OBVIOUS
  <2>1. ASSUME NEW c \in Calls, LoopWrite(c)
        PROVE  /\ LoopWrite(c)'
               /\ kept[c] = 1 => kept'[c] = 1
               /\ call[c].st = "returned" => call'[c].st = "returned"
    <3>1. call[c].st # "new"
      BY <2>1 DEF Inv, EndInv, LoopWrite, Reading
    <3>2. /\ call'[c].m = call[c].m
          /\ call[c].st = "returned" => call'[c].st = "returned"
      BY <3>1, MethodStays
    <3>3. kept'[c] \in {kept[c], kept[c] + open[c]}
      BY DEF Inv, TypeOK, Next, vars, Begin, Execute, Decline, Fail, Commit, Restart, Quiescent
    <3>4. kept[c] = 1 => open[c] = 0
      BY <2>1, CallFacts DEF Inv, EndInv, LoopWrite
    <3>5. QED
      BY <2>1, <3>2, <3>3, <3>4 DEF LoopWrite
  <2>2. Acked' \subseteq Durable'
    <3> SUFFICES ASSUME NEW c \in Calls, LoopWrite(c)', call'[c].st = "returned"
                 PROVE  kept'[c] = 1
      OBVIOUS
    <3>1. call'[c].m \in Methods
      BY DEF Inv, TypeOK, CallState
    <3>2. Shaped(call'[c].m)
      BY <3>1, MethodShapes
    <3>3. Sent(call'[c].m, Len(call'[c].m.stmts) + 1) = 1
      BY <3>2 DEF LoopWrite, Shaped, Shapes, Sent
    <3>4. QED
      BY <3>3 DEF Inv, EndInv, LoopWrite
  <2>3. QED
    BY <2>1, <2>2 DEF DW!Next, DW!Persist
<1>3. QED
  BY <1>1, <1>2, Invariance, PTL DEF Spec, ImplementsDurableWrites, DW!Spec
=============================================================================
