---------------------------- MODULE BillingProofs ---------------------------
(***************************************************************************)
(* Proofs about Billing, for any number of tenants, subscriptions,         *)
(* overlapping cancellations and notifications, and for both repository    *)
(* adapters.  TypeOK is not inductive alone (an answer of Mercado Pago has *)
(* a status only because the preapproval exists), so it is proved together *)
(* with IndInv.                                                            *)
(***************************************************************************)
EXTENDS Billing, TLAPS

Inv == TypeOK /\ IndInv

\* The placeholders of idle coroutines are well typed.
LEMMA PlaceholderTypes ==
    /\ Absent \in Row
    /\ IdleCancel \in Cancel
    /\ IdleHook \in Hook
<1>1. AnyTenant \in Tenants /\ AnySub \in Subs
  BY BillingAssumption DEF AnyTenant, AnySub
<1>2. Absent \in Row
  BY <1>1 DEF Absent, Row, Status
<1>3. QED
  BY <1>1, <1>2 DEF IdleCancel, IdleHook, Cancel, Hook, Status

\* Every subscription table starts empty, with nothing in flight.
LEMMA InitInv == Init => Inv
<1> SUFFICES ASSUME Init PROVE Inv
  OBVIOUS
<1>1. TypeOK
  BY PlaceholderTypes DEF Init, TypeOK
<1>2. IndInv
  BY BillingAssumption DEF Init, IndInv, sound, Absent, IdleCancel, IdleHook
<1>3. QED
  BY <1>1, <1>2 DEF Inv

\* A row made from a well-typed row by the handlers' field assignments is
\* well typed, and the row a coroutine works on is well typed and sound.
LEMMA RowTypes ==
    ASSUME NEW r \in Row, NEW s \in Subs, NEW x \in Status
    PROVE  /\ [r EXCEPT !.pa = s] \in Row
           /\ [r EXCEPT !.status = x] \in Row
           /\ reconciled(r, x) \in Row
  BY DEF Row, reconciled, Status

\* The row repo.add stores is well typed.
LEMMA NewRowType == \A t \in Tenants : NewRow(t) \in Row
  BY DEF NewRow, Row, Status

\* The row a cancellation writes back is well typed, sound and has its own id.
LEMMA HeldCancel ==
    ASSUME Inv, NEW c \in Cancels, cancels[c].pc # "idle"
    PROVE  /\ cancels[c].sub \in Subs
           /\ held(cancels[c].sub, cancels[c].copy) \in Row
           /\ held(cancels[c].sub, cancels[c].copy).pa = cancels[c].sub
           /\ sound(cancels[c].sub, held(cancels[c].sub, cancels[c].copy))
  BY DEF Inv, TypeOK, IndInv, held, Cancel

\* The row a reconciliation writes back is well typed, sound and has its own id.
LEMMA HeldHook ==
    ASSUME Inv, NEW h \in Hooks, hooks[h].pc # "idle"
    PROVE  /\ hooks[h].sub \in Subs
           /\ held(hooks[h].sub, hooks[h].copy) \in Row
           /\ held(hooks[h].sub, hooks[h].copy).pa = hooks[h].sub
           /\ sound(hooks[h].sub, held(hooks[h].sub, hooks[h].copy))
  BY DEF Inv, TypeOK, IndInv, held, Hook

(***************************************************************************)
(* Preservation, one lemma per group of actions.                           *)
(***************************************************************************)
\* The checkout request: the row appears without an id and gets its own.
LEMMA CheckoutStep ==
    ASSUME Inv, NEW s \in Subs,
           \/ \E t \in Tenants : Subscribe(s, t)
           \/ MPCreate(s) \/ SubscribeStore(s) \/ SubscribeFail(s)
    PROVE  Inv'
<1>1. CASE \E t \in Tenants : Subscribe(s, t)
  <2>1. PICK t \in Tenants : Subscribe(s, t)
    BY <1>1
  <2>2. NewRow(t) \in Row /\ NewRow(t).pa = NoPreapproval /\ NewRow(t).status = "pending"
    BY NewRowType DEF NewRow
  <2>3. TypeOK'
    BY <2>1, <2>2 DEF Inv, TypeOK, Subscribe, update
  <2>4. rows[s].pa # s
    BY <2>1 DEF Inv, IndInv, Subscribe
  <2>5. IndInv'
    BY <2>1, <2>2, <2>4, BillingAssumption
    DEF Inv, TypeOK, IndInv, Subscribe, update, sound, Cancel, Hook
  <2>6. QED
    BY <2>3, <2>5 DEF Inv
<1>2. CASE MPCreate(s)
  <2>1. TypeOK'
    BY <1>2 DEF Inv, TypeOK, MPCreate, Status
  <2>2. IndInv'
    BY <1>2 DEF Inv, TypeOK, IndInv, MPCreate, sound
  <2>3. QED
    BY <2>1, <2>2 DEF Inv
<1>3. CASE SubscribeStore(s)
  <2> DEFINE row == [held(s, NewRow(rows[s].tenant)) EXCEPT !.pa = s]
  <2>1. rows[s] \in Row /\ rows[s].tenant \in Tenants
    BY DEF Inv, TypeOK, Row
  <2>2. held(s, NewRow(rows[s].tenant)) \in Row
    BY <2>1, NewRowType DEF held
  <2>3. row \in Row /\ row.pa = s
    BY <2>2, RowTypes DEF Row
  <2>4. row.status # "authorized"
    <3>1. rows[s].status # "authorized"
      BY <1>3 DEF Inv, IndInv, sound, SubscribeStore
    <3>2. QED
      BY <2>1, <2>2, <3>1 DEF held, NewRow, Row
  <2>5. rows' = [rows EXCEPT ![s] = row]
    BY <1>3 DEF SubscribeStore, update
  <2> HIDE DEF row
  <2>6. TypeOK'
    BY <1>3, <2>3, <2>5 DEF Inv, TypeOK, SubscribeStore
  <2>7. IndInv'
    BY <1>3, <2>3, <2>4, <2>5 DEF Inv, TypeOK, IndInv, SubscribeStore, sound, Cancel, Hook
  <2>8. QED
    BY <2>6, <2>7 DEF Inv
<1>4. CASE SubscribeFail(s)
  <2>1. TypeOK'
    BY <1>4 DEF Inv, TypeOK, SubscribeFail
  <2>2. IndInv'
    BY <1>4 DEF Inv, TypeOK, IndInv, SubscribeFail, sound
  <2>3. QED
    BY <2>1, <2>2 DEF Inv
<1>5. QED
  BY <1>1, <1>2, <1>3, <1>4

\* Cancellation: an id-less row is cancelled at once, any other from a copy
\* that carries the row's own id.
LEMMA CancelStep ==
    ASSUME Inv, NEW c \in Cancels,
           \/ \E s \in Subs : CancelStart(c, s)
           \/ MPCancel(c) \/ CancelStore(c)
    PROVE  Inv'
<1>1. CASE \E s \in Subs : CancelStart(c, s)
  <2>1. PICK s \in Subs : CancelStart(c, s)
    BY <1>1
  <2>2. rows[s] \in Row /\ sound(s, rows[s])
    BY DEF Inv, TypeOK, IndInv
  <2>3. CASE rows[s].pa = NoPreapproval
    <3> DEFINE row == [rows[s] EXCEPT !.status = "cancelled"]
    <3>1. row \in Row /\ row.pa = NoPreapproval /\ row.status = "cancelled"
      BY <2>2, <2>3 DEF Row, Status
    <3>2. rows' = [rows EXCEPT ![s] = row] /\ UNCHANGED <<cancels, checkout, hooks, mp, dirty, everAuth, unheard>>
      BY <2>1, <2>3 DEF CancelStart, update
    <3> HIDE DEF row
    <3>3. TypeOK'
      BY <3>1, <3>2 DEF Inv, TypeOK
    <3>4. IndInv'
      BY <2>3, <3>1, <3>2, BillingAssumption
      DEF Inv, TypeOK, IndInv, sound, Cancel, Hook
    <3>5. QED
      BY <3>3, <3>4 DEF Inv
  <2>4. CASE rows[s].pa # NoPreapproval
    <3> DEFINE call == [pc |-> "call", sub |-> s, copy |-> rows[s]]
    <3>1. rows[s].pa = s
      BY <2>2, <2>4 DEF sound
    <3>2. call \in Cancel
      BY <2>2 DEF Cancel
    <3>3. cancels' = [cancels EXCEPT ![c] = call] /\ UNCHANGED <<rows, checkout, hooks, mp, dirty, everAuth, unheard>>
      BY <2>1, <2>4 DEF CancelStart
    <3>4. call.sub = s /\ call.copy = rows[s]
      OBVIOUS
    <3> HIDE DEF call
    <3>5. TypeOK'
      BY <3>2, <3>3 DEF Inv, TypeOK
    <3>6. IndInv'
      BY <2>2, <3>1, <3>3, <3>4 DEF Inv, TypeOK, IndInv, sound
    <3>7. QED
      BY <3>5, <3>6 DEF Inv
  <2>5. QED
    BY <2>3, <2>4
<1>2. CASE MPCancel(c)
  <2> DEFINE p == cancels[c].copy.pa
  <2>1. p = cancels[c].sub /\ p \in Subs /\ rows[p].pa = p
    BY <1>2 DEF Inv, TypeOK, IndInv, MPCancel, Cancel
  <2>2. mp' = mp \/ mp' = [mp EXCEPT ![p] = "cancelled"]
    BY <1>2 DEF MPCancel
  <2>3. cancels' = [cancels EXCEPT ![c].pc = "answered"]
    BY <1>2 DEF MPCancel
  <2>4. dirty' \in [Subs -> BOOLEAN]
    BY <1>2, <2>1 DEF Inv, TypeOK, MPCancel
  <2>5. UNCHANGED <<rows, checkout, hooks, everAuth, unheard>>
    BY <1>2 DEF MPCancel
  <2> HIDE DEF p
  <2>6. TypeOK'
    BY <2>1, <2>2, <2>3, <2>4, <2>5 DEF Inv, TypeOK, Status, Cancel
  <2>7. IndInv'
    BY <1>2, <2>1, <2>2, <2>3, <2>5 DEF Inv, TypeOK, IndInv, MPCancel, sound, Cancel
  <2>8. QED
    BY <2>6, <2>7 DEF Inv
<1>3. CASE CancelStore(c)
  <2> DEFINE s == cancels[c].sub
             row == [held(s, cancels[c].copy) EXCEPT !.status = "cancelled"]
  <2>1. cancels[c].pc # "idle"
    BY <1>3 DEF CancelStore
  <2>2. s \in Subs /\ held(s, cancels[c].copy) \in Row
        /\ held(s, cancels[c].copy).pa = s /\ rows[s].pa = s
    BY <2>1, HeldCancel DEF Inv, IndInv
  <2>3. row \in Row /\ row.pa = s /\ row.status = "cancelled"
    BY <2>2 DEF Row, Status
  <2>4. rows' = [rows EXCEPT ![s] = row] /\ cancels' = [cancels EXCEPT ![c] = IdleCancel]
        /\ UNCHANGED <<checkout, hooks, mp, dirty, everAuth>>
        /\ unheard' \subseteq Subs
    BY <1>3, <2>2 DEF CancelStore, update, outlived, Inv, TypeOK
  <2>5. IdleCancel \in Cancel /\ IdleCancel.pc = "idle"
    BY PlaceholderTypes DEF IdleCancel
  <2> HIDE DEF row, s
  <2>6. TypeOK'
    BY <2>2, <2>3, <2>4, <2>5 DEF Inv, TypeOK
  <2>7. IndInv'
    BY <2>2, <2>3, <2>4, <2>5 DEF Inv, TypeOK, IndInv, sound, Cancel, Hook
  <2>8. QED
    BY <2>6, <2>7 DEF Inv
<1>4. QED
  BY <1>1, <1>2, <1>3

\* Reconciliation: what it writes was true at Mercado Pago when it was read.
LEMMA HookStep ==
    ASSUME Inv, NEW h \in Hooks,
           \/ \E p \in Subs : HookArrive(h, p)
           \/ MPFetch(h) \/ HookStore(h) \/ HookDrop(h)
    PROVE  Inv'
<1>1. CASE \E p \in Subs : HookArrive(h, p)
  <2>1. PICK p \in Subs : HookArrive(h, p)
    BY <1>1
  <2>2. UNCHANGED <<rows, checkout, cancels, mp, everAuth>> /\ dirty' \in [Subs -> BOOLEAN]
        /\ unheard' \subseteq Subs
    BY <2>1 DEF HookArrive, Inv, TypeOK
  <2>3. CASE UNCHANGED hooks
    BY <2>2, <2>3 DEF Inv, TypeOK, IndInv, sound
  <2>4. ASSUME NEW s \in get_by_preapproval_id(p),
               hooks' = [hooks EXCEPT ![h] = [pc |-> "fetch", sub |-> s, copy |-> rows[s],
                                              fetched |-> "pending"]]
        PROVE  Inv'
    <3> DEFINE call == [pc |-> "fetch", sub |-> s, copy |-> rows[s], fetched |-> "pending"]
    <3>1. s \in Subs /\ rows[s].pa = p
      BY DEF get_by_preapproval_id
    <3>2. rows[s] \in Row /\ sound(s, rows[s])
      BY <3>1 DEF Inv, TypeOK, IndInv
    <3>3. rows[s].pa = s
      BY <3>1, <3>2, BillingAssumption DEF sound
    <3>4. call \in Hook
      BY <3>1, <3>2 DEF Hook, Status
    <3>5. call.sub = s /\ call.copy = rows[s] /\ call.pc = "fetch"
      OBVIOUS
    <3>6. hooks' = [hooks EXCEPT ![h] = call]
      BY <2>4
    <3> HIDE DEF call
    <3>7. TypeOK'
      BY <2>2, <3>4, <3>6 DEF Inv, TypeOK
    <3>8. IndInv'
      BY <2>2, <3>2, <3>3, <3>5, <3>6 DEF Inv, TypeOK, IndInv, sound
    <3>9. QED
      BY <3>7, <3>8 DEF Inv
  <2>5. QED
    BY <2>1, <2>3, <2>4 DEF HookArrive
<1>2. CASE MPFetch(h)
  <2>1. hooks[h].copy.pa = hooks[h].sub /\ hooks[h].sub \in Subs
        /\ rows[hooks[h].sub].pa = hooks[h].sub
    BY <1>2 DEF Inv, TypeOK, IndInv, MPFetch, Hook
  <2>2. mp[hooks[h].sub] \in Status
    BY <2>1 DEF Inv, TypeOK, IndInv
  <2>3. UNCHANGED <<rows, checkout, cancels, mp, dirty, everAuth, unheard>>
        /\ hooks' = [hooks EXCEPT ![h].pc = "answered", ![h].fetched = mp[hooks[h].sub]]
    BY <1>2, <2>1 DEF MPFetch
  <2>4. TypeOK'
    <3>1. hooks[h] \in Hook
      BY DEF Inv, TypeOK
    <3>2. [hooks[h] EXCEPT !.pc = "answered", !.fetched = mp[hooks[h].sub]] \in Hook
      BY <2>2, <3>1 DEF Hook
    <3>3. hooks' \in [Hooks -> Hook]
      BY <2>3, <3>2 DEF Inv, TypeOK
    <3>4. QED
      BY <2>3, <3>3 DEF Inv, TypeOK
  <2>5. IndInv'
    BY <1>2, <2>1, <2>3 DEF Inv, TypeOK, IndInv, MPFetch, sound, Hook
  <2>6. QED
    BY <2>4, <2>5 DEF Inv
<1>3. CASE HookStore(h)
  <2> DEFINE s == hooks[h].sub
             old == held(s, hooks[h].copy)
             row == reconciled(old, hooks[h].fetched)
  <2>1. hooks[h].pc = "answered"
    BY <1>3 DEF HookStore
  <2>2. s \in Subs /\ old \in Row /\ old.pa = s /\ rows[s].pa = s
    BY <2>1, HeldHook DEF Inv, IndInv
  <2>3. hooks[h].fetched \in Status
    BY DEF Inv, TypeOK, Hook
  <2>4. row \in Row /\ row.pa = s
        /\ (row.status = "authorized" => hooks[h].fetched = "authorized" /\ row.started)
    BY <2>2, <2>3 DEF Row, reconciled
  <2>5. row.status = "authorized" => s \in everAuth
    BY <2>1, <2>4 DEF Inv, IndInv
  <2>6. rows' = [rows EXCEPT ![s] = row] /\ hooks' = [hooks EXCEPT ![h] = IdleHook]
        /\ UNCHANGED <<checkout, cancels, mp, dirty, everAuth, unheard>>
    BY <1>3 DEF HookStore, update
  <2>7. IdleHook \in Hook /\ IdleHook.pc = "idle"
    BY PlaceholderTypes DEF IdleHook
  <2> HIDE DEF row, s
  <2>8. TypeOK'
    BY <2>2, <2>4, <2>6, <2>7 DEF Inv, TypeOK
  <2>9. IndInv'
    BY <2>2, <2>4, <2>5, <2>6, <2>7 DEF Inv, TypeOK, IndInv, sound, Cancel, Hook
  <2>10. QED
    BY <2>8, <2>9 DEF Inv
<1>4. CASE HookDrop(h)
  <2>1. IdleHook \in Hook /\ IdleHook.pc = "idle"
    BY PlaceholderTypes DEF IdleHook
  <2>2. TypeOK'
    BY <1>4, <2>1 DEF Inv, TypeOK, HookDrop, Hook
  <2>3. IndInv'
    BY <1>4, <2>1 DEF Inv, TypeOK, IndInv, HookDrop, sound
  <2>4. QED
    BY <2>2, <2>3 DEF Inv
<1>5. QED
  BY <1>1, <1>2, <1>3, <1>4

\* Mercado Pago's own moves never forget that a preapproval was authorized.
LEMMA MPChangeStep ==
    ASSUME Inv, NEW s \in Subs, NEW next \in Status, MPChange(s, next)
    PROVE  Inv'
<1>1. TypeOK'
  BY DEF Inv, TypeOK, MPChange
<1>2. IndInv'
  BY DEF Inv, TypeOK, IndInv, MPChange, sound, Status
<1>3. QED
  BY <1>1, <1>2 DEF Inv

\* Every step preserves the invariant.
LEMMA NextInv == Inv /\ [Next]_vars => Inv'
<1> SUFFICES ASSUME Inv, [Next]_vars PROVE Inv'
  OBVIOUS
<1>1. CASE UNCHANGED vars
  BY <1>1 DEF Inv, TypeOK, IndInv, sound, vars
<1>2. CASE Next
  BY <1>2, CheckoutStep, CancelStep, HookStep, MPChangeStep DEF Next
<1>3. QED
  BY <1>1, <1>2

\* The invariant holds throughout.
LEMMA Invariance == Spec => []Inv
  BY InitInv, NextInv, PTL DEF Spec

(***************************************************************************)
(* The theorems.                                                           *)
(***************************************************************************)
\* Every reachable state is well typed: in particular a reconciliation never
\* fetches a preapproval Mercado Pago does not have.
THEOREM TypeCorrect == Spec => []TypeOK
<1>1. Inv => TypeOK
  BY DEF Inv
<1>2. QED
  BY <1>1, Invariance, PTL

\* Rows and the copies still in flight are sound: each names its own preapproval
\* and counts as authorized only if Mercado Pago authorized it.
THEOREM CopiesSound == Spec => []IndInv
<1>1. Inv => IndInv
  BY DEF Inv
<1>2. QED
  BY <1>1, Invariance, PTL

\* A row counts as paying only if Mercado Pago authorized its preapproval.
THEOREM PaidFor == Spec => []AuthorizedIsPaidFor
<1>1. Inv => AuthorizedIsPaidFor
  BY DEF Inv, IndInv, sound, AuthorizedIsPaidFor
<1>2. QED
  BY <1>1, Invariance, PTL

\* Every preapproval that can be charged is stored on its row, for good.
THEOREM Known == Spec => []ChargedIsKnown
<1>1. Inv => ChargedIsKnown
  BY DEF Inv, TypeOK, IndInv, ChargedIsKnown
<1>2. QED
  BY <1>1, Invariance, PTL

\* No whole-row write, however stale its copy, loses a preapproval id.
THEOREM Stable == Spec => PreapprovalStable
<1> DEFINE Keeps == \A s \in Subs : rows[s].pa # NoPreapproval => rows'[s].pa = rows[s].pa
<1>1. Inv /\ Inv' /\ [Next]_vars => [Keeps]_vars
  <2> SUFFICES ASSUME Inv, Inv', Next, NEW s \in Subs, rows[s].pa # NoPreapproval
               PROVE  rows'[s].pa = rows[s].pa
    BY DEF Inv
  <2>1. rows[s].pa = s /\ checkout[s] = "open"
    BY DEF Inv, IndInv, sound
  <2>2. checkout'[s] = "open"
    BY <2>1 DEF Next, Subscribe, MPCreate, SubscribeStore, SubscribeFail, CancelStart,
       MPCancel, CancelStore, HookArrive, MPFetch, HookStore, HookDrop, MPChange, Inv, TypeOK
  <2>3. QED
    BY <2>1, <2>2 DEF Inv, IndInv
<1>2. QED
  BY <1>1, Invariance, PTL DEF Spec, PreapprovalStable
=============================================================================
