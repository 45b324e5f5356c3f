------------------------------ MODULE Billing -------------------------------
(***************************************************************************)
(* BillingService (billing/service.py) over its subscription repository,   *)
(* with Mercado Pago (external) at the other end of every await.  Each     *)
(* method reads a row, awaits Mercado Pago and writes the whole row back,  *)
(* and any number of them overlap: checkout requests, cancellations and    *)
(* Mercado Pago's notifications, which may be duplicated.                  *)
(*                                                                         *)
(* A preapproval is named by the subscription it was created for: that id  *)
(* is its external_reference.                                              *)
(***************************************************************************)
EXTENDS Naturals, FiniteSets

CONSTANTS
    Subs,            \* subscription ids, one per checkout request
    Tenants,
    Cancels,         \* cancel requests that may be in flight at once
    Hooks,           \* notifications that may be handled at once
    NoPreapproval,   \* mp_preapproval_id is None
    Copies,          \* TRUE: get() returns a copy (Postgres); FALSE: the row
                     \* itself (in memory)
    MPFaults         \* the Mercado Pago calls that may fail

ASSUME BillingAssumption ==
    /\ NoPreapproval \notin Subs
    /\ Tenants # {} /\ Subs # {}
    /\ Copies \in BOOLEAN
    /\ MPFaults \subseteq {"create", "cancel", "fetch"}

VARIABLES
    rows,        \* the subscriptions table
    checkout,    \* pc of the subscribe request of each subscription
    cancels,     \* cancel requests in flight
    hooks,       \* reconcile_from_webhook calls in flight
    mp,          \* Mercado Pago: status of each preapproval
    dirty,       \* Mercado Pago: a status push is still due
    everAuth,    \* history: preapprovals Mercado Pago ever authorized
    unheard      \* history: those whose last push, acknowledged, could not be
                 \* followed up, or whose row a failed cancel marked since

vars == <<rows, checkout, cancels, hooks, mp, dirty, everAuth, unheard>>

Status == {"pending", "authorized", "paused", "cancelled"}

\* status "absent": there is no row yet.
Row == [tenant : Tenants, status : Status \cup {"absent"},
        pa : Subs \cup {NoPreapproval}, started : BOOLEAN]

Cancel == [pc : {"idle", "call", "answered"}, sub : Subs, copy : Row]
Hook == [pc : {"idle", "fetch", "answered"}, sub : Subs, copy : Row,
         fetched : Status]

AnyTenant == CHOOSE t \in Tenants : TRUE
AnySub == CHOOSE s \in Subs : TRUE
Absent == [tenant |-> AnyTenant, status |-> "absent", pa |-> NoPreapproval,
           started |-> FALSE]
IdleCancel == [pc |-> "idle", sub |-> AnySub, copy |-> Absent]
IdleHook == [pc |-> "idle", sub |-> AnySub, copy |-> Absent, fetched |-> "pending"]

Init ==
    /\ rows = [s \in Subs |-> Absent]
    /\ checkout = [s \in Subs |-> "idle"]
    /\ cancels = [c \in Cancels |-> IdleCancel]
    /\ hooks = [h \in Hooks |-> IdleHook]
    /\ mp = [s \in Subs |-> "none"]
    /\ dirty = [s \in Subs |-> FALSE]
    /\ everAuth = {}
    /\ unheard = {}

\* The object a coroutine that read row s before its await works on after it.
held(s, copy) == IF Copies THEN copy ELSE rows[s]

\* SubscriptionRepositoryPort.update: the whole row.
update(s, row) == rows' = [rows EXCEPT ![s] = row]

\* active_for_tenant
active_for_tenant(t) ==
    {s \in Subs : rows[s].tenant = t /\ rows[s].status = "authorized"}

(***************************************************************************)
(* subscribe                                                               *)
(***************************************************************************)
NewRow(t) == [tenant |-> t, status |-> "pending", pa |-> NoPreapproval,
              started |-> FALSE]

\* Conflict check and repo.add, up to the call of create_preapproval.
Subscribe(s, t) ==
    /\ checkout[s] = "idle"
    /\ active_for_tenant(t) = {}
    /\ update(s, NewRow(t))
    /\ checkout' = [checkout EXCEPT ![s] = "create"]
    /\ UNCHANGED <<cancels, hooks, mp, dirty, everAuth, unheard>>

\* External: Mercado Pago creates the preapproval.
MPCreate(s) ==
    /\ checkout[s] = "create"
    /\ mp' = [mp EXCEPT ![s] = "pending"]
    /\ dirty' = [dirty EXCEPT ![s] = TRUE]
    /\ checkout' = [checkout EXCEPT ![s] = "answered"]
    /\ UNCHANGED <<rows, cancels, hooks, everAuth, unheard>>

\* Mutant: the buyer gets init_point, the row does not get the id.
SubscribeStore_forgets(s) ==
    /\ checkout[s] = "answered"
    /\ checkout' = [checkout EXCEPT ![s] = "open"]
    /\ UNCHANGED <<rows, cancels, hooks, mp, dirty, everAuth, unheard>>

\* The answer arrives: store id and init_point, hand init_point to the buyer.
SubscribeStore(s) ==
    /\ checkout[s] = "answered"
    /\ update(s, [held(s, NewRow(rows[s].tenant)) EXCEPT !.pa = s])
    /\ checkout' = [checkout EXCEPT ![s] = "open"]
    /\ UNCHANGED <<cancels, hooks, mp, dirty, everAuth, unheard>>

\* MercadoPagoError, before or after the preapproval came to exist: the row
\* stays pending and the buyer gets no init_point.
SubscribeFail(s) ==
    /\ checkout[s] \in {"create", "answered"}
    /\ "create" \in MPFaults
    /\ checkout' = [checkout EXCEPT ![s] = "failed"]
    /\ UNCHANGED <<rows, cancels, hooks, mp, dirty, everAuth, unheard>>

(***************************************************************************)
(* cancel                                                                  *)
(***************************************************************************)
\* Without a preapproval id there is nothing to await.
CancelStart(c, s) ==
    /\ cancels[c].pc = "idle"
    /\ rows[s].status # "absent"
    /\ IF rows[s].pa = NoPreapproval
       THEN /\ update(s, [rows[s] EXCEPT !.status = "cancelled"])
            /\ UNCHANGED cancels
       ELSE /\ cancels' = [cancels EXCEPT ![c] =
                             [pc |-> "call", sub |-> s, copy |-> rows[s]]]
            /\ UNCHANGED rows
    /\ UNCHANGED <<checkout, hooks, mp, dirty, everAuth, unheard>>

\* External: Mercado Pago cancels (for good), or the call fails first.
MPCancel(c) ==
    /\ cancels[c].pc = "call"
    /\ LET p == cancels[c].copy.pa
       IN  \/ /\ mp' = [mp EXCEPT ![p] = "cancelled"]
              /\ dirty' = [dirty EXCEPT ![p] = (mp[p] # "cancelled") \/ @]
           \/ "cancel" \in MPFaults /\ UNCHANGED <<mp, dirty>>
    /\ cancels' = [cancels EXCEPT ![c].pc = "answered"]
    /\ UNCHANGED <<rows, checkout, hooks, everAuth, unheard>>

\* A preapproval that is not cancelled outlives the row that says it is.
outlived(s) == IF mp[s] = "cancelled" THEN unheard ELSE unheard \cup {s}

\* Mutant: cancelling also clears the preapproval id.
CancelStore_clears(c) ==
    /\ cancels[c].pc = "answered"
    /\ update(cancels[c].sub,
              [held(cancels[c].sub, cancels[c].copy) EXCEPT !.status = "cancelled",
                                                            !.pa = NoPreapproval])
    /\ cancels' = [cancels EXCEPT ![c] = IdleCancel]
    /\ unheard' = outlived(cancels[c].sub)
    /\ UNCHANGED <<checkout, hooks, mp, dirty, everAuth>>

\* Back from the await, an error included: the row is marked cancelled.
CancelStore(c) ==
    /\ cancels[c].pc = "answered"
    /\ update(cancels[c].sub,
              [held(cancels[c].sub, cancels[c].copy) EXCEPT !.status = "cancelled"])
    /\ cancels' = [cancels EXCEPT ![c] = IdleCancel]
    /\ unheard' = outlived(cancels[c].sub)
    /\ UNCHANGED <<checkout, hooks, mp, dirty, everAuth>>

(***************************************************************************)
(* mp_webhook and reconcile_from_webhook                                   *)
(***************************************************************************)
get_by_preapproval_id(p) == {s \in Subs : rows[s].pa = p}

\* A notification about preapproval p, possibly a duplicate.  An unknown id
\* is acknowledged and dropped.
HookArrive(h, p) ==
    /\ hooks[h].pc = "idle"
    /\ mp[p] # "none"
    /\ dirty' = [dirty EXCEPT ![p] = FALSE]
    /\ unheard' = unheard \ {p}
    /\ \/ \E s \in get_by_preapproval_id(p) :
            hooks' = [hooks EXCEPT ![h] =
                        [pc |-> "fetch", sub |-> s, copy |-> rows[s],
                         fetched |-> "pending"]]
       \/ get_by_preapproval_id(p) = {} /\ UNCHANGED hooks
    /\ UNCHANGED <<rows, checkout, cancels, mp, everAuth>>

\* External: Mercado Pago answers get_preapproval with its state of now.
MPFetch(h) ==
    /\ hooks[h].pc = "fetch"
    /\ hooks' = [hooks EXCEPT ![h].pc = "answered",
                              ![h].fetched = mp[hooks[h].copy.pa]]
    /\ UNCHANGED <<rows, checkout, cancels, mp, dirty, everAuth, unheard>>

\* Mutant: started_at is not set.
reconciled_unstarted(row, fetched) == [row EXCEPT !.status = fetched]


\* The row as reconcile writes it, from the row it works on and the answer.
reconciled(row, fetched) ==
    [row EXCEPT !.status = fetched,
                !.started = @ \/ fetched = "authorized"]

HookStore(h) ==
    /\ hooks[h].pc = "answered"
    /\ update(hooks[h].sub,
              reconciled(held(hooks[h].sub, hooks[h].copy), hooks[h].fetched))
    /\ hooks' = [hooks EXCEPT ![h] = IdleHook]
    /\ UNCHANGED <<checkout, cancels, mp, dirty, everAuth, unheard>>

\* A fetch error or an unknown status: mp_webhook answers 200 all the same, so
\* Mercado Pago does not push again.
HookDrop(h) ==
    /\ hooks[h].pc \in {"fetch", "answered"}
    /\ "fetch" \in MPFaults
    /\ hooks' = [hooks EXCEPT ![h] = IdleHook]
    /\ unheard' = unheard \cup {hooks[h].sub}
    /\ UNCHANGED <<rows, checkout, cancels, mp, dirty, everAuth>>

(***************************************************************************)
(* External: the buyer, holding init_point, and Mercado Pago move the      *)
(* preapproval; every change is followed by a notification.                *)
(***************************************************************************)
MPMoves == {<<"pending", "authorized">>, <<"authorized", "paused">>,
            <<"paused", "authorized">>, <<"pending", "cancelled">>,
            <<"authorized", "cancelled">>, <<"paused", "cancelled">>}

MPChange(s, next) ==
    /\ checkout[s] = "open"
    /\ <<mp[s], next>> \in MPMoves
    /\ mp' = [mp EXCEPT ![s] = next]
    /\ dirty' = [dirty EXCEPT ![s] = TRUE]
    /\ everAuth' = IF next = "authorized" THEN everAuth \cup {s} ELSE everAuth
    /\ UNCHANGED <<rows, checkout, cancels, hooks, unheard>>

Next ==
    \/ \E s \in Subs, t \in Tenants : Subscribe(s, t)
    \/ \E s \in Subs : MPCreate(s) \/ SubscribeStore(s) \/ SubscribeFail(s)
    \/ \E c \in Cancels, s \in Subs : CancelStart(c, s)
    \/ \E c \in Cancels : MPCancel(c) \/ CancelStore(c)
    \/ \E h \in Hooks, s \in Subs : HookArrive(h, s)
    \/ \E h \in Hooks : MPFetch(h) \/ HookStore(h) \/ HookDrop(h)
    \/ \E s \in Subs, next \in Status : MPChange(s, next)

Spec == Init /\ [][Next]_vars

\* A push that is due arrives, whatever else arrives before it (Mercado Pago
\* retries for days, and the server takes every request), and a call to Mercado
\* Pago returns or times out (MercadoPagoAdapter's timeout).
Fairness ==
    /\ \A s \in Subs : SF_vars(dirty[s] /\ \E h \in Hooks : HookArrive(h, s))
    /\ \A s \in Subs : WF_vars(MPCreate(s) \/ SubscribeStore(s))
    /\ \A h \in Hooks : WF_vars(MPFetch(h) \/ HookStore(h))
    /\ \A c \in Cancels : WF_vars(MPCancel(c) \/ CancelStore(c))

FairSpec == Spec /\ Fairness

(***************************************************************************)
(* Properties.                                                             *)
(***************************************************************************)
TypeOK ==
    /\ rows \in [Subs -> Row]
    /\ checkout \in [Subs -> {"idle", "create", "answered", "open", "failed"}]
    /\ cancels \in [Cancels -> Cancel]
    /\ hooks \in [Hooks -> Hook]
    /\ mp \in [Subs -> Status \cup {"none"}]
    /\ dirty \in [Subs -> BOOLEAN]
    /\ everAuth \subseteq Subs /\ unheard \subseteq Subs

\* A subscription that counts as paying (current_for_tenant, the feature
\* gate) was authorized at Mercado Pago, under the preapproval the row names,
\* and has its start recorded; no stale write can make one up.
AuthorizedIsPaidFor ==
    \A s \in Subs :
        rows[s].status = "authorized" =>
            rows[s].pa = s /\ s \in everAuth /\ rows[s].started

\* Whatever Mercado Pago may charge for is known here: the preapproval id is
\* stored before the buyer can authorize it, and every later whole-row write,
\* from however old a copy, keeps it.
ChargedIsKnown == \A s \in everAuth : rows[s].pa = s

\* No write takes a row's preapproval id away or changes it: cancel awaits
\* nothing when it has read a row without one.
PreapprovalStable ==
    [][\A s \in Subs : rows[s].pa # NoPreapproval => rows'[s].pa = rows[s].pa]_vars

\* The inductive strengthening: what is true of every row is true of every
\* copy still in flight; a coroutine only holds a copy of a row that already
\* has its preapproval id; and the answers under way were once true.
sound(s, row) ==
    /\ row.pa \in {NoPreapproval, s}
    /\ row.status = "authorized" => row.pa = s /\ s \in everAuth /\ row.started

IndInv ==
    /\ \A s \in Subs :
          /\ sound(s, rows[s])
          /\ checkout[s] = "open" <=> rows[s].pa = s
          /\ checkout[s] \in {"answered", "open"} => mp[s] # "none"
          /\ mp[s] = "authorized" => s \in everAuth
          /\ s \in everAuth => checkout[s] = "open"
    /\ \A c \in Cancels : cancels[c].pc # "idle" =>
          /\ cancels[c].copy.pa = cancels[c].sub
          /\ rows[cancels[c].sub].pa = cancels[c].sub
          /\ sound(cancels[c].sub, cancels[c].copy)
    /\ \A h \in Hooks : hooks[h].pc # "idle" =>
          /\ hooks[h].copy.pa = hooks[h].sub
          /\ rows[hooks[h].sub].pa = hooks[h].sub
          /\ sound(hooks[h].sub, hooks[h].copy)
          /\ hooks[h].pc = "answered" /\ hooks[h].fetched = "authorized" =>
                hooks[h].sub \in everAuth


=============================================================================
