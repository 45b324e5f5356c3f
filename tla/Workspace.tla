----------------------------- MODULE Workspace ------------------------------
(***************************************************************************)
(* The dashboard's own records: tenants (tenant/), their onboarding        *)
(* (onboarding/flow.py, tenant/supervisor.py, events/bus.py) and message   *)
(* templates (templates/), behind the sessions of Accounts.  Every         *)
(* endpoint runs without interleaving except connect_whatsapp, which       *)
(* awaits the TenantSpawner port.  The in-memory spawner answers at once;  *)
(* any other implementation of the port (external) may take its time or    *)
(* fail, and other requests are served meanwhile.  /skills/invoke, unlike  *)
(* every other endpoint that takes a tenant id, looks at no session;       *)
(* /skills and /goal do not either, but they touch no stored data.         *)
(*                                                                         *)
(* A slug is the sequence of its parts: "acme" is <<"acme">> and "acme-2"  *)
(* is <<"acme", 2>>, whether it was typed or made by _unique_slug.         *)
(***************************************************************************)
EXTENDS Accounts, Sequences, FiniteSetsExt

CONSTANTS
    Slugs,           \* slugs that operators type
    Names,           \* business names
    Slugify,         \* slugify(name), a function from Names to slugs
    Numbers,         \* WhatsApp phone_number_ids
    NoNumber,        \* whatsapp_phone_number_id is None
    Signups,         \* connect_whatsapp requests
    TemplateIds,
    Keys,            \* template (name, language) pairs
    MaxEdits         \* bound: operators' writes, template creation aside

ASSUME WorkspaceAssumption ==
    /\ \A n \in Names : LET s == Slugify[n]
                       IN  s # <<>> /\ s \in Seq({s[i] : i \in DOMAIN s})
    /\ IsFiniteSet(Tenants)
    /\ NoNumber \notin Numbers
    /\ MaxEdits \in Nat

VARIABLES
    tenants,     \* tenant rows by id
    running,     \* InMemoryTenantSpawner._running
    signup,      \* connect_whatsapp requests in flight
    events,      \* tenant.onboarded events published for each tenant
    templates,   \* template rows by id
    edits,       \* operators' writes so far
    by,          \* history: whose request the last step was, the tenants it saw or
                 \* searched the resources of, and whether it looked at the session
    wrote,       \* history: last configs written to a tenant, and if it was signing up
    patched      \* history: tenants whose number was set by hand

tenantVars == <<tenants, running, signup, events, wrote, patched>>
vars == <<accountVars, tenantVars, templates, edits, by>>

NoRow == [st |-> "none", slug |-> <<>>, number |-> NoNumber, soul |-> 0, handoff |-> 0]
NoTemplate == [st |-> "none", tenant |-> NoTenant, key |-> 0, submitted |-> 0, approved |-> 0]
Idle == [pc |-> "idle", copy |-> NoRow, t |-> NoTenant]
As(tok, saw) == [tok |-> tok, saw |-> saw, searched |-> {}, checked |-> TRUE]
Nobody == As(NoToken, {})

Init ==
    /\ AccountsInit
    /\ tenants = [t \in Tenants |-> NoRow]
    /\ running = {}
    /\ signup = [f \in Signups |-> Idle]
    /\ events = [t \in Tenants |-> 0]
    /\ templates = [x \in TemplateIds |-> NoTemplate]
    /\ edits = 0
    /\ by = Nobody
    /\ wrote = [t \in Tenants |-> [soul |-> 0, handoff |-> 0, risk |-> FALSE]]
    /\ patched = {}

Known == {t \in Tenants : tenants[t].st # "none"}
by_slug(s) == {t \in Known : tenants[t].slug = s}
by_phone_number_id(p) == {t \in Known : tenants[t].number = p}

\* What every request leaves behind whatever it does: the authenticated session
\* is dropped if it had expired.
Request(tok, saw) ==
    /\ sessions' = Checked(tok)
    /\ by' = As(tok, saw)
    /\ UNCHANGED <<issued, left, now>>

\* The signup that created t has not ended.
SigningUp(t) == \E f \in Signups : signup[f].pc # "idle" /\ signup[f].t = t

Edit == edits < MaxEdits /\ edits' = edits + 1

(***************************************************************************)
(* Sessions                                                                *)
(***************************************************************************)
auth_login(e, pw, tok) ==
    /\ Login(e, pw, tok)
    /\ by' = Nobody
    /\ UNCHANGED <<tenantVars, templates, edits>>

auth_logout(tok) ==
    /\ Logout(tok)
    /\ by' = Nobody
    /\ UNCHANGED <<tenantVars, templates, edits>>

\* A request that only reads the session, or is turned away.
auth_me(tok) ==
    /\ AuthMe(tok)
    /\ by' = As(tok, {})
    /\ UNCHANGED <<tenantVars, templates, edits>>

auth_register(tok, e, pw, role, t) ==
    /\ _assert_admin(tok)
    /\ register(e, pw, role, t)
    /\ Request(tok, {})
    /\ UNCHANGED <<tenantVars, templates, edits>>

Clock == TimePasses /\ by' = Nobody /\ UNCHANGED <<tenantVars, templates, edits>>

(***************************************************************************)
(* Tenants                                                                 *)
(***************************************************************************)
list_tenants(tok) ==
    /\ _filter_visible_tenants(tok, Known) # {}
    /\ Request(tok, _filter_visible_tenants(tok, Known))
    /\ UNCHANGED <<users, tenantVars, templates, edits>>

\* GET of the tenant, its soul, its handoff config or its templates.
get_tenant(tok, t) ==
    /\ _assert_tenant_access(tok, t)
    /\ t \in Known
    /\ Request(tok, {t})
    /\ UNCHANGED <<users, tenantVars, templates, edits>>

NewRow(s, p) == [NoRow EXCEPT !.st = "PROVISIONING", !.slug = s, !.number = p]

\* POST /tenants: TenantManager.create, then the number if the body has one.
create_tenant(tok, t, s, p) ==
    /\ _assert_admin(tok)
    /\ Edit
    /\ t \notin Known
    /\ by_slug(s) = {}
    /\ tenants' = [tenants EXCEPT ![t] = NewRow(s, p)]
    /\ patched' = IF p = NoNumber THEN patched ELSE patched \cup {t}
    /\ Request(tok, {t})
    /\ UNCHANGED <<users, running, signup, events, wrote, templates>>

\* PATCH: the number is taken as it comes.
update_tenant(tok, t, p) ==
    /\ _assert_tenant_access(tok, t)
    /\ Edit
    /\ t \in Known
    /\ tenants' = [tenants EXCEPT ![t].number = p]
    /\ patched' = patched \cup {t}
    /\ Request(tok, {t})
    /\ UNCHANGED <<users, running, signup, events, wrote, templates>>

\* Mutant: the whole row is rebuilt from the form, which has no handoff config.
update_tenant_soul_rebuilds(tok, t) ==
    /\ _assert_tenant_access(tok, t)
    /\ Edit
    /\ t \in Known
    /\ tenants' = [tenants EXCEPT ![t].soul = edits', ![t].handoff = 0]
    /\ wrote' = [wrote EXCEPT ![t].soul = edits', ![t].risk = @ \/ SigningUp(t)]
    /\ Request(tok, {t})
    /\ UNCHANGED <<users, running, signup, events, patched, templates>>

\* PUT of the soul and of the handoff config: one field of the row each.
update_tenant_soul(tok, t) ==
    /\ _assert_tenant_access(tok, t)
    /\ Edit
    /\ t \in Known
    /\ tenants' = [tenants EXCEPT ![t].soul = edits']
    /\ wrote' = [wrote EXCEPT ![t].soul = edits', ![t].risk = @ \/ SigningUp(t)]
    /\ Request(tok, {t})
    /\ UNCHANGED <<users, running, signup, events, patched, templates>>

update_tenant_handoff(tok, t) ==
    /\ _assert_tenant_access(tok, t)
    /\ Edit
    /\ t \in Known
    /\ tenants' = [tenants EXCEPT ![t].handoff = edits']
    /\ wrote' = [wrote EXCEPT ![t].handoff = edits', ![t].risk = @ \/ SigningUp(t)]
    /\ Request(tok, {t})
    /\ UNCHANGED <<users, running, signup, events, patched, templates>>

(***************************************************************************)
(* Onboarding                                                              *)
(***************************************************************************)
\* The base, then base-2, base-3, ... until one is free.
_unique_slug(base) ==
    IF by_slug(base) = {} THEN base
    ELSE Append(base, Min({n \in 2..(Cardinality(Tenants) + 2) :
                              by_slug(Append(base, n)) = {}}))

\* A number that is known already: the request answers is_new = False.
connect_whatsapp_replay(tok, p) ==
    /\ _assert_admin(tok)
    /\ by_phone_number_id(p) # {}
    /\ Request(tok, by_phone_number_id(p))
    /\ UNCHANGED <<users, tenantVars, templates, edits>>

\* Mutant: no look-up by number first.
connect_whatsapp_again(f, tok, p, name, t) ==
    /\ signup[f].pc = "idle" /\ signup[f].t = NoTenant
    /\ _assert_admin(tok)
    /\ t \notin Known
    /\ LET r == NewRow(_unique_slug(Slugify[name]), p)
       IN  /\ tenants' = [tenants EXCEPT ![t] = r]
           /\ signup' = [signup EXCEPT
                ![f] = [pc |-> "spawn", copy |-> r, t |-> t]]
    /\ Request(tok, {})
    /\ UNCHANGED <<users, running, events, wrote, patched, templates, edits>>

\* OnboardingFlow.run up to the spawner: the tenant is created with its number,
\* and bring_up holds a copy of the row.
connect_whatsapp(f, tok, p, name, t) ==
    /\ signup[f].pc = "idle" /\ signup[f].t = NoTenant
    /\ _assert_admin(tok)
    /\ by_phone_number_id(p) = {}
    /\ t \notin Known
    /\ LET r == NewRow(_unique_slug(Slugify[name]), p)
       IN  /\ tenants' = [tenants EXCEPT ![t] = r]
           /\ signup' = [signup EXCEPT
                ![f] = [pc |-> "spawn", copy |-> r, t |-> t]]
    /\ Request(tok, {})
    /\ UNCHANGED <<users, running, events, wrote, patched, templates, edits>>

\* External: the spawner has started the tenant's runtime.
Spawned(f) ==
    /\ signup[f].pc = "spawn"
    /\ running' = running \cup {signup[f].t}
    /\ signup' = [signup EXCEPT ![f].pc = "spawned"]
    /\ by' = Nobody
    /\ UNCHANGED <<accountVars, tenants, events, wrote, patched, templates, edits>>

\* render_soul or the spawner raises: 500, and the tenant stays as created.
SignupFails(f) ==
    /\ signup[f].pc = "spawn"
    /\ signup' = [signup EXCEPT ![f] = [Idle EXCEPT !.t = signup[f].t]]
    /\ by' = Nobody
    /\ UNCHANGED <<accountVars, tenants, running, events, wrote, patched, templates, edits>>

\* Mutant: the event is published before the row is written.
bring_up_eventOnly(f) ==
    /\ signup[f].pc = "spawned"
    /\ events' = [events EXCEPT ![signup[f].t] = @ + 1]
    /\ signup' = [signup EXCEPT ![f] = [Idle EXCEPT !.t = signup[f].t]]
    /\ by' = As(NoToken, {signup[f].t})
    /\ UNCHANGED <<accountVars, tenants, running, wrote, patched, templates, edits>>

\* bring_up writes its copy of the row with the new status, and the event is
\* published.
bring_up(f) ==
    /\ signup[f].pc = "spawned"
    /\ LET t == signup[f].t
       IN  /\ tenants' = [tenants EXCEPT ![t] = [signup[f].copy EXCEPT !.st = "ACTIVE"]]
           /\ events' = [events EXCEPT ![t] = @ + 1]
           /\ by' = As(NoToken, {t})
           /\ signup' = [signup EXCEPT ![f] = [Idle EXCEPT !.t = t]]
    /\ UNCHANGED <<accountVars, running, wrote, patched, templates, edits>>

(***************************************************************************)
(* Message templates                                                       *)
(***************************************************************************)
Taken(t, k, x) == \E y \in TemplateIds \ {x} :
    templates[y].st # "none" /\ templates[y].tenant = t /\ templates[y].key = k

\* A taken key is a ValueError in memory and a constraint violation in Postgres.
create_template(tok, t, x, k) ==
    /\ _assert_tenant_access(tok, t)
    /\ t \in Known
    /\ templates[x].st = "none" /\ ~Taken(t, k, x)
    /\ templates' = [templates EXCEPT
            ![x] = [NoTemplate EXCEPT !.st = "DRAFT", !.tenant = t, !.key = k]]
    /\ Request(tok, {t})
    /\ UNCHANGED <<users, tenantVars, edits>>

\* The status flips; the first time it is SUBMITTED or APPROVED is stamped.
stamped(r, st) ==
    [r EXCEPT !.st = st,
              !.submitted = IF st = "SUBMITTED" /\ @ = 0 THEN now + 1 ELSE @,
              !.approved = IF st = "APPROVED" /\ @ = 0 THEN now + 1 ELSE @]

\* Mutant: the template's own tenant is not compared with the path.
update_template_anyTenant(tok, t, x, st, k) ==
    /\ _assert_tenant_access(tok, t)
    /\ Edit
    /\ templates[x].st # "none"
    /\ templates' = [templates EXCEPT ![x] = [stamped(@, st) EXCEPT !.key = k]]
    /\ Request(tok, {t})
    /\ UNCHANGED <<users, tenantVars>>

\* A new key is not compared with the other templates' keys; the schema of
\* Postgres may refuse it, and the request then fails without effect.
update_template(tok, t, x, st, k) ==
    /\ _assert_tenant_access(tok, t)
    /\ Edit
    /\ templates[x].st # "none" /\ templates[x].tenant = t
    /\ templates' = [templates EXCEPT ![x] = [stamped(@, st) EXCEPT !.key = k]]
    /\ Request(tok, {t})
    /\ UNCHANGED <<users, tenantVars>>

delete_template(tok, t, x) ==
    /\ _assert_tenant_access(tok, t)
    /\ Edit
    /\ templates[x].st # "none" /\ templates[x].tenant = t
    /\ templates' = [templates EXCEPT ![x] = NoTemplate]
    /\ Request(tok, {})
    /\ UNCHANGED <<users, tenantVars>>

(***************************************************************************)
(* Searches of a tenant's resources, each with a row of its query log.     *)
(***************************************************************************)
search_resources(tok, t) ==
    /\ _assert_tenant_access(tok, t)
    /\ t \in Known
    /\ sessions' = Checked(tok)
    /\ by' = [As(tok, {}) EXCEPT !.searched = {t}]
    /\ UNCHANGED <<users, issued, left, now, tenantVars, templates, edits>>

\* resource-search and catalog-lookup take the tenant from the context in the
\* request's body.  Nothing is checked, not even that the tenant exists.
invoke_skill(t) ==
    /\ by' = [As(NoToken, {}) EXCEPT !.searched = {t}, !.checked = FALSE]
    /\ UNCHANGED <<accountVars, tenantVars, templates, edits>>

-----------------------------------------------------------------------------
Statuses == {"DRAFT", "SUBMITTED", "APPROVED", "REJECTED"}
Cookies == Tokens \cup {NoToken}

Next ==
    \/ \E e \in Emails, pw \in Passwords, tok \in Tokens : auth_login(e, pw, tok)
    \/ \E tok \in Tokens : auth_logout(tok) \/ auth_me(tok)
    \/ \E tok \in Cookies :
         \/ \E e \in Emails, pw \in Passwords, role \in {"ADMIN", "TENANT"},
               t \in Tenants \cup {NoTenant} : auth_register(tok, e, pw, role, t)
         \/ list_tenants(tok)
         \/ \E p \in Numbers : connect_whatsapp_replay(tok, p)
         \/ \E f \in Signups, p \in Numbers, name \in Names, t \in Tenants :
               connect_whatsapp(f, tok, p, name, t)
         \/ \E t \in Tenants :
              \/ get_tenant(tok, t) \/ search_resources(tok, t)
              \/ \E s \in Slugs, p \in Numbers \cup {NoNumber} : create_tenant(tok, t, s, p)
              \/ \E p \in Numbers : update_tenant(tok, t, p)
              \/ update_tenant_soul(tok, t) \/ update_tenant_handoff(tok, t)
              \/ \E x \in TemplateIds, k \in Keys :
                    \/ create_template(tok, t, x, k)
                    \/ \E st \in Statuses : update_template(tok, t, x, st, k)
              \/ \E x \in TemplateIds : delete_template(tok, t, x)
    \/ \E f \in Signups : Spawned(f) \/ SignupFails(f) \/ bring_up(f)
    \/ \E t \in Tenants : invoke_skill(t)
    \/ Clock

Spec == Init /\ [][Next]_vars

-----------------------------------------------------------------------------
\* No two tenants have the same slug, whether it was typed, made from a business
\* name or suffixed to avoid another (create, _unique_slug).
UniqueSlugs == \A t, w \in Known : tenants[t].slug = tenants[w].slug => t = w

\* Signups alone, replayed or overlapping at the spawner, never give one number
\* to two tenants: it takes a number set by hand (OnboardingFlow is idempotent
\* on phone_number_id).
OneTenantPerNumber ==
    \A t, w \in Known :
        (tenants[t].number = tenants[w].number /\ tenants[t].number # NoNumber /\ t # w)
            => {t, w} \cap patched # {}

\* The keys that the handlers check by hand before they write stay unique, under
\* any overlap of registrations, creations and signups.
UniqueKeys == OneIdentity /\ UniqueSlugs /\ OneTenantPerNumber

\* tenant.onboarded is published at most once for a tenant, which then is ACTIVE
\* and running, whatever was written to its row while the spawner worked.
OnboardedMeansUp ==
    \A t \in Tenants : /\ events[t] <= 1
                       /\ events[t] = 1 => tenants[t].st = "ACTIVE" /\ t \in running

\* The soul and handoff configs an operator last wrote are the ones in the row:
\* only a write made while the tenant's own signup is in flight can be lost, to
\* the older copy that bring_up writes.
SettingsKept ==
    \A t \in Known :
        \/ tenants[t].soul = wrote[t].soul /\ tenants[t].handoff = wrote[t].handoff
        \/ wrote[t].risk

\* Independent of the helpers: who may touch tenant t with cookie tok.
Admitted(tok, t) ==
    \E s \in sessions, u \in users :
        /\ s.token = tok /\ s.expires > now /\ s.email = u.email
        /\ u.role = "ADMIN" \/ u.tenant = t

TouchesTenant(t) ==
    \/ tenants'[t] # tenants[t]
    \/ \E x \in TemplateIds : /\ templates'[x] # templates[x]
                              /\ t \in {templates[x].tenant, templates'[x].tenant}

\* The open door: a skill call searches t's resources, and leaves what the
\* dashboard keeps of t alone.
Unguarded(t) == ~by'.checked /\ t \notin by'.saw /\ ~TouchesTenant(t)

\* A step leaves tenant t alone, or was taken for a live session that may touch t
\* or for a signup whose runtime is up, or went through the open door.
Isolated ==
    AuthRequired => \A t \in Tenants :
        (t \in by'.saw \cup by'.searched \/ TouchesTenant(t))
            => \/ Admitted(by'.tok, t)
               \/ \E f \in Signups : signup[f].pc = "spawned" /\ signup[f].t = t
               \/ Unguarded(t)

\* With auth required, a request through an endpoint that checks its session sees
\* and changes only tenants that the live session may touch: never another
\* tenant's row through its own path, never after logout or expiry.  The one
\* write that may come later is the end of the signup an administrator's session
\* started.  Tenants are NOT isolated from callers of /skills/invoke: anyone
\* searches any tenant's resources there and adds to its query log, though the
\* comment above the access helpers has no session get 401 on every protected
\* route; rows and templates stay out of reach.
TenantIsolation == [][Isolated]_vars

\* Sessions implement SessionLifetime.
SessionsEndForGood == SL!Spec
=============================================================================
