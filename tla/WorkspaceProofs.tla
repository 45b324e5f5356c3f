--------------------------- MODULE WorkspaceProofs --------------------------
(***************************************************************************)
(* Proofs about Workspace and Accounts, for any number of users, tokens,   *)
(* tenants, signups and templates, with authentication on or off.          *)
(***************************************************************************)
EXTENDS Workspace, TLAPS, FiniteSetTheorems, SequenceTheorems, WellFoundedInduction

(***************************************************************************)
(* The accounts half: users, sessions and tokens.                          *)
(***************************************************************************)
Session == [token : Tokens, email : Emails, expires : Nat]

\* OneIdentity, and what keeps it so: rows hold lower-cased e-mails and a
\* token that was logged out has no row.
AccountInv ==
    /\ users \subseteq User /\ sessions \subseteq Session
    /\ issued \subseteq Tokens /\ left \subseteq issued /\ now \in Nat
    /\ OneIdentity
    /\ \A u \in users : Lower[u.email] = u.email
    /\ \A s \in sessions : s.token \notin left

\* What a request does to the session it carries.
Recheck(tok) == sessions' = Checked(tok) /\ UNCHANGED <<issued, left, now>>

AccountStep ==
    \/ \E e \in Emails, pw \in Passwords, tok \in Tokens : Login(e, pw, tok)
    \/ \E tok \in Tokens : Logout(tok)
    \/ \E tok \in Cookies : Recheck(tok) /\ UNCHANGED users
    \/ \E tok \in Cookies, e \in Emails, pw \in Passwords, role \in {"ADMIN", "TENANT"},
          t \in Tenants \cup {NoTenant} : register(e, pw, role, t) /\ Recheck(tok)
    \/ TimePasses
    \/ UNCHANGED accountVars

\* A set of natural numbers that is not empty has a least element: among the
\* suffixes that _unique_slug finds free there is a first one.
LEMMA LeastNat ==
    ASSUME NEW T \in SUBSET Nat, T # {}
    PROVE  \E x \in T : \A y \in T : x <= y
<1> DEFINE R == {ss \in Nat \X Nat : ss[1] < ss[2]}
<1>1. IsWellFoundedOn(R, Nat)
  BY NatLessThanWellFounded DEF OpToRel
<1>2. PICK x \in T : \A y \in T : ~ (<<y, x>> \in R)
  <2> HIDE DEF R
  <2> QED BY <1>1, WFMin
<1>3. ASSUME NEW y \in T PROVE x <= y
  <2>1. ~(<<y, x>> \in R) /\ x \in Nat /\ y \in Nat
    BY <1>2
  <2>2. <<y, x>> \in Nat \X Nat /\ <<y, x>>[1] = y /\ <<y, x>>[2] = x
    BY <2>1
  <2>3. ~(y < x)
    BY <2>1, <2>2
  <2>4. QED BY <2>1, <2>3
<1>4. QED BY <1>3

\* Every step of the workspace is one of these for users and sessions.
LEMMA StepsOfAccounts == Next => AccountStep
<1> USE DEF AccountStep, accountVars, Cookies
<1>1. ASSUME NEW e \in Emails, NEW pw \in Passwords, NEW tok \in Tokens,
             auth_login(e, pw, tok)
      PROVE  AccountStep
  BY <1>1 DEF auth_login
<1>2. ASSUME NEW tok \in Tokens, auth_logout(tok) \/ auth_me(tok)
      PROVE  AccountStep
  BY <1>2 DEF auth_logout, auth_me, AuthMe, Recheck
<1>3. ASSUME NEW tok \in Cookies, NEW e \in Emails, NEW pw \in Passwords,
             NEW role \in {"ADMIN", "TENANT"}, NEW t \in Tenants \cup {NoTenant},
             auth_register(tok, e, pw, role, t)
      PROVE  AccountStep
  BY <1>3 DEF auth_register, Request, Recheck
<1>4. ASSUME NEW tok \in Cookies, list_tenants(tok)
      PROVE  AccountStep
  BY <1>4 DEF list_tenants, Request, Recheck
<1>5. ASSUME NEW tok \in Cookies, NEW p \in Numbers, connect_whatsapp_replay(tok, p)
      PROVE  AccountStep
  BY <1>5 DEF connect_whatsapp_replay, Request, Recheck
<1>6. ASSUME NEW tok \in Cookies, NEW f \in Signups, NEW p \in Numbers,
             NEW name \in Names, NEW t \in Tenants, connect_whatsapp(f, tok, p, name, t)
      PROVE  AccountStep
  BY <1>6 DEF connect_whatsapp, Request, Recheck
<1>7. ASSUME NEW tok \in Cookies, NEW t \in Tenants,
             \/ get_tenant(tok, t) \/ search_resources(tok, t)
             \/ \E s \in Slugs, p \in Numbers \cup {NoNumber} : create_tenant(tok, t, s, p)
             \/ \E p \in Numbers : update_tenant(tok, t, p)
             \/ update_tenant_soul(tok, t) \/ update_tenant_handoff(tok, t)
      PROVE  AccountStep
  BY <1>7 DEF get_tenant, search_resources, create_tenant, update_tenant, update_tenant_soul,
              update_tenant_handoff, Request, Recheck
<1>8. ASSUME NEW tok \in Cookies, NEW t \in Tenants, NEW x \in TemplateIds,
             \/ \E k \in Keys : \/ create_template(tok, t, x, k)
                                \/ \E st \in Statuses : update_template(tok, t, x, st, k)
             \/ delete_template(tok, t, x)
      PROVE  AccountStep
  BY <1>8 DEF create_template, update_template, delete_template, Request, Recheck
<1>9. ASSUME NEW f \in Signups, Spawned(f) \/ SignupFails(f) \/ bring_up(f)
      PROVE  AccountStep
  BY <1>9 DEF Spawned, SignupFails, bring_up
<1>10. ASSUME Clock PROVE AccountStep
  BY <1>10 DEF Clock
<1>11. ASSUME NEW t \in Tenants, invoke_skill(t) PROVE AccountStep
  BY <1>11 DEF invoke_skill
<1> HIDE DEF AccountStep
<1>12. QED
  BY <1>1, <1>2, <1>3, <1>4, <1>5, <1>6, <1>7, <1>8, <1>9, <1>10, <1>11 DEF Next

\* The bootstrap users have lower-cased, distinct e-mails.
LEMMA AccountInvInit == Init => AccountInv
  BY AccountsAssumption DEF Init, AccountsInit, AccountInv, OneIdentity

\* register, login, logout and the session check keep the accounts consistent.
LEMMA AccountInvStep == AccountInv /\ AccountStep => AccountInv'
<1> SUFFICES ASSUME AccountInv, AccountStep PROVE AccountInv'
  OBVIOUS
<1> USE AccountsAssumption
<1>1. ASSUME NEW e \in Emails, NEW pw \in Passwords, NEW tok \in Tokens, Login(e, pw, tok)
      PROVE  AccountInv'
  <2> DEFINE new == [token |-> tok, email |-> Lower[e], expires |-> now + Duration]
  <2>1. new \in Session /\ new.token = tok /\ new.email = Lower[e]
    BY DEF AccountInv, Session
  <2>2. tok \notin issued /\ sessions' = sessions \cup {new}
    BY <1>1 DEF Login
  <2>3. PICK u \in users : u.email = Lower[e]
    BY <1>1 DEF Login, by_email
  <2> HIDE DEF new
  <2>4. \A s \in sessions : s.token \in issued /\ s.token # tok
    BY <2>2 DEF AccountInv, OneIdentity
  <2>5. OneIdentity'
    BY <1>1, <2>1, <2>2, <2>3, <2>4 DEF AccountInv, OneIdentity, Login
  <2>6. QED
    BY <1>1, <2>1, <2>2, <2>4, <2>5 DEF AccountInv, Login
<1>2. ASSUME NEW tok \in Tokens, Logout(tok)
      PROVE  AccountInv'
  <2>1. tok \in issued
    BY <1>2 DEF Logout, AccountInv, OneIdentity
  <2>2. QED
    BY <1>2, <2>1 DEF Logout, AccountInv, OneIdentity
<1>3. ASSUME NEW tok \in Cookies, Recheck(tok), UNCHANGED users
      PROVE  AccountInv'
  BY <1>3 DEF Recheck, Checked, AccountInv, OneIdentity
<1>4. ASSUME NEW tok \in Cookies, NEW e \in Emails, NEW pw \in Passwords,
             NEW role \in {"ADMIN", "TENANT"}, NEW t \in Tenants \cup {NoTenant},
             register(e, pw, role, t), Recheck(tok)
      PROVE  AccountInv'
  <2> DEFINE new == [email |-> Lower[e], password |-> pw, role |-> role, tenant |-> t]
  <2>1. new \in User /\ new.email = Lower[e] /\ Lower[new.email] = new.email
    BY DEF User
  <2>2. users' = users \cup {new} /\ \A u \in users : u.email # Lower[e]
    BY <1>4 DEF register, by_email
  <2>3. sessions' \subseteq sessions /\ UNCHANGED <<issued, left, now>>
    BY <1>4 DEF Recheck, Checked
  <2> HIDE DEF new
  <2>4. OneIdentity'
    BY <2>1, <2>2, <2>3 DEF AccountInv, OneIdentity
  <2>5. QED
    BY <2>1, <2>2, <2>3, <2>4 DEF AccountInv
<1>5. ASSUME TimePasses PROVE AccountInv'
  BY <1>5 DEF TimePasses, AccountInv, OneIdentity
<1>6. ASSUME UNCHANGED accountVars PROVE AccountInv'
  BY <1>6 DEF accountVars, AccountInv, OneIdentity
<1>7. QED
  BY <1>1, <1>2, <1>3, <1>4, <1>5, <1>6 DEF AccountStep

(***************************************************************************)
(* Sessions implement SessionLifetime.                                     *)
(***************************************************************************)
\* A token whose expiry check fails, or that was logged out, admits nobody: a
\* token is spent exactly if it was issued and is not valid.
LEMMA SpentTokens ==
    ASSUME AccountInv
    PROVE  /\ left \cup (issued \ Valid) = issued \ Valid
           /\ Valid \subseteq Tokens
  BY DEF AccountInv, Valid, Accepted

\* Login opens a token; logout, expiry and the deletion of expired rows close
\* tokens or change nothing.
LEMMA SessionStep ==
    ASSUME AccountInv, AccountInv', AccountStep
    PROVE  [SL!Next]_<<Valid, left \cup (issued \ Valid)>>
<1> USE AccountsAssumption
<1>1. /\ left \cup (issued \ Valid) = issued \ Valid
      /\ (left \cup (issued \ Valid))' = issued' \ Valid'
      /\ Valid \subseteq Tokens /\ Valid' \subseteq Tokens
  <2>1. left \cup (issued \ Valid) = issued \ Valid /\ Valid \subseteq Tokens
    BY SpentTokens
  <2>2. left' \cup (issued' \ Valid') = issued' \ Valid' /\ Valid' \subseteq Tokens
    BY DEF AccountInv, Valid, Accepted
  <2>3. QED
    BY <2>1, <2>2
<1>2. ASSUME issued' = issued, Valid' \subseteq Valid
      PROVE  SL!Close(Valid \ Valid')
  BY <1>1, <1>2 DEF SL!Close, Valid
<1>3. ASSUME issued' = issued, Valid' \subseteq Valid
      PROVE  SL!Next
  <2>1. Valid \ Valid' \in SUBSET Tokens
    BY <1>1
  <2>2. QED
    BY <1>2, <1>3, <2>1 DEF SL!Next
<1>4. ASSUME NEW e \in Emails, NEW pw \in Passwords, NEW tok \in Tokens, Login(e, pw, tok)
      PROVE  SL!Next
  <2> DEFINE new == [token |-> tok, email |-> Lower[e], expires |-> now + Duration]
  <2>1. /\ tok \notin issued /\ issued' = issued \cup {tok} /\ now' = now
        /\ sessions' = sessions \cup {new}
        /\ new.token = tok /\ new.expires > now
    BY <1>4 DEF Login, AccountInv
  <2> HIDE DEF new
  <2>2. \A k \in issued : Accepted(k)' = Accepted(k)
    BY <2>1 DEF Accepted
  <2>3. new \in Accepted(tok)'
    BY <2>1 DEF Accepted
  <2>4. Valid' = Valid \cup {tok} /\ tok \notin Valid
    BY <2>1, <2>2, <2>3 DEF Valid
  <2>5. SL!Open(tok)
    BY <1>1, <2>1, <2>4 DEF SL!Open
  <2>6. QED
    BY <2>5 DEF SL!Next
<1>5. ASSUME NEW tok \in Tokens, Logout(tok) PROVE SL!Next
  <2>1. issued' = issued /\ \A k \in issued : Accepted(k)' \subseteq Accepted(k)
    BY <1>5 DEF Logout, Accepted
  <2>2. Valid' \subseteq Valid
    BY <2>1 DEF Valid
  <2>3. QED
    BY <1>3, <2>1, <2>2
<1>6. ASSUME NEW tok \in Cookies, Recheck(tok) PROVE SL!Next
  <2>1. issued' = issued /\ \A k \in issued : Accepted(k)' \subseteq Accepted(k)
    BY <1>6 DEF Recheck, Checked, Accepted
  <2>2. Valid' \subseteq Valid
    BY <2>1 DEF Valid
  <2>3. QED
    BY <1>3, <2>1, <2>2
<1>7. ASSUME TimePasses PROVE SL!Next
  <2>1. issued' = issued /\ \A k \in issued : Accepted(k)' \subseteq Accepted(k)
    BY <1>7 DEF TimePasses, Accepted, AccountInv, Session
  <2>2. Valid' \subseteq Valid
    BY <2>1 DEF Valid
  <2>3. QED
    BY <1>3, <2>1, <2>2
<1>8. ASSUME UNCHANGED accountVars
      PROVE  UNCHANGED <<Valid, left \cup (issued \ Valid)>>
  BY <1>8 DEF accountVars, Valid, Accepted
<1>9. QED
  BY <1>4, <1>5, <1>6, <1>7, <1>8 DEF AccountStep

(***************************************************************************)
(* _unique_slug                                                            *)
(***************************************************************************)
\* The suffixes that _unique_slug tries and finds free.
FreeSuffixes(base) == {n \in 2..(Cardinality(Tenants) + 2) : by_slug(Append(base, n)) = {}}

\* There are more suffixes than tenants, so one of them is free.
LEMMA SomeSuffixIsFree ==
    ASSUME NEW S, NEW base \in Seq(S)
    PROVE  FreeSuffixes(base) # {}
<1> DEFINE c == Cardinality(Tenants)
<1> DEFINE g == [n \in 2..(c + 2) |-> CHOOSE t \in Tenants : t \in by_slug(Append(base, n))]
<1>1. IsFiniteSet(Tenants) /\ c \in Nat
  BY WorkspaceAssumption, FS_CardinalityType
<1>2. IsFiniteSet(2..(c + 2)) /\ Cardinality(2..(c + 2)) = c + 1
  <2>1. 2 \in Int /\ c + 2 \in Int /\ ~(2 > c + 2) /\ (c + 2) - 2 + 1 = c + 1
    BY <1>1
  <2> HIDE DEF c
  <2>2. QED
    BY <2>1, FS_Interval
<1>3. SUFFICES ASSUME FreeSuffixes(base) = {} PROVE FALSE
  OBVIOUS
<1>4. \A n \in 2..(c + 2) : by_slug(Append(base, n)) # {}
  BY <1>3 DEF FreeSuffixes
<1>5. \A n \in 2..(c + 2) : g[n] \in Tenants /\ tenants[g[n]].slug = Append(base, n)
  BY <1>4 DEF by_slug, Known
<1>6. g \in [2..(c + 2) -> Tenants]
  BY <1>5
<1> HIDE DEF g, c
<1>7. c < Cardinality(2..(c + 2))
  BY <1>1, <1>2
<1>8. \E m, n \in 2..(c + 2) : m # n /\ g[m] = g[n]
  BY <1>1, <1>2, <1>6, <1>7, FS_PigeonHole DEF c
<1>9. PICK m, n \in 2..(c + 2) : m # n /\ g[m] = g[n]
  BY <1>8
<1>10. Append(base, m) = Append(base, n)
  BY <1>5, <1>9
<1>11. base \in Seq(S \cup (2..(c + 2)))
  BY SeqMonotonic
<1>12. Append(base, m)[Len(base) + 1] = m /\ Append(base, n)[Len(base) + 1] = n
  BY <1>9, <1>11, AppendProperties
<1>13. QED
  BY <1>9, <1>10, <1>12

\* Min is attained.
LEMMA MinIsMember ==
    ASSUME NEW T \in SUBSET Nat, T # {}
    PROVE  Min(T) \in T
  BY LeastNat DEF Min

SlugSpace ==
    {<<>>} \cup Slugs \cup {Slugify[n] : n \in Names}
    \cup {Append(Slugify[n], i) : n \in Names, i \in 2..(Cardinality(Tenants) + 2)}

\* The slug that a signup makes from a business name belongs to no tenant.
LEMMA UniqueSlugIsFree ==
    ASSUME NEW n \in Names
    PROVE  /\ by_slug(_unique_slug(Slugify[n])) = {}
           /\ _unique_slug(Slugify[n]) \in SlugSpace
<1> DEFINE base == Slugify[n]
<1> DEFINE F == FreeSuffixes(base)
<1>1. CASE by_slug(base) = {}
  BY <1>1 DEF _unique_slug, SlugSpace
<1>2. CASE by_slug(base) # {}
  <2>1. base \in Seq({base[i] : i \in DOMAIN base})
    BY WorkspaceAssumption
  <2>2. F # {}
    BY <2>1, SomeSuffixIsFree
  <2>3. F \in SUBSET Nat
    BY DEF FreeSuffixes
  <2>4. Min(F) \in F
    BY <2>2, <2>3, MinIsMember
  <2>5. _unique_slug(base) = Append(base, Min(F))
    BY <1>2 DEF _unique_slug, FreeSuffixes
  <2>6. /\ Min(F) \in 2..(Cardinality(Tenants) + 2)
        /\ by_slug(Append(base, Min(F))) = {}
    BY <2>4 DEF FreeSuffixes
  <2> HIDE DEF F
  <2>7. Append(Slugify[n], Min(F)) \in SlugSpace
    BY <2>6 DEF SlugSpace
  <2>8. QED
    BY <2>5, <2>6, <2>7
<1>3. QED
  BY <1>1, <1>2

(***************************************************************************)
(* The tenants half: rows, signups in flight, events and templates.        *)
(***************************************************************************)
Row == [st : {"none", "PROVISIONING", "ACTIVE"}, slug : SlugSpace,
        number : Numbers \cup {NoNumber}, soul : Nat, handoff : Nat]
Signup == [pc : {"idle", "spawn", "spawned"}, copy : Row, t : Tenants \cup {NoTenant}]
Written == [soul : Nat, handoff : Nat, risk : BOOLEAN]
Unwritten == [soul |-> 0, handoff |-> 0, risk |-> FALSE]

TenantTypes ==
    /\ tenants \in [Tenants -> Row] /\ running \subseteq Tenants
    /\ signup \in [Signups -> Signup]
    /\ events \in [Tenants -> Nat]
    /\ wrote \in [Tenants -> Written] /\ patched \subseteq Tenants
    /\ edits \in Nat

\* A signup keeps its tenant to itself, and nothing is recorded of a tenant
\* before it is created.
SignupOwners ==
    /\ \A f \in Signups : signup[f].t = NoTenant \/ signup[f].t \in Known
    /\ \A f, g \in Signups : signup[f].t = signup[g].t => f = g \/ signup[f].t = NoTenant
    /\ \A t \in Tenants \ Known : wrote[t] = Unwritten

\* While a signup is in flight its tenant has not been announced, and the copy
\* that bring_up holds differs from the row only where somebody wrote since.
InFlight(f) ==
    LET t == signup[f].t
        c == signup[f].copy
    IN  signup[f].pc # "idle" =>
            /\ t \in Known
            /\ c.st = "PROVISIONING" /\ c.slug = tenants[t].slug
            /\ c.soul = 0 /\ c.handoff = 0
            /\ t \notin patched => tenants[t].number = c.number
            /\ events[t] = 0
            /\ ~wrote[t].risk => tenants[t].soul = 0 /\ tenants[t].handoff = 0
            /\ signup[f].pc = "spawned" => t \in running

TenantInv ==
    /\ TenantTypes
    /\ UniqueSlugs /\ OneTenantPerNumber
    /\ OnboardedMeansUp
    /\ SettingsKept
    /\ SignupOwners
    /\ \A f \in Signups : InFlight(f)

TenantStep ==
    \/ \E tok \in Cookies, t \in Tenants :
        \/ \E s \in Slugs, p \in Numbers \cup {NoNumber} : create_tenant(tok, t, s, p)
        \/ \E p \in Numbers : update_tenant(tok, t, p)
        \/ update_tenant_soul(tok, t)
        \/ update_tenant_handoff(tok, t)
        \/ \E f \in Signups, p \in Numbers, name \in Names :
               connect_whatsapp(f, tok, p, name, t)
    \/ \E f \in Signups : Spawned(f) \/ SignupFails(f) \/ bring_up(f)
    \/ UNCHANGED tenantVars /\ (UNCHANGED edits \/ Edit)

\* Every step of the workspace is one of these for tenants and signups.
LEMMA StepsOfTenants == Next => TenantStep
<1> USE DEF TenantStep
<1>1. ASSUME NEW e \in Emails, NEW pw \in Passwords, NEW tok \in Tokens,
             auth_login(e, pw, tok)
      PROVE  TenantStep
  BY <1>1 DEF auth_login
<1>2. ASSUME NEW tok \in Tokens, auth_logout(tok) \/ auth_me(tok)
      PROVE  TenantStep
  BY <1>2 DEF auth_logout, auth_me
<1>3. ASSUME NEW tok \in Cookies, NEW e \in Emails, NEW pw \in Passwords,
             NEW role \in {"ADMIN", "TENANT"}, NEW t \in Tenants \cup {NoTenant},
             auth_register(tok, e, pw, role, t)
      PROVE  TenantStep
  BY <1>3 DEF auth_register
<1>4. ASSUME NEW tok \in Cookies, list_tenants(tok)
      PROVE  TenantStep
  BY <1>4 DEF list_tenants
<1>5. ASSUME NEW tok \in Cookies, NEW p \in Numbers, connect_whatsapp_replay(tok, p)
      PROVE  TenantStep
  BY <1>5 DEF connect_whatsapp_replay
<1>6. ASSUME NEW t \in Tenants,
             \/ \E tok \in Cookies : get_tenant(tok, t) \/ search_resources(tok, t)
             \/ invoke_skill(t)
      PROVE  TenantStep
  BY <1>6 DEF get_tenant, search_resources, invoke_skill
<1>7. ASSUME NEW tok \in Cookies, NEW t \in Tenants, NEW x \in TemplateIds,
             \/ \E k \in Keys : \/ create_template(tok, t, x, k)
                                \/ \E st \in Statuses : update_template(tok, t, x, st, k)
             \/ delete_template(tok, t, x)
      PROVE  TenantStep
  BY <1>7 DEF create_template, update_template, delete_template
<1>8. ASSUME Clock PROVE TenantStep
  BY <1>8 DEF Clock
<1>9. QED
  BY <1>1, <1>2, <1>3, <1>4, <1>5, <1>6, <1>7, <1>8 DEF Next

\* The invariant holds of a workspace without tenants.
LEMMA TenantInvInit == Init => TenantInv
<1> SUFFICES ASSUME Init PROVE TenantInv
  OBVIOUS
<1>1. NoRow \in Row /\ NoRow.st = "none"
  BY DEF NoRow, Row, SlugSpace
<1>2. Idle \in Signup /\ Idle.pc = "idle" /\ Idle.t = NoTenant
  BY <1>1 DEF Idle, Signup
<1>3. Unwritten \in Written
  BY DEF Unwritten, Written
<1>4. TenantTypes
  BY <1>1, <1>2, <1>3 DEF Init, TenantTypes, Unwritten
<1>5. Known = {}
  BY <1>1 DEF Init, Known
<1>6. UniqueSlugs /\ OneTenantPerNumber /\ OnboardedMeansUp /\ SettingsKept
  BY <1>5 DEF Init, UniqueSlugs, OneTenantPerNumber, OnboardedMeansUp, SettingsKept
<1>7. SignupOwners /\ \A f \in Signups : InFlight(f)
  BY <1>2, <1>5 DEF Init, SignupOwners, InFlight, Unwritten
<1>8. QED
  BY <1>4, <1>6, <1>7 DEF TenantInv

\* PATCH of the number: the tenant counts as patched from now on.
LEMMA UpdateTenantKeeps ==
    ASSUME TenantInv, NEW tok, NEW t \in Tenants, NEW p \in Numbers, update_tenant(tok, t, p)
    PROVE  TenantInv'
<1>1. /\ t \in Known /\ edits' \in Nat
      /\ tenants' = [tenants EXCEPT ![t].number = p]
      /\ patched' = patched \cup {t}
      /\ UNCHANGED <<running, signup, events, wrote>>
  BY DEF update_tenant, Edit, TenantInv, TenantTypes
<1>2. /\ tenants' \in [Tenants -> Row]
      /\ \A w \in Tenants : /\ tenants'[w].st = tenants[w].st
                            /\ tenants'[w].slug = tenants[w].slug
                            /\ tenants'[w].soul = tenants[w].soul
                            /\ tenants'[w].handoff = tenants[w].handoff
                            /\ w # t => tenants'[w] = tenants[w]
  BY <1>1 DEF TenantInv, TenantTypes, Row
<1>3. Known' = Known
  BY <1>2 DEF Known
<1>4. TenantTypes'
  BY <1>1, <1>2 DEF TenantInv, TenantTypes
<1>5. UniqueSlugs' /\ OneTenantPerNumber'
  BY <1>1, <1>2, <1>3 DEF TenantInv, UniqueSlugs, OneTenantPerNumber, Known
<1>6. OnboardedMeansUp' /\ SettingsKept' /\ SignupOwners'
  BY <1>1, <1>2, <1>3 DEF TenantInv, OnboardedMeansUp, SettingsKept, SignupOwners, Known
<1>7. \A f \in Signups : InFlight(f)'
  BY <1>1, <1>2, <1>3 DEF TenantInv, InFlight, Known
<1>8. QED
  BY <1>4, <1>5, <1>6, <1>7 DEF TenantInv

\* PUT of the soul: the write is at risk if the tenant is signing up.
LEMMA UpdateSoulKeeps ==
    ASSUME TenantInv, NEW tok, NEW t \in Tenants, update_tenant_soul(tok, t)
    PROVE  TenantInv'
<1>1. /\ t \in Known /\ edits' \in Nat
      /\ tenants' = [tenants EXCEPT ![t].soul = edits']
      /\ wrote' = [wrote EXCEPT ![t].soul = edits', ![t].risk = @ \/ SigningUp(t)]
      /\ UNCHANGED <<running, signup, events, patched>>
  BY DEF update_tenant_soul, Edit, TenantInv, TenantTypes
<1>2. /\ tenants' \in [Tenants -> Row]
      /\ \A w \in Tenants : /\ tenants'[w].st = tenants[w].st
                            /\ tenants'[w].slug = tenants[w].slug
                            /\ tenants'[w].number = tenants[w].number
                            /\ w # t => tenants'[w] = tenants[w]
      /\ tenants'[t].soul = edits' /\ tenants'[t].handoff = tenants[t].handoff
  BY <1>1 DEF TenantInv, TenantTypes, Row
<1>3. /\ wrote' \in [Tenants -> Written]
      /\ \A w \in Tenants : w # t => wrote'[w] = wrote[w]
      /\ wrote'[t].soul = edits' /\ wrote'[t].handoff = wrote[t].handoff
      /\ wrote[t].risk \/ SigningUp(t) => wrote'[t].risk
  BY <1>1 DEF TenantInv, TenantTypes, Written
<1>4. Known' = Known
  BY <1>2 DEF Known
<1>5. TenantTypes'
  BY <1>1, <1>2, <1>3 DEF TenantInv, TenantTypes
<1>6. UniqueSlugs' /\ OneTenantPerNumber'
  BY <1>1, <1>2, <1>4 DEF TenantInv, UniqueSlugs, OneTenantPerNumber, Known
<1>7. OnboardedMeansUp'
  BY <1>1, <1>2 DEF TenantInv, OnboardedMeansUp
<1>8. SettingsKept'
  BY <1>1, <1>2, <1>3, <1>4 DEF TenantInv, SettingsKept, Known
<1>9. SignupOwners'
  BY <1>1, <1>3, <1>4 DEF TenantInv, SignupOwners
<1>10. ASSUME NEW f \in Signups PROVE InFlight(f)'
  <2>1. CASE signup[f].t = t
    BY <1>1, <1>2, <1>3, <1>4, <2>1 DEF TenantInv, InFlight, SigningUp, Known
  <2>2. CASE signup[f].t # t
    BY <1>1, <1>2, <1>3, <1>4, <2>2 DEF TenantInv, InFlight, Known
  <2>3. QED
    BY <2>1, <2>2
<1>11. QED
  BY <1>5, <1>6, <1>7, <1>8, <1>9, <1>10 DEF TenantInv

\* PUT of the handoff config, in the same way.
LEMMA UpdateHandoffKeeps ==
    ASSUME TenantInv, NEW tok, NEW t \in Tenants, update_tenant_handoff(tok, t)
    PROVE  TenantInv'
<1>1. /\ t \in Known /\ edits' \in Nat
      /\ tenants' = [tenants EXCEPT ![t].handoff = edits']
      /\ wrote' = [wrote EXCEPT ![t].handoff = edits', ![t].risk = @ \/ SigningUp(t)]
      /\ UNCHANGED <<running, signup, events, patched>>
  BY DEF update_tenant_handoff, Edit, TenantInv, TenantTypes
<1>2. /\ tenants' \in [Tenants -> Row]
      /\ \A w \in Tenants : /\ tenants'[w].st = tenants[w].st
                            /\ tenants'[w].slug = tenants[w].slug
                            /\ tenants'[w].number = tenants[w].number
                            /\ w # t => tenants'[w] = tenants[w]
      /\ tenants'[t].handoff = edits' /\ tenants'[t].soul = tenants[t].soul
  BY <1>1 DEF TenantInv, TenantTypes, Row
<1>3. /\ wrote' \in [Tenants -> Written]
      /\ \A w \in Tenants : w # t => wrote'[w] = wrote[w]
      /\ wrote'[t].handoff = edits' /\ wrote'[t].soul = wrote[t].soul
      /\ wrote[t].risk \/ SigningUp(t) => wrote'[t].risk
  BY <1>1 DEF TenantInv, TenantTypes, Written
<1>4. Known' = Known
  BY <1>2 DEF Known
<1>5. TenantTypes'
  BY <1>1, <1>2, <1>3 DEF TenantInv, TenantTypes
<1>6. UniqueSlugs' /\ OneTenantPerNumber'
  BY <1>1, <1>2, <1>4 DEF TenantInv, UniqueSlugs, OneTenantPerNumber, Known
<1>7. OnboardedMeansUp'
  BY <1>1, <1>2 DEF TenantInv, OnboardedMeansUp
<1>8. SettingsKept'
  BY <1>1, <1>2, <1>3, <1>4 DEF TenantInv, SettingsKept, Known
<1>9. SignupOwners'
  BY <1>1, <1>3, <1>4 DEF TenantInv, SignupOwners
<1>10. ASSUME NEW f \in Signups PROVE InFlight(f)'
  <2>1. CASE signup[f].t = t
    BY <1>1, <1>2, <1>3, <1>4, <2>1 DEF TenantInv, InFlight, SigningUp, Known
  <2>2. CASE signup[f].t # t
    BY <1>1, <1>2, <1>3, <1>4, <2>2 DEF TenantInv, InFlight, Known
  <2>3. QED
    BY <2>1, <2>2
<1>11. QED
  BY <1>5, <1>6, <1>7, <1>8, <1>9, <1>10 DEF TenantInv

\* A tenant comes to be, with a slug that is free and a number that no signup
\* gave to another: what create_tenant and connect_whatsapp have in common.
LEMMA NewTenantKeeps ==
    ASSUME TenantInv, NEW t \in Tenants \ Known,
           NEW s \in SlugSpace, by_slug(s) = {},
           NEW p \in Numbers \cup {NoNumber},
           tenants' = [tenants EXCEPT ![t] = NewRow(s, p)],
           patched \subseteq patched', patched' \subseteq Tenants,
           p # NoNumber => by_phone_number_id(p) = {} \/ t \in patched',
           UNCHANGED <<running, events, wrote>>
    PROVE  /\ tenants' \in [Tenants -> Row] /\ tenants'[t] = NewRow(s, p)
           /\ \A w \in Tenants : w # t => tenants'[w] = tenants[w]
           /\ Known' = Known \cup {t}
           /\ UniqueSlugs' /\ OneTenantPerNumber' /\ OnboardedMeansUp' /\ SettingsKept'
<1> DEFINE r == NewRow(s, p)
<1>1. /\ r \in Row /\ r.st = "PROVISIONING" /\ r.slug = s /\ r.number = p
      /\ r.soul = 0 /\ r.handoff = 0
  BY DEF NewRow, NoRow, Row
<1> HIDE DEF r
<1>2. /\ tenants' \in [Tenants -> Row] /\ tenants'[t] = r
      /\ \A w \in Tenants : w # t => tenants'[w] = tenants[w]
  BY <1>1 DEF r, TenantInv, TenantTypes
<1>3. Known' = Known \cup {t}
  BY <1>1, <1>2 DEF Known
<1>4. \A w \in Known : w # t /\ w \in Tenants /\ tenants[w].slug # s
  BY DEF by_slug, Known
<1>5. UniqueSlugs'
  BY <1>1, <1>2, <1>3, <1>4 DEF TenantInv, UniqueSlugs
<1>6. (p # NoNumber /\ t \notin patched') => \A w \in Known : tenants[w].number # p
  BY DEF by_phone_number_id
<1>7. OneTenantPerNumber'
  <2> SUFFICES ASSUME NEW v \in Known', NEW w \in Known', v # w,
                      tenants'[v].number = tenants'[w].number, tenants'[v].number # NoNumber
               PROVE  {v, w} \cap patched' # {}
    BY DEF OneTenantPerNumber
  <2>1. CASE v # t /\ w # t
    <3>1. v \in Known /\ w \in Known /\ tenants'[v] = tenants[v] /\ tenants'[w] = tenants[w]
      BY <1>2, <1>3, <2>1 DEF Known
    <3>2. {v, w} \cap patched # {}
      BY <3>1 DEF TenantInv, OneTenantPerNumber
    <3>3. QED
      BY <3>2
  <2>2. CASE v = t
    BY <1>1, <1>2, <1>3, <1>4, <1>6, <2>2
  <2>3. CASE w = t
    BY <1>1, <1>2, <1>3, <1>4, <1>6, <2>3
  <2>4. QED
    BY <2>1, <2>2, <2>3
<1>8. OnboardedMeansUp'
  BY <1>2 DEF TenantInv, OnboardedMeansUp, Known
<1>9. wrote[t] = Unwritten
  BY DEF TenantInv, SignupOwners
<1>10. SettingsKept'
  BY <1>1, <1>2, <1>3, <1>4, <1>9 DEF TenantInv, SettingsKept, Unwritten
<1>11. QED
  BY <1>2, <1>3, <1>5, <1>7, <1>8, <1>10 DEF r

\* POST /tenants.
LEMMA CreateTenantKeeps ==
    ASSUME TenantInv, NEW tok, NEW t \in Tenants, NEW s \in Slugs,
           NEW p \in Numbers \cup {NoNumber}, create_tenant(tok, t, s, p)
    PROVE  TenantInv'
<1>1. /\ t \in Tenants \ Known /\ edits' \in Nat /\ by_slug(s) = {} /\ s \in SlugSpace
      /\ tenants' = [tenants EXCEPT ![t] = NewRow(s, p)]
      /\ patched' = IF p = NoNumber THEN patched ELSE patched \cup {t}
      /\ UNCHANGED <<running, signup, events, wrote>>
  BY DEF create_tenant, Edit, TenantInv, TenantTypes, SlugSpace
<1>2. /\ patched \subseteq patched' /\ patched' \subseteq Tenants
      /\ \A w \in Tenants : w # t => (w \in patched' <=> w \in patched)
      /\ p # NoNumber => t \in patched'
  BY <1>1 DEF TenantInv, TenantTypes
<1>3. /\ tenants' \in [Tenants -> Row]
      /\ \A w \in Tenants : w # t => tenants'[w] = tenants[w]
      /\ Known' = Known \cup {t}
      /\ UniqueSlugs' /\ OneTenantPerNumber' /\ OnboardedMeansUp' /\ SettingsKept'
  BY <1>1, <1>2, NewTenantKeeps
<1>4. TenantTypes'
  BY <1>1, <1>2, <1>3 DEF TenantInv, TenantTypes
<1>5. SignupOwners'
  BY <1>1, <1>3 DEF TenantInv, SignupOwners
<1>6. \A f \in Signups : InFlight(f)'
  BY <1>1, <1>2, <1>3 DEF TenantInv, InFlight, Known
<1>7. QED
  BY <1>3, <1>4, <1>5, <1>6 DEF TenantInv

\* A new signup: the slug is free by UniqueSlugIsFree, the number by the look-up.
LEMMA ConnectKeeps ==
    ASSUME TenantInv, NEW tok, NEW f \in Signups, NEW p \in Numbers, NEW name \in Names,
           NEW t \in Tenants, connect_whatsapp(f, tok, p, name, t)
    PROVE  TenantInv'
<1> DEFINE s == _unique_slug(Slugify[name])
<1> DEFINE r == NewRow(s, p)
<1>1. /\ t \in Tenants \ Known /\ by_phone_number_id(p) = {}
      /\ signup[f].t = NoTenant
      /\ tenants' = [tenants EXCEPT ![t] = r]
      /\ signup' = [signup EXCEPT ![f] = [pc |-> "spawn", copy |-> r, t |-> t]]
      /\ UNCHANGED <<running, events, wrote, patched, edits>>
  BY DEF connect_whatsapp
<1>2. by_slug(s) = {} /\ s \in SlugSpace
  BY UniqueSlugIsFree
<1> HIDE DEF s
<1>3. patched \subseteq patched' /\ patched' \subseteq Tenants
  BY <1>1 DEF TenantInv, TenantTypes
<1>4. /\ tenants' \in [Tenants -> Row] /\ tenants'[t] = r
      /\ \A w \in Tenants : w # t => tenants'[w] = tenants[w]
      /\ Known' = Known \cup {t}
      /\ UniqueSlugs' /\ OneTenantPerNumber' /\ OnboardedMeansUp' /\ SettingsKept'
  BY <1>1, <1>2, <1>3, NewTenantKeeps
<1>5. /\ r \in Row /\ r.st = "PROVISIONING" /\ r.soul = 0 /\ r.handoff = 0
  BY <1>2 DEF NewRow, NoRow, Row
<1> HIDE DEF r
<1>6. /\ signup' \in [Signups -> Signup]
      /\ signup'[f].pc = "spawn" /\ signup'[f].copy = r /\ signup'[f].t = t
      /\ \A g \in Signups : g # f => signup'[g] = signup[g]
  BY <1>1, <1>5 DEF TenantInv, TenantTypes, Signup
<1>7. TenantTypes'
  BY <1>1, <1>4, <1>6 DEF TenantInv, TenantTypes
<1>8. \A g \in Signups : signup[g].t # t
  BY <1>1, AccountsAssumption DEF TenantInv, SignupOwners
<1>9. SignupOwners'
  BY <1>1, <1>4, <1>6, <1>8 DEF TenantInv, SignupOwners
<1>10. events[t] = 0
  BY <1>1 DEF TenantInv, TenantTypes, OnboardedMeansUp, Known
<1>11. \A g \in Signups : InFlight(g)'
  <2>1. InFlight(f)'
    BY <1>1, <1>4, <1>5, <1>6, <1>10 DEF InFlight
  <2>2. ASSUME NEW g \in Signups, g # f PROVE InFlight(g)'
    BY <1>1, <1>4, <1>6, <1>8, <2>2 DEF TenantInv, InFlight, Known
  <2>3. QED
    BY <2>1, <2>2
<1>12. QED
  BY <1>4, <1>7, <1>9, <1>11 DEF TenantInv

\* The spawner answers, or fails: the rows stay as they are.
LEMMA SpawnerKeeps ==
    ASSUME TenantInv, NEW f \in Signups, Spawned(f) \/ SignupFails(f)
    PROVE  TenantInv'
<1>1. /\ UNCHANGED <<tenants, events, wrote, patched, edits>>
      /\ running \subseteq running'
  BY DEF Spawned, SignupFails
<1>2. signup[f].pc # "idle" /\ signup[f].t \in Known /\ Known \subseteq Tenants
  BY DEF Spawned, SignupFails, TenantInv, InFlight, Known
<1>3. NoRow \in Row
  BY DEF NoRow, Row, SlugSpace
<1>4. /\ signup' \in [Signups -> Signup]
      /\ signup'[f].t = signup[f].t
      /\ signup'[f].pc # "idle" => signup'[f].copy = signup[f].copy /\ signup[f].t \in running'
      /\ \A g \in Signups : g # f => signup'[g] = signup[g]
  <2>1. CASE Spawned(f)
    BY <2>1 DEF Spawned, TenantInv, TenantTypes, Signup
  <2>2. CASE SignupFails(f)
    BY <1>3, <2>2 DEF SignupFails, Idle, TenantInv, TenantTypes, Signup
  <2>3. QED
    BY <2>1, <2>2
<1>5. running' \subseteq Tenants
  BY <1>2 DEF Spawned, SignupFails, TenantInv, TenantTypes
<1>6. TenantTypes' /\ Known' = Known
  BY <1>1, <1>4, <1>5 DEF TenantInv, TenantTypes, Known
<1>7. UniqueSlugs' /\ OneTenantPerNumber' /\ OnboardedMeansUp' /\ SettingsKept'
  BY <1>1, <1>6 DEF TenantInv, UniqueSlugs, OneTenantPerNumber, OnboardedMeansUp, SettingsKept
<1>8. \A g \in Signups : signup'[g].t = signup[g].t
  BY <1>4
<1>9. SignupOwners'
  BY <1>1, <1>6, <1>8 DEF TenantInv, SignupOwners
<1>10. \A g \in Signups : InFlight(g)'
  <2>1. InFlight(f)'
    BY <1>1, <1>2, <1>4, <1>6 DEF TenantInv, InFlight
  <2>2. ASSUME NEW g \in Signups, g # f PROVE InFlight(g)'
    BY <1>1, <1>4, <1>6, <2>2 DEF TenantInv, InFlight
  <2>3. QED
    BY <2>1, <2>2
<1>11. QED
  BY <1>6, <1>7, <1>9, <1>10 DEF TenantInv

\* bring_up writes its copy: the slug is the same, the number unless it was
\* patched, and a config unless it is marked as written at risk.
LEMMA BringUpKeeps ==
    ASSUME TenantInv, NEW f \in Signups, bring_up(f)
    PROVE  TenantInv'
<1> DEFINE t == signup[f].t
<1> DEFINE c == signup[f].copy
<1>1. /\ signup[f].pc = "spawned"
      /\ tenants' = [tenants EXCEPT ![t] = [c EXCEPT !.st = "ACTIVE"]]
      /\ events' = [events EXCEPT ![t] = @ + 1]
      /\ signup' = [signup EXCEPT ![f] = [Idle EXCEPT !.t = t]]
      /\ UNCHANGED <<running, wrote, patched, edits>>
  BY DEF bring_up
<1>2. /\ t \in Known /\ t \in Tenants /\ c \in Row /\ c.slug = tenants[t].slug
      /\ c.soul = 0 /\ c.handoff = 0
      /\ t \notin patched => tenants[t].number = c.number
      /\ events[t] = 0 /\ t \in running
      /\ ~wrote[t].risk => tenants[t].soul = 0 /\ tenants[t].handoff = 0
  BY <1>1 DEF TenantInv, InFlight, TenantTypes, Signup, Known
<1> HIDE DEF t, c
<1>3. /\ tenants' \in [Tenants -> Row] /\ tenants'[t].st = "ACTIVE"
      /\ tenants'[t].slug = tenants[t].slug
      /\ tenants'[t].soul = 0 /\ tenants'[t].handoff = 0
      /\ t \notin patched => tenants'[t].number = tenants[t].number
      /\ \A w \in Tenants : w # t => tenants'[w] = tenants[w]
  BY <1>1, <1>2 DEF TenantInv, TenantTypes, Row
<1>4. NoRow \in Row
  BY DEF NoRow, Row, SlugSpace
<1>5. /\ signup' \in [Signups -> Signup]
      /\ signup'[f].t = t /\ signup'[f].pc = "idle"
      /\ \A g \in Signups : g # f => signup'[g] = signup[g]
  BY <1>1, <1>2, <1>4 DEF Idle, TenantInv, TenantTypes, Signup
<1>6. /\ events' \in [Tenants -> Nat] /\ events'[t] = 1
      /\ \A w \in Tenants : w # t => events'[w] = events[w]
  BY <1>1, <1>2 DEF TenantInv, TenantTypes
<1>7. Known' = Known
  BY <1>2, <1>3 DEF Known
<1>8. TenantTypes'
  BY <1>1, <1>3, <1>5, <1>6 DEF TenantInv, TenantTypes
<1>9. UniqueSlugs'
  BY <1>3, <1>7 DEF TenantInv, UniqueSlugs, Known
<1>10. OneTenantPerNumber'
  <2> SUFFICES ASSUME NEW v \in Known, NEW w \in Known, v # w,
                      tenants'[v].number = tenants'[w].number, tenants'[v].number # NoNumber,
                      v \notin patched, w \notin patched
               PROVE  FALSE
    BY <1>1, <1>7 DEF OneTenantPerNumber
  <2>1. tenants'[v].number = tenants[v].number /\ tenants'[w].number = tenants[w].number
    BY <1>3 DEF Known
  <2>2. QED
    BY <2>1 DEF TenantInv, OneTenantPerNumber
<1>11. OnboardedMeansUp'
  BY <1>1, <1>2, <1>3, <1>6 DEF TenantInv, OnboardedMeansUp
<1>12. SettingsKept'
  <2> SUFFICES ASSUME NEW w \in Known, ~wrote[w].risk
               PROVE  tenants'[w].soul = wrote[w].soul /\ tenants'[w].handoff = wrote[w].handoff
    BY <1>1, <1>7 DEF SettingsKept
  <2>1. tenants[w].soul = wrote[w].soul /\ tenants[w].handoff = wrote[w].handoff
    BY DEF TenantInv, SettingsKept
  <2>2. QED
    BY <1>2, <1>3, <2>1 DEF Known
<1>13. \A g \in Signups : signup'[g].t = signup[g].t
  BY <1>5 DEF t
<1>14. SignupOwners'
  BY <1>1, <1>7, <1>13 DEF TenantInv, SignupOwners
<1>15. \A g \in Signups : InFlight(g)'
  <2>1. InFlight(f)'
    BY <1>5 DEF InFlight
  <2>2. ASSUME NEW g \in Signups, g # f, signup[g].pc # "idle" PROVE InFlight(g)'
    <3>1. signup[g].t \in Known /\ signup[g].t \in Tenants /\ signup[g].t # t
      BY <1>2, <2>2, AccountsAssumption DEF TenantInv, SignupOwners, InFlight, Known, t
    <3>2. QED
      BY <1>1, <1>3, <1>5, <1>6, <1>7, <2>2, <3>1 DEF TenantInv, InFlight
  <2>3. ASSUME NEW g \in Signups, g # f, signup[g].pc = "idle" PROVE InFlight(g)'
    BY <1>5, <2>3 DEF InFlight
  <2>4. QED
    BY <2>1, <2>2, <2>3
<1>16. QED
  BY <1>8, <1>9, <1>10, <1>11, <1>12, <1>14, <1>15 DEF TenantInv

\* Every write to tenants and signups keeps the invariant.
LEMMA TenantInvStep == TenantInv /\ TenantStep => TenantInv'
<1> SUFFICES ASSUME TenantInv, TenantStep PROVE TenantInv'
  OBVIOUS
<1>1. ASSUME UNCHANGED tenantVars, UNCHANGED edits \/ Edit PROVE TenantInv'
  <2>1. TenantTypes'
    BY <1>1 DEF tenantVars, Edit, TenantInv, TenantTypes
  <2>2. Known' = Known
    BY <1>1 DEF tenantVars, Known
  <2>3. UniqueSlugs' /\ OneTenantPerNumber' /\ OnboardedMeansUp' /\ SettingsKept'
    BY <1>1, <2>2 DEF tenantVars, TenantInv, UniqueSlugs, OneTenantPerNumber,
                      OnboardedMeansUp, SettingsKept
  <2>4. SignupOwners' /\ \A f \in Signups : InFlight(f)'
    BY <1>1, <2>2 DEF tenantVars, TenantInv, SignupOwners, InFlight
  <2>5. QED
    BY <2>1, <2>3, <2>4 DEF TenantInv
<1>2. QED
  BY <1>1, CreateTenantKeeps, UpdateTenantKeeps, UpdateSoulKeeps, UpdateHandoffKeeps,
     ConnectKeeps, SpawnerKeeps, BringUpKeeps DEF TenantStep

(***************************************************************************)
(* Templates and tenant isolation.                                         *)
(***************************************************************************)
Template == [st : Statuses \cup {"none"}, tenant : Tenants \cup {NoTenant},
             key : Keys \cup {0}, submitted : Nat, approved : Nat]

TemplateInv ==
    /\ templates \in [TemplateIds -> Template]
    /\ \A x \in TemplateIds : templates[x].st = "none" => templates[x] = NoTemplate

\* An authenticated request carries a live session of a user.
LEMMA LiveSession ==
    ASSUME AccountInv, NEW tok, authenticate(tok) # NoUser
    PROVE  /\ authenticate(tok) \in users
           /\ \E s \in sessions : /\ s.token = tok /\ s.expires > now
                                  /\ s.email = authenticate(tok).email
<1>1. PICK s \in Accepted(tok) : TRUE
  BY DEF authenticate
<1>2. s \in sessions /\ \E u \in users : u.email = s.email
  BY <1>1 DEF Accepted, AccountInv, OneIdentity
<1> DEFINE P(u) == \E r \in Accepted(tok) : u.email = r.email
<1>3. \E u \in users : P(u)
  BY <1>1, <1>2
<1>4. authenticate(tok) = CHOOSE u \in users : P(u)
  BY <1>1 DEF authenticate
<1> HIDE DEF P
<1>5. authenticate(tok) \in users /\ P(authenticate(tok))
  BY <1>3, <1>4
<1>6. QED
  BY <1>5 DEF P, Accepted

\* _assert_admin: the session is an administrator's, who may touch any tenant.
LEMMA AdminAdmitted ==
    ASSUME AccountInv, AuthRequired, NEW tok, NEW t, _assert_admin(tok)
    PROVE  Admitted(tok, t)
  BY LiveSession DEF _assert_admin, _assert_authenticated, Admitted

\* _assert_tenant_access: the session is an administrator's or the tenant's own.
LEMMA OwnerAdmitted ==
    ASSUME AccountInv, AuthRequired, NEW tok, NEW t, _assert_tenant_access(tok, t)
    PROVE  Admitted(tok, t)
  BY LiveSession DEF _assert_tenant_access, _assert_authenticated, Admitted

\* _filter_visible_tenants: nothing is listed that could not be read singly.
LEMMA VisibleAdmitted ==
    ASSUME AccountInv, AuthRequired, NEW tok, NEW T, NEW t \in _filter_visible_tenants(tok, T)
    PROVE  Admitted(tok, t) /\ t \in T
  BY LiveSession, AccountsAssumption DEF _filter_visible_tenants, Admitted, AccountInv

TemplateWrite(tok, t, x) ==
    \/ \E k \in Keys : \/ create_template(tok, t, x, k)
                       \/ \E st \in Statuses : update_template(tok, t, x, st, k)
    \/ delete_template(tok, t, x)

\* A template write leaves the rows of other templates, and says whose it was.
LEMMA TemplateStep ==
    ASSUME AccountInv, TemplateInv, NEW tok, NEW t \in Tenants, NEW x \in TemplateIds,
           TemplateWrite(tok, t, x)
    PROVE  /\ TemplateInv'
           /\ \A y \in TemplateIds : y # x => templates'[y] = templates[y]
           /\ {templates[x].tenant, templates'[x].tenant} \cap Tenants \subseteq {t}
<1>1. NoTemplate \in Template /\ NoTemplate.tenant = NoTenant
  BY DEF NoTemplate, Template
<1>2. ASSUME NEW k \in Keys, create_template(tok, t, x, k)
      PROVE  /\ TemplateInv'
             /\ \A y \in TemplateIds : y # x => templates'[y] = templates[y]
             /\ {templates[x].tenant, templates'[x].tenant} \cap Tenants \subseteq {t}
  <2> DEFINE new == [NoTemplate EXCEPT !.st = "DRAFT", !.tenant = t, !.key = k]
  <2>1. new \in Template /\ new.tenant = t /\ new.st = "DRAFT"
    BY DEF NoTemplate, Template, Statuses
  <2>2. templates[x] = NoTemplate /\ templates' = [templates EXCEPT ![x] = new]
    BY <1>2 DEF create_template, TemplateInv
  <2> HIDE DEF new
  <2>3. QED
    BY <1>1, <2>1, <2>2, AccountsAssumption DEF TemplateInv
<1>3. ASSUME NEW k \in Keys, NEW st \in Statuses, update_template(tok, t, x, st, k)
      PROVE  /\ TemplateInv'
             /\ \A y \in TemplateIds : y # x => templates'[y] = templates[y]
             /\ {templates[x].tenant, templates'[x].tenant} \cap Tenants \subseteq {t}
  <2> DEFINE new == [stamped(templates[x], st) EXCEPT !.key = k]
  <2>1. /\ templates[x] \in Template /\ templates[x].tenant = t /\ now \in Nat
        /\ templates' = [templates EXCEPT ![x] = new]
    BY <1>3 DEF update_template, TemplateInv, AccountInv
  <2>2. stamped(templates[x], st) \in Template
        /\ stamped(templates[x], st).tenant = t /\ stamped(templates[x], st).st = st
    <3> DEFINE r == templates[x]
               sub == IF st = "SUBMITTED" /\ r.submitted = 0 THEN now + 1 ELSE r.submitted
               app == IF st = "APPROVED" /\ r.approved = 0 THEN now + 1 ELSE r.approved
    <3>1. sub \in Nat /\ app \in Nat
      BY <2>1 DEF Template
    <3>2. stamped(r, st) = [r EXCEPT !.st = st, !.submitted = sub, !.approved = app]
      BY <2>1 DEF stamped, Template
    <3> HIDE DEF sub, app
    <3>3. QED
      BY <2>1, <3>1, <3>2 DEF Template
  <2>3. new \in Template /\ new.tenant = t /\ new.st # "none"
    BY <2>2 DEF Template, Statuses
  <2> HIDE DEF new
  <2>4. QED
    BY <2>1, <2>3 DEF TemplateInv
<1>4. ASSUME delete_template(tok, t, x)
      PROVE  /\ TemplateInv'
             /\ \A y \in TemplateIds : y # x => templates'[y] = templates[y]
             /\ {templates[x].tenant, templates'[x].tenant} \cap Tenants \subseteq {t}
  BY <1>1, <1>4, AccountsAssumption DEF delete_template, TemplateInv
<1>5. QED
  BY <1>2, <1>3, <1>4 DEF TemplateWrite

\* A step that writes neither rows nor templates touches no tenant.
LEMMA QuietStep ==
    ASSUME UNCHANGED tenants, UNCHANGED templates
    PROVE  \A t \in Tenants : ~TouchesTenant(t)
  BY DEF TouchesTenant

\* A step that writes one tenant's row and no template touches that tenant only.
LEMMA RowStep ==
    ASSUME NEW t \in Tenants, NEW r, TenantTypes, UNCHANGED templates,
           tenants' = [tenants EXCEPT ![t] = r]
    PROVE  \A w \in Tenants : TouchesTenant(w) => w = t
  BY DEF TouchesTenant, TenantTypes

\* The inductive invariant of the workspace.
Inv == AccountInv /\ TenantInv /\ TemplateInv

\* The invariant holds initially.
LEMMA InvInit == Init => Inv
<1>1. Init => TemplateInv
  BY DEF Init, TemplateInv, NoTemplate, Template
<1>2. QED
  BY <1>1, AccountInvInit, TenantInvInit DEF Inv

\* Only the template endpoints write templates, and they keep the invariant.
LEMMA TemplateInvStep == Inv /\ Next => TemplateInv'
<1> SUFFICES ASSUME Inv, Next PROVE TemplateInv'
  OBVIOUS
<1>1. ASSUME UNCHANGED templates PROVE TemplateInv'
  BY <1>1 DEF Inv, TemplateInv
<1>2. ASSUME NEW tok \in Cookies, NEW t \in Tenants, NEW x \in TemplateIds,
             TemplateWrite(tok, t, x)
      PROVE  TemplateInv'
  BY <1>2, TemplateStep DEF Inv
<1>3. ASSUME NEW tok, \/ \E e, pw : auth_login(e, pw, tok)
                      \/ auth_logout(tok) \/ auth_me(tok)
                      \/ \E e, pw, role, t : auth_register(tok, e, pw, role, t)
      PROVE  UNCHANGED templates
  BY <1>3 DEF auth_login, auth_logout, auth_me, auth_register
<1>4. ASSUME NEW tok, \/ list_tenants(tok) \/ \E p : connect_whatsapp_replay(tok, p)
                      \/ \E f, p, name, t : connect_whatsapp(f, tok, p, name, t)
      PROVE  UNCHANGED templates
  BY <1>4 DEF list_tenants, connect_whatsapp_replay, connect_whatsapp
<1>5. ASSUME NEW tok, NEW t, \/ get_tenant(tok, t) \/ search_resources(tok, t)
                             \/ invoke_skill(t)
                             \/ \E s, p : create_tenant(tok, t, s, p)
                             \/ \E p : update_tenant(tok, t, p)
                             \/ update_tenant_soul(tok, t) \/ update_tenant_handoff(tok, t)
      PROVE  UNCHANGED templates
  BY <1>5 DEF get_tenant, search_resources, invoke_skill, create_tenant, update_tenant,
              update_tenant_soul, update_tenant_handoff
<1>6. ASSUME NEW f, Spawned(f) \/ SignupFails(f) \/ bring_up(f)
      PROVE  UNCHANGED templates
  BY <1>6 DEF Spawned, SignupFails, bring_up
<1>7. ASSUME Clock PROVE UNCHANGED templates
  BY <1>7 DEF Clock
<1>8. QED
  BY <1>1, <1>2, <1>3, <1>4, <1>5, <1>6, <1>7 DEF Next, TemplateWrite

\* The invariant is inductive.
LEMMA InvStep == Inv /\ [Next]_vars => Inv'
<1> SUFFICES ASSUME Inv, [Next]_vars PROVE Inv'
  OBVIOUS
<1>1. CASE Next
  BY <1>1, StepsOfAccounts, StepsOfTenants, AccountInvStep, TenantInvStep, TemplateInvStep
  DEF Inv
<1>2. CASE UNCHANGED vars
  <2>1. UNCHANGED accountVars /\ UNCHANGED tenantVars /\ UNCHANGED edits
    BY <1>2 DEF vars
  <2>2. AccountStep /\ TenantStep
    BY <2>1 DEF AccountStep, TenantStep
  <2>3. TemplateInv'
    BY <1>2 DEF vars, Inv, TemplateInv
  <2>4. QED
    BY <2>2, <2>3, AccountInvStep, TenantInvStep DEF Inv
<1>3. QED
  BY <1>1, <1>2

\* Every step leaves the tenants alone that its request may not touch.
LEMMA IsolatedStep == Inv /\ Next => Isolated
<1> SUFFICES ASSUME Inv, Next, AuthRequired, NEW w \in Tenants,
                    w \in by'.saw \cup by'.searched \/ TouchesTenant(w)
             PROVE  \/ Admitted(by'.tok, w)
                    \/ \E f \in Signups : signup[f].pc = "spawned" /\ signup[f].t = w
                    \/ Unguarded(w)
  BY DEF Isolated
<1> DEFINE Goal == \/ Admitted(by'.tok, w)
                   \/ \E f \in Signups : signup[f].pc = "spawned" /\ signup[f].t = w
                   \/ Unguarded(w)
<1>0. AccountInv /\ TenantTypes /\ TemplateInv
  BY DEF Inv, TenantInv
<1>1. ASSUME UNCHANGED tenants, UNCHANGED templates, w \notin by'.saw, by'.searched = {}
      PROVE  FALSE
  BY <1>1, QuietStep
<1>2. ASSUME NEW e, NEW pw, NEW tok, auth_login(e, pw, tok) PROVE FALSE
  BY <1>1, <1>2 DEF auth_login, Nobody, As, tenantVars
<1>3. ASSUME NEW tok, auth_logout(tok) \/ auth_me(tok) PROVE FALSE
  BY <1>1, <1>3 DEF auth_logout, auth_me, Nobody, As, tenantVars
<1>4. ASSUME NEW tok, NEW e, NEW pw, NEW role, NEW t, auth_register(tok, e, pw, role, t)
      PROVE  FALSE
  BY <1>1, <1>4 DEF auth_register, Request, As, tenantVars
<1>5. ASSUME NEW tok, list_tenants(tok) PROVE Goal
  <2>1. UNCHANGED tenants /\ UNCHANGED templates /\ by'.tok = tok
        /\ by'.saw = _filter_visible_tenants(tok, Known) /\ by'.searched = {}
    BY <1>5 DEF list_tenants, Request, As, tenantVars
  <2>2. QED
    BY <1>0, <1>1, <2>1, VisibleAdmitted
<1>6. ASSUME NEW tok, NEW p, connect_whatsapp_replay(tok, p) PROVE Goal
  <2>1. _assert_admin(tok) /\ by'.tok = tok
    BY <1>6 DEF connect_whatsapp_replay, Request, As
  <2>2. QED
    BY <1>0, <2>1, AdminAdmitted
<1>7. ASSUME NEW tok, NEW f, NEW p, NEW name, NEW t, connect_whatsapp(f, tok, p, name, t)
      PROVE  Goal
  <2>1. _assert_admin(tok) /\ by'.tok = tok
    BY <1>7 DEF connect_whatsapp, Request, As
  <2>2. QED
    BY <1>0, <2>1, AdminAdmitted
<1>8. ASSUME NEW tok, NEW t, NEW s, NEW p, create_tenant(tok, t, s, p) PROVE Goal
  <2>1. _assert_admin(tok) /\ by'.tok = tok
    BY <1>8 DEF create_tenant, Request, As
  <2>2. QED
    BY <1>0, <2>1, AdminAdmitted
<1>9. ASSUME NEW tok, NEW t \in Tenants, get_tenant(tok, t) PROVE Goal
  <2>1. /\ _assert_tenant_access(tok, t) /\ by'.tok = tok /\ by'.saw = {t}
        /\ by'.searched = {} /\ UNCHANGED tenants /\ UNCHANGED templates
    BY <1>9 DEF get_tenant, Request, As, tenantVars
  <2>2. QED
    BY <1>0, <1>1, <2>1, OwnerAdmitted
<1>10. ASSUME NEW tok, NEW t \in Tenants, NEW r, _assert_tenant_access(tok, t),
              by' = As(tok, {t}), UNCHANGED templates,
              tenants' = [tenants EXCEPT ![t] = r]
       PROVE  Goal
  <2>1. w = t /\ by'.tok = tok
    BY <1>0, <1>10, RowStep DEF As
  <2>2. QED
    BY <1>0, <1>10, <2>1, OwnerAdmitted
<1>11. ASSUME NEW tok, NEW t \in Tenants, NEW p, update_tenant(tok, t, p) PROVE Goal
  <2>1. tenants' = [tenants EXCEPT ![t] = [tenants[t] EXCEPT !.number = p]]
    BY <1>0, <1>11 DEF update_tenant
  <2>2. QED
    BY <1>10, <1>11, <2>1 DEF update_tenant, Request
<1>12. ASSUME NEW tok, NEW t \in Tenants, update_tenant_soul(tok, t) PROVE Goal
  <2>1. tenants' = [tenants EXCEPT ![t] = [tenants[t] EXCEPT !.soul = edits']]
    BY <1>0, <1>12 DEF update_tenant_soul
  <2>2. QED
    BY <1>10, <1>12, <2>1 DEF update_tenant_soul, Request
<1>13. ASSUME NEW tok, NEW t \in Tenants, update_tenant_handoff(tok, t) PROVE Goal
  <2>1. tenants' = [tenants EXCEPT ![t] = [tenants[t] EXCEPT !.handoff = edits']]
    BY <1>0, <1>13 DEF update_tenant_handoff
  <2>2. QED
    BY <1>10, <1>13, <2>1 DEF update_tenant_handoff, Request
<1>14. ASSUME NEW tok, NEW t \in Tenants, NEW x \in TemplateIds,
              TemplateWrite(tok, t, x)
       PROVE  Goal
  <2>1. /\ _assert_tenant_access(tok, t) /\ by'.tok = tok /\ by'.saw \subseteq {t}
        /\ by'.searched = {} /\ UNCHANGED tenants
    <3>1. CASE \E k \in Keys : create_template(tok, t, x, k)
      BY <3>1 DEF create_template, Request, As, tenantVars
    <3>2. CASE \E k \in Keys, st \in Statuses : update_template(tok, t, x, st, k)
      BY <3>2 DEF update_template, Request, As, tenantVars
    <3>3. CASE delete_template(tok, t, x)
      BY <3>3 DEF delete_template, Request, As, tenantVars
    <3>4. QED
      BY <1>14, <3>1, <3>2, <3>3 DEF TemplateWrite
  <2>2. /\ \A y \in TemplateIds : y # x => templates'[y] = templates[y]
        /\ {templates[x].tenant, templates'[x].tenant} \cap Tenants \subseteq {t}
    BY <1>0, <1>14, TemplateStep
  <2>3. w = t
    BY <2>1, <2>2 DEF TouchesTenant
  <2>4. QED
    BY <1>0, <2>1, <2>3, OwnerAdmitted
<1>15. ASSUME NEW f, Spawned(f) \/ SignupFails(f) PROVE FALSE
  BY <1>1, <1>15 DEF Spawned, SignupFails, Nobody, As
<1>16. ASSUME NEW f \in Signups, bring_up(f) PROVE Goal
  <2>1. /\ signup[f].pc = "spawned" /\ by'.saw = {signup[f].t} /\ UNCHANGED templates
        /\ by'.searched = {}
        /\ tenants' = [tenants EXCEPT ![signup[f].t] =
                            [signup[f].copy EXCEPT !.st = "ACTIVE"]]
    BY <1>16 DEF bring_up, As
  <2>2. signup[f].t \in Tenants
    BY <2>1 DEF Inv, TenantInv, InFlight, Known
  <2>3. w = signup[f].t
    BY <1>0, <2>1, <2>2, RowStep
  <2>4. QED
    BY <2>1, <2>3
<1>17. ASSUME Clock PROVE FALSE
  BY <1>1, <1>17 DEF Clock, Nobody, As, tenantVars
<1>18. ASSUME NEW tok, NEW t, search_resources(tok, t) PROVE Goal
  <2>1. /\ _assert_tenant_access(tok, t) /\ UNCHANGED tenants /\ UNCHANGED templates
        /\ by'.tok = tok /\ by'.saw = {} /\ by'.searched = {t}
    BY <1>18 DEF search_resources, As, tenantVars
  <2>2. w = t
    BY <2>1, QuietStep
  <2>3. QED
    BY <1>0, <2>1, <2>2, OwnerAdmitted
<1>19. ASSUME NEW t, invoke_skill(t) PROVE Goal
  <2>1. /\ UNCHANGED tenants /\ UNCHANGED templates
        /\ by'.saw = {} /\ by'.checked = FALSE
    BY <1>19 DEF invoke_skill, As, tenantVars
  <2>2. QED
    BY <2>1, QuietStep DEF Unguarded
<1> HIDE DEF Goal
<1>20. Goal
  BY <1>2, <1>3, <1>4, <1>5, <1>6, <1>7, <1>8, <1>9, <1>11, <1>12, <1>13, <1>14, <1>15,
     <1>16, <1>17, <1>18, <1>19 DEF Next, TemplateWrite
<1>21. QED
  BY <1>20 DEF Goal

(***************************************************************************)
(* The theorems.                                                           *)
(***************************************************************************)
\* Every reachable state of the workspace satisfies the invariant.
THEOREM Invariance == Spec => []Inv
  BY InvInit, InvStep, PTL DEF Spec

\* Registration, tenant creation and signups keep their keys unique (register,
\* TenantManager.create, OnboardingFlow.run), for any number of requests in
\* any order: one user per e-mail, one session per token, one tenant per slug,
\* and one per number unless a number was set by hand.
THEOREM KeysAreUnique == Spec => []UniqueKeys
<1>1. Inv => UniqueKeys
  BY DEF Inv, AccountInv, TenantInv, UniqueKeys
<1>2. QED
  BY <1>1, Invariance, PTL

\* tenant.onboarded is published at most once for a tenant, which is up
\* (bring_up), whatever other requests did while the spawner worked.
THEOREM OnboardingAnnouncesOnce == Spec => []OnboardedMeansUp
<1>1. Inv => OnboardedMeansUp
  BY DEF Inv, TenantInv
<1>2. QED
  BY <1>1, Invariance, PTL

\* The stale copy that bring_up saves can lose only configs that were written
\* while that signup was in flight.
THEOREM OnlySignupsLoseSettings == Spec => []SettingsKept
<1>1. Inv => SettingsKept
  BY DEF Inv, TenantInv
<1>2. QED
  BY <1>1, Invariance, PTL

\* With auth required, no request that is checked sees or changes a tenant that
\* its live session may not touch, and one that is not checked, a skill call,
\* reaches no tenant's row or templates (_assert_admin, _assert_tenant_access, _filter_visible_tenants
\* and the tenant check of the template endpoints).
THEOREM TenantsAreIsolated == Spec => TenantIsolation
<1>1. Inv /\ [Next]_vars => [Isolated]_vars
  BY IsolatedStep
<1>2. QED
  BY <1>1, Invariance, PTL DEF Spec, TenantIsolation

\* AuthService's sessions implement SessionLifetime: a token is opened once and
\* never admits anyone again after logout or expiry.
THEOREM SessionsImplementLifetime == Spec => SessionsEndForGood
<1>1. Init => SL!Init
  BY DEF Init, AccountsInit, SL!Init, Valid
<1>2. Inv /\ Inv' /\ [Next]_vars => [SL!Next]_<<Valid, left \cup (issued \ Valid)>>
  <2> SUFFICES ASSUME Inv, Inv', [Next]_vars
               PROVE  [SL!Next]_<<Valid, left \cup (issued \ Valid)>>
    OBVIOUS
  <2>1. AccountStep
    BY StepsOfAccounts DEF AccountStep, vars
  <2>2. QED
    BY <2>1, SessionStep DEF Inv
<1>3. QED
  BY <1>1, <1>2, Invariance, PTL DEF Spec, SessionsEndForGood, SL!Spec
=============================================================================
