------------------------------ MODULE Accounts ------------------------------
(***************************************************************************)
(* AuthService (auth/service.py) over the user and session repositories,   *)
(* and the access control helpers of main.py.  Every guarded endpoint      *)
(* authenticates its cookie first, and authenticating an expired session   *)
(* deletes it, so a rejected request changes state too.                    *)
(***************************************************************************)
EXTENDS Naturals, FiniteSets

CONSTANTS
    Emails,          \* what users type
    Lower,           \* e-mail.strip().lower(), a function on Emails
    Malformed,       \* e-mails that _validate_email refuses
    Passwords,
    Weak,            \* passwords that _validate_password refuses
    Tenants,         \* tenant ids
    NoTenant,        \* tenant_id is None
    Tokens,          \* session tokens, never drawn twice
    NoToken,         \* the request carries no cookie
    NoUser,          \* None
    Bootstrap,       \* users the bootstrap script made
    Duration,        \* session_duration
    AuthRequired,    \* WAPSELL_AUTH_REQUIRED
    MaxNow           \* bound: the clock

User == [email : Emails, password : Passwords, role : {"ADMIN", "TENANT"},
         tenant : Tenants \cup {NoTenant}]

ASSUME AccountsAssumption ==
    /\ Lower \in [Emails -> Emails]
    /\ \A e \in Emails : Lower[Lower[e]] = Lower[e]
    /\ Malformed \subseteq Emails /\ Weak \subseteq Passwords
    /\ NoTenant \notin Tenants /\ NoToken \notin Tokens
    /\ Duration \in Nat \ {0} /\ MaxNow \in Nat
    /\ AuthRequired \in BOOLEAN
    /\ Bootstrap \subseteq User /\ NoUser \notin User
    \* bootstrap-admin.sh goes through register as well.
    /\ \A u, w \in Bootstrap : /\ Lower[u.email] = u.email
                               /\ u.email = w.email => u = w

VARIABLES
    users,       \* user rows; the e-mail is the identity
    sessions,    \* session rows
    issued,      \* tokens drawn so far
    left,        \* history: tokens that were logged out
    now

accountVars == <<users, sessions, issued, left, now>>

AccountsInit ==
    /\ users = Bootstrap
    /\ sessions = {}
    /\ issued = {}
    /\ left = {}
    /\ now = 0

by_email(e) == {u \in users : u.email = Lower[e]}

(***************************************************************************)
(* AuthService                                                             *)
(***************************************************************************)
\* Sessions that authenticate(tok) accepts.  Users are never deleted.
Accepted(tok) == {s \in sessions : s.token = tok /\ s.expires > now}

authenticate(tok) ==
    IF Accepted(tok) = {} THEN NoUser
    ELSE CHOOSE u \in users : \E s \in Accepted(tok) : u.email = s.email

\* The rows after authenticate(tok): an expired session is dropped.
Checked(tok) == {s \in sessions : ~(s.token = tok /\ s.expires <= now)}

\* Validation, then repository.add, which refuses a known e-mail.
register(e, pw, role, t) ==
    /\ e \notin Malformed /\ pw \notin Weak
    /\ by_email(e) = {}
    /\ users' = users \cup {[email |-> Lower[e], password |-> pw,
                             role |-> role, tenant |-> t]}

\* login: a fresh token on every success; one row per token.
Login(e, pw, tok) ==
    /\ \E u \in by_email(e) : u.password = pw
    /\ tok \notin issued
    /\ issued' = issued \cup {tok}
    /\ sessions' = sessions \cup {[token |-> tok, email |-> Lower[e],
                                   expires |-> now + Duration]}
    /\ UNCHANGED <<users, left, now>>

\* Mutant: only the cookie is cleared.
Logout_cookieOnly(tok) ==
    /\ \E s \in sessions : s.token = tok
    /\ left' = left \cup {tok}
    /\ UNCHANGED <<users, sessions, issued, now>>

Logout(tok) ==
    /\ \E s \in sessions : s.token = tok
    /\ sessions' = {s \in sessions : s.token # tok}
    /\ left' = left \cup {tok}
    /\ UNCHANGED <<users, issued, now>>

\* auth_me, and any request that its check rejects.
AuthMe(tok) ==
    /\ sessions' = Checked(tok)
    /\ UNCHANGED <<users, issued, left, now>>

TimePasses ==
    /\ now < MaxNow
    /\ now' = now + 1
    /\ UNCHANGED <<users, sessions, issued, left>>

(***************************************************************************)
(* Access control: which checks let a request through.  With auth off, all *)
(* of them do.                                                             *)
(***************************************************************************)
_assert_authenticated(tok) == AuthRequired => authenticate(tok) # NoUser

_assert_admin(tok) ==
    /\ _assert_authenticated(tok)
    /\ AuthRequired => authenticate(tok).role = "ADMIN"

_assert_tenant_access(tok, t) ==
    /\ _assert_authenticated(tok)
    /\ AuthRequired => \/ authenticate(tok).role = "ADMIN"
                       \/ authenticate(tok).tenant = t

\* list_tenants: what _filter_visible_tenants leaves of a listing.
_filter_visible_tenants(tok, T) ==
    LET u == authenticate(tok)
    IN  IF ~AuthRequired \/ (u # NoUser /\ u.role = "ADMIN") THEN T
        ELSE IF u = NoUser THEN {} ELSE T \cap {u.tenant}

-----------------------------------------------------------------------------
\* Login identity: one user per e-mail however it is spelt, one session per
\* token, and every session belongs to a user.
OneIdentity ==
    /\ \A u, w \in users : Lower[u.email] = Lower[w.email] => u = w
    /\ \A s, r \in sessions : s.token = r.token => s = r
    /\ \A s \in sessions : s.token \in issued /\ \E u \in users : u.email = s.email

\* The sessions as SessionLifetime sees them: a token is spent once it was
\* logged out or no longer admits anyone.
Valid == {tok \in issued : Accepted(tok) # {}}
SL == INSTANCE SessionLifetime WITH
    valid <- Valid, spent <- left \cup (issued \ Valid)
=============================================================================
