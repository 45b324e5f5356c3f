SPECIFICATION Spec
CONSTANTS
    t1 = t1
    t2 = t2
    Emails = {"root", "ana", "Ana", "none"}
    Lower <- Spelling
    Malformed = {"none"}
    Passwords = {"long", "short"}
    Weak = {"short"}
    Tenants <- TwoTenants
    NoTenant = NoTenant
    Tokens = {k1, k2}
    NoToken = NoToken
    NoUser = NoUser
    Bootstrap <- Root
    Duration = 1
    AuthRequired = TRUE
    MaxNow = 1
    Slugs <- Typed
    Names = {"Acme!"}
    Slugify <- SlugOf
    Numbers = {n1}
    NoNumber = NoNumber
    Signups = {f1, f2}
    TemplateIds = {x1}
    Keys = {"hola"}
    MaxEdits = 2
INVARIANTS
    UniqueKeys
    OnboardedMeansUp
    SettingsKept
PROPERTIES
    TenantIsolation
    SessionsEndForGood
SYMMETRY Interchangeable
VIEW WithoutRequest
CHECK_DEADLOCK FALSE
