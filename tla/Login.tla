------------------------------- MODULE Login -------------------------------
(***************************************************************************)
(* Who a request is from (serve_login.go), as functions of what it         *)
(* carries.  A token is the JWT it stands for: whether it verifies, what   *)
(* it was issued for, its subject and its tenant claim.                    *)
(***************************************************************************)
EXTENDS Integers, Sequences, FiniteSetsExt

CONSTANTS
    Uid, Tenant, None,
    Debug,      \* Config.Debug: the query parameter .user says who the user is
    Revoked     \* users the OnAuthZ hooks of the extensions refuse

Audience == {"oauth", "login", "csrf", "guest"}
Token == [ok : BOOLEAN, aud : Audience, sub : Uid, tenant : Tenant \cup {None}]

\* The places a token is looked for, in order, and the debug user; None is an empty one.
Credentials == [query : Token \cup {None}, form : Token \cup {None}, bearer : Token \cup {None},
                login : Token \cup {None}, csrfHeader : Token \cup {None},
                csrfForm : Token \cup {None}, csrfQuery : Token \cup {None},
                debug : Uid \cup {None}]

ASSUME LoginAssumption ==
    None \notin Uid \cup Tenant /\ Revoked \subseteq Uid /\ Debug \in BOOLEAN

\* IssueAccessToken, IssueAPIKey, IssueLoginCookie and IssueCSRFToken, signed with the private
\* key; the tenant is one of the custom claims.
Issue(aud, uid, tenant) == [ok |-> TRUE, aud |-> aud, sub |-> uid, tenant |-> tenant]

\* The first that is there.
FirstOf(s) ==
    LET given == {i \in DOMAIN s : s[i] # None} IN IF given = {} THEN None ELSE s[Min(given)]

\* cryptino.VerifyJWT and the audience, which every use compares.
VerifyJWT(t, aud) == t # None /\ t.ok /\ t.aud = aud

AccessToken(c) == FirstOf(<<c.query, c.form, c.bearer>>)
CSRFToken(c) == FirstOf(<<c.csrfHeader, c.csrfForm, c.csrfQuery>>)

\* Mutant: the CSRF token may be anybody's.
csrfProvenAny(c) == VerifyJWT(CSRFToken(c), "csrf")

csrfProven(c) == VerifyJWT(CSRFToken(c), "csrf") /\ CSRFToken(c).sub = c.login.sub

Anonymous == [jwt |-> None, writable |-> FALSE]

\* user(): an access token that does not do is passed over for the login cookie.
user(c) ==
    IF VerifyJWT(AccessToken(c), "oauth") THEN [jwt |-> AccessToken(c), writable |-> TRUE]
    ELSE IF VerifyJWT(c.login, "login") THEN [jwt |-> c.login, writable |-> csrfProven(c)]
    ELSE Anonymous

\* What userWithJWT returns: [uid, writable, tenant, err], tenant for the body of the token.
NotLoggedIn == [uid |-> None, writable |-> FALSE, tenant |-> None, err |-> "not logged in"]

DebugUser(c) == Debug /\ c.debug # None

userWithJWT(c) ==
    LET u == user(c) IN
    IF DebugUser(c) THEN [uid |-> c.debug, writable |-> TRUE, tenant |-> None, err |-> None]
    ELSE IF u.jwt = None THEN NotLoggedIn
    ELSE IF u.jwt.sub \in Revoked THEN [NotLoggedIn EXCEPT !.err = "revoked"]
    ELSE [uid |-> u.jwt.sub, writable |-> u.writable, tenant |-> u.jwt.tenant, err |-> None]

\* AssumeUser: an error that is cached stays, and so does the body of the token.
AssumeUser(login, uid, writable) ==
    [uid |-> uid, writable |-> writable, tenant |-> IF login = None THEN None ELSE login.tenant,
     err |-> IF login = None THEN None ELSE login.err]
=============================================================================
