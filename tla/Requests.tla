------------------------------ MODULE Requests ------------------------------
(***************************************************************************)
(* HTTP requests to typed functions: binding, login and ACL, the body of   *)
(* the function with the Runtime calls it may make (User, AssumeUser,      *)
(* SessionID, GetSession, Call), the response and the deferred functions,  *)
(* one of which writes the session back to Redis.  A function may also be  *)
(* reached through the MCP endpoint, which has neither an ACL nor deferred *)
(* functions.  Requests of one client or of several overlap; they share    *)
(* only Redis.                                                             *)
(*                                                                         *)
(* The data of a session is a counter that bodies add one to, under the    *)
(* type the function declares for it.  Function records are                *)
(*   [plan, aclResource, aclAction, session, typ, calls],                  *)
(* calls being the Runtime operations its body may make.                   *)
(***************************************************************************)
EXTENDS Binding

CONSTANTS
    Slot,       \* requests handled at a time
    Client,
    Arrivals,   \* [fn, q]: the function and what the request carries (with q.cred)
    Tools,      \* [fn, input, cred]: calls through MCP; input None does not decode
    Nested,     \* [fn, input]: what a body may pass to Handler.Call
    MaxServed   \* bound: requests

VARIABLES
    req,        \* Slot -> the request, or None
    store,      \* Redis: RedisPrefix:sid:<sid> or :uid:<uid> -> None or [typ, n]
    jar,        \* Client -> the session id of its guest cookie, or None
    served,     \* requests that have arrived
    bumps,      \* Client -> times a body counted one up in a request with a user, once over
    disturbed   \* clients whose session need not be what they left it

vars == <<req, store, jar, served, bumps, disturbed>>

Sid == 1 .. MaxServed
Key == Sid \cup Uid \cup {None}    \* None: the key that ends in ":uid:"

ASSUME RequestsAssumption ==
    /\ MaxServed \in Nat /\ Client # {} /\ Uid \cap Int = {}
    /\ None \notin Int
    /\ \A a \in Arrivals : a.q.cred \in Credentials
    /\ \A t \in Tools : t.cred \in Credentials

\* The binding of the input: a field with a jwt tag asks for the user.
BoundLogin(a) ==
    IF \E i \in DOMAIN a.fn.plan : DecidingTag(a.fn.plan[i], a.q) = "jwt"
      THEN userWithJWT(a.q.cred) ELSE None
Bound(a) == getAll(a.fn.plan, a.q, BoundLogin(a))

(***************************************************************************)
(* The values of req and store                                             *)
(***************************************************************************)
Fn == {a.fn : a \in Arrivals} \cup {g.fn : g \in Nested \cup Tools}

LoginRecord == [uid : Uid \cup {None}, writable : BOOLEAN, tenant : Tenant \cup {None},
                err : {None, "not logged in", "revoked"}]

Inputs == {Bound(a) : a \in Arrivals} \cup {g.input : g \in Nested \cup Tools}

Frame == [fn : Fn, input : Inputs]

Entry == [typ : {f.typ : f \in Fn}, n : Nat]

Session == [key : Key, typ : {f.typ : f \in Fn}, old : Entry \cup {None}, n : Nat]

Request == [pc : {"handlers", "body", "defer", "respond"}, via : {"http", "mcp"}, client : Client,
            cred : Credentials, login : LoginRecord \cup {None}, assumed : BOOLEAN, fresh : Sid,
            guest : Sid \cup {None}, sid : Sid \cup {None}, cookie : BOOLEAN,
            frames : Seq(Frame), sess : Session \cup {None}, reply : {None, "ok", "error"}]

ASSUME NoneAssumption ==
    None \notin Entry /\ None \notin Session /\ None \notin Request /\ None \notin LoginRecord

Init ==
    /\ req = [s \in Slot |-> None]
    /\ store = [k \in Key |-> None]
    /\ jar = [c \in Client |-> None]
    /\ served = 0
    /\ bumps = [c \in Client |-> 0]
    /\ disturbed = {}

InFlight(c) == {s \in Slot : req[s] # None /\ req[s].client = c}
At(s, pc) == req[s] # None /\ req[s].pc = pc
Body(s, call) ==
    At(s, "body") /\ call \in req[s].frames[Len(req[s].frames)].fn.calls

Set(s, r) == req' = [req EXCEPT ![s] = r]

(***************************************************************************)
(* From the arrival to the body                                            *)
(***************************************************************************)
\* User() of a request: looked up once, except for the debug user.
LoginOf(r) == IF r.login # None /\ ~DebugUser(r.cred) THEN r.login ELSE userWithJWT(r.cred)

\* A request that goes on at pc, or has failed already.
NewRequest(pc, via, c, cred, login, frame) ==
    [pc |-> pc, via |-> via, client |-> c, cred |-> cred, login |-> login, assumed |-> FALSE,
     fresh |-> served + 1, guest |-> jar[c], sid |-> None, cookie |-> FALSE, frames |-> <<frame>>,
     sess |-> None, reply |-> IF pc \in {"defer", "respond"} THEN "error" ELSE None]

Enters(s, r) ==
    /\ req[s] = None /\ served < MaxServed
    /\ Set(s, r)
    /\ served' = served + 1
    /\ disturbed' = IF InFlight(r.client) = {} THEN disturbed ELSE disturbed \cup {r.client}
    /\ UNCHANGED <<store, jar, bumps>>

\* HandleRequestFunc and TypedHandle.  fresh is the session id the request would make (a
\* random one).
Arrive(s, c, a) ==
    Enters(s, NewRequest(IF Bound(a) = None THEN "defer" ELSE "handlers", "http", c, a.q.cred,
                         BoundLogin(a), [fn |-> a.fn, input |-> Bound(a)]))

\* handleMCPRequest as far as the body: callMCPFunction decodes the arguments, has them
\* validated and runs the function itself, not TypedHandle or call_internal.
ArriveMCP(s, c, t) ==
    LET refused == t.input = None \/ Refuses(t.fn.plan, t.input)
    IN Enters(s, NewRequest(IF refused THEN "respond" ELSE "body", "mcp", c, t.cred, None,
                            [fn |-> t.fn, input |-> t.input]))

\* A RequestHandler, of the function or of an extension, has answered or failed.
Consumed(s, reply) ==
    /\ At(s, "handlers")
    /\ Set(s, [req[s] EXCEPT !.pc = "defer", !.reply = reply])
    /\ UNCHANGED <<store, jar, served, bumps, disturbed>>

\* call_internal as far as the body: the ACL, then the kind of session ("redis" is not one).
Permits(fn, login, input) == enforceACL(fn, login, aclVars(fn.plan, input))

Authorize(s) ==
    LET r     == req[s]
        frame == r.frames[1]
        login == IF frame.fn.aclResource = <<>> THEN r.login ELSE LoginOf(r)
        ok    == Permits(frame.fn, login, frame.input) /\ frame.fn.session = ""
    IN /\ At(s, "handlers")
       /\ Set(s, [r EXCEPT !.login = login, !.pc = IF ok THEN "body" ELSE "defer",
                           !.reply = IF ok THEN None ELSE "error"])
       /\ UNCHANGED <<store, jar, served, bumps, disturbed>>

(***************************************************************************)
(* What a body may do                                                      *)
(***************************************************************************)
User(s) ==
    /\ Body(s, "User")
    /\ Set(s, [req[s] EXCEPT !.login = LoginOf(req[s])])
    /\ UNCHANGED <<store, jar, served, bumps, disturbed>>

Assume(s, u, writable) ==
    /\ Body(s, "AssumeUser") /\ ~req[s].assumed
    /\ Set(s, [req[s] EXCEPT !.login = AssumeUser(@, u, writable), !.assumed = TRUE])
    /\ disturbed' = disturbed \cup {req[s].client}
    /\ UNCHANGED <<store, jar, served, bumps>>

\* Mutant: clients without a cookie are given the same id.
WithSidShared(r, setcookie) ==
    IF r.sid # None THEN r
    ELSE [r EXCEPT !.sid = IF r.guest # None THEN r.guest ELSE 1, !.cookie = setcookie]

\* SessionID: the guest cookie's, or a new one; only the first call may set the cookie.
WithSid(r, setcookie) ==
    IF r.sid # None THEN r
    ELSE [r EXCEPT !.sid = IF r.guest # None THEN r.guest ELSE r.fresh, !.cookie = setcookie]

SessionID(s, setcookie) ==
    /\ Body(s, "SessionID") /\ req[s].sid = None
    /\ Set(s, WithSid(req[s], setcookie))
    /\ disturbed' = IF ~setcookie /\ req[s].guest = None THEN disturbed \cup {req[s].client} ELSE disturbed
    /\ UNCHANGED <<store, jar, served, bumps>>

\* The key of the session: a guest is looked up under the user id it has not got, or the
\* one its body assumed after it was found to be a guest.
SessionKey(r) == IF r.login.err = "not logged in" THEN r.login.uid ELSE r.sid

Loaded(stored, typ) == IF stored = None \/ stored.typ # typ THEN 0 ELSE stored.n

\* A body has counted one up in the value it was given last.
Counted(r) == r.sess # None /\ r.sess.n # Loaded(r.sess.old, r.sess.typ)

\* GetSession or WithSession (getRedisSessionEntryMulti): HGetAll and a deferred function
\* the first time, then the hash of that time whatever the key.  Each call decodes the one
\* entry anew, as the type of the function whatever type it was written as, and what was
\* done to the value of an earlier call is forgotten.  A guest whose hash is new also gets
\* an id.
GetSession(s) ==
    LET asked  == [req[s] EXCEPT !.login = LoginOf(req[s])]
        again  == asked.sess # None
        guest  == asked.login.err = "not logged in"
        isNew  == IF again THEN asked.sess.old = None ELSE store[asked.login.uid] = None
        needed == guest => isNew
        r      == IF needed THEN WithSid(asked, TRUE) ELSE asked
        key    == IF again THEN r.sess.key ELSE SessionKey(r)
        stored == IF again THEN r.sess.old ELSE store[key]
        typ    == r.frames[Len(r.frames)].fn.typ
    IN /\ Body(s, "GetSession") /\ asked.login.err # "revoked"
       /\ Set(s, [r EXCEPT !.sess = [key |-> key, typ |-> typ, old |-> stored, n |-> Loaded(stored, typ)]])
       /\ disturbed' = IF (stored # None /\ stored.typ # typ) \/ Counted(req[s])
                         THEN disturbed \cup {r.client} ELSE disturbed
       /\ UNCHANGED <<store, jar, served, bumps>>

Bump(s) ==
    /\ Body(s, "GetSession") /\ req[s].sess # None /\ ~Counted(req[s])
    /\ Set(s, [req[s] EXCEPT !.sess.n = @ + 1])
    /\ UNCHANGED <<store, jar, served, bumps, disturbed>>

\* Mutant: the ACL is left to the request that came in.
CallRefusedUnasked(r, f, input) == Refuses(f.plan, input) \/ f.session # ""

\* Handler.Call of another function: the validator, then call_internal, on a copy of the
\* Runtime that shares its cache; a function with a Session.Type cannot be called.
CallRefused(r, f, input) ==
    \/ Refuses(f.plan, input)
    \/ ~Permits(f, LoginOf(r), input)
    \/ f.session # ""

Call(s, g) ==
    LET r     == req[s]
        login == IF g.fn.aclResource = <<>> THEN r.login ELSE LoginOf(r)
    IN /\ Body(s, "Call") /\ Len(r.frames) = 1
       /\ ~CallRefused(r, g.fn, g.input)
       /\ Set(s, [r EXCEPT !.login = login,
                           !.frames = Append(@, [fn |-> g.fn, input |-> g.input])])
       /\ UNCHANGED <<store, jar, served, bumps, disturbed>>

CallReturns(s) ==
    /\ At(s, "body") /\ Len(req[s].frames) > 1
    /\ Set(s, [req[s] EXCEPT !.frames = <<@[1]>>])
    /\ UNCHANGED <<store, jar, served, bumps, disturbed>>

\* The body returns, fails, or panics (which counts as an error); the response is written.
Return(s, reply) ==
    /\ At(s, "body") /\ Len(req[s].frames) = 1 /\ req[s].via = "http"
    /\ Set(s, [req[s] EXCEPT !.pc = "defer", !.reply = reply])
    /\ UNCHANGED <<store, jar, served, bumps, disturbed>>

\* The end of handleMCPRequest: do_defer is not called, and what the body did to its session
\* is not written.
ReturnMCP(s, reply) ==
    /\ At(s, "body") /\ Len(req[s].frames) = 1 /\ req[s].via = "mcp"
    /\ Set(s, [req[s] EXCEPT !.pc = "respond", !.reply = reply])
    /\ disturbed' = IF Counted(req[s]) THEN disturbed \cup {req[s].client} ELSE disturbed
    /\ UNCHANGED <<store, jar, served, bumps>>

(***************************************************************************)
(* After the body                                                          *)
(***************************************************************************)
\* What the deferred function compares: the text that was loaded, or that of a new value,
\* with the text at the end.
Changed(r) == r.sess # None /\ (Counted(r) \/ (r.sess.old # None /\ r.sess.old.typ # r.sess.typ))

\* Mutant: the deferred write is left out when the function failed.
do_deferOnSuccess(s, failed) ==
    LET r == req[s] IN
    /\ At(s, "defer")
    /\ store' = IF Changed(r) /\ ~failed /\ r.reply = "ok"
                  THEN [store EXCEPT ![r.sess.key] = [typ |-> r.sess.typ, n |-> r.sess.n]]
                ELSE store
    /\ bumps' = IF Counted(r) /\ r.sess.key \in Sid THEN [bumps EXCEPT ![r.client] = @ + 1] ELSE bumps
    /\ disturbed' = IF failed THEN disturbed \cup {r.client} ELSE disturbed
    /\ Set(s, [r EXCEPT !.pc = "respond"])
    /\ UNCHANGED <<jar, served>>

\* do_defer: the whole hash is written if an entry changed, and an error of Redis is dropped.
do_defer(s, failed) ==
    LET r == req[s] IN
    /\ At(s, "defer") /\ (failed => Changed(r))
    /\ store' = IF Changed(r) /\ ~failed
                  THEN [store EXCEPT ![r.sess.key] = [typ |-> r.sess.typ, n |-> r.sess.n]]
                ELSE store
    /\ bumps' = IF Counted(r) /\ r.sess.key \in Sid THEN [bumps EXCEPT ![r.client] = @ + 1] ELSE bumps
    /\ disturbed' = IF failed THEN disturbed \cup {r.client} ELSE disturbed
    /\ Set(s, [r EXCEPT !.pc = "respond"])
    /\ UNCHANGED <<jar, served>>

\* The response reaches the client, with its cookie, or is lost.
Respond(s, delivered) ==
    LET r == req[s] IN
    /\ At(s, "respond") /\ (~delivered => r.cookie)
    /\ jar' = IF r.cookie /\ delivered THEN [jar EXCEPT ![r.client] = r.sid] ELSE jar
    /\ disturbed' = IF delivered THEN disturbed ELSE disturbed \cup {r.client}
    /\ Set(s, None)
    /\ UNCHANGED <<store, served, bumps>>

Next ==
    \E s \in Slot :
        \/ \E c \in Client, a \in Arrivals : Arrive(s, c, a)
        \/ \E c \in Client, t \in Tools : ArriveMCP(s, c, t)
        \/ \E reply \in {"ok", "error"} : Consumed(s, reply) \/ Return(s, reply) \/ ReturnMCP(s, reply)
        \/ \E u \in Uid, w \in BOOLEAN : Assume(s, u, w)
        \/ \E g \in Nested : Call(s, g)
        \/ \E b \in BOOLEAN : do_defer(s, b) \/ Respond(s, b) \/ SessionID(s, b)
        \/ Authorize(s) \/ User(s) \/ GetSession(s) \/ Bump(s) \/ CallReturns(s)

Spec == Init /\ [][Next]_vars

(***************************************************************************)
(* Properties                                                              *)
(***************************************************************************)
TokenPlace == {"query", "form", "bearer", "login", "csrfHeader", "csrfForm", "csrfQuery"}
Presented(r) == {r.cred[x] : x \in TokenPlace} \ {None}

\* A request may write only if it carries an access token, or a login cookie together with
\* a CSRF token of the same user, that verify; or its own code said who the user is, or the
\* debug parameter did.
WritableProven ==
    \A s \in Slot : req[s] # None /\ req[s].login # None /\ req[s].login.writable =>
        \/ req[s].assumed \/ DebugUser(req[s].cred)
        \/ \E t \in Presented(req[s]) : t.ok /\ t.sub = req[s].login.uid /\ t.aud = "oauth"
        \/ \E t, x \in Presented(req[s]) : /\ t.ok /\ t.aud = "login" /\ t.sub = req[s].login.uid
                                           /\ x.ok /\ x.aud = "csrf" /\ x.sub = t.sub

\* While the body of a function with an ACL runs, for an HTTP route or because another body
\* called it, the policy allows the resource its input denotes to a tenant that a verified
\* token of the request names, and to the user of that token, who is not revoked, or to the
\* user the request's own code put in his place.  What MCP itself runs is not asked about.
RunsPermitted ==
    \A s \in Slot : At(s, "body") => \A i \in DOMAIN req[s].frames :
        LET r == req[s]  f == r.frames[i] IN
        f.fn.aclResource # <<>> /\ (i > 1 \/ r.via = "http") =>
            \E t \in Presented(r), p \in Policy :
                /\ t.ok /\ t.sub \notin Revoked /\ p[1] = t.tenant
                /\ p[2] = t.sub \/ (r.assumed /\ p[2] = r.login.uid)
                /\ p[3] = expandACLTemplate(f.fn.aclResource, aclVars(f.fn.plan, f.input))

\* Unless the validator is off, every body runs on an input whose fields keep their rules,
\* over HTTP, MCP and Call, whatever was sent and however its conversion cut it; values
\* injected by an extension are not looked at.
InputValid ==
    \A s \in Slot : ~DisableValidator /\ At(s, "body") => \A i \in DOMAIN req[s].frames :
        LET f == req[s].frames[i] IN
        \A k \in DOMAIN f.fn.plan : f.fn.plan[k].resource \/ Valid(f.fn.plan[k], f.input[k])

\* The session of a client that is logged in and sends one request at a time is what its
\* requests left in it, unless a response or a write was lost, an id was made without a
\* cookie, the user was assumed, a function with another session type was there, or the
\* change was made through MCP.
SerialSession ==
    \A c \in Client \ disturbed : InFlight(c) = {} =>
        bumps[c] = IF jar[c] = None \/ store[jar[c]] = None THEN 0 ELSE store[jar[c]].n

\* Whose cookie, or request in flight, names a session id or works on its hash.
Owners(k) ==
    {c \in Client : jar[c] = k \/ \E s \in InFlight(c) :
        req[s].sid = k \/ (req[s].sess # None /\ req[s].sess.key = k)}

\* Whatever overlaps, fails or is lost, the session of an id belongs to one client, and holds
\* no more than that client put there.  Guests have ids too, but their session is not kept
\* under them: see SessionsApart.
NeverForeign ==
    \A k \in Sid : \A c, d \in Owners(k) :
        c = d /\ (store[k] # None => store[k].n <= bumps[c])

\* What the README says of WithSession: the session is the request's own, under an id that
\* its cookies keep; two clients never work on the same one.  The session of a request that
\* is not logged in is kept under the user id it has not got, which is every guest's.
SessionsApart ==
    \A s, t \in Slot :
        /\ req[s] # None /\ req[t] # None
        /\ ~req[s].assumed /\ ~req[t].assumed
        /\ req[s].sess # None /\ req[t].sess # None /\ req[s].sess.key = req[t].sess.key
        => req[s].client = req[t].client
=============================================================================
