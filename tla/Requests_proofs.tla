--------------------------- MODULE Requests_proofs ---------------------------
(***************************************************************************)
(* Proofs about Requests, for any functions, policies, users, clients and  *)
(* number of requests at a time: what a request may do is what it proved,  *)
(* bodies run on valid input and with permission, and the session of a     *)
(* client that sends one request at a time is what it left there.          *)
(***************************************************************************)
EXTENDS Requests, SequenceTheorems, WellFoundedInduction, TLAPS

TypeOK ==
    /\ req \in [Slot -> Request \cup {None}]
    /\ store \in [Key -> Entry \cup {None}]
    /\ jar \in [Client -> Sid \cup {None}]
    /\ served \in 0 .. MaxServed
    /\ bumps \in [Client -> Nat]
    /\ disturbed \subseteq Client

\* The user of a request comes from its own credentials, or its body named it; the tenant
\* comes from them in any case.
LoginProven(r) ==
    /\ r.assumed => r.login # None
    /\ r.login # None =>
        /\ r.assumed \/ r.login = userWithJWT(r.cred)
        /\ r.login.tenant \in {None, userWithJWT(r.cred).tenant}

FrameValid(f) ==
    ~DisableValidator => \A k \in DOMAIN f.fn.plan : f.fn.plan[k].resource \/ Valid(f.fn.plan[k], f.input[k])

\* The debug user is never permitted: no token says what tenant it is of.
FramePermitted(r, f) ==
    f.fn.aclResource # <<>> =>
        /\ ~DebugUser(r.cred)
        /\ \E t \in Presented(r), p \in Policy :
              /\ t.ok /\ t.sub \notin Revoked /\ p[1] = t.tenant
              /\ p[2] = t.sub \/ (r.assumed /\ p[2] = r.login.uid)
              /\ p[3] = expandACLTemplate(f.fn.aclResource, aclVars(f.fn.plan, f.input))

\* One request, at any point of its way.
Good(r) ==
    /\ LoginProven(r)
    /\ r.pc \in {"handlers", "body"} => r.frames # <<>> /\ \A i \in DOMAIN r.frames : FrameValid(r.frames[i])
    /\ r.pc = "handlers" => Len(r.frames) = 1
    /\ r.pc = "body" => \A i \in DOMAIN r.frames :
                          i > 1 \/ r.via = "http" => FramePermitted(r, r.frames[i])

RInv == \A s \in Slot : req[s] # None => Good(req[s])

Ids(r) == {r.fresh, r.guest, r.sid} \cup IF r.sess = None THEN {} ELSE {r.sess.key}

\* The ids of a request belong to its client, and its session holds what the client put
\* there and at most one more; n and b are served and bumps.
OwnRequest(r, own, n, b) ==
    /\ \A i \in Ids(r) \cap Sid : i <= n /\ own[i] = r.client
    /\ r.sess # None =>
          /\ r.sess.n \in {Loaded(r.sess.old, r.sess.typ), Loaded(r.sess.old, r.sess.typ) + 1}
          /\ r.sess.key \in Sid /\ r.sess.old # None => r.sess.old.n <= b[r.client]

\* Every session id belongs to one client.
Own(own) ==
    /\ \A s \in Slot : req[s] # None => OwnRequest(req[s], own, served, bumps)
    /\ \A c \in Client : jar[c] # None => jar[c] <= served /\ own[jar[c]] = c
    /\ \A i \in Sid : store[i] # None => i <= served /\ store[i].n <= bumps[own[i]]

Owned == \E own \in [Sid -> Client] : Own(own)

RequestInv == TypeOK /\ RInv /\ Owned

\* What is counted under an id.
Holds(st, i) == IF i = None \/ st[i] = None THEN 0 ELSE st[i].n

\* The only request of a client that was not disturbed; j and b are the client's cookie and
\* count.  It works on the session of the cookie, or on a new one that its answer will name;
\* nobody writes that session while it does, and what is counted there is the client's.
SerialRequest(r, st, j, b) ==
    /\ r.guest = j
    /\ r.sid # None => r.sid = r.guest \/ (r.guest = None /\ r.sid = r.fresh /\ r.cookie)
    /\ r.cookie => r.sid # None
    /\ r.sess # None =>
          /\ r.sess.old # None => r.sess.old.typ = r.sess.typ
          /\ r.sess.key \in Sid => /\ r.sess.key = r.sid
                                   /\ r.pc # "respond" => st[r.sid] = r.sess.old
    /\ r.pc # "respond" => st[r.fresh] = None
    /\ b = Holds(st, IF r.cookie THEN r.sid ELSE j)

SerialInv ==
    \A c \in Client \ disturbed :
        /\ \A s, t \in InFlight(c) : s = t
        /\ InFlight(c) = {} => bumps[c] = Holds(store, jar[c])
        /\ \A s \in InFlight(c) : SerialRequest(req[s], store, jar[c], bumps[c])

-----------------------------------------------------------------------------
\* The least element of a set of numbers.
LEMMA MinIsLeast ==
    ASSUME NEW S \in SUBSET Nat, S # {}
    PROVE  Min(S) \in S /\ \A y \in S : Min(S) <= y
  <1>1. PICK x \in S : \A y \in S : ~ (<<y, x>> \in OpToRel(<, Nat))
    BY NatLessThanWellFounded, WFMin, Zenon
  <1>2. \A y \in S : ~ (y < x)
    BY <1>1, Zenon DEF OpToRel
  <1>3. \A y \in S : x <= y
    BY <1>2
  <1> QED BY <1>3 DEF Min

LEMMA FirstOfThree ==
    ASSUME NEW a, NEW b, NEW c
    PROVE  FirstOf(<<a, b, c>>) \in {a, b, c, None}
  <1> DEFINE s == <<a, b, c>>
             given == {i \in DOMAIN s : s[i] # None}
  <1>1. given \in SUBSET (1 .. 3) /\ given \in SUBSET Nat
    OBVIOUS
  <1>2. CASE given = {}
    BY <1>2 DEF FirstOf
  <1>3. CASE given # {}
    <2>1. Min(given) \in 1 .. 3
      BY <1>1, <1>3, MinIsLeast
    <2>2. FirstOf(s) = s[Min(given)]
      BY <1>3 DEF FirstOf
    <2> QED BY <2>1, <2>2
  <1> QED BY <1>2, <1>3

\* What a request carries.
Carried(c) == {c[x] : x \in TokenPlace} \ {None}

\* user() yields a token that the request carries and that verifies; with the login cookie,
\* the request may write if it carries a CSRF token of the same user.
LEMMA UserToken ==
    ASSUME NEW c \in Credentials, user(c).jwt # None
    PROVE  /\ user(c).jwt \in Carried(c)
           /\ user(c).jwt \in Token /\ user(c).jwt.ok
           /\ user(c).writable \in BOOLEAN
           /\ user(c).writable =>
                 \/ user(c).jwt.aud = "oauth"
                 \/ /\ user(c).jwt.aud = "login"
                    /\ \E x \in Carried(c) : x.ok /\ x.aud = "csrf" /\ x.sub = user(c).jwt.sub
  <1>1. {c.query, c.form, c.bearer, c.login, c.csrfHeader, c.csrfForm, c.csrfQuery} \ {None}
           \subseteq Carried(c)
    BY DEF Credentials, Carried, TokenPlace
  <1>2. Carried(c) \subseteq Token
    BY DEF Credentials, Carried, TokenPlace
  <1>3. /\ AccessToken(c) \in Carried(c) \cup {None}
        /\ CSRFToken(c) \in Carried(c) \cup {None}
        /\ c.login \in Carried(c) \cup {None}
    BY <1>1, FirstOfThree DEF AccessToken, CSRFToken
  <1>4. CASE VerifyJWT(AccessToken(c), "oauth")
    BY <1>2, <1>3, <1>4 DEF user, VerifyJWT
  <1>5. CASE ~VerifyJWT(AccessToken(c), "oauth") /\ VerifyJWT(c.login, "login")
    <2>1. user(c) = [jwt |-> c.login, writable |-> csrfProven(c)]
      BY <1>5 DEF user
    <2>2. c.login \in Carried(c) /\ c.login.ok /\ c.login.aud = "login"
      BY <1>3, <1>5 DEF VerifyJWT
    <2>3. csrfProven(c) \in BOOLEAN
      BY DEF csrfProven
    <2>4. csrfProven(c) => /\ CSRFToken(c) \in Carried(c) /\ CSRFToken(c).ok
                           /\ CSRFToken(c).aud = "csrf" /\ CSRFToken(c).sub = c.login.sub
      BY <1>3 DEF csrfProven, VerifyJWT
    <2> QED BY <1>2, <2>1, <2>2, <2>3, <2>4
  <1>6. CASE ~VerifyJWT(AccessToken(c), "oauth") /\ ~VerifyJWT(c.login, "login")
    BY <1>6 DEF user, Anonymous
  <1> QED BY <1>4, <1>5, <1>6

LEMMA UserType ==
    ASSUME NEW c \in Credentials
    PROVE  /\ userWithJWT(c) \in LoginRecord
           /\ DebugUser(c) => userWithJWT(c).tenant = None
           /\ ~DebugUser(c) /\ (userWithJWT(c).writable \/ userWithJWT(c).tenant # None)
                 => /\ user(c).jwt # None /\ user(c).jwt.sub = userWithJWT(c).uid
                    /\ user(c).jwt.tenant = userWithJWT(c).tenant
                    /\ user(c).writable = userWithJWT(c).writable
                    /\ userWithJWT(c).uid \notin Revoked
  <1>1. CASE DebugUser(c)
    BY <1>1 DEF userWithJWT, DebugUser, LoginRecord, Credentials
  <1>2. CASE ~DebugUser(c) /\ user(c).jwt = None
    BY <1>2 DEF userWithJWT, NotLoggedIn, LoginRecord
  <1>3. CASE ~DebugUser(c) /\ user(c).jwt # None
    BY <1>3, UserToken DEF userWithJWT, NotLoggedIn, LoginRecord, Token
  <1> QED BY <1>1, <1>2, <1>3

LEMMA LoginOfType ==
    ASSUME NEW r \in Request
    PROVE  LoginOf(r) \in LoginRecord
  BY UserType DEF LoginOf, Request

\* A request whose login is looked up is as good as before.
LEMMA LoginLooked ==
    ASSUME NEW r \in Request, Good(r)
    PROVE  LET a == [r EXCEPT !.login = LoginOf(r)]
           IN a \in Request /\ Good(a) /\ a.login = LoginOf(r)
  <1> DEFINE a == [r EXCEPT !.login = LoginOf(r)]
  <1>1. /\ a \in Request /\ a.login = LoginOf(r)
        /\ a.pc = r.pc /\ a.frames = r.frames /\ a.cred = r.cred /\ a.assumed = r.assumed
        /\ a.via = r.via
    BY LoginOfType DEF Request
  <1> HIDE DEF a
  <1>2. LoginProven(a)
    <2>1. LoginOf(r) # None
      BY LoginOfType, NoneAssumption
    <2> QED BY <1>1, <2>1, UserType DEF Good, LoginProven, LoginOf, Request
  <1>3. ASSUME NEW f, FramePermitted(r, f) PROVE FramePermitted(a, f)
    BY <1>1, <1>3 DEF FramePermitted, Presented, Good, LoginProven, LoginOf
  <1>4. Good(a)
    BY <1>1, <1>2, <1>3 DEF Good
  <1> QED BY <1>1, <1>4 DEF a

\* Good looks at these fields only.
LEMMA GoodFields ==
    ASSUME NEW r, NEW a, Good(r), a.pc = r.pc, a.frames = r.frames, a.cred = r.cred,
           a.assumed = r.assumed, a.login = r.login, a.via = r.via
    PROVE  Good(a)
  BY DEF Good, LoginProven, FramePermitted, Presented

\* A request that is done keeps only what it proved.
LEMMA GoodDone ==
    ASSUME NEW r, NEW a, Good(r), a.pc \in {"defer", "respond"}, a.cred = r.cred,
           a.assumed = r.assumed, a.login = r.login
    PROVE  Good(a)
  BY DEF Good, LoginProven

LEMMA WithSidFields ==
    ASSUME NEW r \in Request, NEW b \in BOOLEAN
    PROVE  LET a == WithSid(r, b)
           IN /\ a \in Request
              /\ a.pc = r.pc /\ a.frames = r.frames /\ a.cred = r.cred /\ a.client = r.client
              /\ a.via = r.via /\ a.assumed = r.assumed /\ a.login = r.login /\ a.sess = r.sess
              /\ a.fresh = r.fresh /\ a.guest = r.guest
              /\ a.sid = IF r.sid # None THEN r.sid ELSE IF r.guest # None THEN r.guest ELSE r.fresh
  <1>1. CASE r.sid # None
    BY <1>1 DEF WithSid
  <1>2. CASE r.sid = None
    <2> DEFINE id == IF r.guest # None THEN r.guest ELSE r.fresh
               a == [r EXCEPT !.sid = id, !.cookie = b]
    <2>1. id \in Sid /\ WithSid(r, b) = a
      BY <1>2 DEF WithSid, Request
    <2> HIDE DEF id
    <2>2. a \in Request
      BY <2>1 DEF Request
    <2>3. /\ a.pc = r.pc /\ a.frames = r.frames /\ a.cred = r.cred /\ a.client = r.client
          /\ a.via = r.via /\ a.assumed = r.assumed /\ a.login = r.login /\ a.sess = r.sess
          /\ a.fresh = r.fresh /\ a.guest = r.guest /\ a.sid = id
      BY DEF Request
    <2> HIDE DEF a
    <2> QED BY <1>2, <2>1, <2>2, <2>3 DEF id
  <1> QED BY <1>1, <1>2

\* An input that getAll has accepted keeps the rules of its fields.
LEMMA BoundIsValid ==
    ASSUME NEW fn, NEW q, NEW l, getAll(fn.plan, q, l) # None
    PROVE  FrameValid([fn |-> fn, input |-> getAll(fn.plan, q, l)])
  <1> DEFINE plan == fn.plan
             after(f) == IF Injects(f, q, l) THEN Inject[getByStructField(f, q, l).v]
                         ELSE BoundValue(f, q, l)
  <1>1. /\ getAll(plan, q, l) = [i \in DOMAIN plan |-> after(plan[i])]
        /\ ~DisableValidator => \A i \in DOMAIN plan : Valid(plan[i], BoundValue(plan[i], q, l))
    BY DEF getAll, Refuses
  <1>2. ASSUME NEW k \in DOMAIN plan, ~DisableValidator
        PROVE  plan[k].resource \/ Valid(plan[k], getAll(plan, q, l)[k])
    BY <1>1, <1>2 DEF Injects
  <1> QED BY <1>2 DEF FrameValid

-----------------------------------------------------------------------------
SameSession(r, x) ==
    /\ x.client = r.client /\ x.fresh = r.fresh /\ x.guest = r.guest
    /\ x.sid = r.sid /\ x.sess = r.sess /\ x.cookie = r.cookie
    /\ r.pc # "respond"

\* A step of one request that leaves its session alone.
Moves(s) ==
    /\ req[s] # None
    /\ \E x \in Request : Good(x) /\ SameSession(req[s], x) /\ req' = [req EXCEPT ![s] = x]

\* An action replaces one request.
LEMMA Replaced ==
    ASSUME TypeOK, RInv, NEW s \in Slot, NEW x \in Request \cup {None},
           x # None => Good(x), req' = [req EXCEPT ![s] = x]
    PROVE  req' \in [Slot -> Request \cup {None}] /\ RInv'
  BY DEF TypeOK, RInv

\* A request that is new in a slot, before it is known where it goes.
LEMMA NewRequestType ==
    ASSUME TypeOK, served < MaxServed, NEW c \in Client, NEW via \in {"http", "mcp"},
           NEW cred \in Credentials, NEW frame \in Frame, NEW pc \in {"handlers", "body", "defer", "respond"},
           NEW l \in LoginRecord \cup {None}, l # None => l = userWithJWT(cred),
           pc \in {"handlers", "body"} => FrameValid(frame),
           pc = "body" => via = "mcp"
    PROVE  LET x == NewRequest(pc, via, c, cred, l, frame)
           IN /\ x \in Request /\ Good(x)
              /\ x.client = c /\ x.fresh = served + 1 /\ x.guest = jar[c] /\ x.sid = None
              /\ x.sess = None /\ ~x.cookie
  <1> DEFINE x == NewRequest(pc, via, c, cred, l, frame)
  <1>1. <<frame>> \in Seq(Frame) /\ Len(<<frame>>) = 1 /\ <<frame>>[1] = frame /\ DOMAIN <<frame>> = {1}
    OBVIOUS
  <1>2. served + 1 \in Sid /\ jar[c] \in Sid \cup {None}
    BY RequestsAssumption DEF TypeOK, Sid
  <1>3. /\ x \in Request
        /\ x.client = c /\ x.fresh = served + 1 /\ x.guest = jar[c] /\ x.sid = None
        /\ x.sess = None /\ ~x.cookie
        /\ x.frames = <<frame>> /\ x.pc = pc /\ x.via = via /\ ~x.assumed /\ x.login = l /\ x.cred = cred
    BY <1>1, <1>2 DEF Request, NewRequest
  <1> HIDE DEF x
  <1>4. LoginProven(x)
    BY <1>3 DEF LoginProven
  <1>5. Good(x)
    BY <1>1, <1>3, <1>4 DEF Good
  <1> QED BY <1>3, <1>5 DEF x

\* A request comes in, over HTTP or MCP.
Comes(s, c) == (\E a \in Arrivals : Arrive(s, c, a)) \/ (\E t \in Tools : ArriveMCP(s, c, t))

LEMMA Arrived ==
    ASSUME TypeOK, NEW s \in Slot, NEW c \in Client, Comes(s, c)
    PROVE  /\ served < MaxServed /\ served' = served + 1
           /\ store' = store /\ jar' = jar /\ bumps' = bumps
           /\ disturbed' = IF InFlight(c) = {} THEN disturbed ELSE disturbed \cup {c}
           /\ req[s] = None
           /\ \E x \in Request :
                /\ req' = [req EXCEPT ![s] = x] /\ Good(x)
                /\ x.client = c /\ x.fresh = served + 1 /\ x.guest = jar[c] /\ x.sid = None
                /\ x.sess = None /\ ~x.cookie
  <1>1. CASE \E a \in Arrivals : Arrive(s, c, a)
    <2>1. PICK a \in Arrivals : Arrive(s, c, a)
      BY <1>1
    <2> DEFINE frame == [fn |-> a.fn, input |-> Bound(a)]
               pc == IF Bound(a) = None THEN "defer" ELSE "handlers"
               x == NewRequest(pc, "http", c, a.q.cred, BoundLogin(a), frame)
    <2>2. Enters(s, x)
      BY <2>1 DEF Arrive
    <2>3. a.q.cred \in Credentials
      BY RequestsAssumption
    <2>4. BoundLogin(a) \in LoginRecord \cup {None} /\ (BoundLogin(a) # None => BoundLogin(a) = userWithJWT(a.q.cred))
      BY <2>3, UserType DEF BoundLogin
    <2>5. frame \in Frame
      BY DEF Fn, Inputs, Frame
    <2>6. Bound(a) # None => FrameValid(frame)
      BY BoundIsValid DEF Bound
    <2>7. /\ x \in Request /\ Good(x)
          /\ x.client = c /\ x.fresh = served + 1 /\ x.guest = jar[c] /\ x.sid = None
          /\ x.sess = None /\ ~x.cookie
      <3>1. served < MaxServed
        BY <2>2 DEF Enters
      <3>2. pc \in {"handlers", "defer"} /\ (pc = "handlers" => FrameValid(frame))
        BY <2>6
      <3> HIDE DEF frame, pc
      <3> QED BY <2>3, <2>4, <2>5, <3>1, <3>2, NewRequestType
    <2> HIDE DEF x
    <2> QED BY <2>2, <2>7 DEF Enters, Set
  <1>2. CASE \E t \in Tools : ArriveMCP(s, c, t)
    <2>1. PICK t \in Tools : ArriveMCP(s, c, t)
      BY <1>2
    <2> DEFINE frame == [fn |-> t.fn, input |-> t.input]
               refused == t.input = None \/ Refuses(t.fn.plan, t.input)
               pc == IF refused THEN "respond" ELSE "body"
               x == NewRequest(pc, "mcp", c, t.cred, None, frame)
    <2>2. Enters(s, x)
      BY <2>1 DEF ArriveMCP
    <2>3. t.cred \in Credentials
      BY RequestsAssumption
    <2>4. frame \in Frame
      BY DEF Fn, Inputs, Frame
    <2>5. ~refused => FrameValid(frame)
      BY DEF Refuses, FrameValid
    <2>6. /\ x \in Request /\ Good(x)
          /\ x.client = c /\ x.fresh = served + 1 /\ x.guest = jar[c] /\ x.sid = None
          /\ x.sess = None /\ ~x.cookie
      <3>1. served < MaxServed
        BY <2>2 DEF Enters
      <3>2. pc \in {"body", "respond"} /\ (pc = "body" => FrameValid(frame))
        BY <2>5
      <3> HIDE DEF frame, pc
      <3> QED BY <2>3, <2>4, <3>1, <3>2, NewRequestType
    <2> HIDE DEF x
    <2> QED BY <2>2, <2>6 DEF Enters, Set
  <1> QED BY <1>1, <1>2 DEF Comes

LEMMA ArriveStep ==
    ASSUME TypeOK, RInv, NEW s \in Slot, NEW c \in Client, Comes(s, c)
    PROVE  TypeOK' /\ RInv'
  <1>1. PICK x \in Request : req' = [req EXCEPT ![s] = x] /\ Good(x)
    BY Arrived
  <1>2. /\ served < MaxServed /\ served' = served + 1
        /\ store' = store /\ jar' = jar /\ bumps' = bumps
        /\ disturbed' = IF InFlight(c) = {} THEN disturbed ELSE disturbed \cup {c}
    BY Arrived
  <1>3. req' \in [Slot -> Request \cup {None}] /\ RInv'
    BY <1>1, Replaced
  <1> QED BY <1>2, <1>3, RequestsAssumption DEF TypeOK

\* What enforceACL has let through is permitted to the user the credentials prove.
LEMMA PermittedFrame ==
    ASSUME NEW r, r.cred \in Credentials, NEW l, NEW fn, NEW input, Permits(fn, l, input),
           fn.aclResource # <<>> => /\ IF r.assumed THEN l = r.login \/ l = userWithJWT(r.cred)
                                                   ELSE l = userWithJWT(r.cred)
                                    /\ l.tenant \in {None, userWithJWT(r.cred).tenant}
    PROVE  FramePermitted(r, [fn |-> fn, input |-> input])
  <1> SUFFICES ASSUME fn.aclResource # <<>>
               PROVE  FramePermitted(r, [fn |-> fn, input |-> input])
    BY DEF FramePermitted
  <1> DEFINE acl == aclVars(fn.plan, input)
             resource == expandACLTemplate(fn.aclResource, acl)
             action == expandACLTemplate(fn.aclAction, acl)
  <1>1. /\ l.tenant # None
        /\ <<l.tenant, l.uid, resource, IF action = <<>> THEN <<Literal("access")>> ELSE action>> \in Policy
    BY DEF Permits, enforceACL
  <1>2. l.tenant = userWithJWT(r.cred).tenant /\ userWithJWT(r.cred).tenant # None /\ ~DebugUser(r.cred)
    BY <1>1, UserType
  <1>3. PICK t \in Carried(r.cred) : /\ t.ok /\ t.tenant = l.tenant /\ t.sub \notin Revoked
                                     /\ t.sub = userWithJWT(r.cred).uid
    BY <1>2, UserType, UserToken
  <1>4. t \in Presented(r) /\ (l.uid = t.sub \/ (r.assumed /\ l.uid = r.login.uid))
    BY <1>3 DEF Presented, Carried
  <1> HIDE DEF resource, action
  <1>5. \E p \in Policy : p[1] = l.tenant /\ p[2] = l.uid /\ p[3] = resource
    BY <1>1
  <1> QED BY <1>2, <1>3, <1>4, <1>5 DEF FramePermitted, resource

\* The login call_internal asks about is one the credentials prove.
LEMMA AskedLogin ==
    ASSUME NEW r \in Request, Good(r), NEW fn
    PROVE  LET l == IF fn.aclResource = <<>> THEN r.login ELSE LoginOf(r)
           IN /\ l \in LoginRecord \cup {None}
              /\ r.assumed => l # None /\ (l = r.login \/ DebugUser(r.cred))
              /\ l # None \/ fn.aclResource # <<>>
                    => /\ r.assumed \/ l = userWithJWT(r.cred)
                       /\ l.tenant \in {None, userWithJWT(r.cred).tenant}
  <1>1. r.login \in LoginRecord \cup {None} /\ r.cred \in Credentials
    BY DEF Request
  <1>2. r.assumed => r.login # None
    BY DEF Good, LoginProven
  <1>3. LoginOf(r) # None
    BY LoginOfType, NoneAssumption
  <1> QED BY <1>1, <1>2, <1>3, LoginOfType DEF Good, LoginProven, LoginOf

\* The frames that were permitted still are when call_internal has asked.
LEMMA FramesAsked ==
    ASSUME NEW r \in Request, Good(r), NEW fn, NEW x, x.cred = r.cred, x.assumed = r.assumed,
           x.login = IF fn.aclResource = <<>> THEN r.login ELSE LoginOf(r),
           NEW f, FramePermitted(r, f)
    PROVE  FramePermitted(x, f)
  BY AskedLogin DEF FramePermitted, Presented

LEMMA AuthorizeStep ==
    ASSUME TypeOK, RInv, NEW s \in Slot, Authorize(s)
    PROVE  Moves(s)
  <1> DEFINE r == req[s]
             frame == r.frames[1]
             login == IF frame.fn.aclResource = <<>> THEN r.login ELSE LoginOf(r)
             ok == Permits(frame.fn, login, frame.input) /\ frame.fn.session = ""
             x == [r EXCEPT !.login = login, !.pc = IF ok THEN "body" ELSE "defer",
                            !.reply = IF ok THEN None ELSE "error"]
  <1>1. /\ r # None /\ r.pc = "handlers" /\ req' = [req EXCEPT ![s] = x]
        /\ UNCHANGED <<store, jar, served, bumps, disturbed>>
    BY DEF Authorize, At, Set
  <1>2. r \in Request /\ Good(r)
    BY <1>1 DEF TypeOK, RInv
  <1>3. r.frames \in Seq(Frame) /\ Len(r.frames) = 1 /\ FrameValid(frame) /\ r.cred \in Credentials
    BY <1>1, <1>2 DEF Good, Request
  <1>4. frame \in Frame /\ r.frames = <<frame>> /\ frame = [fn |-> frame.fn, input |-> frame.input]
    <2>1. frame \in Frame /\ r.frames = <<frame>>
      BY <1>3
    <2> HIDE DEF frame
    <2> QED BY <2>1 DEF Frame
  <1>5. /\ login \in LoginRecord \cup {None}
        /\ r.assumed => login # None /\ (login = r.login \/ DebugUser(r.cred))
        /\ login # None \/ frame.fn.aclResource # <<>>
              => /\ r.assumed \/ login = userWithJWT(r.cred)
                 /\ login.tenant \in {None, userWithJWT(r.cred).tenant}
    BY <1>2, AskedLogin
  <1>6. ok \in BOOLEAN
    BY DEF Permits, enforceACL
  <1>7. /\ x \in Request
        /\ x.pc = IF ok THEN "body" ELSE "defer"
        /\ x.frames = r.frames /\ x.login = login /\ x.cred = r.cred /\ x.assumed = r.assumed
        /\ x.via = r.via /\ SameSession(r, x)
    <2> HIDE DEF login, frame, ok
    <2> QED BY <1>1, <1>2, <1>5 DEF Request, SameSession
  <1>8. ok => FramePermitted(x, frame)
    <2> HIDE DEF x, login, frame
    <2> QED BY <1>3, <1>4, <1>5, <1>7, PermittedFrame
  <1>9. Good(x)
    <2> HIDE DEF x, login, ok
    <2>1. LoginProven(x)
      BY <1>2, <1>5, <1>7 DEF LoginProven, Good
    <2>2. x.frames # <<>> /\ \A i \in DOMAIN x.frames : x.frames[i] = frame
      BY <1>4, <1>7
    <2> HIDE DEF frame
    <2> QED BY <1>3, <1>6, <1>7, <1>8, <2>1, <2>2 DEF Good
  <1> HIDE DEF x
  <1> QED BY <1>1, <1>7, <1>9 DEF Moves

LEMMA ConsumedStep ==
    ASSUME TypeOK, RInv, NEW s \in Slot, NEW reply \in {"ok", "error"}, Consumed(s, reply)
    PROVE  Moves(s)
  <1> DEFINE r == req[s]  x == [r EXCEPT !.pc = "defer", !.reply = reply]
  <1>1. /\ r \in Request /\ Good(r) /\ r # None /\ r.pc = "handlers"
        /\ req' = [req EXCEPT ![s] = x]
    BY DEF Consumed, At, Set, TypeOK, RInv
  <1>2. /\ x \in Request /\ SameSession(r, x) /\ x.pc = "defer"
        /\ x.cred = r.cred /\ x.assumed = r.assumed /\ x.login = r.login
    BY <1>1 DEF Request, SameSession
  <1> HIDE DEF x
  <1>3. Good(x)
    BY <1>1, <1>2, GoodDone
  <1> QED BY <1>1, <1>2, <1>3 DEF Moves

LEMMA ReturnStep ==
    ASSUME TypeOK, RInv, NEW s \in Slot, NEW reply \in {"ok", "error"}, Return(s, reply)
    PROVE  Moves(s)
  <1> DEFINE r == req[s]  x == [r EXCEPT !.pc = "defer", !.reply = reply]
  <1>1. r \in Request /\ Good(r) /\ r # None /\ r.pc = "body" /\ req' = [req EXCEPT ![s] = x]
    BY DEF Return, At, Set, TypeOK, RInv
  <1>2. /\ x \in Request /\ SameSession(r, x) /\ x.pc = "defer"
        /\ x.cred = r.cred /\ x.assumed = r.assumed /\ x.login = r.login
    BY <1>1 DEF Request, SameSession
  <1> HIDE DEF x
  <1>3. Good(x)
    BY <1>1, <1>2, GoodDone
  <1> QED BY <1>1, <1>2, <1>3 DEF Moves

LEMMA ReturnMCPStep ==
    ASSUME TypeOK, RInv, NEW s \in Slot, NEW reply \in {"ok", "error"}, ReturnMCP(s, reply)
    PROVE  Moves(s) /\ disturbed' \subseteq Client
  <1> DEFINE r == req[s]  x == [r EXCEPT !.pc = "respond", !.reply = reply]
  <1>1. r \in Request /\ Good(r) /\ r # None /\ r.pc = "body" /\ req' = [req EXCEPT ![s] = x]
    BY DEF ReturnMCP, At, Set, TypeOK, RInv
  <1>2. /\ x \in Request /\ SameSession(r, x) /\ x.pc = "respond"
        /\ x.cred = r.cred /\ x.assumed = r.assumed /\ x.login = r.login
    BY <1>1 DEF Request, SameSession
  <1> HIDE DEF x
  <1>3. Good(x)
    BY <1>1, <1>2, GoodDone
  <1>4. disturbed' \subseteq Client
    BY <1>1 DEF ReturnMCP, TypeOK, Request
  <1> QED BY <1>1, <1>2, <1>3, <1>4 DEF Moves

LEMMA UserStep ==
    ASSUME TypeOK, RInv, NEW s \in Slot, User(s)
    PROVE  Moves(s)
  <1> DEFINE r == req[s]  x == [r EXCEPT !.login = LoginOf(r)]
  <1>1. r \in Request /\ Good(r) /\ r # None /\ r.pc = "body" /\ req' = [req EXCEPT ![s] = x]
    BY DEF User, Body, At, Set, TypeOK, RInv
  <1>2. x \in Request /\ Good(x)
    BY <1>1, LoginLooked
  <1>3. SameSession(r, x)
    BY <1>1 DEF Request, SameSession
  <1> QED BY <1>1, <1>2, <1>3 DEF Moves

LEMMA AssumeStep ==
    ASSUME TypeOK, RInv, NEW s \in Slot, NEW u \in Uid, NEW w \in BOOLEAN, Assume(s, u, w)
    PROVE  Moves(s)
  <1> DEFINE r == req[s]  l == AssumeUser(r.login, u, w)
             x == [r EXCEPT !.login = l, !.assumed = TRUE]
  <1>1. /\ r \in Request /\ Good(r) /\ r # None /\ ~r.assumed /\ req' = [req EXCEPT ![s] = x]
        /\ r.pc = "body"
    BY DEF Assume, Body, At, Set, TypeOK, RInv
  <1>2. l \in LoginRecord /\ l.tenant = IF r.login = None THEN None ELSE r.login.tenant
    BY <1>1 DEF AssumeUser, Request, LoginRecord
  <1> HIDE DEF l
  <1>3. /\ x \in Request /\ SameSession(r, x) /\ x.pc = "body" /\ x.frames = r.frames
        /\ x.cred = r.cred /\ x.assumed = TRUE /\ x.login = l /\ x.via = r.via
    BY <1>1, <1>2 DEF Request, SameSession
  <1> HIDE DEF x
  <1>4. LoginProven(x)
    BY <1>1, <1>2, <1>3, NoneAssumption DEF LoginProven, Good
  <1>5. ASSUME NEW f, FramePermitted(r, f) PROVE FramePermitted(x, f)
    BY <1>1, <1>3, <1>5 DEF FramePermitted, Presented
  <1>6. Good(x)
    BY <1>1, <1>3, <1>4, <1>5 DEF Good
  <1> QED BY <1>1, <1>3, <1>6 DEF Moves

LEMMA CallStep ==
    ASSUME TypeOK, RInv, NEW s \in Slot, NEW g \in Nested, Call(s, g)
    PROVE  Moves(s)
  <1> DEFINE r == req[s]
             login == IF g.fn.aclResource = <<>> THEN r.login ELSE LoginOf(r)
             new == [fn |-> g.fn, input |-> g.input]
             x == [r EXCEPT !.login = login, !.frames = Append(@, new)]
  <1>1. /\ r \in Request /\ Good(r) /\ r # None /\ r.pc = "body"
        /\ ~CallRefused(r, g.fn, g.input) /\ req' = [req EXCEPT ![s] = x]
    BY DEF Call, Body, At, Set, TypeOK, RInv
  <1>2. /\ login \in LoginRecord \cup {None}
        /\ r.assumed => login # None /\ (login = r.login \/ DebugUser(r.cred))
        /\ login # None \/ g.fn.aclResource # <<>>
              => /\ r.assumed \/ login = userWithJWT(r.cred)
                 /\ login.tenant \in {None, userWithJWT(r.cred).tenant}
    BY <1>1, AskedLogin
  <1>3. Permits(g.fn, login, g.input)
    BY <1>1 DEF CallRefused, Permits, enforceACL
  <1>4. FrameValid(new)
    BY <1>1 DEF CallRefused, FrameValid, Refuses
  <1>5. new \in Frame
    BY DEF Fn, Inputs, Frame
  <1>6. r.frames \in Seq(Frame) /\ r.cred \in Credentials
    BY <1>1 DEF Request
  <1> DEFINE frames == Append(r.frames, new)
  <1>7. /\ frames \in Seq(Frame) /\ frames # <<>>
        /\ \A i \in DOMAIN frames : (i \in DOMAIN r.frames /\ frames[i] = r.frames[i]) \/ frames[i] = new
    <2> HIDE DEF new
    <2> QED BY <1>5, <1>6, AppendProperties
  <1> HIDE DEF frames, new
  <1>8. /\ x \in Request /\ SameSession(r, x) /\ x.pc = "body" /\ x.frames = frames
        /\ x.cred = r.cred /\ x.assumed = r.assumed /\ x.login = login /\ x.via = r.via
    <2> HIDE DEF login
    <2> QED BY <1>1, <1>2, <1>7 DEF Request, SameSession, frames
  <1> HIDE DEF x
  <1>9. FramePermitted(x, new)
    <2> HIDE DEF login
    <2> QED BY <1>2, <1>3, <1>6, <1>8, PermittedFrame DEF new
  <1>10. ASSUME NEW f, FramePermitted(r, f) PROVE FramePermitted(x, f)
    BY <1>1, <1>8, <1>10, FramesAsked
  <1>11. LoginProven(x)
    <2> HIDE DEF login
    <2> QED BY <1>1, <1>2, <1>8 DEF LoginProven
  <1>12. Good(x)
    <2> HIDE DEF login
    <2> QED BY <1>1, <1>4, <1>7, <1>8, <1>9, <1>10, <1>11 DEF Good
  <1> QED BY <1>1, <1>8, <1>12 DEF Moves

LEMMA CallReturnsStep ==
    ASSUME TypeOK, RInv, NEW s \in Slot, CallReturns(s)
    PROVE  Moves(s)
  <1> DEFINE r == req[s]  x == [r EXCEPT !.frames = <<@[1]>>]
  <1>1. /\ r \in Request /\ Good(r) /\ r # None /\ r.pc = "body" /\ Len(r.frames) > 1
        /\ req' = [req EXCEPT ![s] = x]
    BY DEF CallReturns, At, Set, TypeOK, RInv
  <1> DEFINE frames == <<r.frames[1]>>
  <1>2. r.frames \in Seq(Frame) /\ 1 \in DOMAIN r.frames
    BY <1>1 DEF Request
  <1>3. /\ frames \in Seq(Frame) /\ frames # <<>> /\ DOMAIN frames = {1}
        /\ \A i \in DOMAIN frames : frames[i] = r.frames[1]
    BY <1>2
  <1> HIDE DEF frames
  <1>4. /\ x \in Request /\ SameSession(r, x) /\ x.pc = "body" /\ x.frames = frames
        /\ x.cred = r.cred /\ x.assumed = r.assumed /\ x.login = r.login /\ x.via = r.via
    BY <1>1, <1>3 DEF Request, SameSession, frames
  <1> HIDE DEF x
  <1>5. (x.via = "http" => FramePermitted(x, r.frames[1])) /\ LoginProven(x) /\ FrameValid(r.frames[1])
    BY <1>1, <1>2, <1>4 DEF FramePermitted, Presented, Good, LoginProven
  <1>6. Good(x)
    BY <1>3, <1>4, <1>5 DEF Good
  <1> QED BY <1>1, <1>4, <1>6 DEF Moves

\* The requests an action leaves alone stay owned, if ids and counts only grow.
LEMMA OwnReplaced ==
    ASSUME TypeOK, NEW own, NEW own2, Own(own), NEW s \in Slot, NEW x \in Request \cup {None},
           req' = [req EXCEPT ![s] = x],
           x # None => OwnRequest(x, own2, served', bumps'),
           \A r \in Request : OwnRequest(r, own, served, bumps) => OwnRequest(r, own2, served', bumps')
    PROVE  \A t \in Slot : req'[t] # None => OwnRequest(req'[t], own2, served', bumps')
  <1> SUFFICES ASSUME NEW t \in Slot, req'[t] # None
               PROVE  OwnRequest(req'[t], own2, served', bumps')
    OBVIOUS
  <1>1. CASE t = s
    <2>1. req'[t] = x
      BY <1>1 DEF TypeOK
    <2> QED BY <2>1
  <1>2. CASE t # s
    <2>1. req'[t] = req[t] /\ req[t] \in Request
      BY <1>2 DEF TypeOK
    <2> QED BY <2>1 DEF Own
  <1> QED BY <1>1, <1>2

\* A step that leaves sessions alone keeps the invariant.
LEMMA MovesKeeps ==
    ASSUME TypeOK, RInv, NEW own \in [Sid -> Client], Own(own), NEW s \in Slot, Moves(s),
           UNCHANGED <<store, jar, served, bumps>>, disturbed' \subseteq Client
    PROVE  TypeOK' /\ RInv' /\ Own(own)'
  <1>1. PICK x \in Request : Good(x) /\ SameSession(req[s], x) /\ req' = [req EXCEPT ![s] = x]
    BY DEF Moves
  <1>2. req[s] # None
    BY DEF Moves
  <1>3. req' \in [Slot -> Request \cup {None}] /\ RInv'
    BY <1>1, Replaced
  <1>4. TypeOK'
    BY <1>3 DEF TypeOK
  <1>5. OwnRequest(x, own, served, bumps)
    BY <1>1, <1>2 DEF SameSession, OwnRequest, Ids, Own
  <1>6. \A t \in Slot : req'[t] # None => OwnRequest(req'[t], own, served', bumps')
    BY <1>1, <1>5, OwnReplaced
  <1> QED BY <1>3, <1>4, <1>6 DEF Own

-----------------------------------------------------------------------------
\* A step of one request that may change its session.
LEMMA SessionKeeps ==
    ASSUME TypeOK, RInv, NEW own \in [Sid -> Client], Own(own), NEW s \in Slot, req[s] # None,
           NEW x \in Request, Good(x), OwnRequest(x, own, served, bumps),
           req' = [req EXCEPT ![s] = x],
           UNCHANGED <<store, jar, served, bumps>>, disturbed' \subseteq Client
    PROVE  TypeOK' /\ RInv' /\ Own(own)'
  <1>1. req' \in [Slot -> Request \cup {None}] /\ RInv'
    BY Replaced
  <1>2. TypeOK'
    BY <1>1 DEF TypeOK
  <1>3. \A t \in Slot : req'[t] # None => OwnRequest(req'[t], own, served', bumps')
    BY OwnReplaced
  <1> QED BY <1>1, <1>2, <1>3 DEF Own

LEMMA SessionIDStep ==
    ASSUME TypeOK, RInv, NEW own \in [Sid -> Client], Own(own), NEW s \in Slot, NEW b \in BOOLEAN,
           SessionID(s, b)
    PROVE  TypeOK' /\ RInv' /\ Own(own)'
  <1> DEFINE r == req[s]  x == WithSid(r, b)
  <1>1. /\ r \in Request /\ Good(r) /\ r # None /\ req' = [req EXCEPT ![s] = x]
        /\ UNCHANGED <<store, jar, served, bumps>>
        /\ OwnRequest(r, own, served, bumps)
    BY DEF SessionID, Body, At, Set, TypeOK, RInv, Own
  <1>2. disturbed' \subseteq Client
    BY <1>1 DEF SessionID, TypeOK, Request
  <1>3. /\ x \in Request /\ x.pc = r.pc /\ x.frames = r.frames /\ x.cred = r.cred
        /\ x.client = r.client /\ x.assumed = r.assumed /\ x.login = r.login /\ x.via = r.via
        /\ x.sess = r.sess /\ Ids(x) \subseteq Ids(r)
    BY <1>1, WithSidFields DEF Ids
  <1> HIDE DEF x
  <1>4. Good(x)
    BY <1>1, <1>3, GoodFields
  <1>5. OwnRequest(x, own, served, bumps)
    BY <1>1, <1>3 DEF OwnRequest
  <1> QED BY <1>1, <1>2, <1>3, <1>4, <1>5, SessionKeeps

LEMMA BumpStep ==
    ASSUME TypeOK, RInv, NEW own \in [Sid -> Client], Own(own), NEW s \in Slot, Bump(s)
    PROVE  TypeOK' /\ RInv' /\ Own(own)'
  <1> DEFINE r == req[s]  x == [r EXCEPT !.sess.n = @ + 1]
  <1>1. /\ r \in Request /\ Good(r) /\ r # None /\ req' = [req EXCEPT ![s] = x]
        /\ r.sess # None /\ ~Counted(r)
        /\ UNCHANGED <<store, jar, served, bumps, disturbed>>
        /\ OwnRequest(r, own, served, bumps)
    BY DEF Bump, Body, At, Set, TypeOK, RInv, Own
  <1> DEFINE e == [r.sess EXCEPT !.n = @ + 1]
  <1>2. r.sess \in Session
    BY <1>1 DEF Request
  <1>3. /\ e \in Session /\ e.key = r.sess.key /\ e.typ = r.sess.typ
        /\ e.old = r.sess.old /\ e.n = Loaded(e.old, e.typ) + 1
    BY <1>1, <1>2 DEF Session, Counted
  <1> HIDE DEF e
  <1>4. /\ x \in Request /\ x.pc = r.pc /\ x.frames = r.frames /\ x.cred = r.cred
        /\ x.client = r.client /\ x.assumed = r.assumed /\ x.login = r.login /\ x.via = r.via
        /\ x.sess = e /\ x.fresh = r.fresh /\ x.guest = r.guest /\ x.sid = r.sid
    BY <1>1, <1>3 DEF Request, e
  <1> HIDE DEF x
  <1>5. Good(x)
    BY <1>1, <1>4, GoodFields
  <1>6. OwnRequest(x, own, served, bumps)
    BY <1>1, <1>3, <1>4 DEF OwnRequest, Ids
  <1> QED BY <1>1, <1>4, <1>5, <1>6, SessionKeeps DEF TypeOK

\* The value of an entry.
LEMMA LoadedType ==
    ASSUME NEW e \in Entry \cup {None}, NEW typ
    PROVE  Loaded(e, typ) \in Nat /\ (Loaded(e, typ) = 0 \/ (e # None /\ Loaded(e, typ) = e.n))
  BY DEF Loaded, Entry

LEMMA GetSessionStep ==
    ASSUME TypeOK, RInv, NEW own \in [Sid -> Client], Own(own), NEW s \in Slot, GetSession(s)
    PROVE  TypeOK' /\ RInv' /\ Own(own)' /\ req'[s] # None
  <1> DEFINE was    == req[s]
             asked  == [was EXCEPT !.login = LoginOf(was)]
             again  == asked.sess # None
             guest  == asked.login.err = "not logged in"
             isNew  == IF again THEN asked.sess.old = None ELSE store[asked.login.uid] = None
             needed == guest => isNew
             r      == IF needed THEN WithSid(asked, TRUE) ELSE asked
             key    == IF again THEN r.sess.key ELSE SessionKey(r)
             stored == IF again THEN r.sess.old ELSE store[key]
             typ    == r.frames[Len(r.frames)].fn.typ
             e      == [key |-> key, typ |-> typ, old |-> stored, n |-> Loaded(stored, typ)]
             x      == [r EXCEPT !.sess = e]
  <1>1. /\ was \in Request /\ Good(was) /\ was # None /\ was.pc = "body"
        /\ req' = [req EXCEPT ![s] = x]
        /\ UNCHANGED <<store, jar, served, bumps>>
        /\ OwnRequest(was, own, served, bumps)
    BY DEF GetSession, Body, At, Set, TypeOK, RInv, Own
  <1>2. /\ asked \in Request /\ Good(asked) /\ asked.login = LoginOf(was)
        /\ asked.pc = was.pc
    BY <1>1, LoginLooked DEF Request
  <1>3. Ids(asked) = Ids(was) /\ asked.client = was.client /\ asked.sess = was.sess
    BY <1>1 DEF Request, Ids
  <1>4. asked.login \in LoginRecord
    BY <1>1, <1>2, LoginOfType
  <1> HIDE DEF asked
  <1>5. /\ r \in Request /\ Good(r) /\ r.pc = "body" /\ r.login = asked.login
        /\ Ids(r) \subseteq Ids(was) /\ r.client = was.client /\ r.sess = was.sess
        /\ needed => r.sid \in Sid
    <2>1. CASE needed
      <3> DEFINE w == WithSid(asked, TRUE)
      <3>1. /\ w \in Request /\ w.pc = asked.pc /\ w.frames = asked.frames
            /\ w.cred = asked.cred /\ w.client = asked.client /\ w.assumed = asked.assumed
            /\ w.login = asked.login /\ w.via = asked.via /\ w.sess = asked.sess /\ w.fresh = asked.fresh
            /\ w.guest = asked.guest
            /\ w.sid = IF asked.sid # None THEN asked.sid
                       ELSE IF asked.guest # None THEN asked.guest ELSE asked.fresh
        BY <1>2, WithSidFields
      <3> HIDE DEF w
      <3>2. Good(w)
        BY <1>2, <3>1, GoodFields
      <3>3. Ids(w) \subseteq Ids(asked) /\ w.sid \in Sid
        BY <1>2, <3>1 DEF Ids, Request
      <3>4. r = w
        BY <2>1 DEF w
      <3> HIDE DEF r, needed
      <3> QED BY <1>1, <1>2, <1>3, <3>1, <3>2, <3>3, <3>4
    <2>2. CASE ~needed
      <3>1. r = asked
        BY <2>2
      <3> HIDE DEF r, needed
      <3> QED BY <1>1, <1>2, <1>3, <2>2, <3>1
    <2> QED BY <2>1, <2>2
  <1>6. needed \/ guest
    OBVIOUS
  <1>7. r.frames \in Seq(Frame) /\ typ \in {f.typ : f \in Fn}
    <2> HIDE DEF r
    <2>1. r.frames \in Seq(Frame) /\ r.frames # <<>>
      BY <1>5 DEF Request, Good
    <2>2. r.frames[Len(r.frames)] \in Frame
      BY <2>1
    <2> QED BY <2>1, <2>2 DEF Frame
  <1>8. asked.login.uid \in Key /\ asked.login.uid \notin Sid
    <2>1. asked.login.uid \in Uid \cup {None}
      BY <1>4 DEF LoginRecord
    <2>2. \A i \in Sid : i \in Int
      BY RequestsAssumption DEF Sid
    <2>3. \A i \in Uid \cup {None} : i \notin Int
      BY RequestsAssumption, Zenon
    <2> QED BY <2>1, <2>2, <2>3 DEF Key
  <1>9. /\ key \in Key /\ stored \in Entry \cup {None}
        /\ key \in Sid => key \in Ids(was)
        /\ key \in Sid /\ stored # None => stored.n <= bumps[was.client]
    <2> HIDE DEF r, needed
    <2>1. CASE again
      <3>1. key = was.sess.key /\ stored = was.sess.old /\ was.sess # None
        BY <1>3, <1>5, <2>1
      <3>2. was.sess \in Session
        BY <1>1, <3>1 DEF Request
      <3> HIDE DEF key, stored
      <3> QED BY <1>1, <3>1, <3>2 DEF Session, OwnRequest, Ids
    <2>2. CASE ~again
      <3>1. key = IF guest THEN asked.login.uid ELSE r.sid
        BY <1>5, <2>2 DEF SessionKey
      <3>2. stored = store[key]
        BY <2>2
      <3>3. key \in Key
        BY <1>5, <1>6, <1>8, <3>1 DEF Key
      <3>4. key \in Sid => key \in Ids(was)
        BY <1>5, <1>6, <1>8, <3>1 DEF Ids
      <3> HIDE DEF key, stored
      <3>5. stored \in Entry \cup {None}
        BY <3>2, <3>3 DEF TypeOK
      <3>6. key \in Sid => own[key] = was.client
        BY <1>1, <3>4 DEF OwnRequest
      <3> QED BY <3>2, <3>3, <3>4, <3>5, <3>6 DEF Own
    <2> QED BY <2>1, <2>2
  <1> HIDE DEF r, key, stored, typ, needed
  <1>10. /\ e \in Session /\ e.key = key /\ e.old = stored
         /\ e.n = Loaded(e.old, e.typ)
    <2>1. Loaded(stored, typ) \in Nat
      BY <1>9, LoadedType
    <2> QED BY <1>7, <1>9, <2>1 DEF Session
  <1> HIDE DEF e
  <1>11. /\ x \in Request /\ x.pc = r.pc /\ x.frames = r.frames /\ x.cred = r.cred
         /\ x.client = r.client /\ x.assumed = r.assumed /\ x.login = r.login /\ x.via = r.via
         /\ x.sess = e /\ Ids(x) \subseteq Ids(r) \cup {key}
    BY <1>5, <1>10 DEF Request, Ids
  <1> HIDE DEF x
  <1>12. Good(x)
    BY <1>5, <1>11, GoodFields
  <1>13. OwnRequest(x, own, served, bumps)
    BY <1>1, <1>5, <1>9, <1>10, <1>11 DEF OwnRequest
  <1>14. disturbed' \subseteq Client
    <2>1. disturbed' \in {disturbed, disturbed \cup {r.client}}
      BY DEF GetSession, r, key, stored, typ, needed, asked
    <2> QED BY <1>5, <2>1 DEF TypeOK, Request
  <1>15. req'[s] # None
    BY <1>1, <1>11, NoneAssumption DEF TypeOK
  <1> QED BY <1>1, <1>11, <1>12, <1>13, <1>14, <1>15, SessionKeeps

\* What a request writes is what its client put there.
LEMMA DeferStep ==
    ASSUME TypeOK, RInv, NEW own \in [Sid -> Client], Own(own), NEW s \in Slot, NEW failed \in BOOLEAN,
           do_defer(s, failed)
    PROVE  TypeOK' /\ RInv' /\ Own(own)'
  <1> DEFINE r == req[s]  x == [r EXCEPT !.pc = "respond"]
             counts == Counted(r) /\ r.sess.key \in Sid
             writes == Changed(r) /\ ~failed
  <1>1. /\ r \in Request /\ Good(r) /\ r # None /\ req' = [req EXCEPT ![s] = x]
        /\ OwnRequest(r, own, served, bumps) /\ r.client \in Client
        /\ jar' = jar /\ served' = served
    BY DEF do_defer, At, Set, TypeOK, RInv, Own, Request
  <1>2. /\ bumps' = IF counts THEN [bumps EXCEPT ![r.client] = @ + 1] ELSE bumps
        /\ store' = IF writes THEN [store EXCEPT ![r.sess.key] = [typ |-> r.sess.typ, n |-> r.sess.n]]
                     ELSE store
        /\ disturbed' \in {disturbed, disturbed \cup {r.client}}
    BY DEF do_defer
  <1>3. /\ bumps' \in [Client -> Nat] /\ \A c \in Client : bumps[c] <= bumps'[c]
        /\ counts => bumps'[r.client] = bumps[r.client] + 1
    BY <1>1, <1>2 DEF TypeOK
  <1>4. /\ x \in Request /\ x.pc = "respond" /\ x.cred = r.cred /\ x.assumed = r.assumed
        /\ x.login = r.login /\ x.client = r.client /\ x.sess = r.sess /\ Ids(x) = Ids(r)
    BY <1>1 DEF Request, Ids
  <1> HIDE DEF x
  <1>5. Good(x)
    BY <1>1, <1>4, GoodDone
  <1>6. req' \in [Slot -> Request \cup {None}] /\ RInv'
    BY <1>1, <1>4, <1>5, Replaced
  <1>7. ASSUME writes
        PROVE  /\ r.sess # None /\ r.sess \in Session
               /\ r.sess.key \in Key /\ [typ |-> r.sess.typ, n |-> r.sess.n] \in Entry
    BY <1>1, <1>7 DEF Changed, Request, Session, Entry
  <1>8. store' \in [Key -> Entry \cup {None}]
    <2> HIDE DEF writes
    <2> QED BY <1>2, <1>7 DEF TypeOK
  <1>9. TypeOK'
    BY <1>1, <1>2, <1>3, <1>6, <1>8 DEF TypeOK
  <1>10. ASSUME NEW q \in Request, OwnRequest(q, own, served, bumps)
         PROVE  OwnRequest(q, own, served', bumps')
    <2>1. q.client \in Client /\ (q.sess # None => q.sess \in Session)
      BY DEF Request
    <2>2. ASSUME q.sess # None, q.sess.key \in Sid, q.sess.old # None
          PROVE  q.sess.old.n <= bumps'[q.client]
      <3>1. q.sess.old \in Entry /\ q.sess.old.n \in Nat
        BY <2>1, <2>2 DEF Session, Entry
      <3>2. q.sess.old.n <= bumps[q.client]
        BY <1>10, <2>2 DEF OwnRequest
      <3>3. bumps[q.client] \in Nat /\ bumps'[q.client] \in Nat
        BY <1>3, <2>1 DEF TypeOK
      <3> QED BY <1>3, <2>1, <3>1, <3>2, <3>3
    <2> QED BY <1>1, <1>10, <2>2 DEF OwnRequest
  <1>11. OwnRequest(x, own, served', bumps')
    BY <1>1, <1>4, <1>10 DEF OwnRequest
  <1>12. \A t \in Slot : req'[t] # None => OwnRequest(req'[t], own, served', bumps')
    BY <1>1, <1>4, <1>10, <1>11, OwnReplaced
  <1>13. ASSUME NEW i \in Sid, store'[i] # None
         PROVE  i <= served /\ store'[i].n <= bumps'[own[i]]
    <2>1. i \in Key /\ own[i] \in Client /\ bumps[own[i]] \in Nat /\ bumps'[own[i]] \in Nat
      BY <1>3 DEF Key, TypeOK
    <2>2. CASE store'[i] = store[i]
      <3>1. i <= served /\ store[i].n <= bumps[own[i]]
        BY <1>13, <2>2 DEF Own
      <3>2. store[i].n \in Nat
        BY <1>13, <2>1, <2>2 DEF TypeOK, Entry
      <3> QED BY <1>3, <2>1, <2>2, <3>1, <3>2
    <2>3. CASE store'[i] # store[i]
      <3>1. writes /\ i = r.sess.key /\ store'[i] = [typ |-> r.sess.typ, n |-> r.sess.n]
        BY <1>2, <1>7, <2>1, <2>3 DEF TypeOK
      <3> DEFINE old == r.sess.old  l == Loaded(r.sess.old, r.sess.typ)
      <3>2. r.sess # None /\ old \in Entry \cup {None} /\ store'[i].n = r.sess.n /\ i \in Ids(r)
        BY <1>7, <3>1 DEF Session, Ids
      <3>3. i <= served /\ own[i] = r.client
        BY <1>1, <3>2 DEF OwnRequest
      <3>4. /\ r.sess.n \in {l, l + 1}
            /\ old # None => old.n <= bumps[r.client]
        BY <1>1, <3>1, <3>2 DEF OwnRequest
      <3>5. l \in Nat /\ l <= bumps[r.client]
        BY <2>1, <3>2, <3>3, <3>4, LoadedType
      <3>6. counts \/ r.sess.n = l
        BY <3>1, <3>2 DEF Counted
      <3> HIDE DEF l, old, counts, writes, r
      <3> QED BY <1>3, <2>1, <3>2, <3>3, <3>4, <3>5, <3>6
    <2> QED BY <2>2, <2>3
  <1>14. Own(own)'
    BY <1>1, <1>12, <1>13 DEF Own
  <1> QED BY <1>6, <1>9, <1>14

LEMMA RespondStep ==
    ASSUME TypeOK, RInv, NEW own \in [Sid -> Client], Own(own), NEW s \in Slot, NEW b \in BOOLEAN,
           Respond(s, b)
    PROVE  TypeOK' /\ RInv' /\ Own(own)'
  <1> DEFINE r == req[s]
  <1>1. /\ r \in Request /\ r # None /\ req' = [req EXCEPT ![s] = None]
        /\ OwnRequest(r, own, served, bumps)
        /\ r.client \in Client /\ r.sid \in Sid \cup {None}
        /\ UNCHANGED <<store, served, bumps>>
        /\ jar' = IF r.cookie /\ b THEN [jar EXCEPT ![r.client] = r.sid] ELSE jar
        /\ disturbed' \in {disturbed, disturbed \cup {r.client}}
    BY DEF Respond, At, Set, TypeOK, Own, Request
  <1>2. req' \in [Slot -> Request \cup {None}] /\ RInv'
    BY <1>1, Replaced
  <1>3. jar' \in [Client -> Sid \cup {None}]
    BY <1>1 DEF TypeOK
  <1>4. TypeOK'
    BY <1>1, <1>2, <1>3 DEF TypeOK
  <1>5. \A t \in Slot : req'[t] # None => OwnRequest(req'[t], own, served', bumps')
    BY <1>1, OwnReplaced
  <1>6. r.sid # None => r.sid <= served /\ own[r.sid] = r.client
    BY <1>1 DEF OwnRequest, Ids
  <1>7. ASSUME NEW c \in Client, jar'[c] # None
        PROVE  jar'[c] <= served /\ own[jar'[c]] = c
    BY <1>1, <1>6, <1>7 DEF TypeOK, Own
  <1>8. Own(own)'
    BY <1>1, <1>5, <1>7 DEF Own
  <1> QED BY <1>2, <1>4, <1>8

\* The id a new request would make is nobody's yet: it becomes its client's.
LEMMA ArriveOwned ==
    ASSUME TypeOK, RInv, NEW own \in [Sid -> Client], Own(own), NEW s \in Slot, NEW c \in Client,
           Comes(s, c)
    PROVE  Owned'
  <1> DEFINE id == served + 1
  <1>1. PICK x \in Request :
           /\ req' = [req EXCEPT ![s] = x]
           /\ x.client = c /\ x.fresh = id /\ x.guest = jar[c] /\ x.sid = None /\ x.sess = None
    BY Arrived
  <1>2. /\ served < MaxServed /\ served' = served + 1
        /\ store' = store /\ jar' = jar /\ bumps' = bumps
    BY Arrived
  <1>3. served \in Nat /\ id \in Sid /\ \A i \in Sid : i <= served => i # id
    BY <1>2, RequestsAssumption DEF TypeOK, Sid
  <1>4. PICK own2 \in [Sid -> Client] :
           own2[id] = c /\ \A i \in Sid : i <= served => own2[i] = own[i]
    <2>1. [own EXCEPT ![id] = c] \in [Sid -> Client]
      BY <1>3
    <2> QED BY <1>3, <2>1
  <1>5. \A i \in Sid : i <= served => i <= served'
    BY <1>2, <1>3, RequestsAssumption DEF Sid
  <1>6. OwnRequest(x, own2, served', bumps')
    <2>1. Ids(x) \subseteq {id, jar[c], None}
      BY <1>1 DEF Ids
    <2>2. None \notin Sid
      BY RequestsAssumption DEF Sid
    <2>3. jar[c] \in Sid => jar[c] <= served /\ own[jar[c]] = c
      BY <2>2 DEF Own
    <2> QED BY <1>1, <1>2, <1>3, <1>4, <1>5, <2>1, <2>2, <2>3 DEF OwnRequest
  <1>7. ASSUME NEW q \in Request, OwnRequest(q, own, served, bumps)
        PROVE  OwnRequest(q, own2, served', bumps')
    BY <1>2, <1>4, <1>5, <1>7 DEF OwnRequest
  <1>8. \A t \in Slot : req'[t] # None => OwnRequest(req'[t], own2, served', bumps')
    BY <1>1, <1>6, <1>7, OwnReplaced
  <1>9. ASSUME NEW d \in Client, jar'[d] # None
         PROVE  jar'[d] <= served' /\ own2[jar'[d]] = d
    BY <1>2, <1>4, <1>5, <1>9 DEF Own, TypeOK
  <1>10. ASSUME NEW i \in Sid, store'[i] # None
         PROVE  i <= served' /\ store'[i].n <= bumps'[own2[i]]
    BY <1>2, <1>4, <1>5, <1>10 DEF Own
  <1>11. Own(own2)'
    BY <1>8, <1>9, <1>10 DEF Own
  <1> QED BY <1>4, <1>11 DEF Owned

-----------------------------------------------------------------------------
LEMMA RequestInit == ASSUME Init PROVE RequestInv
  <1>1. TypeOK /\ RInv
    BY RequestsAssumption DEF Init, TypeOK, RInv
  <1>2. PICK c \in Client : TRUE
    BY RequestsAssumption
  <1>3. [i \in Sid |-> c] \in [Sid -> Client]
    BY <1>2
  <1>4. Own([i \in Sid |-> c])
    BY DEF Init, Own, Key
  <1> QED BY <1>1, <1>3, <1>4 DEF RequestInv, Owned

LEMMA RequestStep == ASSUME RequestInv, [Next]_vars PROVE RequestInv'
  <1>0. TypeOK /\ RInv
    BY DEF RequestInv
  <1>1. PICK own \in [Sid -> Client] : Own(own)
    BY DEF RequestInv, Owned
  <1>2. ASSUME TypeOK' /\ RInv' /\ Own(own)' PROVE RequestInv'
    BY <1>2 DEF RequestInv, Owned
  <1>3. ASSUME NEW s \in Slot, Moves(s), UNCHANGED <<store, jar, served, bumps>>,
               disturbed' \subseteq Client
        PROVE  RequestInv'
    BY <1>0, <1>1, <1>2, <1>3, MovesKeeps
  <1>4. CASE UNCHANGED vars
    BY <1>0, <1>1, <1>2, <1>4 DEF vars, TypeOK, RInv, Own
  <1>5. ASSUME NEW s \in Slot, NEW c \in Client, Comes(s, c)
        PROVE  RequestInv'
    BY <1>0, <1>1, <1>5, ArriveStep, ArriveOwned DEF RequestInv
  <1>6. ASSUME NEW s \in Slot, NEW reply \in {"ok", "error"},
               Consumed(s, reply) \/ Return(s, reply) \/ ReturnMCP(s, reply)
        PROVE  RequestInv'
    <2>1. Moves(s) /\ disturbed' \subseteq Client
      BY <1>0, <1>6, ConsumedStep, ReturnStep, ReturnMCPStep DEF Consumed, Return, TypeOK
    <2>2. UNCHANGED <<store, jar, served, bumps>>
      BY <1>6 DEF Consumed, Return, ReturnMCP
    <2> QED BY <1>3, <2>1, <2>2
  <1>7. ASSUME NEW s \in Slot, NEW u \in Uid, NEW w \in BOOLEAN, Assume(s, u, w)
        PROVE  RequestInv'
    <2>1. Moves(s)
      BY <1>0, <1>7, AssumeStep
    <2>2. req[s] \in Request
      BY <1>0, <2>1 DEF TypeOK, Moves
    <2>3. UNCHANGED <<store, jar, served, bumps>> /\ disturbed' \subseteq Client
      BY <1>0, <1>7, <2>2 DEF Assume, TypeOK, Request
    <2> QED BY <1>3, <2>1, <2>3
  <1>8. ASSUME NEW s \in Slot, NEW g \in Nested, Call(s, g)
        PROVE  RequestInv'
    BY <1>0, <1>3, <1>8, CallStep DEF Call, TypeOK
  <1>9. ASSUME NEW s \in Slot, NEW b \in BOOLEAN, do_defer(s, b) \/ Respond(s, b) \/ SessionID(s, b)
        PROVE  RequestInv'
    BY <1>0, <1>1, <1>2, <1>9, DeferStep, RespondStep, SessionIDStep
  <1>10. ASSUME NEW s \in Slot, Authorize(s) \/ User(s) \/ CallReturns(s)
         PROVE  RequestInv'
    <2>1. Moves(s)
      BY <1>0, <1>10, AuthorizeStep, UserStep, CallReturnsStep
    <2>2. UNCHANGED <<store, jar, served, bumps, disturbed>>
      BY <1>10 DEF Authorize, User, CallReturns
    <2> QED BY <1>0, <1>3, <2>1, <2>2 DEF TypeOK
  <1>11. ASSUME NEW s \in Slot, GetSession(s) \/ Bump(s)
         PROVE  RequestInv'
    BY <1>0, <1>1, <1>2, <1>11, GetSessionStep, BumpStep
  <1> QED BY <1>4, <1>5, <1>6, <1>7, <1>8, <1>9, <1>10, <1>11, Zenon DEF Next, Comes

LEMMA RequestsInvariant == Spec => []RequestInv
  <1>1. Init => RequestInv
    BY RequestInit
  <1>2. RequestInv /\ [Next]_vars => RequestInv'
    BY RequestStep
  <1> QED BY <1>1, <1>2, PTL DEF Spec

-----------------------------------------------------------------------------
\* A step of the request of one client leaves the other clients' alone, and the other
\* requests of its own client are none, or the client is disturbed.
LEMMA SerialReplaced ==
    ASSUME TypeOK, SerialInv, NEW s \in Slot, NEW r \in Request, req[s] = r, r # None,
           NEW x \in Request, x # None, x.client = r.client, req' = [req EXCEPT ![s] = x],
           disturbed \subseteq disturbed',
           r.client \notin disturbed' /\ SerialRequest(r, store, jar[r.client], bumps[r.client])
              => SerialRequest(x, store', jar'[r.client], bumps'[r.client]),
           \A c \in Client \ {r.client} :
              /\ jar'[c] = jar[c] /\ bumps'[c] = bumps[c]
              /\ Holds(store', jar[c]) = Holds(store, jar[c])
              /\ \A t \in InFlight(c) : SerialRequest(req[t], store, jar[c], bumps[c])
                                          => SerialRequest(req[t], store', jar[c], bumps[c])
    PROVE  SerialInv'
  <1> SUFFICES ASSUME NEW c \in Client, c \notin disturbed'
               PROVE  /\ \A t, u \in InFlight(c)' : t = u
                      /\ InFlight(c)' = {} => bumps'[c] = Holds(store', jar'[c])
                      /\ \A t \in InFlight(c)' : SerialRequest(req'[t], store', jar'[c], bumps'[c])
    BY DEF SerialInv
  <1>1. c \in Client \ disturbed
    OBVIOUS
  <1>2. InFlight(c)' = InFlight(c)
    BY DEF InFlight, TypeOK
  <1>3. \A t \in InFlight(c) : req'[t] = IF t = s THEN x ELSE req[t]
    BY DEF TypeOK, InFlight
  <1>4. CASE c = r.client
    <2>1. s \in InFlight(c)
      BY <1>4 DEF InFlight
    <2>2. \A t \in InFlight(c) : t = s
      BY <1>1, <2>1 DEF SerialInv
    <2>3. SerialRequest(r, store, jar[c], bumps[c])
      BY <1>1, <2>1 DEF SerialInv
    <2> QED BY <1>2, <1>3, <1>4, <2>1, <2>2, <2>3
  <1>5. CASE c # r.client
    <2>1. s \notin InFlight(c)
      BY <1>5 DEF InFlight
    <2> QED BY <1>1, <1>2, <1>3, <1>5, <2>1 DEF SerialInv
  <1> QED BY <1>4, <1>5

\* One that writes nothing.
LEMMA SerialLocal ==
    ASSUME TypeOK, SerialInv, NEW s \in Slot, NEW r \in Request, req[s] = r, r # None,
           NEW x \in Request, x # None, x.client = r.client, req' = [req EXCEPT ![s] = x],
           disturbed \subseteq disturbed', UNCHANGED <<store, jar, bumps>>,
           \A st, j, b : r.client \notin disturbed' /\ st = store /\ SerialRequest(r, st, j, b)
                            => SerialRequest(x, st, j, b)
    PROVE  SerialInv'
  BY SerialReplaced

LEMMA SerialMoves ==
    ASSUME TypeOK, SerialInv, NEW s \in Slot, Moves(s), UNCHANGED <<store, jar, bumps>>,
           disturbed \subseteq disturbed'
    PROVE  SerialInv'
  <1>1. PICK x \in Request : Good(x) /\ SameSession(req[s], x) /\ req' = [req EXCEPT ![s] = x]
    BY DEF Moves
  <1>2. req[s] # None /\ req[s] \in Request
    BY DEF Moves, TypeOK
  <1>3. x # None
    BY <1>1, NoneAssumption
  <1>4. ASSUME NEW st, NEW j, NEW b, SerialRequest(req[s], st, j, b)
        PROVE  SerialRequest(x, st, j, b)
    BY <1>1, <1>4 DEF SameSession, SerialRequest
  <1>5. x.client = req[s].client
    BY <1>1 DEF SameSession
  <1> QED BY <1>1, <1>2, <1>3, <1>4, <1>5, SerialLocal

\* SessionID and GetSession give a request the id of its cookie, or the one it makes.
LEMMA SerialWithSid ==
    ASSUME NEW r \in Request, r.pc # "respond", NEW set \in BOOLEAN,
           set \/ r.guest # None \/ r.sid # None,
           NEW st, NEW j, NEW b, SerialRequest(r, st, j, b)
    PROVE  SerialRequest(WithSid(r, set), st, j, b)
  <1> DEFINE x == WithSid(r, set)
  <1>1. CASE r.sid # None
    BY <1>1 DEF WithSid
  <1>2. CASE r.sid = None
    <2>1. /\ x.pc = r.pc /\ x.sess = r.sess /\ x.fresh = r.fresh /\ x.guest = r.guest
          /\ x.sid = IF r.guest # None THEN r.guest ELSE r.fresh
          /\ x.cookie = set
      BY <1>2 DEF WithSid, Request
    <2>2. None \notin Sid /\ r.fresh \in Sid
      BY RequestsAssumption DEF Sid, Request
    <2> HIDE DEF x
    <2>3. x.sid # None /\ ~r.cookie
      BY <1>2, <2>1, <2>2 DEF SerialRequest
    <2>4. r.sess # None => r.sess.key \notin Sid
      BY <1>2, <2>2 DEF SerialRequest
    <2>5. Holds(st, IF x.cookie THEN x.sid ELSE j) = Holds(st, j)
      BY <2>1, <2>3 DEF SerialRequest, Holds
    <2>6. SerialRequest(x, st, j, b)
      BY <2>1, <2>3, <2>4, <2>5 DEF SerialRequest
    <2> QED BY <2>6 DEF x
  <1> QED BY <1>1, <1>2

LEMMA SerialSessionID ==
    ASSUME TypeOK, SerialInv, NEW s \in Slot, NEW set \in BOOLEAN, SessionID(s, set)
    PROVE  SerialInv'
  <1> DEFINE r == req[s]  x == WithSid(r, set)
  <1>1. /\ r \in Request /\ r # None /\ r.pc = "body" /\ r.sid = None
        /\ req' = [req EXCEPT ![s] = x]
        /\ UNCHANGED <<store, jar, bumps>> /\ disturbed \subseteq disturbed'
        /\ ~set /\ r.guest = None => r.client \in disturbed'
    BY DEF SessionID, Body, At, Set, TypeOK
  <1>2. x \in Request /\ x.client = r.client /\ x # None
    BY <1>1, WithSidFields, NoneAssumption
  <1>3. ASSUME NEW st, NEW j, NEW b, r.client \notin disturbed', SerialRequest(r, st, j, b)
        PROVE  SerialRequest(x, st, j, b)
    BY <1>1, <1>3, SerialWithSid
  <1> HIDE DEF x
  <1> QED BY <1>1, <1>2, <1>3, SerialLocal

LEMMA SerialBump ==
    ASSUME TypeOK, SerialInv, NEW s \in Slot, Bump(s)
    PROVE  SerialInv'
  <1> DEFINE r == req[s]  x == [r EXCEPT !.sess.n = @ + 1]
  <1>1. /\ r \in Request /\ r # None /\ req' = [req EXCEPT ![s] = x] /\ r.sess # None
        /\ UNCHANGED <<store, jar, bumps, disturbed>>
    BY DEF Bump, Body, At, Set, TypeOK
  <1> DEFINE e == [r.sess EXCEPT !.n = @ + 1]
  <1>2. r.sess \in Session
    BY <1>1 DEF Request
  <1>3. /\ e \in Session /\ e.key = r.sess.key /\ e.typ = r.sess.typ /\ e.old = r.sess.old
    BY <1>2 DEF Session
  <1> HIDE DEF e
  <1>4. /\ x \in Request /\ x.pc = r.pc /\ x.client = r.client /\ x.sess = e
        /\ x.fresh = r.fresh /\ x.guest = r.guest /\ x.sid = r.sid /\ x.cookie = r.cookie
    BY <1>1, <1>3 DEF Request, e
  <1> HIDE DEF x
  <1>5. ASSUME NEW st, NEW j, NEW b, SerialRequest(r, st, j, b)
        PROVE  SerialRequest(x, st, j, b)
    BY <1>1, <1>3, <1>4, <1>5 DEF SerialRequest
  <1> QED BY <1>1, <1>4, <1>5, SerialLocal, NoneAssumption

\* A session is loaded under the id of the request, or under one that is no session id.
LEMMA SerialGetSession ==
    ASSUME TypeOK, RInv, SerialInv, NEW s \in Slot, GetSession(s), TypeOK',
           req'[s] # None
    PROVE  SerialInv'
  <1> DEFINE was    == req[s]
             asked  == [was EXCEPT !.login = LoginOf(was)]
             again  == asked.sess # None
             guest  == asked.login.err = "not logged in"
             isNew  == IF again THEN asked.sess.old = None ELSE store[asked.login.uid] = None
             needed == guest => isNew
             r      == IF needed THEN WithSid(asked, TRUE) ELSE asked
             key    == IF again THEN r.sess.key ELSE SessionKey(r)
             stored == IF again THEN r.sess.old ELSE store[key]
             typ    == r.frames[Len(r.frames)].fn.typ
             e      == [key |-> key, typ |-> typ, old |-> stored, n |-> Loaded(stored, typ)]
             x      == [r EXCEPT !.sess = e]
  <1>1. /\ was \in Request /\ Good(was) /\ was # None /\ was.pc = "body"
        /\ req' = [req EXCEPT ![s] = x]
        /\ UNCHANGED <<store, jar, bumps>>
    BY DEF GetSession, Body, At, Set, TypeOK, RInv
  <1>2. /\ disturbed \subseteq disturbed'
        /\ stored # None /\ stored.typ # typ => r.client \in disturbed'
    <2>1. disturbed' = IF (stored # None /\ stored.typ # typ) \/ Counted(req[s])
                         THEN disturbed \cup {r.client} ELSE disturbed
      BY DEF GetSession
    <2> HIDE DEF r, stored, typ
    <2> QED BY <2>1
  <1>3. /\ asked \in Request /\ asked.login = LoginOf(was) /\ asked.login \in LoginRecord
        /\ asked.pc = "body" /\ asked.client = was.client /\ asked.sess = was.sess
        /\ asked.fresh = was.fresh /\ asked.guest = was.guest /\ asked.sid = was.sid
        /\ asked.cookie = was.cookie
    BY <1>1, LoginOfType DEF Request
  <1> HIDE DEF asked
  <1>4. /\ r \in Request /\ r.pc = "body" /\ r.client = was.client /\ r.sess = was.sess
        /\ r.login = asked.login /\ (was.sid # None => r.sid = was.sid)
    BY <1>3, WithSidFields DEF needed
  <1>5. ASSUME NEW st, NEW j, NEW b, SerialRequest(was, st, j, b)
        PROVE  SerialRequest(r, st, j, b)
    <2>1. SerialRequest(asked, st, j, b)
      BY <1>1, <1>3, <1>5 DEF SerialRequest
    <2> QED BY <1>3, <2>1, SerialWithSid
  <1>6. ~again => key = (IF guest THEN asked.login.uid ELSE r.sid) /\ stored = store[key]
    BY <1>4 DEF SessionKey
  <1>7. again => key = was.sess.key /\ stored = was.sess.old /\ was.sess # None
    BY <1>3, <1>4
  <1>8. asked.login.uid \notin Sid
    <2>1. asked.login.uid \in Uid \cup {None}
      BY <1>3 DEF LoginRecord
    <2>2. \A i \in Sid : i \in Int
      BY RequestsAssumption DEF Sid
    <2>3. \A i \in Uid \cup {None} : i \notin Int
      BY RequestsAssumption, Zenon
    <2> QED BY <2>1, <2>2, <2>3
  <1>9. None \notin Sid
    BY RequestsAssumption DEF Sid
  <1>10. x \in Request
    <2>1. req'[s] = x /\ req'[s] \in Request \cup {None}
      BY <1>1 DEF TypeOK
    <2> HIDE DEF x
    <2> QED BY <2>1
  <1> HIDE DEF r, key, stored, typ, needed, again
  <1>11. /\ x.pc = r.pc /\ x.client = r.client /\ x.fresh = r.fresh /\ x.guest = r.guest
         /\ x.sid = r.sid /\ x.cookie = r.cookie /\ x.sess = e
    BY <1>4 DEF Request
  <1>12. e.key = key /\ e.typ = typ /\ e.old = stored
    OBVIOUS
  <1> HIDE DEF x, e
  <1>13. ASSUME NEW j, NEW b, was.client \notin disturbed', SerialRequest(was, store, j, b)
         PROVE  SerialRequest(x, store, j, b)
    <2>1. SerialRequest(r, store, j, b)
      BY <1>5, <1>13
    <2>2. stored # None => stored.typ = typ
      BY <1>2, <1>4, <1>13
    <2>3. key \in Sid => key = r.sid /\ store[r.sid] = stored
      <3>1. CASE again
        BY <1>1, <1>4, <1>7, <1>9, <1>13, <3>1 DEF SerialRequest
      <3>2. CASE ~again
        BY <1>6, <1>8, <3>2
      <3> QED BY <3>1, <3>2
    <2> QED BY <1>11, <1>12, <2>1, <2>2, <2>3 DEF SerialRequest
  <1>14. \A st, j, b : was.client \notin disturbed' /\ st = store /\ SerialRequest(was, st, j, b)
                          => SerialRequest(x, st, j, b)
    BY <1>13
  <1>15. x # None /\ x.client = was.client
    BY <1>4, <1>10, <1>11, NoneAssumption
  <1> QED BY <1>1, <1>2, <1>10, <1>14, <1>15, SerialLocal

\* A write under other ids.
LEMMA SerialElsewhere ==
    ASSUME NEW r \in Request, NEW st, NEW st2, NEW j, NEW b, SerialRequest(r, st, j, b),
           \A i \in Ids(r) \cap Sid : st2[i] = st[i]
    PROVE  SerialRequest(r, st2, j, b)
  <1>1. /\ r.fresh \in Sid /\ r.guest \in Sid \cup {None} /\ r.sid \in Sid \cup {None}
        /\ {r.fresh, r.guest, r.sid} \subseteq Ids(r)
    BY DEF Request, Ids
  <1>2. /\ st2[r.fresh] = st[r.fresh]
        /\ r.sid # None => st2[r.sid] = st[r.sid]
        /\ r.guest # None => st2[r.guest] = st[r.guest]
    BY <1>1
  <1>3. None \notin Sid
    BY RequestsAssumption DEF Sid
  <1>4. Holds(st2, IF r.cookie THEN r.sid ELSE j) = Holds(st, IF r.cookie THEN r.sid ELSE j)
    BY <1>2 DEF Holds, SerialRequest
  <1> QED BY <1>2, <1>3, <1>4 DEF SerialRequest

\* The count that do_defer adds is the one it writes.
LEMMA SerialCounted ==
    ASSUME NEW r \in Request, NEW st, NEW j, NEW b \in Nat, SerialRequest(r, st, j, b),
           r.pc # "respond", Counted(r), r.sess.key \in Sid,
           r.sess.n \in {Loaded(r.sess.old, r.sess.typ), Loaded(r.sess.old, r.sess.typ) + 1}
    PROVE  r.sess.n = b + 1 /\ r.sess.key = (IF r.cookie THEN r.sid ELSE j)
  <1>1. r.sess # None /\ r.sess \in Session /\ None \notin Sid
    BY RequestsAssumption DEF Counted, Request, Sid
  <1>2. r.sess.n = Loaded(r.sess.old, r.sess.typ) + 1
    BY DEF Counted
  <1>3. r.sess.key = r.sid /\ st[r.sid] = r.sess.old /\ r.sid # None
    BY <1>1 DEF SerialRequest
  <1>4. Loaded(r.sess.old, r.sess.typ) = Holds(st, r.sid)
    BY <1>1, <1>3 DEF Loaded, Holds, SerialRequest
  <1>5. r.sid = IF r.cookie THEN r.sid ELSE j
    BY <1>3 DEF SerialRequest
  <1>6. b = Holds(st, r.sid)
    BY <1>5 DEF SerialRequest
  <1> QED BY <1>2, <1>3, <1>4, <1>5, <1>6

LEMMA SerialDefer ==
    ASSUME TypeOK, SerialInv, NEW own \in [Sid -> Client], Own(own), NEW s \in Slot,
           NEW failed \in BOOLEAN, do_defer(s, failed)
    PROVE  SerialInv'
  <1> DEFINE r == req[s]  x == [r EXCEPT !.pc = "respond"]
             counts == Counted(r) /\ r.sess.key \in Sid
             writes == Changed(r) /\ ~failed
             entry == [typ |-> r.sess.typ, n |-> r.sess.n]
  <1>1. /\ r \in Request /\ r # None /\ r.pc = "defer" /\ req' = [req EXCEPT ![s] = x]
        /\ OwnRequest(r, own, served, bumps) /\ r.client \in Client
        /\ jar' = jar /\ disturbed \subseteq disturbed'
        /\ failed => r.client \in disturbed'
    BY DEF do_defer, At, Set, TypeOK, Own, Request
  <1>2. /\ bumps' = IF counts THEN [bumps EXCEPT ![r.client] = @ + 1] ELSE bumps
        /\ store' = IF writes THEN [store EXCEPT ![r.sess.key] = entry] ELSE store
    BY DEF do_defer
  <1>3. /\ x \in Request /\ x.pc = "respond" /\ x.client = r.client /\ x.sess = r.sess
        /\ x.fresh = r.fresh /\ x.guest = r.guest /\ x.sid = r.sid /\ x.cookie = r.cookie
        /\ Ids(x) = Ids(r)
    BY <1>1 DEF Request, Ids
  <1> HIDE DEF x
  <1>4. writes => r.sess # None /\ r.sess \in Session /\ r.sess.key \in Ids(r)
    BY <1>1 DEF Changed, Request, Ids
  <1>5. ASSUME NEW i \in Sid, writes => i # r.sess.key
        PROVE  store'[i] = store[i]
    BY <1>2, <1>5 DEF TypeOK, Key
  <1>6. writes /\ r.sess.key \in Sid => own[r.sess.key] = r.client
    BY <1>1, <1>4 DEF OwnRequest
  <1>7. ASSUME NEW c \in Client \ {r.client}
        PROVE  /\ jar'[c] = jar[c] /\ bumps'[c] = bumps[c]
               /\ Holds(store', jar[c]) = Holds(store, jar[c])
               /\ \A t \in InFlight(c) : SerialRequest(req[t], store, jar[c], bumps[c])
                                           => SerialRequest(req[t], store', jar[c], bumps[c])
    <2>1. jar'[c] = jar[c] /\ bumps'[c] = bumps[c]
      BY <1>1, <1>2 DEF TypeOK
    <2>2. ASSUME NEW i \in Sid, own[i] = c PROVE store'[i] = store[i]
      BY <1>5, <1>6, <2>2
    <2>3. jar[c] # None => jar[c] \in Sid /\ own[jar[c]] = c
      BY DEF TypeOK, Own
    <2>4. Holds(store', jar[c]) = Holds(store, jar[c])
      BY <2>2, <2>3 DEF Holds
    <2>5. ASSUME NEW t \in InFlight(c), SerialRequest(req[t], store, jar[c], bumps[c])
          PROVE  SerialRequest(req[t], store', jar[c], bumps[c])
      <3>1. req[t] \in Request /\ OwnRequest(req[t], own, served, bumps) /\ req[t].client = c
        BY DEF InFlight, TypeOK, Own
      <3>2. \A i \in Ids(req[t]) \cap Sid : store'[i] = store[i]
        BY <2>2, <3>1 DEF OwnRequest
      <3> QED BY <2>5, <3>1, <3>2, SerialElsewhere
    <2> QED BY <2>1, <2>4, <2>5
  <1>8. ASSUME r.client \notin disturbed', SerialRequest(r, store, jar[r.client], bumps[r.client])
        PROVE  SerialRequest(x, store', jar'[r.client], bumps'[r.client])
    <2> DEFINE j == jar[r.client]  b == bumps[r.client]
    <2>1. ~failed /\ b \in Nat /\ jar'[r.client] = j
      BY <1>1, <1>8 DEF TypeOK
    <2>2. SerialRequest(x, store, j, b)
      BY <1>3, <1>8 DEF SerialRequest
    <2>3. CASE counts
      <3>1. writes /\ r.sess # None
        BY <2>1, <2>3 DEF Changed, Counted
      <3>2. r.sess.n \in {Loaded(r.sess.old, r.sess.typ), Loaded(r.sess.old, r.sess.typ) + 1}
        BY <1>1, <3>1 DEF OwnRequest
      <3>3. r.sess.n = b + 1 /\ r.sess.key = (IF r.cookie THEN r.sid ELSE j)
        BY <1>1, <1>8, <2>1, <2>3, <3>2, SerialCounted
      <3>4. entry \in Entry /\ entry # None /\ entry.n = b + 1
        <4>1. r.sess \in Session
          BY <1>4, <3>1
        <4>2. entry \in Entry
          BY <4>1 DEF Session, Entry
        <4>3. entry.n = r.sess.n
          OBVIOUS
        <4> QED BY <3>3, <4>2, <4>3, NoneAssumption
      <3> HIDE DEF entry
      <3>5. store'[r.sess.key] = entry
        BY <1>2, <2>3, <3>1 DEF TypeOK, Key
      <3>6. bumps'[r.client] = b + 1
        BY <1>1, <1>2, <2>3 DEF TypeOK
      <3>7. None \notin Sid
        BY RequestsAssumption DEF Sid
      <3>8. Holds(store', r.sess.key) = b + 1
        BY <2>3, <3>4, <3>5, <3>7 DEF Holds
      <3>9. bumps'[r.client] = Holds(store', IF x.cookie THEN x.sid ELSE j)
        BY <1>3, <3>3, <3>6, <3>8
      <3> QED BY <1>3, <2>1, <2>2, <3>9 DEF SerialRequest
    <2>4. CASE ~counts
      <3>1. bumps'[r.client] = b
        BY <1>2, <2>4
      <3>2. writes => r.sess.key \notin Sid
        BY <1>8, <2>4 DEF Changed, SerialRequest
      <3>3. \A i \in Ids(x) \cap Sid : store'[i] = store[i]
        BY <1>5, <3>2
      <3> QED BY <1>3, <2>1, <2>2, <3>1, <3>3, SerialElsewhere
    <2> QED BY <2>3, <2>4
  <1>9. x # None
    BY <1>3, NoneAssumption
  <1> QED BY <1>1, <1>3, <1>7, <1>8, <1>9, SerialReplaced

LEMMA SerialRespond ==
    ASSUME TypeOK, SerialInv, NEW s \in Slot, NEW delivered \in BOOLEAN, Respond(s, delivered)
    PROVE  SerialInv'
  <1> DEFINE r == req[s]
  <1>1. /\ r \in Request /\ r # None /\ req' = [req EXCEPT ![s] = None] /\ r.client \in Client
        /\ UNCHANGED <<store, bumps>> /\ disturbed \subseteq disturbed'
        /\ jar' = IF r.cookie /\ delivered THEN [jar EXCEPT ![r.client] = r.sid] ELSE jar
        /\ ~delivered => r.client \in disturbed'
    BY DEF Respond, At, Set, TypeOK, Request
  <1> SUFFICES ASSUME NEW c \in Client, c \notin disturbed'
               PROVE  /\ \A t, u \in InFlight(c)' : t = u
                      /\ InFlight(c)' = {} => bumps'[c] = Holds(store', jar'[c])
                      /\ \A t \in InFlight(c)' : SerialRequest(req'[t], store', jar'[c], bumps'[c])
    BY DEF SerialInv
  <1>2. c \in Client \ disturbed
    BY <1>1
  <1>3. InFlight(c)' = InFlight(c) \ {s} /\ \A t \in InFlight(c)' : req'[t] = req[t]
    BY <1>1 DEF InFlight, TypeOK
  <1>4. CASE c = r.client
    <2>1. s \in InFlight(c)
      BY <1>1, <1>4 DEF InFlight
    <2>2. InFlight(c)' = {} /\ SerialRequest(r, store, jar[c], bumps[c])
      BY <1>2, <1>3, <2>1 DEF SerialInv
    <2>3. delivered /\ jar'[c] = IF r.cookie THEN r.sid ELSE jar[c]
      BY <1>1, <1>4 DEF TypeOK
    <2>4. bumps[c] = Holds(store, jar'[c])
      BY <2>2, <2>3 DEF SerialRequest
    <2> QED BY <1>1, <2>2, <2>4
  <1>5. CASE c # r.client
    <2>1. InFlight(c)' = InFlight(c)
      BY <1>3, <1>5 DEF InFlight
    <2>2. jar'[c] = jar[c]
      BY <1>1, <1>5 DEF TypeOK
    <2> QED BY <1>1, <1>2, <1>3, <2>1, <2>2 DEF SerialInv
  <1> QED BY <1>4, <1>5

\* A request that arrives while its client has none finds the session as the client left it.
LEMMA SerialArrive ==
    ASSUME TypeOK, RInv, SerialInv, NEW own, Own(own), NEW s \in Slot, NEW c \in Client,
           Comes(s, c)
    PROVE  SerialInv'
  <1>1. PICK x \in Request :
           /\ req' = [req EXCEPT ![s] = x]
           /\ x.client = c /\ x.fresh = served + 1 /\ x.guest = jar[c] /\ x.sid = None
           /\ x.sess = None /\ ~x.cookie
    BY Arrived
  <1>2. /\ req[s] = None /\ UNCHANGED <<store, jar, bumps>>
        /\ disturbed' = IF InFlight(c) = {} THEN disturbed ELSE disturbed \cup {c}
    BY Arrived
  <1>3. x # None
    BY NoneAssumption
  <1>4. store[x.fresh] = None
    <2>1. x.fresh \in Sid /\ served \in Nat /\ ~(x.fresh <= served)
      BY <1>1, RequestsAssumption DEF Request, TypeOK
    <2> QED BY <2>1 DEF Own
  <1> SUFFICES ASSUME NEW d \in Client, d \notin disturbed'
               PROVE  /\ \A t, u \in InFlight(d)' : t = u
                      /\ InFlight(d)' = {} => bumps'[d] = Holds(store', jar'[d])
                      /\ \A t \in InFlight(d)' : SerialRequest(req'[t], store', jar'[d], bumps'[d])
    BY DEF SerialInv
  <1>5. d \in Client \ disturbed
    BY <1>2
  <1>6. \A t \in Slot : req'[t] = IF t = s THEN x ELSE req[t]
    BY <1>1 DEF TypeOK
  <1>7. CASE d = c
    <2>1. InFlight(c) = {}
      BY <1>2, <1>7
    <2>2. InFlight(d)' = {s} /\ req'[s] = x
      BY <1>1, <1>3, <1>6, <1>7, <2>1 DEF InFlight
    <2>3. bumps[c] = Holds(store, jar[c])
      BY <1>5, <1>7, <2>1 DEF SerialInv
    <2>4. SerialRequest(x, store, jar[c], bumps[c])
      BY <1>1, <1>4, <2>3 DEF SerialRequest
    <2> QED BY <1>2, <1>7, <2>2, <2>4
  <1>8. CASE d # c
    <2>1. InFlight(d)' = InFlight(d) /\ s \notin InFlight(d)
      BY <1>1, <1>2, <1>6, <1>8 DEF InFlight
    <2>2. \A t \in InFlight(d) : t \in Slot /\ req'[t] = req[t]
      BY <1>6, <2>1 DEF InFlight
    <2> QED BY <1>2, <1>5, <2>1, <2>2 DEF SerialInv
  <1> QED BY <1>7, <1>8

LEMMA SerialStep == ASSUME RequestInv, RequestInv', SerialInv, [Next]_vars PROVE SerialInv'
  <1>0. TypeOK /\ RInv /\ TypeOK'
    BY DEF RequestInv
  <1>1. PICK own \in [Sid -> Client] : Own(own)
    BY DEF RequestInv, Owned
  <1>2. ASSUME NEW s \in Slot, Moves(s), UNCHANGED <<store, jar, bumps>>, disturbed \subseteq disturbed'
        PROVE  SerialInv'
    BY <1>0, <1>2, SerialMoves
  <1>3. CASE UNCHANGED vars
    BY <1>3 DEF vars, SerialInv, InFlight
  <1>4. ASSUME NEW s \in Slot, NEW c \in Client, Comes(s, c)
        PROVE  SerialInv'
    BY <1>0, <1>1, <1>4, SerialArrive
  <1>5. ASSUME NEW s \in Slot, NEW reply \in {"ok", "error"},
               Consumed(s, reply) \/ Return(s, reply) \/ ReturnMCP(s, reply)
        PROVE  SerialInv'
    <2>1. Moves(s)
      BY <1>0, <1>5, ConsumedStep, ReturnStep, ReturnMCPStep
    <2>2. UNCHANGED <<store, jar, bumps>> /\ disturbed \subseteq disturbed'
      BY <1>5 DEF Consumed, Return, ReturnMCP
    <2> QED BY <1>2, <2>1, <2>2
  <1>6. ASSUME NEW s \in Slot, NEW u \in Uid, NEW w \in BOOLEAN, Assume(s, u, w)
        PROVE  SerialInv'
    BY <1>0, <1>2, <1>6, AssumeStep DEF Assume
  <1>7. ASSUME NEW s \in Slot, NEW g \in Nested, Call(s, g)
        PROVE  SerialInv'
    BY <1>0, <1>2, <1>7, CallStep DEF Call
  <1>8. ASSUME NEW s \in Slot, NEW b \in BOOLEAN, do_defer(s, b) \/ Respond(s, b) \/ SessionID(s, b)
        PROVE  SerialInv'
    BY <1>0, <1>1, <1>8, SerialDefer, SerialRespond, SerialSessionID
  <1>9. ASSUME NEW s \in Slot, Authorize(s) \/ User(s) \/ CallReturns(s)
        PROVE  SerialInv'
    <2>1. Moves(s)
      BY <1>0, <1>9, AuthorizeStep, UserStep, CallReturnsStep
    <2>2. UNCHANGED <<store, jar, bumps, disturbed>>
      BY <1>9 DEF Authorize, User, CallReturns
    <2> QED BY <1>2, <2>1, <2>2
  <1>10. ASSUME NEW s \in Slot, GetSession(s)
         PROVE  SerialInv'
    BY <1>0, <1>1, <1>10, GetSessionStep, SerialGetSession
  <1>11. ASSUME NEW s \in Slot, Bump(s)
         PROVE  SerialInv'
    BY <1>0, <1>11, SerialBump
  <1> QED BY <1>3, <1>4, <1>5, <1>6, <1>7, <1>8, <1>9, <1>10, <1>11, Zenon DEF Next, Comes

LEMMA SerialInvariant == Spec => []SerialInv
  <1>1. Init => SerialInv
    BY DEF Init, SerialInv, InFlight, Holds
  <1>2. RequestInv /\ RequestInv' /\ SerialInv /\ [Next]_vars => SerialInv'
    BY SerialStep
  <1> QED BY <1>1, <1>2, RequestsInvariant, PTL DEF Spec

-----------------------------------------------------------------------------
\* userWithJWT gives the right to write only to a request that carries an access token, or a
\* login cookie and a CSRF token of the same user, that verify: in every state of every
\* request, unless its own code called AssumeUser or the debug parameter names the user.
THEOREM WritableIsProven == Spec => []WritableProven
  <1>1. RequestInv => WritableProven
    <2> SUFFICES ASSUME RequestInv, NEW s \in Slot, req[s] # None, req[s].login # None,
                        req[s].login.writable, ~req[s].assumed, ~DebugUser(req[s].cred)
                 PROVE  \/ \E t \in Presented(req[s]) : t.ok /\ t.sub = req[s].login.uid /\ t.aud = "oauth"
                        \/ \E t, x \in Presented(req[s]) :
                              /\ t.ok /\ t.aud = "login" /\ t.sub = req[s].login.uid
                              /\ x.ok /\ x.aud = "csrf" /\ x.sub = t.sub
      BY DEF WritableProven
    <2> DEFINE c == req[s].cred
    <2>1. c \in Credentials
      BY DEF RequestInv, TypeOK, Request
    <2>2. req[s].login = userWithJWT(c)
      BY DEF RequestInv, RInv, Good, LoginProven
    <2>3. user(c).jwt # None /\ user(c).jwt.sub = req[s].login.uid /\ user(c).writable
      BY <2>1, <2>2, UserType
    <2>4. Presented(req[s]) = Carried(c)
      BY DEF Presented, Carried
    <2> QED BY <2>1, <2>3, <2>4, UserToken
  <1> QED BY <1>1, RequestsInvariant, PTL

\* call_internal lets no body of a function with an ACL run, for a route or a nested call, for
\* a tenant and user that the request's own tokens and the policy do not permit, whatever the
\* bodies assumed before.
THEOREM BodiesPermitted == Spec => []RunsPermitted
  <1>1. RequestInv => RunsPermitted
    BY DEF RequestInv, RInv, Good, RunsPermitted, At, FramePermitted
  <1> QED BY <1>1, RequestsInvariant, PTL

\* No body, called by a request or by another body, runs on an input that breaks a rule of
\* one of its fields, whatever the request carried.
THEOREM BodiesGetValidInput == Spec => []InputValid
  <1>1. RequestInv => InputValid
    BY DEF RequestInv, RInv, Good, InputValid, At, FrameValid
  <1> QED BY <1>1, RequestsInvariant, PTL

\* However many requests of however many clients overlap, fail or are lost, a session id is
\* named by the cookie and the requests of one client only, and the hash under it holds no more
\* than that client's requests put there.  Of the hash the guests share it says nothing.
THEOREM SessionsNeverForeign == Spec => []NeverForeign
  <1>1. RequestInv => NeverForeign
    <2> SUFFICES ASSUME RequestInv, NEW k \in Sid, NEW c \in Owners(k), NEW d \in Owners(k)
                 PROVE  c = d /\ (store[k] # None => store[k].n <= bumps[c])
      BY DEF NeverForeign
    <2>1. PICK own \in [Sid -> Client] : Own(own)
      BY DEF RequestInv, Owned
    <2>2. ASSUME NEW e \in Owners(k) PROVE own[k] = e
      <3>1. CASE jar[e] = k
        <4>1. e \in Client /\ k # None
          BY RequestsAssumption DEF Owners, Sid
        <4> QED BY <2>1, <3>1, <4>1 DEF Own
      <3>2. CASE \E s \in InFlight(e) : req[s].sid = k \/ (req[s].sess # None /\ req[s].sess.key = k)
        <4>1. PICK s \in InFlight(e) : k \in Ids(req[s])
          BY <3>2 DEF Ids
        <4>2. OwnRequest(req[s], own, served, bumps) /\ req[s].client = e
          BY <2>1, <4>1 DEF Own, InFlight
        <4> QED BY <4>1, <4>2 DEF OwnRequest
      <3> QED BY <2>2, <3>1, <3>2 DEF Owners
    <2>3. own[k] = c /\ own[k] = d
      BY <2>2
    <2> QED BY <2>1, <2>3 DEF Own
  <1> QED BY <1>1, RequestsInvariant, PTL

\* The redis session of a client that sends one request at a time is what its requests left
\* there, for any number of clients and requests: a request loads what the one before wrote,
\* do_defer writes one more under the same id, and no other client writes there meanwhile.
THEOREM SerialSessionsKept == Spec => []SerialSession
  <1>1. SerialInv => SerialSession
    BY DEF SerialInv, SerialSession, Holds
  <1> QED BY <1>1, SerialInvariant, PTL
=============================================================================
