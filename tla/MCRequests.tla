----------------------------- MODULE MCRequests -----------------------------
(* The instance of Requests that TLC checks.  Numbers have 3 bits (10 binds as 2, 12 as -4). *)
EXTENDS Requests, TLC

CONSTANTS u1, u2, t1, doc, junk, token

Guest == [x \in {"query", "form", "bearer", "login", "csrfHeader", "csrfForm", "csrfQuery",
                "debug"} |-> None]
Cookie(u, tenant) == [Guest EXCEPT !.login = Issue("login", u, tenant)]

MCPolicy == {<<t1, u1, <<Literal(doc), Literal(n)>>, <<Literal("access")>>>> : n \in {2}}
            \cup {<<t1, u2, <<Literal(doc), Literal(3)>>, <<Literal("access")>>>>}

Field(tag, rule) == [tags |-> {tag}, kind |-> "int", width |-> 3, zero |-> 0, regex |-> None,
                     rule |-> rule, resource |-> FALSE, acl |-> None]
Plain(typ) == [plan |-> <<>>, aclResource |-> <<>>, aclAction |-> <<>>, session |-> "", typ |-> typ,
                calls |-> {"GetSession"}]

Count == Plain("a")
Other == Plain("b")
Redis == [Count EXCEPT !.session = "redis"]
Acting == [Count EXCEPT !.calls = {"User", "AssumeUser", "GetSession"}]
Named == [Count EXCEPT !.calls = {"SessionID", "GetSession"}]
Calling == [Count EXCEPT !.calls = {"GetSession", "Call"}]
Deputy == [Count EXCEPT !.calls = {"User", "AssumeUser", "Call"}]
Who == [Count EXCEPT !.calls = {"User"}]
Guarded == [Count EXCEPT !.plan = <<[Field("path", 1 .. 15) EXCEPT !.acl = "id"]>>,
                         !.aclResource = <<Literal(doc), [kind |-> "brace", text |-> "id"]>>, !.calls = {}]
Unnamed == [Guarded EXCEPT !.plan[1].acl = None]
Ranged == [Who EXCEPT !.plan = <<Field("query", 1 .. 15)>>]
Mixed == [Who EXCEPT !.plan =
    <<[Field("post", 0 .. 3) EXCEPT !.tags = {"post", "header"}, !.kind = "uint"],
      [Field("form", None) EXCEPT !.kind = "string", !.regex = {None, token}, !.resource = TRUE],
      [Field("jwt", None) EXCEPT !.kind = "string", !.zero = None, !.tags = {"jwt", "cli"}]>>]

Empty == [path |-> None, query |-> None, form |-> None, post |-> None, cookie |-> None,
          header |-> None, cli |-> None, ctype |-> "none", cred |-> Guest]
Ask(fn, cred) == [fn |-> fn, q |-> [Empty EXCEPT !.cred = cred]]
At1(fn, n, cred) == [fn |-> fn, q |-> [Empty EXCEPT !.path = n, !.cred = cred]]

MCArrivals ==
    {Ask(Count, Guest), Ask(Count, Cookie(u1, None)), Ask(Other, Cookie(u1, None)), Ask(Redis, Guest),
     Ask(Acting, Guest), Ask(Deputy, Cookie(u1, t1)), Ask(Who, [Guest EXCEPT !.debug = u2]), Ask(Named, Cookie(u1, None)), Ask(Calling, Cookie(u1, t1)),
     Ask(Who, [Cookie(u1, t1) EXCEPT !.csrfHeader = Issue("csrf", u2, t1)]),
     Ask(Who, [Cookie(u1, t1) EXCEPT !.csrfForm = Issue("csrf", u1, t1)]),
     At1(Guarded, 2, Cookie(u1, t1)), At1(Guarded, 10, Cookie(u1, t1)),
     At1(Guarded, 2, [Guest EXCEPT !.query = Issue("oauth", u1, t1)]),
     At1(Guarded, 2, [Guest EXCEPT !.bearer = Issue("login", u1, t1)]),
     At1(Guarded, 2, Cookie(u2, t1)), At1(Unnamed, 2, Cookie(u1, t1)), At1(Guarded, junk, Cookie(u1, t1))}
    \cup {[fn |-> Ranged, q |-> [Empty EXCEPT !.query = n]] : n \in {2, 10, 12}}
    \cup {[fn |-> Mixed, q |-> [Empty EXCEPT !.ctype = ct, !.form = x, !.post = 1, !.header = h, !.cred = c]] :
            ct \in {"form", "json"}, x \in {token, junk}, h \in {2, -1}, c \in {Cookie(u1, t1)}}

MCNested == {[fn |-> Guarded, input |-> <<n>>] : n \in {0, 2, 3}} \cup {[fn |-> Other, input |-> <<>>]}
MCTools == {[fn |-> Guarded, input |-> <<2>>, cred |-> Guest], [fn |-> Guarded, input |-> <<0>>, cred |-> Guest],
            [fn |-> Guarded, input |-> None, cred |-> Guest], [fn |-> Calling, input |-> <<>>, cred |-> Cookie(u1, t1)]}
MCSymmetry == Permutations(Slot) \cup Permutations(Client)
MCInject == [x \in {token} |-> 7]
=============================================================================
