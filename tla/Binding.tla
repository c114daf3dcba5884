------------------------------ MODULE Binding ------------------------------
(***************************************************************************)
(* How the parts of a request become the input of a function               *)
(* (getByStructField, getAll and setByReflect of serve_request.go).  A     *)
(* text is the number it is the decimal form of, or some other value that  *)
(* no number parses from; None is an empty one.  A field is                *)
(*   [tags, kind, width, zero, regex, rule, resource, acl]:                *)
(* the tags it has, its kind ("int", "uint" or "string") and its bits, its *)
(* default, the texts its regex matches, the values its validate rule      *)
(* takes, whether its value is injected by an extension, and its acl name. *)
(***************************************************************************)
EXTENDS Acl

CONSTANTS
    Text,       \* the texts that are no number
    DisableValidator,    \* Config.System.DisableValidator
    Inject      \* a text -> what OnInjection makes of it; others are an error

ASSUME BindingAssumption ==
    Text \cap Int = {} /\ DOMAIN Inject \subseteq Text \cup Int /\ DisableValidator \in BOOLEAN

TagOrder == <<"path", "query", "form", "post", "jwt", "cookie", "header", "cli">>

\* The first tag decides; only "post" without a body leaves it to the next.
DecidingTag(f, q) ==
    LET on == {i \in DOMAIN TagOrder : TagOrder[i] \in f.tags /\ (TagOrder[i] = "post" => q.post # None)}
    IN IF on = {} THEN None ELSE TagOrder[Min(on)]

Nothing == [how |-> "nothing", v |-> None]

\* getByStructField: nothing, a text still to be converted, or a value decoded from the
\* body or the claims.  A form field that is not sent is an empty text.
getByStructField(f, q, login) ==
    LET tag == DecidingTag(f, q) IN
    CASE tag = None -> Nothing
      [] tag = "form" -> IF q.ctype = "form" THEN [how |-> "text", v |-> q.form] ELSE Nothing
      [] tag = "post" -> IF q.ctype # "json" THEN Nothing
                         ELSE IF q.post \in Int THEN [how |-> "value", v |-> q.post]
                         ELSE [how |-> "error", v |-> None]
      [] tag = "jwt"  -> IF login.err # None \/ login.tenant = None THEN Nothing
                         ELSE [how |-> "value", v |-> login.tenant]
      [] OTHER        -> IF q[tag] = None THEN Nothing ELSE [how |-> "text", v |-> q[tag]]

\* SetInt and SetUint on a field of width bits keep the low bits.
SetInt(n, width) == ((n + 2 ^ (width - 1)) % (2 ^ width)) - 2 ^ (width - 1)

SetUint(n, width) == n % (2 ^ width)

\* setByReflect: a text that does not parse leaves the default.
setByReflect(f, text) ==
    CASE f.kind = "string" -> text
      [] f.kind = "int" /\ text \in Int -> SetInt(text, f.width)
      [] f.kind = "uint" /\ text \in Nat -> SetUint(text, f.width)
      [] OTHER -> f.zero

\* The value of a field when validation looks at it; an injected one is still the default.
BoundValue(f, q, login) ==
    LET g == getByStructField(f, q, login)
    IN CASE g.how = "value" -> g.v
         [] g.how = "text" /\ ~f.resource -> setByReflect(f, g.v)
         [] OTHER -> f.zero

FieldError(f, q, login) ==
    LET g == getByStructField(f, q, login)
    IN g.how = "error" \/ (g.how = "text" /\ f.regex # None /\ g.v \notin f.regex)

Valid(f, v) == f.rule = None \/ v \in f.rule

\* Validator.Struct finds a field whose value breaks its rule.
Refuses(plan, input) ==
    ~DisableValidator /\ \E i \in DOMAIN plan : ~Valid(plan[i], input[i])

\* OnInjection, after the validation.
Injects(f, q, login) == f.resource /\ getByStructField(f, q, login).how = "text"

\* Mutant: the rule is asked about the number that was sent.
getAllEarly(plan, q, login) ==
    LET sent(f) == LET g == getByStructField(f, q, login)
                   IN IF g.how = "text" /\ g.v \in Int /\ ~f.resource THEN g.v ELSE BoundValue(f, q, login)
        after(f) == IF Injects(f, q, login) THEN Inject[getByStructField(f, q, login).v]
                    ELSE BoundValue(f, q, login)
    IN IF \/ \E i \in DOMAIN plan : FieldError(plan[i], q, login)
          \/ Refuses(plan, [i \in DOMAIN plan |-> sent(plan[i])])
          \/ \E i \in DOMAIN plan : /\ Injects(plan[i], q, login)
                                    /\ getByStructField(plan[i], q, login).v \notin DOMAIN Inject
         THEN None
       ELSE [i \in DOMAIN plan |-> after(plan[i])]

\* getAll: the input, or None for any of its errors.
getAll(plan, q, login) ==
    LET after(f) == IF Injects(f, q, login) THEN Inject[getByStructField(f, q, login).v]
                    ELSE BoundValue(f, q, login)
    IN IF \/ \E i \in DOMAIN plan : FieldError(plan[i], q, login)
          \/ Refuses(plan, [i \in DOMAIN plan |-> BoundValue(plan[i], q, login)])
          \/ \E i \in DOMAIN plan : /\ Injects(plan[i], q, login)
                                    /\ getByStructField(plan[i], q, login).v \notin DOMAIN Inject
         THEN None
       ELSE [i \in DOMAIN plan |-> after(plan[i])]

\* collectACLVals: the values of the fields with an acl name, the last of a name.
aclVars(plan, input) ==
    LET named == {i \in DOMAIN plan : plan[i].acl # None}
    IN [n \in {plan[i].acl : i \in named} |->
           Literal(input[Max({i \in named : plan[i].acl = n})])]
=============================================================================
