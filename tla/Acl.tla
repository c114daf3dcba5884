-------------------------------- MODULE Acl --------------------------------
(***************************************************************************)
(* serve_casbin.go.  A template is a sequence of parts: literal text, or a *)
(* variable written {name} or :name.  The enforcer (casbin) is the set     *)
(* Policy of what it allows.                                               *)
(***************************************************************************)
EXTENDS Login

CONSTANT Policy    \* <<tenant, uid, resource, action>>

Literal(x) == [kind |-> "literal", text |-> x]

\* One pass of the expansion: the variables of one notation that have a value.
Replace(kind, parts, acl) ==
    [i \in DOMAIN parts |->
        IF parts[i].kind = kind /\ parts[i].text \in DOMAIN acl THEN acl[parts[i].text]
        ELSE parts[i]]

\* expandACLTemplate: {name}, then :name; None if a variable is missing.
expandACLTemplate(template, acl) ==
    LET out == Replace("colon", Replace("brace", template, acl), acl)
    IN IF \E i \in DOMAIN out : out[i].kind # "literal" THEN None ELSE out

\* enforceACL: a function without ACLResource is not asked about; a request that is not
\* logged in, has no tenant claim, or lacks a variable is refused.
enforceACL(fn, login, acl) ==
    LET resource == expandACLTemplate(fn.aclResource, acl)
        action   == expandACLTemplate(fn.aclAction, acl)
    IN fn.aclResource = <<>>
       \/ /\ login.err = None /\ login.tenant # None
          /\ resource # None /\ action # None
          /\ <<login.tenant, login.uid, resource,
               IF action = <<>> THEN <<Literal("access")>> ELSE action>> \in Policy
=============================================================================
