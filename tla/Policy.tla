------------------------------- MODULE Policy -------------------------------
(***************************************************************************)
(* security/context.py and security/rbac.py: a request is resolved to a    *)
(* SecurityContext and PolicyEngine.evaluate decides on it, one rule after *)
(* another.  Attributes are functions from some keys to values; a match is *)
(* one too, with "*" for any value.  Dispatch takes the verdict on the     *)
(* backends as a constant; this module is how it is reached.               *)
(*                                                                         *)
(* A definition introduced by "Fault:" is a deliberately wrong variant of  *)
(* the one after it; no specification uses it.                             *)
(***************************************************************************)
EXTENDS Integers, Sequences

CONSTANTS
    Policies,    \* the policies: sequences of rules with a default effect
    Resources,   \* the resources asked for: functions from attributes to values
    Tenants, Users, Namespaces,   \* what a request names
    UserNamespace(_),             \* f"user:{user_id}"
    Missing                       \* None, or the empty string (no resource has one)

Effects == {"allow", "deny"}

ASSUME PoliciesAssumption ==
    \A p \in Policies :
        /\ p.rules \in Seq({p.rules[i] : i \in DOMAIN p.rules})
        /\ \A i \in DOMAIN p.rules : p.rules[i].effect \in Effects
        /\ p.default \in Effects

Actions == {"read", "write", "delete", "admin", "route", "cache_read"}
FloorActions == {"read", "write", "cache_read", "route"}

VARIABLES
    caller,     \* what the request names: tenant, user, namespace
    ctx,        \* its SecurityContext: tenant and namespace, once resolved
    policy, resource, action,
    next,       \* the index of the rule the loop looks at next
    allowHit,   \* whether an allow rule matched so far
    verdict     \* "pending" until the decision, or the refusal to resolve

policyVars == <<caller, ctx, policy, resource, action, next, allowHit, verdict>>
request == <<caller, policy, resource, action>>

Named(s) == s \cup {Missing}

PolicyInit ==
    /\ caller \in [tenant : Named(Tenants), user : Named(Users), namespace : Named(Namespaces)]
    /\ policy \in Policies /\ resource \in Resources /\ action \in Actions
    /\ ctx = Missing
    /\ next = 1 /\ allowHit = FALSE /\ verdict = "pending"

-----------------------------------------------------------------------------

\* _matches
Matches(match, attrs) ==
    \A k \in DOMAIN match :
        match[k] = "*" \/ (k \in DOMAIN attrs /\ attrs[k] = match[k])

Get(attrs, k) == IF k \in DOMAIN attrs THEN attrs[k] ELSE Missing

\* The namespace a rule sees is the context's when the resource has none.
ResourceAttrs ==
    [k \in DOMAIN resource \cup {"namespace"} |->
        IF Get(resource, k) = Missing THEN ctx.namespace ELSE resource[k]]

PrincipalAttrs == [tenant_id |-> ctx.tenant, namespace |-> ctx.namespace]

Applies(rule) ==
    /\ action \in rule.actions
    /\ Matches(rule.principal, PrincipalAttrs)
    /\ Matches(rule.resource, ResourceAttrs)

OtherTenant    == Get(resource, "tenant_id") \notin {Missing, ctx.tenant}
OtherNamespace ==
    "namespace" \in DOMAIN resource /\ resource["namespace"] # ctx.namespace

-----------------------------------------------------------------------------

\* SecurityContext.resolve: no tenant, or nothing to derive a namespace from,
\* refuses the request.
Resolve ==
    LET ns == IF caller.namespace # Missing THEN caller.namespace
              ELSE IF caller.user # Missing THEN UserNamespace(caller.user) ELSE Missing
    IN  /\ ctx = Missing /\ verdict = "pending"
        /\ IF Missing \in {caller.tenant, ns}
             THEN verdict' = "refused" /\ UNCHANGED ctx
             ELSE ctx' = [tenant |-> caller.tenant, namespace |-> ns] /\ UNCHANGED verdict
        /\ UNCHANGED <<request, next, allowHit>>

AtRule(i) == ctx # Missing /\ verdict = "pending" /\ next = i

\* Fault: the tenant boundary is left to the rules, the floor included.
FloorWithoutTenant ==
    /\ AtRule(1) /\ policy.rules = <<>>
    /\ verdict' = IF ~OtherNamespace /\ action \in FloorActions THEN "allow" ELSE "deny"
    /\ UNCHANGED <<request, ctx, next, allowHit>>

\* Before the loop: the tenant boundary, and then the floor for an empty policy.
Floor ==
    /\ AtRule(1) /\ (OtherTenant \/ policy.rules = <<>>)
    /\ verdict' = IF ~OtherTenant /\ ~OtherNamespace /\ action \in FloorActions
                    THEN "allow" ELSE "deny"
    /\ UNCHANGED <<request, ctx, next, allowHit>>

\* Fault: the first rule that applies decides.
ConsultFirst ==
    LET rule == policy.rules[next]
    IN  /\ AtRule(next) /\ ~OtherTenant
        /\ next \in 1 .. Len(policy.rules)
        /\ IF Applies(rule)
             THEN verdict' = rule.effect /\ UNCHANGED <<next, allowHit>>
             ELSE next' = next + 1 /\ UNCHANGED <<verdict, allowHit>>
        /\ UNCHANGED <<request, ctx>>

\* One turn of the loop: a deny that applies decides, an allow is remembered.
Consult ==
    LET rule == policy.rules[next]
    IN  /\ AtRule(next) /\ ~OtherTenant
        /\ next \in 1 .. Len(policy.rules)
        /\ IF Applies(rule) /\ rule.effect = "deny"
             THEN verdict' = "deny" /\ UNCHANGED <<next, allowHit>>
             ELSE /\ allowHit' = (allowHit \/ Applies(rule))
                  /\ next' = next + 1
                  /\ UNCHANGED verdict
        /\ UNCHANGED <<request, ctx>>

\* After the loop.
Conclude ==
    /\ AtRule(Len(policy.rules) + 1) /\ next > 1
    /\ verdict' = IF allowHit THEN "allow" ELSE policy.default
    /\ UNCHANGED <<request, ctx, next, allowHit>>

PolicyNext == Resolve \/ Floor \/ Consult \/ Conclude

PolicySpec == PolicyInit /\ [][PolicyNext]_policyVars

-----------------------------------------------------------------------------
(* What the policy engine must guarantee.                                  *)

PolicyTypeOK ==
    /\ caller \in [tenant : Named(Tenants), user : Named(Users), namespace : Named(Namespaces)]
    /\ policy \in Policies
    /\ ctx \in {Missing} \cup [tenant : Tenants, namespace : Namespaces \cup {UserNamespace(u) : u \in Users}]
    /\ next \in 1 .. Len(policy.rules) + 1
    /\ allowHit \in BOOLEAN
    /\ verdict \in {"pending", "refused"} \cup Effects

Seen == {policy.rules[i] : i \in 1 .. next - 1}

\* The loop's invariant: the context is the caller's; past the first rule the
\* resource is known to be of its tenant; no rule passed so far denies the request,
\* and allowHit says whether one of them allows it.
PolicyInv ==
    /\ PolicyTypeOK
    /\ IF ctx = Missing
         THEN next = 1 /\ ~allowHit /\ verdict \notin Effects
         ELSE /\ ctx.tenant = caller.tenant
              /\ next > 1 => ~OtherTenant
              /\ \A r \in Seen : Applies(r) => r.effect = "allow"
              /\ allowHit <=> \E r \in Seen : Applies(r)

\* 04-data-models 4.1: deny-overrides is independent of the order of the rules.
\* With at least one rule, the verdict is that of the set of the rules.
VerdictIsOrderFree ==
    LET applying == {r \in {policy.rules[i] : i \in DOMAIN policy.rules} : Applies(r)}
    IN  (verdict \in Effects /\ policy.rules # <<>> /\ ~OtherTenant) =>
            verdict = IF \E r \in applying : r.effect = "deny" THEN "deny"
                      ELSE IF applying # {} THEN "allow" ELSE policy.default

\* rbac.py:5-6: whatever the rules and the default, what is allowed is of the
\* caller's tenant, or of none.
TenantBoundary ==
    verdict = "allow" => Get(resource, "tenant_id") \in {Missing, caller.tenant}

=============================================================================
