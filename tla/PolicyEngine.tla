---------------------------- MODULE PolicyEngine ----------------------------
(***************************************************************************)
(* Role and permission policies and the middleware that enforces one       *)
(* (packages/auth/src/policy).  A claim is what the token carries under    *)
(* "role", "roles" or "permissions": absent, a string, an array of strings *)
(* or something else; `values` are the elements of an array and, of a      *)
(* string, the substrings a call of includes() would find in it.           *)
(***************************************************************************)
EXTENDS Integers, Sequences, FiniteSets

CONSTANTS
    Users,              \* the user on the context bag, or NoUser
    Policies            \* combinations of at most two levels

VARIABLE authz          \* one guarded request: [user, policy, outcome, denials]

NoUser == [present |-> FALSE]
ClaimKinds == {"absent", "string", "strings", "other"}

\* A leaf asks for roles or permissions or is the application's own; leaves are
\* combined into groups and groups into a policy
GroupOps == {"all", "any", "none"}
LeafOps == {"custom", "anyRole", "anyPermission"}
ASSUME PoliciesAssumption ==
    \A policy \in Policies :
        /\ policy.op \in GroupOps /\ DOMAIN policy.of \subseteq Nat
        /\ \A i \in DOMAIN policy.of :
              /\ policy.of[i].op \in GroupOps /\ DOMAIN policy.of[i].of \subseteq Nat
              /\ \A j \in DOMAIN policy.of[i].of : policy.of[i].of[j].op \in LeafOps

\* A PolicyDenied, and what an accessor returns otherwise
PolicyDenied == [kind |-> "denied", values |-> {}]

-----------------------------------------------------------------------------
(* Accessors and helpers. *)

Unchecked(claim) == claim.kind # "absent"
IsStringArray(claim) == claim.kind = "strings"

DefaultRoleAccessor(user) ==
    IF user.role.kind = "string" THEN user.role
    ELSE IF user.roles.kind # "absent" /\ IsStringArray(user.roles) THEN user.roles
    ELSE PolicyDenied

DefaultPermissionAccessor(user) ==
    IF user.permissions.kind # "absent" /\ IsStringArray(user.permissions)
    THEN user.permissions ELSE PolicyDenied

\* A string claim equals a name; an array, or a string asked with includes(),
\* contains it
Grants(claim, name) ==
    CASE claim.kind = "denied" -> FALSE
      [] claim.kind = "string" -> claim.is = name
      [] OTHER -> name \in claim.values

HasRole(role, user) == Grants(DefaultRoleAccessor(user), role)
HasAnyRole(roles, user) == \E r \in roles : HasRole(r, user)
HasAnyPermission(names, user) ==
    LET claim == DefaultPermissionAccessor(user)
    IN  claim.kind # "denied" /\ names \cap claim.values # {}

\* A policy of the application's own answers what the case says, or throws
EvalLeaf(leaf, user) ==
    CASE leaf.op = "custom" -> leaf.result
      [] leaf.op = "anyRole" -> IF HasAnyRole(leaf.names, user) THEN "true" ELSE "false"
      [] leaf.op = "anyPermission" ->
           IF HasAnyPermission(leaf.names, user) THEN "true" ELSE "false"

-----------------------------------------------------------------------------
(* Combinators: the first answer that decides ends the evaluation. *)

FirstOf(results, decides, then, otherwise) ==
    LET at == {i \in DOMAIN results : results[i] \in {decides, "throws"}}
        first == CHOOSE i \in at : \A j \in at : i <= j
    IN  IF at = {} THEN otherwise
        ELSE IF results[first] = "throws" THEN "throws" ELSE then

RequireAll(results) == FirstOf(results, "false", "false", "true")
RequireAny(results) == FirstOf(results, "true", "true", "false")
RequireNone(results) == FirstOf(results, "true", "false", "true")

Combine(op, results) ==
    CASE op = "all" -> RequireAll(results)
      [] op = "any" -> RequireAny(results)
      [] op = "none" -> RequireNone(results)

EvalGroup(group, user) == Combine(group.op, [i \in DOMAIN group.of |-> EvalLeaf(group.of[i], user)])
EvalPolicy(policy, user) ==
    Combine(policy.op, [i \in DOMAIN policy.of |-> EvalGroup(policy.of[i], user)])

-----------------------------------------------------------------------------
(* requirePolicy(). *)

PolicyInit ==
    authz \in [user : Users, policy : Policies, outcome : {"pending"}, denials : {0}]

\* No user on the bag, or a policy that answers false: observed, and a 403.
\* What a policy throws goes to the error handler unobserved.
RequirePolicy ==
    /\ authz.outcome = "pending"
    /\ LET answer == IF authz.user = NoUser THEN "false"
                     ELSE EvalPolicy(authz.policy, authz.user)
       IN  authz' = [authz EXCEPT
               !.outcome = CASE answer = "true" -> "handler"
                             [] answer = "false" -> "403"
                             [] answer = "throws" -> "error",
               !.denials = IF answer = "false" THEN 1 ELSE 0]

PolicyNext == RequirePolicy
PolicySpec == PolicyInit /\ [][PolicyNext]_authz

-----------------------------------------------------------------------------
(* Properties. *)

Malformed(user) ==
    /\ user.role.kind # "string" /\ user.roles.kind # "strings"
    /\ user.permissions.kind # "strings"
AsksOnlyClaims(policy) ==
    \A i \in DOMAIN policy.of : \A j \in DOMAIN policy.of[i].of :
        policy.of[i].of[j].op # "custom"
Exclusive(policy) ==
    policy.op = "none" \/ \E i \in DOMAIN policy.of : policy.of[i].op = "none"
Empty(policy) ==
    DOMAIN policy.of = {} \/ \E i \in DOMAIN policy.of : DOMAIN policy.of[i].of = {}

\* Claims of a shape the accessors do not know open no door: whatever a policy
\* asks of roles and permissions, however it combines the answers short of
\* excluding by them, a user with none that can be read is refused.
MalformedClaimsRefused ==
    (/\ authz.outcome = "handler" /\ authz.user # NoUser
     /\ AsksOnlyClaims(authz.policy) /\ ~Exclusive(authz.policy) /\ ~Empty(authz.policy))
    => ~Malformed(authz.user)

=============================================================================
