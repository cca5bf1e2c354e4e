-------------------------------- MODULE Rbac --------------------------------
(***************************************************************************)
(* Roles, grants and inheritance (skaidb-auth/src/rbac.rs, RoleStore).     *)
(* Every change of the store is one action.  A query borrows the store and *)
(* walks it role by role, one action for each call of its recursion.       *)
(* Role names are numbers in the order of the BTreeMap; a grant is a pair  *)
(* of a privilege and an object.                                           *)
(***************************************************************************)
EXTENDS Integers, Sequences, Functions, FiniteSets

CONSTANTS
    RoleName,
    Privilege, Admin,
    Object, Global,
    Column,         \* the objects that are columns of one table
    Topic,          \* the objects that are MQTT topic filters
    Grantable,      \* the grants the administrators use
    MaxGrants,      \* how many of them the store holds at a time
    MaxEdges        \* and how many inheritance edges

ASSUME RbacAssumption ==
    /\ RoleName \subseteq Nat /\ IsFiniteSet(RoleName)
    /\ Admin \in Privilege /\ Global \in Object
    /\ Column \cup Topic \subseteq Object \ {Global} /\ Column \cap Topic = {}
    /\ Grantable \subseteq Privilege \X Object
    /\ {MaxGrants, MaxEdges} \subseteq Nat

VARIABLES
    roles,          \* the names in RoleStore.roles
    grants,         \* Role.grants of each of them
    inherits,       \* Role.inherits: may name roles that were dropped
    question,       \* the query that has borrowed the store, or NoQuestion
    visited,        \* the names its walk has met, shared by all branches
    pending,        \* the parents each open call has still to look at, innermost first
    found           \* the objects its walk has found

storeVars == <<roles, grants, inherits>>
walkVars == <<question, visited, pending, found>>
rbacVars == <<roles, grants, inherits, question, visited, pending, found>>

NoQuestion == [kind |-> "none"]

Total(f) == SumFunction([r \in RoleName |-> Cardinality(f[r])])

RbacInit ==
    /\ roles = {}
    /\ grants = [r \in RoleName |-> {}]
    /\ inherits = [r \in RoleName |-> {}]
    /\ question = NoQuestion /\ visited = {} /\ pending = <<>> /\ found = {}

-----------------------------------------------------------------------------
(* Changes *)

create_role(r) ==
    /\ r \notin roles
    /\ roles' = roles \cup {r}
    /\ UNCHANGED <<grants, inherits>>

create_superuser(r) ==
    /\ roles' = roles \cup {r}
    /\ grants' = [grants EXCEPT ![r] = @ \cup {<<Admin, Global>>}]
    /\ Total(grants') <= MaxGrants
    /\ UNCHANGED inherits

\* Mutant of drop_role: the entry is only marked, so that re-creating the role
\* finds its old grants.
DropRoleMarked(r) ==
    /\ r \in roles
    /\ roles' = roles \ {r}
    /\ UNCHANGED <<grants, inherits>>

\* Only the role's own entry goes: other roles keep its name in `inherits`.
drop_role(r) ==
    /\ r \in roles
    /\ roles' = roles \ {r}
    /\ grants' = [grants EXCEPT ![r] = {}]
    /\ inherits' = [inherits EXCEPT ![r] = {}]

grant(r, g) ==
    /\ r \in roles
    /\ grants' = [grants EXCEPT ![r] = @ \cup {g}]
    /\ Total(grants') <= MaxGrants
    /\ UNCHANGED <<roles, inherits>>

revoke(r, g) ==
    /\ r \in roles
    /\ grants' = [grants EXCEPT ![r] = @ \ {g}]
    /\ UNCHANGED <<roles, inherits>>

grant_role(r, parent) ==
    /\ {r, parent} \subseteq roles
    /\ inherits' = [inherits EXCEPT ![r] = @ \cup {parent}]
    /\ Total(inherits') <= MaxEdges
    /\ UNCHANGED <<roles, grants>>

revoke_role(r, parent) ==
    /\ inherits' = [inherits EXCEPT ![r] = @ \ {parent}]
    /\ UNCHANGED <<roles, grants>>

Change ==
    /\ question = NoQuestion
    /\ \E r \in RoleName :
          \/ create_role(r)
          \/ create_superuser(r)
          \/ drop_role(r)
          \/ \E g \in Grantable : grant(r, g) \/ revoke(r, g)
          \/ \E parent \in RoleName : grant_role(r, parent) \/ revoke_role(r, parent)
    /\ UNCHANGED walkVars

-----------------------------------------------------------------------------
(* Queries *)

\* SHOW GRANTS: the grants and the inheritance edges of the roles that exist.
ShownGrants == UNION {{r} \X grants[r] : r \in roles}
ShownEdges == UNION {{r} \X inherits[r] : r \in roles}

\* A query starts with the call for the role it asks about.
Ask(kind, r, p, objects) ==
    /\ question = NoQuestion
    /\ question' = [kind |-> kind, role |-> r, priv |-> p, objects |-> objects]
    /\ visited' = {} /\ pending' = <<{r}>> /\ found' = {}
    /\ UNCHANGED storeVars

has_privilege(r, p, o) == Ask("check", r, p, {o})
columns(r, p) == Ask("collect", r, p, Column)
mqtt_filters(r, p) == Ask("collect", r, p, Topic)

Direct(r, p, o) ==
    {<<Admin, Global>>, <<p, o>>, <<p, Global>>, <<Admin, o>>} \cap grants[r] # {}

\* What the query finds at r itself: `check` asks for any grant that covers the
\* object, collect_columns and collect_mqtt_filters list the objects granted.
Hits(r) ==
    {o \in question.objects :
        IF question.kind = "check" THEN Direct(r, question.priv, o)
        ELSE <<question.priv, o>> \in grants[r]}

\* Mutant of Seen: the parents of a role are marked together with it.
SeenWithParents(r) == visited \cup {r} \cup inherits[r]

\* The depth-first walks share one `visited` set.
Seen(r) == visited \cup {r}

\* check, collect_columns or collect_mqtt_filters is called for the next parent
\* of the innermost open call.  A name met before, or of no role, is left at
\* once; a `check` that succeeds ends every open call.
Visit ==
    /\ pending # <<>>
    /\ \E r \in pending[1] :
          LET rest == <<pending[1] \ {r}>> \o Tail(pending)
          IN  /\ \A q \in pending[1] : r <= q
              /\ visited' = Seen(r)
              /\ IF r \in visited \/ r \notin roles THEN pending' = rest /\ UNCHANGED found
                 ELSE /\ found' = found \cup Hits(r)
                      /\ pending' = IF question.kind = "check" /\ Hits(r) # {} THEN <<>>
                                    ELSE <<inherits[r]>> \o rest
    /\ UNCHANGED <<roles, grants, inherits, question>>

\* The innermost call has looked at every parent and returns.
Back ==
    /\ pending # <<>> /\ pending[1] = {}
    /\ pending' = Tail(pending)
    /\ UNCHANGED <<roles, grants, inherits, question, visited, found>>

\* The query returns its answer.
Conclude ==
    /\ question # NoQuestion /\ pending = <<>>
    /\ question' = NoQuestion /\ visited' = {} /\ found' = {}
    /\ UNCHANGED <<roles, grants, inherits, pending>>

Query ==
    \/ \E r \in RoleName, p \in Privilege :
          \/ \E o \in Object : has_privilege(r, p, o)
          \/ columns(r, p)
          \/ mqtt_filters(r, p)
    \/ Visit
    \/ Back
    \/ Conclude

RbacNext == Change \/ Query

RbacSpec == RbacInit /\ [][RbacNext]_rbacVars

-----------------------------------------------------------------------------
(* Properties *)

\* The roles that r reaches along the edges SHOW GRANTS lists: those in every
\* set that holds r and is closed under them.
Ancestry(r) ==
    {a \in RoleName : \A S \in SUBSET RoleName :
        r \in S /\ (\A e \in ShownEdges : e[1] \in S => e[2] \in S) => a \in S}

\* The grants SHOW GRANTS lists for the roles that r reaches.
Held(r) == {g \in Privilege \X Object : \E a \in Ancestry(r) : <<a, g>> \in ShownGrants}

Covered(r, p, o) == Held(r) \cap ({p, Admin} \X {o, Global}) # {}

\* SHOW GRANTS explains every answer: has_privilege says yes exactly when a
\* listed grant of a role that is reached covers the object, and columns and
\* mqtt_filters list exactly the objects such grants name, whatever cycles,
\* shared ancestors and dropped roles the graph has.  The `visited` set the
\* branches of a walk share never hides a grant, and the recursion is never
\* deeper than the names it has met.
FollowsInheritance ==
    /\ Len(pending) <= Cardinality(visited) + 1
    /\ question # NoQuestion /\ pending = <<>> =>
          found = {o \in question.objects :
                      IF question.kind = "check" THEN Covered(question.role, question.priv, o)
                      ELSE <<question.priv, o>> \in Held(question.role)}

Entitled == {x \in RoleName \X (Privilege \X Object) : x[2] \in Held(x[1])}

\* Dropping a role and creating one of that name gives nobody a privilege: the
\* new role starts with nothing, although the roles that inherited the old one
\* still name it and inherit the new one.  Only a superuser is created with a
\* grant, the one that makes it a superuser.
NothingRevived ==
    [][roles' # roles =>
          \/ Entitled' \subseteq Entitled
          \/ /\ \E r \in RoleName : create_superuser(r)
             /\ Entitled' \subseteq Entitled \cup (RoleName \X {<<Admin, Global>>})]_rbacVars
=============================================================================
