------------------------------- MODULE UserRoles -------------------------------
(***************************************************************************)
(* The administration of users: user_admin.go, authz.go, repo/user.go,     *)
(* user_roles.sql, users.sql and the PATCH handler of i5b_users.go.  A     *)
(* PATCH runs one use case per role, grants before revocations; each       *)
(* authorises its actor anew, reads the target user and writes the change  *)
(* with its audit row in one transaction.  The transactions are READ       *)
(* COMMITTED: a statement sees what was committed when it ran, and the     *)
(* others see its effect when its transaction commits.                     *)
(***************************************************************************)
EXTENDS Naturals, Sequences

CONSTANTS Users,
          Analyst,     \* a role without users.roles.manage
          Admin,       \* the role that holds it
          Requests,    \* HTTP requests at work at once
          MaxRequests, \* bound: requests accepted
          MaxChanges   \* bound: audit rows written

ASSUME RolesAssumption == Analyst # Admin /\ Users # {}
ASSUME UserBounds == {MaxRequests, MaxChanges} \subseteq Nat

VARIABLES roles,       \* roles[u]: user_roles of u, what is committed
          deactivated, \* the users with a deactivated_at
          request,     \* request[q]: the request in hand
          userTrail,   \* the audit rows of the users, in the order of the commits
          misled,      \* history: <<u, r>> whose last row is of a transaction that
                       \* changed nothing while another about them was open
          renounced,   \* history: the requests whose actor gave up Admin in them
          accepted

userVars == <<roles, deactivated, request, userTrail, misled, renounced, accepted>>

Roles == {Analyst, Admin}
Change(kind, role) == [kind |-> kind, role |-> role]
Deactivation == Change("deactivate", Admin)
Changes == [kind : {"grant", "revoke"}, role : Roles] \union {Deactivation}
NoRequest == [pc |-> "idle", actor |-> CHOOSE u \in Users : TRUE,
              user |-> CHOOSE u \in Users : TRUE, todo |-> <<>>,
              did |-> "nothing", alone |-> TRUE]

AuditRows == [user : Users, kind : {"grant", "revoke", "deactivate"}, role : Roles]

UsersTypeOK ==
    /\ roles \in [Users -> SUBSET Roles] /\ deactivated \subseteq Users
    /\ \A q \in Requests :
         /\ request[q].pc \in {"idle", "authorize", "read", "write", "waits", "commit"}
         /\ request[q].actor \in Users /\ request[q].user \in Users
         /\ request[q].todo \in Seq(Changes)
         /\ request[q].pc # "idle" => request[q].todo # <<>>
         /\ request[q].did \in {"nothing", "insert", "delete"} /\ request[q].alone \in BOOLEAN
    /\ userTrail \in Seq(AuditRows) /\ Len(userTrail) <= MaxChanges
    /\ \A u \in Users : u \in deactivated <=>
         \E i \in DOMAIN userTrail : userTrail[i].user = u /\ userTrail[i].kind = "deactivate"
    /\ misled \subseteq Users \X Roles
    /\ renounced \subseteq Requests /\ accepted \in 0..MaxRequests

UsersInit ==
    /\ roles = [u \in Users |-> Roles] /\ deactivated = {}
    /\ request = [q \in Requests |-> NoRequest]
    /\ userTrail = <<>> /\ misled = {} /\ renounced = {} /\ accepted = 0

-------------------------------------------------------------------------------
MayManage(u) == u \notin deactivated /\ Admin \in roles[u]

\* PATCH /users/{id}/roles with one or two changes, the grants first; or
\* POST /users/{id}/deactivate.
Bodies == {<<c>> : c \in Changes}
          \union {<<Change(k, g), Change("revoke", r)>> : k \in {"grant", "revoke"}, g, r \in Roles}

Accept(q, actor, user, body) ==
    /\ request[q].pc = "idle" /\ accepted < MaxRequests /\ accepted' = accepted + 1
    /\ request' = [request EXCEPT ![q] = [pc |-> "authorize", actor |-> actor, user |-> user,
                                          todo |-> body, did |-> "nothing", alone |-> TRUE]]
    /\ renounced' = renounced \ {q}
    /\ UNCHANGED <<roles, deactivated, userTrail, misled>>

Refuse(q) == request' = [request EXCEPT ![q] = NoRequest]

\* The next use case of the request, which starts with its own authorisation.
AfterChange(q) ==
    IF Len(request[q].todo) = 1 THEN NoRequest
    ELSE [request[q] EXCEPT !.pc = "authorize", !.todo = Tail(@), !.did = "nothing", !.alone = TRUE]

Authorize(q) ==
    /\ request[q].pc = "authorize"
    /\ IF MayManage(request[q].actor) THEN request' = [request EXCEPT ![q].pc = "read"] ELSE Refuse(q)
    /\ UNCHANGED <<roles, deactivated, userTrail, misled, renounced, accepted>>

IsChange(c, u) == \/ c.kind = "grant" /\ c.role \notin roles[u]
                  \/ c.kind = "revoke" /\ c.role \in roles[u]
                  \/ c.kind = "deactivate"

\* A deactivated user is a conflict; what changes nothing is skipped.
ReadUser(q) ==
    LET u == request[q].user IN
    /\ request[q].pc = "read"
    /\ IF u \in deactivated THEN Refuse(q)
       ELSE request' = [request EXCEPT ![q] =
              IF IsChange(Head(request[q].todo), u) THEN [@ EXCEPT !.pc = "write"] ELSE AfterChange(q)]
    /\ UNCHANGED <<roles, deactivated, userTrail, misled, renounced, accepted>>

\* Mutant of Audited: a revocation writes no row.
AuditedGrants(u, c) == IF c.kind = "revoke" THEN userTrail
                       ELSE Append(userTrail, [user |-> u, kind |-> c.kind, role |-> c.role])

Audited(u, c) == Append(userTrail, [user |-> u, kind |-> c.kind, role |-> c.role])

\* q has a transaction open that has run its statement about u's role r, or
\* waits in it.
IsOpen(q, u, r) == /\ request[q].pc \in {"waits", "commit"} /\ request[q].user = u
                   /\ Head(request[q].todo).role = r

\* The statement has an effect that only its commit will show.
HasWritten(q, u, r, effect) ==
    IsOpen(q, u, r) /\ request[q].pc = "commit" /\ request[q].did = effect

\* q's statement has run, or waits; the open transactions about the same role
\* have company from now on.
RunStatement(q, pc, did) ==
    LET u == request[q].user  r == Head(request[q].todo).role
        others == {p \in Requests \ {q} : IsOpen(p, u, r)}
    IN request' = [p \in Requests |->
         IF p = q THEN [request[q] EXCEPT !.pc = pc, !.did = did, !.alone = @ /\ others = {}]
         ELSE IF p \in others THEN [request[p] EXCEPT !.alone = FALSE] ELSE request[p]]

\* INSERT ... ON CONFLICT DO NOTHING waits for a transaction that has inserted
\* or deleted the row, and does nothing about a row that is there.
InsertRole(q) ==
    LET u == request[q].user  c == Head(request[q].todo) IN
    /\ request[q].pc = "write" /\ c.kind = "grant"
    /\ \A p \in Requests, effect \in {"insert", "delete"} : ~HasWritten(p, u, c.role, effect)
    /\ RunStatement(q, "commit", IF c.role \in roles[u] THEN "nothing" ELSE "insert")
    /\ UNCHANGED <<roles, deactivated, userTrail, misled, renounced, accepted>>

\* DELETE looks for the committed row: it does not see one that is about to be
\* inserted, and waits for a transaction that is about to delete it.
DeleteRole(q) ==
    LET u == request[q].user  c == Head(request[q].todo)
        deleting == \E p \in Requests : HasWritten(p, u, c.role, "delete")
    IN /\ request[q].pc \in {"write", "waits"} /\ c.kind = "revoke"
       /\ \/ c.role \notin roles[u] /\ RunStatement(q, "commit", "nothing")
          \/ c.role \in roles[u] /\ ~deleting /\ RunStatement(q, "commit", "delete")
          \/ c.role \in roles[u] /\ deleting /\ request[q].pc = "write" /\ RunStatement(q, "waits", "nothing")
       /\ UNCHANGED <<roles, deactivated, userTrail, misled, renounced, accepted>>

\* The audit row, which nobody sees before the commit, and the commit.  A DELETE
\* that has waited for the row to go finds nothing, whatever is inserted next.
CommitRole(q) ==
    LET u == request[q].user  c == Head(request[q].todo)  did == request[q].did
        woken == {p \in Requests \ {q} : did = "delete" /\ request[p].pc = "waits" /\ IsOpen(p, u, c.role)}
    IN /\ request[q].pc = "commit" /\ Len(userTrail) < MaxChanges
       /\ roles' = [roles EXCEPT ![u] = CASE did = "insert" -> @ \union {c.role}
                                        [] did = "delete" -> @ \ {c.role}
                                        [] OTHER -> @]
       /\ userTrail' = Audited(u, c)
       /\ misled' = IF did = "nothing" /\ ~request[q].alone
                    THEN misled \union {<<u, c.role>>} ELSE misled \ {<<u, c.role>>}
       /\ renounced' = IF u = request[q].actor /\ c = Change("revoke", Admin)
                       THEN renounced \union {q} ELSE renounced
       /\ request' = [p \in Requests |-> IF p = q THEN AfterChange(q)
                                         ELSE IF p \in woken THEN [request[p] EXCEPT !.pc = "commit"]
                                         ELSE request[p]]
       /\ UNCHANGED <<deactivated, accepted>>

Active(u) == u \notin deactivated

\* The update is guarded, and the guard is looked at again after a wait for the
\* row: of two deactivations one is a conflict.  Nothing but the update's own
\* row decides it, so that the transaction is one step.
WriteDeactivation(q) ==
    LET u == request[q].user IN
    /\ request[q].pc = "write" /\ Head(request[q].todo).kind = "deactivate"
    /\ Len(userTrail) < MaxChanges
    /\ IF Active(u)
       THEN /\ deactivated' = deactivated \union {u}
            /\ userTrail' = Audited(u, Deactivation)
       ELSE UNCHANGED <<deactivated, userTrail>>
    /\ Refuse(q)
    /\ UNCHANGED <<roles, misled, renounced, accepted>>

\* The transaction fails, or the process dies in it or between two changes.
Drop(q) ==
    /\ request[q].pc # "idle"
    /\ Refuse(q)
    /\ UNCHANGED <<roles, deactivated, userTrail, misled, renounced, accepted>>

UsersNext ==
    \E q \in Requests :
        \/ \E actor, user \in Users, body \in Bodies : Accept(q, actor, user, body)
        \/ Authorize(q) \/ ReadUser(q) \/ InsertRole(q) \/ DeleteRole(q) \/ CommitRole(q)
        \/ WriteDeactivation(q) \/ Drop(q)

UsersSpec == UsersInit /\ [][UsersNext]_userVars

-------------------------------------------------------------------------------
(* Properties *)

RowsOf(u, r) == {i \in DOMAIN userTrail :
    userTrail[i].user = u /\ userTrail[i].role = r /\ userTrail[i].kind # "deactivate"}

\* Read in the order of the commits, the trail tells each user's roles: the last
\* row about a role is a grant exactly when it is held (changeRoles: a change
\* and its audit row commit together), however stale the reads were.  It may
\* mislead only after a transaction that changed nothing while another one about
\* the role was open.
TrailTellsRoles ==
    \A u \in Users, r \in Roles : <<u, r>> \notin misled =>
        LET last == {i \in RowsOf(u, r) : \A j \in RowsOf(u, r) : j <= i} IN
        r \in roles[u] <=> \/ RowsOf(u, r) = {}
                           \/ \E i \in last : userTrail[i].kind = "grant"

\* A request in which the actor has given up the administrator role changes no
\* further role, unless somebody gave it back (resolvePrincipal: "a role change
\* takes effect on the next command").
RenouncedChangesNothing ==
    [][\A q \in renounced \intersect renounced' :
          request[q].pc \in {"write", "commit"} /\ Len(userTrail') > Len(userTrail)
              /\ request'[q] # request[q] =>
              \E i \in DOMAIN userTrail :
                  /\ userTrail[i].user = request[q].actor
                  /\ userTrail[i].kind = "grant" /\ userTrail[i].role = Admin]_userVars

\* One deactivation of a user is recorded at most (users.sql, DeactivateUser).
DeactivatedOnce ==
    \A i, j \in DOMAIN userTrail :
        userTrail[i].kind = "deactivate" /\ userTrail[j].kind = "deactivate"
            /\ userTrail[i].user = userTrail[j].user => i = j

-------------------------------------------------------------------------------
(* What the code's own comments say of it. *)

\* user_admin.go, RevokeRole: "RevokeRole removes one role from one user ... the
\* revocation and its users.role_revoked audit event commit in one transaction".
\* Right after such a commit the role would not be held.
AuditedRevocationRemoves ==
    [][\A u \in Users, r \in Roles :
          /\ Len(userTrail') > Len(userTrail)
          /\ userTrail'[Len(userTrail')] = [user |-> u, kind |-> "revoke", role |-> r]
          => r \notin roles'[u]]_userVars

\* i5b_users.go, UpdateUserRoles: "a deactivated user a 409, both raised by the
\* use case before it writes".
DeactivatedRolesRest == [][\A u \in deactivated : roles'[u] = roles[u]]_userVars

\* user_admin.go, GrantRole: "a held role is not re-granted and writes no audit
\* row".
GrantsAlternate ==
    \A u \in Users, r \in Roles : \A i, j \in RowsOf(u, r) :
        i < j /\ userTrail[i].kind = "grant" /\ userTrail[j].kind = "grant" =>
            \E k \in RowsOf(u, r) : i < k /\ k < j /\ userTrail[k].kind = "revoke"
===============================================================================
