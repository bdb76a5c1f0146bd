---------------------------- MODULE GovernanceProofs ----------------------------
(***************************************************************************)
(* Proofs about UserRoles, RetentionRuns and SchemaMigration, three modules *)
(* that share no state, for any number of users, requests, workers, runs,  *)
(* processes and faults.  The inductive invariants are                     *)
(*   UsersInv      the requests are well formed, what a transaction knows  *)
(*                 when it commits, and the trail tells the roles;         *)
(*                 RenouncedOK and DeactivationsOK rest on it              *)
(*   RetentionInv  the executions are well formed; HoldOK, OneExecution,   *)
(*                 and ProgressOK: where everything that was scanned is    *)
(*   SchemaInv     what a run in each of its stages knows of both tables   *)
(***************************************************************************)
EXTENDS UserRoles, RetentionRuns, SchemaMigration, FiniteSetTheorems, SequenceTheorems,
        WellFoundedInduction, TLAPS

\* The next row in order exists: a set of numbers that is not empty has a least
\* element (WellFoundedInduction's WFMin, for the order of the naturals).
LEMMA MinOfNats ==
    ASSUME NEW S, S \subseteq Nat, S # {}
    PROVE  Min(S) \in S /\ \A y \in S : Min(S) <= y
<1> DEFINE Below == {p \in Nat \X Nat : p[1] < p[2]}
<1>1. IsWellFoundedOn(Below, Nat)
  BY NatLessThanWellFounded DEF OpToRel
<1>2. PICK x \in S : \A y \in S : <<y, x>> \notin Below
  <2> HIDE DEF Below
  <2> QED
    BY <1>1, WFMin
<1>3. \A y \in S : ~(y < x)
  <2> SUFFICES ASSUME NEW y \in S PROVE ~(y < x)
    OBVIOUS
  <2>1. y \in Nat /\ x \in Nat
    OBVIOUS
  <2>2. <<y, x>> \in Nat \X Nat /\ <<y, x>> \notin Below
    BY <1>2, <2>1
  <2>3. <<y, x>>[1] = y /\ <<y, x>>[2] = x
    OBVIOUS
  <2> QED
    BY <2>2, <2>3
<1>4. \A y \in S : x <= y
  BY <1>3

<1> QED
  BY <1>4 DEF Min

-------------------------------------------------------------------------------
(* UserRoles *)

\* What a request in hand looks like.
RequestStates == [pc : {"idle", "authorize", "read", "write", "waits", "commit"}, actor : Users,
                  user : Users, todo : Seq(Changes), did : {"nothing", "insert", "delete"},
                  alone : BOOLEAN]

RequestsOK ==
    /\ request \in [Requests -> RequestStates]
    /\ \A q \in Requests : request[q].pc # "idle" => request[q].todo # <<>>

TrailOK == roles \in [Users -> SUBSET Roles] /\ userTrail \in Seq(AuditRows)

\* The user and the role that a request is about.
Target(q) == request[q].user
Kind(q) == Head(request[q].todo).kind
Role(q) == Head(request[q].todo).role

\* A transaction about to commit has done what its row will say, or found it done
\* when nobody else had a transaction open about the role.
StatementOK(q) ==
    /\ request[q].pc = "waits" => Kind(q) = "revoke" /\ request[q].did = "nothing"
    /\ request[q].pc = "commit" =>
         /\ Kind(q) # "deactivate"
         /\ request[q].did = "insert" => Kind(q) = "grant"
         /\ request[q].did = "delete" => Kind(q) = "revoke"
         /\ request[q].did = "nothing" /\ request[q].alone =>
              (Kind(q) = "grant" <=> Role(q) \in roles[Target(q)])

\* Who has a transaction open about the role of another one is not alone.
ApartOK(p, q) == IsOpen(p, Target(p), Role(p)) /\ IsOpen(q, Target(p), Role(p)) => ~request[p].alone

StatementsOK ==
    /\ \A q \in Requests : StatementOK(q)
    /\ \A p \in Requests : \A q \in Requests \ {p} : ApartOK(p, q)

UsersInv == RequestsOK /\ TrailOK /\ StatementsOK /\ TrailTellsRoles

\* Some row of the trail has this user, kind and role.
Recorded(trail, u, kind, role) == \E i \in DOMAIN trail :
    trail[i].user = u /\ trail[i].kind = kind /\ trail[i].role = role

\* Who holds the role has been given it by a row of the trail.
GrantedIfHeld(roleOf, trail, u, r) == r \in roleOf[u] => Recorded(trail, u, "grant", r)

\* A step that takes no row away and gives no role without a row that grants it.
KeepsGrants ==
    /\ \A x, k, r : Recorded(userTrail, x, k, r) => Recorded(userTrail', x, k, r)
    /\ \A x \in Users, r \in Roles : 
         GrantedIfHeld(roles, userTrail, x, r) => GrantedIfHeld(roles', userTrail', x, r)

\* A request whose actor gave up Admin in it passes its next authorisation only
\* if a row says that it was given back.
RenouncedOK ==
    /\ renounced \subseteq Requests
    /\ \A q \in Requests : request[q].pc = "commit" /\ Kind(q) = "revoke" /\ request[q].did = "nothing" =>
         GrantedIfHeld(roles, userTrail, Target(q), Role(q))
    /\ \A q \in renounced :
         /\ request[q].pc # "idle" => GrantedIfHeld(roles, userTrail, request[q].actor, Admin)
         /\ request[q].pc \in {"read", "write", "waits", "commit"} =>
              Recorded(userTrail, request[q].actor, "grant", Admin)

\* Who is not deactivated has no deactivation on record.
DeactivationsOK ==
    /\ DeactivatedOnce
    /\ \A i \in DOMAIN userTrail : userTrail[i].kind = "deactivate" => userTrail[i].user \in deactivated

USE RolesAssumption, UserBounds

\* The head and the tail of a sequence.
LEMMA TakeApart ==
    ASSUME NEW S, NEW s \in Seq(S), s # <<>>
    PROVE  Head(s) \in S /\ Tail(s) \in Seq(S) /\ (Len(s) # 1 => Tail(s) # <<>>)
<1>1. Head(s) \in S /\ Tail(s) \in Seq(S) /\ Len(Tail(s)) = Len(s) - 1
  BY HeadTailProperties
<1>2. Len(s) \in Nat \ {0}
  BY EmptySeq
<1>3. Len(s) # 1 => Len(Tail(s)) # 0
  BY <1>1, <1>2
<1> QED
  BY <1>1, <1>3, EmptySeq

\* A request that is not idle has a change to make.
LEMMA HeadOfTodo ==
    ASSUME RequestsOK, NEW q \in Requests, request[q].pc # "idle"
    PROVE  /\ Head(request[q].todo) \in Changes /\ Tail(request[q].todo) \in Seq(Changes)
           /\ request[q].user \in Users /\ request[q].actor \in Users
           /\ Len(request[q].todo) # 1 => Tail(request[q].todo) # <<>>
<1>1. request[q].todo \in Seq(Changes) /\ request[q].todo # <<>>
      /\ request[q].user \in Users /\ request[q].actor \in Users
  BY DEF RequestsOK, RequestStates
<1> QED
  BY <1>1, TakeApart

\* The fields of a change.
LEMMA ChangeFields ==
    ASSUME NEW c \in Changes
    PROVE  c.kind \in {"grant", "revoke", "deactivate"} /\ c.role \in Roles
  BY DEF Changes, Deactivation, Change, Roles

\* A PATCH carries at least one change.
LEMMA BodiesAreChanges ==
    ASSUME NEW body \in Bodies PROVE body \in Seq(Changes) /\ body # <<>>
<1>1. CASE \E c \in Changes : body = <<c>>
  BY <1>1
<1>2. ASSUME NEW k \in {"grant", "revoke"}, NEW g \in Roles, NEW r \in Roles,
             body = <<Change(k, g), Change("revoke", r)>>
      PROVE  body \in Seq(Changes) /\ body # <<>>
  <2>1. Change(k, g) \in Changes /\ Change("revoke", r) \in Changes
    BY DEF Change, Changes
  <2> QED
    BY <1>2, <2>1
<1>3. \/ \E c \in Changes : body = <<c>>
      \/ \E k \in {"grant", "revoke"}, g, r \in Roles :
             body = <<Change(k, g), Change("revoke", r)>>
  BY SMT DEF Bodies
<1> QED
  BY <1>1, <1>2, <1>3

\* After a change the request ends or is authorised anew.
LEMMA AfterChangeTypes ==
    ASSUME RequestsOK, NEW q \in Requests, request[q].pc # "idle"
    PROVE  /\ AfterChange(q) \in RequestStates
           /\ AfterChange(q).pc # "idle" => AfterChange(q).todo # <<>>
           /\ AfterChange(q).pc \in {"idle", "authorize"}
           /\ AfterChange(q).pc # "idle" => AfterChange(q).actor = request[q].actor
<1> USE DEF AfterChange, RequestsOK, RequestStates
<1>1. Users # {}
  BY HeadOfTodo
<1>2. (CHOOSE u \in Users : TRUE) \in Users
  BY <1>1
<1>3. <<>> \in Seq(Changes)
  OBVIOUS
<1>4. CASE Len(request[q].todo) = 1
  BY <1>2, <1>3, <1>4 DEF NoRequest
<1>5. CASE Len(request[q].todo) # 1
  BY <1>5, HeadOfTodo
<1> QED
  BY <1>4, <1>5

\* What an audit row that is written does to the trail: it is its last row, and
\* the others stay.
LEMMA AppendedRow ==
    ASSUME TrailOK, NEW u \in Users, NEW c \in Changes, userTrail' = Audited(u, c)
    PROVE  LET n == Len(userTrail) + 1 IN
           /\ n \in Nat \ {0} /\ DOMAIN userTrail = 1..(n - 1) /\ DOMAIN userTrail' = 1..n
           /\ userTrail' \in Seq(AuditRows) /\ Len(userTrail') = n
           /\ userTrail'[n] = [user |-> u, kind |-> c.kind, role |-> c.role]
           /\ \A i \in DOMAIN userTrail : userTrail'[i] = userTrail[i]
<1> DEFINE row == [user |-> u, kind |-> c.kind, role |-> c.role]
<1>1. row \in AuditRows
  BY ChangeFields DEF AuditRows
<1>2. userTrail \in Seq(AuditRows) /\ userTrail' = Append(userTrail, row)
  BY DEF TrailOK, Audited
<1> HIDE DEF row
<1>3. /\ userTrail' \in Seq(AuditRows) /\ Len(userTrail') = Len(userTrail) + 1
      /\ \A i \in 1..Len(userTrail) : userTrail'[i] = userTrail[i]
      /\ userTrail'[Len(userTrail) + 1] = row
  BY <1>1, <1>2, AppendProperties
<1>4. /\ Len(userTrail) \in Nat /\ DOMAIN userTrail = 1..Len(userTrail)
      /\ DOMAIN userTrail' = 1..Len(userTrail')
  BY <1>2, <1>3, LenProperties
<1> QED
  BY <1>3, <1>4 DEF row

\* A request that is refused or done.
LEMMA NoRequestOK == NoRequest \in RequestStates /\ NoRequest.pc = "idle"
<1>1. (CHOOSE u \in Users : TRUE) \in Users
  BY RolesAssumption
<1> QED
  BY <1>1 DEF NoRequest, RequestStates

\* Everybody has every role and nothing is on record.
LEMMA UsersInitOK == UsersInit => UsersInv
<1> SUFFICES ASSUME UsersInit PROVE UsersInv
  OBVIOUS
<1>1. RequestsOK
  BY NoRequestOK DEF UsersInit, RequestsOK
<1>2. TrailOK
  BY DEF UsersInit, TrailOK
<1>3. \A u \in Users, r \in Roles : RowsOf(u, r) = {} /\ r \in roles[u]
  BY DEF UsersInit, RowsOf
<1>4. \A q \in Requests : request[q].pc = "idle"
  BY NoRequestOK DEF UsersInit
<1>5. StatementsOK
  BY <1>4 DEF StatementsOK, StatementOK, ApartOK, IsOpen
<1> QED
  BY <1>1, <1>2, <1>3, <1>5 DEF UsersInv, TrailTellsRoles

\* A statement that runs: nobody about the same role is alone from now on.
LEMMA RunsEffect ==
    ASSUME RequestsOK, NEW q \in Requests, request[q].pc # "idle",
           NEW pc \in {"waits", "commit"}, NEW did \in {"nothing", "insert", "delete"},
           RunStatement(q, pc, did)
    PROVE  /\ RequestsOK'
           /\ request'[q].pc = pc /\ request'[q].did = did /\ request'[q].actor = request[q].actor
           /\ request'[q].user = request[q].user /\ request'[q].todo = request[q].todo
           /\ \A p \in Requests \ {q} :
                /\ request'[p].pc = request[p].pc /\ request'[p].did = request[p].did
                /\ request'[p].actor = request[p].actor
                /\ request'[p].user = request[p].user /\ request'[p].todo = request[p].todo
                /\ request'[p].alone => request[p].alone
                /\ IsOpen(p, Target(q), Role(q)) => ~request'[p].alone /\ ~request'[q].alone
<1> DEFINE others == {p \in Requests \ {q} : IsOpen(p, Target(q), Role(q))}
           Next(p) == IF p = q THEN [request[q] EXCEPT !.pc = pc, !.did = did, !.alone = @ /\ others = {}]
                      ELSE IF p \in others THEN [request[p] EXCEPT !.alone = FALSE] ELSE request[p]
<1>1. request' = [p \in Requests |-> Next(p)]
  BY DEF RunStatement, Target, Role
<1>2. request \in [Requests -> RequestStates]
  BY DEF RequestsOK
<1>3. others \subseteq Requests \ {q}
  OBVIOUS
<1>4. \A p \in Requests \ {q} : IsOpen(p, Target(q), Role(q)) <=> p \in others
  OBVIOUS
<1> HIDE DEF others
<1>5. /\ Next(q) \in RequestStates /\ Next(q).todo = request[q].todo
      /\ Next(q).pc = pc /\ Next(q).did = did /\ Next(q).actor = request[q].actor
      /\ Next(q).user = request[q].user /\ (Next(q).alone => others = {})
  BY <1>2 DEF RequestStates
<1>6. ASSUME NEW p \in Requests \ {q}
      PROVE  /\ Next(p) \in RequestStates /\ Next(p).todo = request[p].todo
             /\ Next(p).pc = request[p].pc /\ Next(p).did = request[p].did
             /\ Next(p).actor = request[p].actor /\ Next(p).user = request[p].user
             /\ Next(p).alone => request[p].alone
             /\ p \in others => ~Next(p).alone
  BY <1>2, <1>3 DEF RequestStates
<1>7. \A p \in Requests : request'[p] = Next(p)
  BY <1>1
<1> HIDE DEF Next
<1>8. RequestsOK'
  BY <1>1, <1>5, <1>6 DEF RequestsOK
<1> QED
  BY <1>4, <1>5, <1>6, <1>7, <1>8

\* The changes of a commit: q's request goes on, and those who waited wake.
LEMMA CommitEffect ==
    ASSUME RequestsOK, NEW q \in Requests, CommitRole(q)
    PROVE  /\ RequestsOK' /\ request'[q] = AfterChange(q)
           /\ \A p \in Requests \ {q} :
                /\ request'[p].did = request[p].did /\ request'[p].alone = request[p].alone
                /\ request'[p].actor = request[p].actor
                /\ request'[p].user = request[p].user /\ request'[p].todo = request[p].todo
                /\ \/ request'[p].pc = request[p].pc
                   \/ /\ request'[p].pc = "commit" /\ request[p].pc = "waits"
                      /\ request[q].did = "delete" /\ IsOpen(p, Target(q), Role(q))
<1> DEFINE woken == {p \in Requests \ {q} : /\ request[q].did = "delete" /\ request[p].pc = "waits"
                                            /\ IsOpen(p, Target(q), Role(q))}
           Next(p) == IF p = q THEN AfterChange(q)
                      ELSE IF p \in woken THEN [request[p] EXCEPT !.pc = "commit"] ELSE request[p]
<1>1. request' = [p \in Requests |-> Next(p)]
  BY DEF CommitRole, Target, Role
<1>2. request \in [Requests -> RequestStates]
  BY DEF RequestsOK
<1>3. \A p \in woken : /\ p \in Requests \ {q} /\ request[p].pc = "waits"
                       /\ request[q].did = "delete" /\ IsOpen(p, Target(q), Role(q))
  OBVIOUS
<1> HIDE DEF woken
<1>4. /\ Next(q) = AfterChange(q) /\ AfterChange(q) \in RequestStates
      /\ AfterChange(q).pc # "idle" => AfterChange(q).todo # <<>>
  BY AfterChangeTypes DEF CommitRole
<1>5. ASSUME NEW p \in Requests \ {q}
      PROVE  /\ Next(p) \in RequestStates /\ Next(p).todo = request[p].todo
             /\ Next(p).did = request[p].did /\ Next(p).alone = request[p].alone
             /\ Next(p).actor = request[p].actor /\ Next(p).user = request[p].user
             /\ \/ Next(p).pc = request[p].pc
                \/ Next(p).pc = "commit" /\ p \in woken
  BY <1>2 DEF RequestStates
<1>6. \A p \in Requests : request'[p] = Next(p)
  BY <1>1
<1> HIDE DEF Next
<1>7. RequestsOK'
  BY <1>1, <1>3, <1>4, <1>5 DEF RequestsOK
<1> QED
  BY <1>3, <1>4, <1>5, <1>6, <1>7

\* Every step leaves the requests well formed.
LEMMA RequestsStep == RequestsOK /\ [UsersNext]_userVars => RequestsOK'
<1> SUFFICES ASSUME RequestsOK, [UsersNext]_userVars PROVE RequestsOK'
  OBVIOUS
<1>1. ASSUME NEW q \in Requests, NEW actor \in Users, NEW user \in Users,
             NEW body \in Bodies, Accept(q, actor, user, body)
      PROVE  RequestsOK'
  BY <1>1, BodiesAreChanges DEF RequestsOK, RequestStates, Accept
<1>2. ASSUME NEW q \in Requests, Refuse(q) PROVE RequestsOK'
  BY <1>2, NoRequestOK DEF Refuse, RequestsOK
<1>3. ASSUME NEW q \in Requests, Authorize(q) PROVE RequestsOK'
  <2>1. CASE request' = [request EXCEPT ![q].pc = "read"]
    BY <1>3, <2>1 DEF Authorize, RequestsOK, RequestStates
  <2>2. CASE Refuse(q)
    BY <1>2, <2>2
  <2> QED
    BY <1>3, <2>1, <2>2 DEF Authorize
<1>4. ASSUME NEW q \in Requests, request[q].pc # "idle",
             request' = [request EXCEPT ![q] = AfterChange(q)]
      PROVE  RequestsOK'
  BY <1>4, AfterChangeTypes DEF RequestsOK
<1>5. ASSUME NEW q \in Requests, ReadUser(q) PROVE RequestsOK'
  <2>1. CASE request[q].user \in deactivated
    BY <1>5, <1>2, <2>1 DEF ReadUser
  <2>2. CASE request' = [request EXCEPT ![q] = AfterChange(q)]
    BY <1>5, <1>4, <2>2 DEF ReadUser
  <2>3. CASE request' = [request EXCEPT ![q] = [@ EXCEPT !.pc = "write"]]
    <3> DEFINE m == [request[q] EXCEPT !.pc = "write"]
    <3>1. request[q] \in RequestStates /\ request[q].todo # <<>>
      BY <1>5 DEF ReadUser, RequestsOK
    <3>2. m \in RequestStates /\ m.todo # <<>>
      BY <3>1 DEF RequestStates
    <3>3. request' = [request EXCEPT ![q] = m]
      BY <2>3
    <3> HIDE DEF m
    <3> QED
      BY <3>2, <3>3 DEF RequestsOK
  <2> QED
    BY <1>5, <2>1, <2>2, <2>3 DEF ReadUser
<1>6. ASSUME NEW q \in Requests, InsertRole(q) \/ DeleteRole(q) PROVE RequestsOK'
  <2>1. request[q].pc # "idle"
    BY <1>6 DEF InsertRole, DeleteRole
  <2>2. PICK pc \in {"waits", "commit"}, did \in {"nothing", "insert", "delete"} : RunStatement(q, pc, did)
    BY <1>6 DEF InsertRole, DeleteRole
  <2> QED
    BY <2>1, <2>2, RunsEffect
<1>7. ASSUME NEW q \in Requests, CommitRole(q) PROVE RequestsOK'
  BY <1>7, CommitEffect
<1>8. CASE UNCHANGED userVars
  BY <1>8 DEF userVars, RequestsOK
<1> QED
  BY <1>1, <1>2, <1>3, <1>5, <1>6, <1>7, <1>8 DEF UsersNext, WriteDeactivation, Drop

\* A statement knows what its commit will say: a DELETE that finds nothing, or an
\* INSERT that finds the row, is right as long as nobody else is about the role.
LEMMA StatementsStep ==
    RequestsOK /\ TrailOK /\ StatementsOK /\ [UsersNext]_userVars => StatementsOK'
<1> SUFFICES ASSUME RequestsOK, TrailOK, StatementsOK, [UsersNext]_userVars PROVE StatementsOK'
  OBVIOUS
<1> USE DEF Target, Kind, Role, IsOpen
\* A step of q that leaves it without an open transaction.
<1>1. ASSUME NEW q \in Requests, roles' = roles,
             request'[q].pc \notin {"waits", "commit"},
             \A p \in Requests \ {q} : request'[p] = request[p]
      PROVE  StatementsOK'
  BY <1>1 DEF StatementsOK, StatementOK, ApartOK
<1>2. ASSUME NEW q \in Requests, Refuse(q), roles' = roles PROVE StatementsOK'
  BY <1>1, <1>2, NoRequestOK DEF Refuse, RequestsOK
<1>3. ASSUME NEW q \in Requests, NEW actor \in Users, NEW user \in Users,
             NEW body \in Bodies, Accept(q, actor, user, body)
      PROVE  StatementsOK'
  BY <1>1, <1>3 DEF Accept, RequestsOK
<1>4. ASSUME NEW q \in Requests, Authorize(q) PROVE StatementsOK'
  BY <1>1, <1>2, <1>4 DEF Authorize, RequestsOK, RequestStates
<1>5. ASSUME NEW q \in Requests, ReadUser(q) PROVE StatementsOK'
  <2>1. AfterChange(q).pc \notin {"waits", "commit"}
    BY <1>5, AfterChangeTypes DEF ReadUser
  <2>2. request[q] \in RequestStates
    BY DEF RequestsOK
  <2>3. [request[q] EXCEPT !.pc = "write"].pc = "write"
    BY <2>2 DEF RequestStates
  <2> QED
    BY <1>1, <1>2, <1>5, <2>1, <2>3 DEF ReadUser, RequestsOK
<1>6. ASSUME NEW q \in Requests, NEW pc \in {"waits", "commit"},
             NEW did \in {"nothing", "insert", "delete"}, RunStatement(q, pc, did),
             request[q].pc # "idle", roles' = roles, Kind(q) # "deactivate",
             pc = "waits" => Kind(q) = "revoke" /\ did = "nothing",
             did = "insert" => Kind(q) = "grant", did = "delete" => Kind(q) = "revoke",
             pc = "commit" /\ did = "nothing" => (Kind(q) = "grant" <=> Role(q) \in roles[Target(q)])
      PROVE  StatementsOK'
  <2>1. /\ request'[q].pc = pc /\ request'[q].did = did
        /\ request'[q].user = request[q].user /\ request'[q].todo = request[q].todo
        /\ \A p \in Requests \ {q} :
             /\ request'[p].pc = request[p].pc /\ request'[p].did = request[p].did
             /\ request'[p].user = request[p].user /\ request'[p].todo = request[p].todo
             /\ request'[p].alone => request[p].alone
             /\ IsOpen(p, Target(q), Role(q)) => ~request'[p].alone /\ ~request'[q].alone
    BY <1>6, RunsEffect
  <2>2. ASSUME NEW p \in Requests PROVE StatementOK(p)'
    <3>1. CASE p = q
      BY <1>6, <2>1, <3>1 DEF StatementOK
    <3>2. CASE p # q
      BY <1>6, <2>1, <3>2 DEF StatementsOK, StatementOK
    <3> QED
      BY <3>1, <3>2
  <2>3. ASSUME NEW p \in Requests, NEW o \in Requests \ {p} PROVE ApartOK(p, o)'
    <3>1. ApartOK(p, o)
      BY DEF StatementsOK
    <3>2. CASE p # q /\ o # q
      BY <2>1, <3>1, <3>2 DEF ApartOK
    <3>3. CASE p = q \/ o = q
      BY <2>1, <3>3 DEF ApartOK
    <3> QED
      BY <3>2, <3>3
  <2> QED
    BY <2>2, <2>3 DEF StatementsOK
<1>7. ASSUME NEW q \in Requests, InsertRole(q) PROVE StatementsOK'
  <2> DEFINE did == IF Role(q) \in roles[Target(q)] THEN "nothing" ELSE "insert"
  <2>1. request[q].pc = "write" /\ Kind(q) = "grant" /\ RunStatement(q, "commit", did) /\ roles' = roles
    BY <1>7 DEF InsertRole
  <2> QED
    BY <1>6, <2>1
<1>8. ASSUME NEW q \in Requests, DeleteRole(q) PROVE StatementsOK'
  <2>1. request[q].pc \in {"write", "waits"} /\ Kind(q) = "revoke" /\ roles' = roles
    BY <1>8 DEF DeleteRole
  <2>2. \/ Role(q) \notin roles[Target(q)] /\ RunStatement(q, "commit", "nothing")
        \/ RunStatement(q, "commit", "delete")
        \/ RunStatement(q, "waits", "nothing")
    BY <1>8 DEF DeleteRole
  <2> QED
    BY <1>6, <2>1, <2>2
<1>9. ASSUME NEW q \in Requests, CommitRole(q) PROVE StatementsOK'
  <2> USE DEF StatementsOK
  <2>1. /\ request'[q] = AfterChange(q) /\ AfterChange(q).pc \notin {"waits", "commit"}
        /\ request[q].pc = "commit"
    BY <1>9, CommitEffect, AfterChangeTypes DEF CommitRole
  <2>2. \A p \in Requests \ {q} :
          /\ request'[p].did = request[p].did /\ request'[p].alone = request[p].alone
          /\ request'[p].user = request[p].user /\ request'[p].todo = request[p].todo
          /\ \/ request'[p].pc = request[p].pc
             \/ /\ request'[p].pc = "commit" /\ request[p].pc = "waits"
                /\ request[q].did = "delete" /\ IsOpen(p, Target(q), Role(q))
    BY <1>9, CommitEffect
  <2>3. ASSUME NEW u \in Users, NEW r \in Roles, ~(u = Target(q) /\ r = Role(q))
        PROVE  r \in roles'[u] <=> r \in roles[u]
    BY <1>9, <2>3 DEF CommitRole, TrailOK
  <2>4. ASSUME NEW p \in Requests \ {q} PROVE StatementOK(p)'
    <3>1. StatementOK(p) /\ ApartOK(p, q)
      OBVIOUS
    <3>2. CASE request'[p].pc # request[p].pc
      BY <2>1, <2>2, <3>1, <3>2 DEF StatementOK, ApartOK
    <3>3. CASE request'[p].pc = request[p].pc /\ request[p].pc = "commit" /\ request[p].alone
      <4>1. ~(Target(p) = Target(q) /\ Role(p) = Role(q))
        BY <2>1, <3>1, <3>3 DEF ApartOK
      <4>2. Target(p) \in Users /\ Role(p) \in Roles
        BY <3>3, HeadOfTodo, ChangeFields
      <4>3. Role(p) \in roles'[Target(p)] <=> Role(p) \in roles[Target(p)]
        BY <2>3, <4>1, <4>2
      <4> QED
        BY <2>2, <3>1, <3>3, <4>3 DEF StatementOK
    <3>4. CASE request'[p].pc = request[p].pc /\ ~(request[p].pc = "commit" /\ request[p].alone)
      BY <2>2, <3>1, <3>4 DEF StatementOK
    <3> QED
      BY <3>2, <3>3, <3>4
  <2>5. StatementOK(q)'
    BY <2>1 DEF StatementOK
  <2>6. ASSUME NEW p \in Requests, NEW o \in Requests \ {p} PROVE ApartOK(p, o)'
    <3>1. CASE p = q \/ o = q
      BY <2>1, <3>1 DEF ApartOK
    <3>2. CASE p # q /\ o # q
      <4>1. ApartOK(p, o)
        OBVIOUS
      <4> QED
        BY <2>2, <3>2, <4>1 DEF ApartOK
    <3> QED
      BY <3>1, <3>2
  <2> QED
    BY <2>4, <2>5, <2>6
<1>10. ASSUME NEW q \in Requests, WriteDeactivation(q) \/ Drop(q) PROVE StatementsOK'
  BY <1>2, <1>10 DEF WriteDeactivation, Drop
<1>11. CASE UNCHANGED userVars
  BY <1>11 DEF userVars, StatementsOK, StatementOK, ApartOK
<1> QED
  BY <1>3, <1>4, <1>5, <1>7, <1>8, <1>9, <1>10, <1>11 DEF UsersNext

\* A commit and its row are one step: the new row is the last about its role.
LEMMA TrailStep ==
    UsersInv /\ [UsersNext]_userVars => (TrailOK /\ TrailTellsRoles)'
<1> SUFFICES ASSUME UsersInv, [UsersNext]_userVars PROVE TrailOK' /\ TrailTellsRoles'
  OBVIOUS
<1> USE DEF UsersInv
<1>1. ASSUME NEW q \in Requests, CommitRole(q) PROVE TrailOK' /\ TrailTellsRoles'
  <2> DEFINE u == request[q].user
             c == Head(request[q].todo)
             n == Len(userTrail) + 1
  <2>0. StatementOK(q) /\ request[q] \in RequestStates
    BY DEF StatementsOK, RequestsOK
  <2>1. u \in Users /\ c \in Changes /\ c.kind \in {"grant", "revoke"} /\ c.role \in Roles
    BY <1>1, <2>0, HeadOfTodo, ChangeFields DEF CommitRole, StatementOK, Kind
  <2>2. /\ userTrail' = Audited(u, c)
        /\ roles' = [roles EXCEPT ![u] = CASE request[q].did = "insert" -> @ \union {c.role}
                                         [] request[q].did = "delete" -> @ \ {c.role}
                                         [] OTHER -> @]
        /\ misled' = IF request[q].did = "nothing" /\ ~request[q].alone
                     THEN misled \union {<<u, c.role>>} ELSE misled \ {<<u, c.role>>}
    BY <1>1 DEF CommitRole
  <2>3. /\ request[q].did \in {"nothing", "insert", "delete"}
        /\ request[q].did = "insert" => c.kind = "grant"
        /\ request[q].did = "delete" => c.kind = "revoke"
        /\ request[q].did = "nothing" /\ request[q].alone => (c.kind = "grant" <=> c.role \in roles[u])
    BY <1>1, <2>0 DEF CommitRole, StatementOK, Kind, Role, Target, RequestStates
  <2> HIDE DEF u, c
  <2>4. /\ n \in Nat \ {0} /\ DOMAIN userTrail = 1..(n - 1) /\ DOMAIN userTrail' = 1..n
        /\ userTrail' \in Seq(AuditRows)
        /\ userTrail'[n] = [user |-> u, kind |-> c.kind, role |-> c.role]
        /\ \A i \in DOMAIN userTrail : userTrail'[i] = userTrail[i]
    BY <2>1, <2>2, AppendedRow
  <2> HIDE DEF n
  <2>5. TrailOK'
    <3>1. roles \in [Users -> SUBSET Roles]
      BY DEF TrailOK
    <3>2. roles' \in [Users -> SUBSET Roles]
      BY <2>1, <2>2, <2>3, <3>1
    <3> QED
      BY <2>4, <3>2 DEF TrailOK
  <2>6. ASSUME NEW x \in Users, NEW r \in Roles, <<x, r>> \notin misled'
        PROVE  LET last == {i \in RowsOf(x, r)' : \A j \in RowsOf(x, r)' : j <= i} IN
               r \in roles'[x] <=> \/ RowsOf(x, r)' = {}
                                   \/ \E i \in last : userTrail'[i].kind = "grant"
    <3>1. CASE x = u /\ r = c.role
      <4>1. n \in RowsOf(x, r)' /\ \A j \in RowsOf(x, r)' : j <= n
        BY <2>1, <2>4, <3>1 DEF RowsOf
      <4>2. \A i \in RowsOf(x, r)' : n <= i => i = n
        BY <2>4 DEF RowsOf
      <4>3. ~(request[q].did = "nothing" /\ ~request[q].alone)
        BY <2>2, <2>6, <3>1
      <4>4. r \in roles'[x] <=> c.kind = "grant"
        <5>1. CASE request[q].did = "insert"
          BY <2>1, <2>2, <2>3, <3>1, <5>1 DEF TrailOK
        <5>2. CASE request[q].did = "delete"
          BY <2>1, <2>2, <2>3, <3>1, <5>2 DEF TrailOK
        <5>3. CASE request[q].did = "nothing"
          BY <2>1, <2>2, <2>3, <3>1, <4>3, <5>3 DEF TrailOK
        <5> QED
          BY <2>3, <5>1, <5>2, <5>3
      <4> QED
        BY <2>4, <4>1, <4>2, <4>4
    <3>2. CASE ~(x = u /\ r = c.role)
      <4>1. RowsOf(x, r)' = RowsOf(x, r)
        BY <2>1, <2>4, <3>2 DEF RowsOf
      <4>2. \A i \in RowsOf(x, r) : userTrail'[i] = userTrail[i]
        BY <2>4 DEF RowsOf
      <4>3. r \in roles'[x] <=> r \in roles[x]
        BY <2>1, <2>2, <2>3, <3>2 DEF TrailOK
      <4>4. <<x, r>> \notin misled
        BY <2>2, <2>6, <3>2
      <4> QED
        BY <4>1, <4>2, <4>3, <4>4 DEF TrailTellsRoles
    <3> QED
      BY <3>1, <3>2
  <2> QED
    BY <2>5, <2>6 DEF TrailTellsRoles
<1>2. ASSUME NEW q \in Requests, WriteDeactivation(q) PROVE TrailOK' /\ TrailTellsRoles'
  <2> DEFINE n == Len(userTrail) + 1
  <2>1. CASE Active(request[q].user)
    <3>1. request[q].user \in Users /\ Deactivation \in Changes
      BY <1>2, HeadOfTodo DEF WriteDeactivation, Changes
    <3>2. userTrail' = Audited(request[q].user, Deactivation) /\ UNCHANGED <<roles, misled>>
      BY <1>2, <2>1 DEF WriteDeactivation
    <3>0. Deactivation.kind = "deactivate"
      BY DEF Deactivation, Change
    <3>3. /\ n \in Nat \ {0} /\ DOMAIN userTrail = 1..(n - 1) /\ DOMAIN userTrail' = 1..n
          /\ userTrail' \in Seq(AuditRows)
          /\ userTrail'[n].kind = "deactivate"
          /\ \A i \in DOMAIN userTrail : userTrail'[i] = userTrail[i]
      <4>1. /\ n \in Nat \ {0} /\ DOMAIN userTrail = 1..(n - 1) /\ DOMAIN userTrail' = 1..n
            /\ userTrail' \in Seq(AuditRows)
            /\ userTrail'[n] = [user |-> request[q].user, kind |-> Deactivation.kind,
                                role |-> Deactivation.role]
            /\ \A i \in DOMAIN userTrail : userTrail'[i] = userTrail[i]
        BY <3>1, <3>2, AppendedRow
      <4> QED
        BY <3>0, <4>1
    <3>4. ASSUME NEW x \in Users, NEW r \in Roles PROVE RowsOf(x, r)' = RowsOf(x, r)
      BY <3>3 DEF RowsOf
    <3>5. ASSUME NEW x \in Users, NEW r \in Roles, NEW i \in RowsOf(x, r)
          PROVE  userTrail'[i] = userTrail[i]
      BY <3>3 DEF RowsOf
    <3> QED
      BY <3>2, <3>3, <3>4, <3>5 DEF TrailOK, TrailTellsRoles
  <2>2. CASE ~Active(request[q].user)
    BY <1>2, <2>2 DEF WriteDeactivation, TrailOK, TrailTellsRoles, RowsOf
  <2> QED
    BY <2>1, <2>2
<1>3. CASE UNCHANGED <<roles, userTrail, misled>>
  BY <1>3 DEF TrailOK, TrailTellsRoles, RowsOf
<1> QED
  BY <1>1, <1>2, <1>3 DEF UsersNext, userVars, Accept, Authorize,
     ReadUser, InsertRole, DeleteRole, Drop

\* TrailTellsRoles for any number of administrators, requests and changes, the
\* ones written on a stale read included (changeRoles): each statement and each
\* commit is a step, and the last row about a role tells whether it is held unless
\* its transaction changed nothing beside an open one about the same role.
THEOREM TrailTells == UsersSpec => []TrailTellsRoles
<1>1. UsersInv /\ [UsersNext]_userVars => UsersInv'
  BY RequestsStep, StatementsStep, TrailStep DEF UsersInv
<1>2. UsersInv => TrailTellsRoles
  BY DEF UsersInv
<1> QED
  BY UsersInitOK, <1>1, <1>2, PTL DEF UsersSpec

\* Rows stay, and a role is gained with a row that grants it.
LEMMA GrantsStay ==
    ASSUME UsersInv, [UsersNext]_userVars
    PROVE  KeepsGrants
<1> USE DEF UsersInv
<1>1. ASSUME NEW u \in Users, NEW c \in Changes, userTrail' = Audited(u, c)
      PROVE  /\ Recorded(userTrail', u, c.kind, c.role)
             /\ \A x, k, r : Recorded(userTrail, x, k, r) => Recorded(userTrail', x, k, r)
  <2> DEFINE n == Len(userTrail) + 1
  <2>1. /\ n \in Nat \ {0} /\ DOMAIN userTrail = 1..(n - 1) /\ DOMAIN userTrail' = 1..n
        /\ userTrail'[n] = [user |-> u, kind |-> c.kind, role |-> c.role]
        /\ \A i \in DOMAIN userTrail : userTrail'[i] = userTrail[i]
    BY <1>1, AppendedRow
  <2> HIDE DEF n
  <2> QED
    BY <2>1 DEF Recorded
<1>2. CASE UNCHANGED <<roles, userTrail>>
  BY <1>2 DEF Recorded, GrantedIfHeld, KeepsGrants
<1>3. ASSUME NEW q \in Requests, CommitRole(q)
      PROVE  KeepsGrants
  <2> DEFINE u == request[q].user
             c == Head(request[q].todo)
  <2>1. /\ u \in Users /\ c \in Changes /\ userTrail' = Audited(u, c)
        /\ roles' = [roles EXCEPT ![u] = CASE request[q].did = "insert" -> @ \union {c.role}
                                         [] request[q].did = "delete" -> @ \ {c.role}
                                         [] OTHER -> @]
        /\ request[q].did = "insert" => c.kind = "grant"
    BY <1>3, HeadOfTodo DEF CommitRole, StatementsOK, StatementOK, Kind
  <2> HIDE DEF u, c
  <2>2. /\ Recorded(userTrail', u, c.kind, c.role)
        /\ \A x, k, r : Recorded(userTrail, x, k, r) => Recorded(userTrail', x, k, r)
    BY <1>1, <2>1
  <2>3. roles \in [Users -> SUBSET Roles]
    BY DEF TrailOK
  <2>4. ASSUME NEW x \in Users, NEW r \in Roles, GrantedIfHeld(roles, userTrail, x, r), r \in roles'[x]
        PROVE  Recorded(userTrail', x, "grant", r)
    <3>1. CASE r \in roles[x]
      BY <2>2, <2>4, <3>1 DEF GrantedIfHeld
    <3>2. CASE r \notin roles[x]
      <4>1. x = u /\ r = c.role /\ request[q].did = "insert"
        BY <2>1, <2>3, <2>4, <3>2
      <4> QED
        BY <2>1, <2>2, <4>1
    <3> QED
      BY <3>1, <3>2
  <2> QED
    BY <2>2, <2>4 DEF GrantedIfHeld, KeepsGrants
<1>4. ASSUME NEW q \in Requests, WriteDeactivation(q), Active(request[q].user)
      PROVE  KeepsGrants
  <2>1. request[q].user \in Users /\ Deactivation \in Changes
    BY <1>4, HeadOfTodo DEF WriteDeactivation, Changes
  <2>2. \A x, k, r : Recorded(userTrail, x, k, r) => Recorded(userTrail', x, k, r)
    BY <1>1, <1>4, <2>1 DEF WriteDeactivation
  <2>3. roles' = roles
    BY <1>4 DEF WriteDeactivation
  <2> QED
    BY <2>2, <2>3 DEF GrantedIfHeld, KeepsGrants
<1> QED
  BY <1>2, <1>3, <1>4 DEF UsersNext, userVars, Accept, Authorize, ReadUser, InsertRole, DeleteRole,
     WriteDeactivation, Drop

\* Authorised again means holding Admin, and who gave it up holds it by a row.
LEMMA RenouncedStep == UsersInv /\ RenouncedOK /\ [UsersNext]_userVars => RenouncedOK'
<1> SUFFICES ASSUME UsersInv, RenouncedOK, [UsersNext]_userVars PROVE RenouncedOK'
  OBVIOUS
<1> USE DEF UsersInv
<1>0. /\ \A x, k, r : Recorded(userTrail, x, k, r) => Recorded(userTrail', x, k, r)
      /\ \A x \in Users, r \in Roles : 
           GrantedIfHeld(roles, userTrail, x, r) => GrantedIfHeld(roles', userTrail', x, r)
      /\ Admin \in Roles
  BY GrantsStay DEF KeepsGrants, Roles
<1> DEFINE InTx(p) == request[p].pc = "commit" /\ Kind(p) = "revoke" /\ request[p].did = "nothing" =>
                         GrantedIfHeld(roles, userTrail, Target(p), Role(p))
           Past(p) == /\ request[p].pc # "idle" => GrantedIfHeld(roles, userTrail, request[p].actor, Admin)
                      /\ request[p].pc \in {"read", "write", "waits", "commit"} =>
                           Recorded(userTrail, request[p].actor, "grant", Admin)
<1>1. RenouncedOK <=> /\ renounced \subseteq Requests /\ \A p \in Requests : InTx(p)
                      /\ \A p \in renounced : Past(p)
  BY DEF RenouncedOK
<1>2. RenouncedOK' <=> /\ renounced' \subseteq Requests /\ \A p \in Requests : InTx(p)'
                       /\ \A p \in renounced' : Past(p)'
  BY DEF RenouncedOK
\* A request that the step leaves alone, its companions aside.
<1>3. ASSUME NEW p \in Requests, request'[p].pc = request[p].pc, request'[p].did = request[p].did,
             request'[p].actor = request[p].actor, request'[p].user = request[p].user,
             request'[p].todo = request[p].todo
      PROVE  InTx(p)' /\ (p \in renounced => Past(p)')
  <2>1. InTx(p) /\ (p \in renounced => Past(p))
    BY <1>1
  <2>2. CASE request[p].pc = "idle"
    BY <1>3, <2>2
  <2>3. CASE request[p].pc # "idle"
    <3>1. request[p].actor \in Users /\ Target(p) \in Users /\ Role(p) \in Roles
      BY <2>3, HeadOfTodo, ChangeFields DEF Target, Role
    <3>2. Target(p)' = Target(p) /\ Role(p)' = Role(p) /\ Kind(p)' = Kind(p)
      BY <1>3 DEF Target, Role, Kind
    <3>3. InTx(p)'
      <4>1. GrantedIfHeld(roles, userTrail, Target(p), Role(p)) =>
              GrantedIfHeld(roles', userTrail', Target(p), Role(p))
        BY <1>0, <3>1
      <4> QED
        BY <1>3, <2>1, <3>2, <4>1 DEF GrantedIfHeld
    <3>4. ASSUME p \in renounced PROVE Past(p)'
      <4>1. GrantedIfHeld(roles, userTrail, request[p].actor, Admin) =>
              GrantedIfHeld(roles', userTrail', request[p].actor, Admin)
        BY <1>0, <3>1
      <4> QED
        BY <1>0, <1>3, <2>1, <3>4, <4>1 DEF GrantedIfHeld
    <3> QED
      BY <3>3, <3>4
  <2> QED
    BY <2>2, <2>3
\* A step of q alone, after which it has no transaction open.
<1>4. ASSUME NEW q \in Requests, \A p \in Requests \ {q} : request'[p] = request[p],
             renounced' \subseteq renounced, request'[q].pc # "commit",
             q \in renounced' => Past(q)'
      PROVE  RenouncedOK'
  <2>1. renounced \subseteq Requests
    BY <1>1
  <2> HIDE DEF Past
  <2>2. \A p \in Requests \ {q} : InTx(p)' /\ (p \in renounced => Past(p)')
    BY <1>3, <1>4
  <2>3. InTx(q)'
    BY <1>4
  <2> HIDE DEF InTx
  <2> QED
    BY <1>2, <1>4, <2>1, <2>2, <2>3
<1>5. ASSUME NEW q \in Requests, Refuse(q), renounced' = renounced PROVE RenouncedOK'
  BY <1>4, <1>5, NoRequestOK DEF Refuse, RequestsOK
<1>6. ASSUME NEW q \in Requests, NEW actor \in Users, NEW user \in Users,
             NEW body \in Bodies, Accept(q, actor, user, body)
      PROVE  RenouncedOK'
  BY <1>4, <1>6 DEF Accept, RequestsOK
<1>7. ASSUME NEW q \in Requests, request' = [request EXCEPT ![q] = AfterChange(q)],
             request[q].pc # "idle", renounced' = renounced
      PROVE  RenouncedOK'
  <2>1. /\ AfterChange(q).pc \in {"idle", "authorize"}
        /\ AfterChange(q).pc # "idle" => AfterChange(q).actor = request[q].actor
    BY <1>7, AfterChangeTypes
  <2>2. request'[q] = AfterChange(q) /\ \A p \in Requests \ {q} : request'[p] = request[p]
    BY <1>7 DEF RequestsOK
  <2>3. request[q].actor \in Users
    BY DEF RequestsOK, RequestStates
  <2>4. ASSUME q \in renounced PROVE Past(q)'
    <3>1. GrantedIfHeld(roles, userTrail, request[q].actor, Admin)
      BY <1>1, <1>7, <2>4
    <3>2. GrantedIfHeld(roles', userTrail', request[q].actor, Admin)
      BY <1>0, <2>3, <3>1
    <3> QED
      BY <2>1, <2>2, <3>2 DEF GrantedIfHeld
  <2> HIDE DEF Past
  <2> QED
    BY <1>4, <1>7, <2>1, <2>2, <2>4
<1>8. ASSUME NEW q \in Requests, NEW pc \in {"read", "write"}, request[q].pc # "idle",
             request' = [request EXCEPT ![q] = [request[q] EXCEPT !.pc = pc]], renounced' = renounced,
             UNCHANGED <<roles, userTrail>>,
             q \in renounced => Recorded(userTrail, request[q].actor, "grant", Admin)
      PROVE  RenouncedOK'
  <2>1. /\ request'[q].pc = pc /\ request'[q].actor = request[q].actor
        /\ \A p \in Requests \ {q} : request'[p] = request[p]
    BY <1>8 DEF RequestsOK, RequestStates
  <2>2. q \in renounced => Past(q)'
    BY <1>8, <2>1 DEF GrantedIfHeld
  <2> HIDE DEF Past
  <2> QED
    BY <1>4, <1>8, <2>1, <2>2
<1>9. ASSUME NEW q \in Requests, Authorize(q) PROVE RenouncedOK'
  <2>1. CASE MayManage(request[q].actor)
    <3>1. q \in renounced => Recorded(userTrail, request[q].actor, "grant", Admin)
      BY <1>1, <1>9, <2>1 DEF Authorize, MayManage, GrantedIfHeld
    <3> QED
      BY <1>8, <1>9, <2>1, <3>1 DEF Authorize
  <2>2. CASE ~MayManage(request[q].actor)
    BY <1>5, <1>9, <2>2 DEF Authorize
  <2> QED
    BY <2>1, <2>2
<1>10. ASSUME NEW q \in Requests, ReadUser(q) PROVE RenouncedOK'
  <2>1. CASE request[q].user \in deactivated
    BY <1>5, <1>10, <2>1 DEF ReadUser
  <2>2. CASE request' = [request EXCEPT ![q] = AfterChange(q)]
    BY <1>7, <1>10, <2>2 DEF ReadUser
  <2>3. CASE request' = [request EXCEPT ![q] = [@ EXCEPT !.pc = "write"]]
    BY <1>1, <1>8, <1>10, <2>3 DEF ReadUser
  <2> QED
    BY <1>10, <2>1, <2>2, <2>3 DEF ReadUser
<1>11. ASSUME NEW q \in Requests, InsertRole(q) \/ DeleteRole(q) PROVE RenouncedOK'
  <2>1. request[q].pc \in {"write", "waits"} /\ UNCHANGED <<roles, userTrail, renounced>>
    BY <1>11 DEF InsertRole, DeleteRole
  <2>2. PICK pc \in {"waits", "commit"}, did \in {"nothing", "insert", "delete"} :
          /\ RunStatement(q, pc, did)
          /\ pc = "commit" /\ did = "nothing" /\ Kind(q) = "revoke" => Role(q) \notin roles[Target(q)]
    BY <1>11 DEF InsertRole, DeleteRole, Kind, Role, Target
  <2>3. /\ request'[q].pc = pc /\ request'[q].did = did /\ request'[q].actor = request[q].actor
        /\ request'[q].user = request[q].user /\ request'[q].todo = request[q].todo
        /\ \A p \in Requests \ {q} :
             /\ request'[p].pc = request[p].pc /\ request'[p].did = request[p].did
             /\ request'[p].actor = request[p].actor
             /\ request'[p].user = request[p].user /\ request'[p].todo = request[p].todo
    BY <2>1, <2>2, RunsEffect
  <2>4. InTx(q)'
    BY <2>1, <2>2, <2>3 DEF GrantedIfHeld, Kind, Role, Target
  <2>5. q \in renounced => Past(q)'
    BY <1>1, <2>1, <2>3 DEF GrantedIfHeld
  <2>6. renounced \subseteq Requests
    BY <1>1
  <2> HIDE DEF InTx, Past
  <2>7. \A p \in Requests \ {q} : InTx(p)' /\ (p \in renounced => Past(p)')
    BY <1>3, <2>3
  <2> QED
    BY <1>2, <2>1, <2>4, <2>5, <2>6, <2>7
<1>12. ASSUME NEW q \in Requests, CommitRole(q) PROVE RenouncedOK'
  <2> DEFINE u == request[q].user
             c == Head(request[q].todo)
  <2>1. /\ u \in Users /\ c \in Changes /\ request[q].actor \in Users
        /\ roles' = [roles EXCEPT ![u] = CASE request[q].did = "insert" -> @ \union {c.role}
                                         [] request[q].did = "delete" -> @ \ {c.role}
                                         [] OTHER -> @]
        /\ renounced' = IF u = request[q].actor /\ c = Change("revoke", Admin)
                        THEN renounced \union {q} ELSE renounced
        /\ request[q].pc = "commit" /\ request[q].did \in {"nothing", "insert", "delete"}
    BY <1>12, HeadOfTodo DEF CommitRole, RequestsOK, RequestStates
  <2>2. /\ request'[q] = AfterChange(q) /\ AfterChange(q).pc \in {"idle", "authorize"}
        /\ AfterChange(q).pc # "idle" => AfterChange(q).actor = request[q].actor
    BY <1>12, <2>1, CommitEffect, AfterChangeTypes
  <2>3. \A p \in Requests \ {q} :
          /\ request'[p].did = request[p].did /\ request'[p].actor = request[p].actor
          /\ request'[p].user = request[p].user /\ request'[p].todo = request[p].todo
          /\ \/ request'[p].pc = request[p].pc
             \/ /\ request'[p].pc = "commit" /\ request[p].pc = "waits"
                /\ request[q].did = "delete" /\ IsOpen(p, u, c.role)
    BY <1>12, CommitEffect DEF Target, Role
  <2>4. StatementOK(q) /\ roles \in [Users -> SUBSET Roles]
    BY DEF StatementsOK, TrailOK
  <2>5. ASSUME q \in renounced' PROVE Past(q)'
    <3>1. GrantedIfHeld(roles', userTrail', request[q].actor, Admin)
      <4>1. CASE q \in renounced
        <5>1. GrantedIfHeld(roles, userTrail, request[q].actor, Admin)
          BY <1>1, <2>1, <4>1
        <5> QED
          BY <1>0, <2>1, <5>1
      <4>2. CASE q \notin renounced
        <5>1. u = request[q].actor /\ c.kind = "revoke" /\ c.role = Admin
          BY <2>1, <2>5, <4>2 DEF Change
        <5>2. CASE request[q].did = "delete"
          <6>1. Admin \notin roles'[u]
            BY <2>1, <2>4, <5>1, <5>2
          <6> QED
            BY <5>1, <6>1 DEF GrantedIfHeld
        <5>3. CASE request[q].did = "nothing"
          <6>1. GrantedIfHeld(roles, userTrail, u, Admin)
            BY <1>1, <2>1, <5>1, <5>3 DEF Kind, Role, Target
          <6> QED
            BY <1>0, <2>1, <5>1, <6>1
        <5>4. request[q].did # "insert"
          BY <2>1, <2>4, <5>1 DEF StatementOK, Kind
        <5> QED
          BY <2>1, <5>2, <5>3, <5>4
      <4> QED
        BY <4>1, <4>2
    <3> QED
      BY <2>2, <3>1 DEF GrantedIfHeld
  <2>6. InTx(q)'
    BY <2>2
  <2>7. ASSUME NEW p \in Requests \ {q} PROVE InTx(p)' /\ (p \in renounced => Past(p)')
    <3>1. CASE request'[p].pc = request[p].pc
      <4> HIDE DEF InTx, Past
      <4> QED
        BY <1>3, <2>3, <3>1
    <3>2. CASE request'[p].pc # request[p].pc
      <4>1. /\ request'[p].pc = "commit" /\ request[p].pc = "waits" /\ request[q].did = "delete"
            /\ request[p].user = u /\ Head(request[p].todo).role = c.role
        BY <2>3, <3>2 DEF IsOpen
      <4>2. c.role \notin roles'[u]
        BY <2>1, <2>4, <4>1
      <4>3. InTx(p)'
        BY <2>3, <4>1, <4>2 DEF GrantedIfHeld, Role, Target
      <4>4. ASSUME p \in renounced PROVE Past(p)'
        <5>1. /\ GrantedIfHeld(roles, userTrail, request[p].actor, Admin)
              /\ Recorded(userTrail, request[p].actor, "grant", Admin)
          BY <1>1, <4>1, <4>4
        <5>2. Recorded(userTrail', request[p].actor, "grant", Admin)
          BY <1>0, <5>1
        <5> QED
          BY <2>3, <5>2 DEF GrantedIfHeld
      <4> QED
        BY <4>3, <4>4
    <3> QED
      BY <3>1, <3>2
  <2>8. renounced \subseteq Requests /\ renounced' \subseteq renounced \union {q}
    BY <1>1, <2>1
  <2> HIDE DEF InTx, Past
  <2> QED
    BY <1>2, <2>5, <2>6, <2>7, <2>8
<1>13. ASSUME NEW q \in Requests, WriteDeactivation(q) \/ Drop(q) PROVE RenouncedOK'
  BY <1>5, <1>13 DEF WriteDeactivation, Drop
<1>14. CASE UNCHANGED userVars
  BY <1>14 DEF userVars, RenouncedOK, Recorded, GrantedIfHeld, Kind, Role, Target
<1> QED
  BY <1>6, <1>9, <1>10, <1>11, <1>12, <1>13, <1>14 DEF UsersNext

\* The update is guarded by the column it sets.
LEMMA DeactivationsStep ==
    UsersInv /\ DeactivationsOK /\ [UsersNext]_userVars => DeactivationsOK'
<1> SUFFICES ASSUME UsersInv, DeactivationsOK, [UsersNext]_userVars PROVE DeactivationsOK'
  OBVIOUS
<1> USE DEF UsersInv
<1> DEFINE n == Len(userTrail) + 1
<1>1. ASSUME NEW u \in Users, NEW c \in Changes, userTrail' = Audited(u, c),
             deactivated \subseteq deactivated',
             c.kind = "deactivate" => u \notin deactivated /\ u \in deactivated'
      PROVE  DeactivationsOK'
  <2>1. /\ n \in Nat \ {0} /\ DOMAIN userTrail = 1..(n - 1) /\ DOMAIN userTrail' = 1..n
        /\ userTrail'[n] = [user |-> u, kind |-> c.kind, role |-> c.role]
        /\ \A i \in DOMAIN userTrail : userTrail'[i] = userTrail[i]
    BY <1>1, AppendedRow
  <2> HIDE DEF n
  <2>2. userTrail'[n].user = u /\ userTrail'[n].kind = c.kind
    BY <2>1
  <2>3. \A i \in DOMAIN userTrail' : i = n \/ i \in DOMAIN userTrail
    BY <2>1
  <2> QED
    BY <1>1, <2>1, <2>2, <2>3 DEF DeactivationsOK, DeactivatedOnce
<1>2. ASSUME NEW q \in Requests, CommitRole(q) PROVE DeactivationsOK'
  <2>1. Head(request[q].todo) \in Changes /\ request[q].user \in Users
    BY <1>2, HeadOfTodo DEF CommitRole
  <2>2. Head(request[q].todo).kind # "deactivate"
    BY <1>2 DEF CommitRole, StatementsOK, StatementOK, Kind
  <2> QED
    BY <1>1, <1>2, <2>1, <2>2 DEF CommitRole
<1>3. ASSUME NEW q \in Requests, WriteDeactivation(q) PROVE DeactivationsOK'
  <2>1. CASE Active(request[q].user)
    <3>1. request[q].user \in Users /\ Deactivation \in Changes
      BY <1>3, HeadOfTodo DEF WriteDeactivation, Changes
    <3> QED
      BY <1>1, <1>3, <2>1, <3>1 DEF WriteDeactivation, Active
  <2>2. CASE ~Active(request[q].user)
    BY <1>3, <2>2 DEF WriteDeactivation, DeactivationsOK, DeactivatedOnce
  <2> QED
    BY <2>1, <2>2
<1>4. CASE UNCHANGED <<deactivated, userTrail>>
  BY <1>4 DEF DeactivationsOK, DeactivatedOnce
<1> QED
  BY <1>2, <1>3, <1>4 DEF UsersNext, userVars, Accept, Authorize, ReadUser, InsertRole,
     DeleteRole, Drop

\* RenouncedChangesNothing: each change of a request authorises its actor anew
\* (resolvePrincipal), so that nobody acts on a role given up before.
THEOREM Renounced == UsersSpec => RenouncedChangesNothing
<1> DEFINE Kept == \A q \in renounced \intersect renounced' :
          request[q].pc \in {"write", "commit"} /\ Len(userTrail') > Len(userTrail)
              /\ request'[q] # request[q] =>
              \E i \in DOMAIN userTrail :
                  /\ userTrail[i].user = request[q].actor
                  /\ userTrail[i].kind = "grant" /\ userTrail[i].role = Admin
<1>1. UsersInit => UsersInv /\ RenouncedOK
  BY UsersInitOK, NoRequestOK DEF RenouncedOK, UsersInit
<1>2. UsersInv /\ RenouncedOK /\ [UsersNext]_userVars => (UsersInv /\ RenouncedOK)'
  BY RequestsStep, StatementsStep, TrailStep, RenouncedStep DEF UsersInv
<1>3. UsersInv /\ RenouncedOK => Kept
  BY DEF RenouncedOK, Recorded
<1> QED
  BY <1>1, <1>2, <1>3, PTL DEF UsersSpec, RenouncedChangesNothing

\* DeactivatedOnce, however many requests race for it (DeactivateUser).
THEOREM OneDeactivation == UsersSpec => []DeactivatedOnce
<1>1. UsersInit => UsersInv /\ DeactivationsOK
  BY UsersInitOK DEF DeactivationsOK, DeactivatedOnce, UsersInit
<1>2. UsersInv /\ DeactivationsOK /\ [UsersNext]_userVars => (UsersInv /\ DeactivationsOK)'
  BY RequestsStep, StatementsStep, TrailStep, DeactivationsStep DEF UsersInv
<1>3. DeactivationsOK => DeactivatedOnce
  BY DEF DeactivationsOK
<1> QED
  BY <1>1, <1>2, <1>3, PTL DEF UsersSpec

-------------------------------------------------------------------------------
(* RetentionRuns *)

\* The executions a worker can be at.
Executions == [pc : {"idle", "start", "scan", "next", "tx"}, of : Runs,
               left : SUBSET Subjects, batch : SUBSET Subjects, touched : SUBSET Subjects,
               heldThroughout : SUBSET Subjects,
               pseudonymised : Nat, deleted : Nat, failed : Nat]

\* Only an open transaction has a batch in hand.
Orderly(e) ==
    /\ e.pc # "tx" => e.batch = {} /\ e.touched = {}
    /\ e.pc \in {"start", "scan"} => e.deleted = 0

ExecOK ==
    /\ exec \in [RetentionWorkers -> Executions]
    /\ \A w \in RetentionWorkers : Orderly(exec[w])

\* The rows of retention_runs.
RunRows == [status : {"none", "dry_run", "approved", "rejected", "executing", "completed", "failed"},
            stage : Stages, pseudonymised : Nat, deleted : Nat, failed : Nat]

RunsOK ==
    /\ run \in [Runs -> RunRows]
    /\ subject \in [Subjects -> {"due", "open", "recent", "gone"}]
    /\ held \subseteq Subjects /\ redacted \subseteq Subjects
    /\ owed \in [Runs -> SUBSET Subjects] /\ took \in [Runs -> SUBSET Subjects]

\* What was held throughout a batch is held, and not touched.
HoldOK ==
    \A w \in RetentionWorkers :
        /\ exec[w].heldThroughout \subseteq held
        /\ exec[w].touched \intersect exec[w].heldThroughout = {}

\* Who executes a run has set it executing, and nobody else has.
OneExecution ==
    /\ \A w \in RetentionWorkers : Executing(w) => run[exec[w].of].status = "executing"
    /\ ExecutedOnce

\* What run r has dealt with.
Settled(r) == {s \in redacted : run[r].stage = "delete" => subject[s] = "gone"}

\* A run that has not started has done nothing; one that is completed, all.
RunProgress(r) ==
    /\ owed[r] \intersect held = {}
    /\ run[r].status \in {"none", "dry_run", "approved", "rejected"} => owed[r] = {} /\ took[r] = {}
    /\ run[r].status = "completed" =>
         owed[r] \subseteq Settled(r) /\ Cardinality(took[r]) <= run[r].deleted

\* What the execution in w has scanned is still in its hands or settled, unless
\* a batch has failed; what the run has deleted is in the execution's count.
ExecProgress(w) ==
    /\ exec[w].pc = "scan" => owed[exec[w].of] = {} /\ took[exec[w].of] = {}
    /\ exec[w].pc \in {"next", "tx"} =>
         /\ exec[w].failed = 0 =>
              owed[exec[w].of] \subseteq
                exec[w].left \union exec[w].batch \union exec[w].touched \union Settled(exec[w].of)
         /\ Cardinality(took[exec[w].of]) <= exec[w].deleted

ProgressOK == /\ \A r \in Runs : RunProgress(r)
              /\ \A w \in RetentionWorkers : ExecProgress(w)

RetentionInv == ExecOK /\ RunsOK /\ HoldOK /\ OneExecution /\ ProgressOK

USE SubjectsAssumption, RetentionBounds, RunsAssumption

\* Sets of signals are finite.
LEMMA SubjectSets ==
    ASSUME NEW X, X \subseteq Subjects
    PROVE  IsFiniteSet(X) /\ Cardinality(X) \in Nat
  BY FS_Subset, FS_CardinalityType

\* No run exists and no worker is busy.
LEMMA RetentionInitOK == RetentionInit => RetentionInv
<1> SUFFICES ASSUME RetentionInit PROVE RetentionInv
  OBVIOUS
<1>1. /\ Idle.of \in Runs /\ Idle.pc = "idle"
      /\ Idle \in [pc : {"idle"}, of : Runs, left : {{}}, batch : {{}}, touched : {{}},
                   heldThroughout : {{}}, pseudonymised : Nat, deleted : Nat, failed : Nat]
  BY DEF Idle
<1>2. ExecOK /\ HoldOK
  <2>1. Idle \in Executions /\ Orderly(Idle) /\ Idle.touched = {} /\ Idle.heldThroughout = {}
    BY <1>1 DEF Executions, Orderly
  <2> QED
    BY <2>1 DEF RetentionInit, ExecOK, HoldOK
<1>3. NoRun \in [status : {"none"}, stage : Stages, pseudonymised : Nat, deleted : Nat, failed : Nat]
  BY DEF NoRun, Stages
<1>4. RunsOK
  <2>1. NoRun \in RunRows
    BY <1>3 DEF RunRows
  <2> QED
    BY <2>1 DEF RetentionInit, RunsOK
<1>5. \A w \in RetentionWorkers : exec[w].pc = "idle"
  BY <1>1 DEF RetentionInit
<1>6. \A r \in Runs : run[r].status = "none" /\ owed[r] = {} /\ took[r] = {}
  BY <1>3 DEF RetentionInit
<1>7. OneExecution
  BY <1>5 DEF OneExecution, ExecutedOnce, Executing
<1>8. ProgressOK
  BY <1>5, <1>6 DEF ProgressOK, RunProgress, ExecProgress, RetentionInit
<1> QED
  BY <1>2, <1>4, <1>7, <1>8 DEF RetentionInv

\* The fields of an execution.
LEMMA OneExec ==
    ASSUME ExecOK, NEW w \in RetentionWorkers
    PROVE  /\ exec[w] \in Executions /\ exec[w].of \in Runs /\ exec[w].left \subseteq Subjects
           /\ exec[w].batch \subseteq Subjects /\ exec[w].touched \subseteq Subjects
           /\ exec[w].heldThroughout \subseteq Subjects
           /\ exec[w].pseudonymised \in Nat /\ exec[w].deleted \in Nat /\ exec[w].failed \in Nat
           /\ Orderly(exec[w])
<1>1. exec[w] \in Executions /\ Orderly(exec[w])
  BY DEF ExecOK
<1> QED
  BY <1>1 DEF Executions

\* A worker takes up an execution.
LEMMA PutExec ==
    ASSUME ExecOK, NEW w \in RetentionWorkers, NEW e \in Executions, Orderly(e),
           exec' = [exec EXCEPT ![w] = e]
    PROVE  ExecOK'
  BY DEF ExecOK

\* Every step leaves the executions well formed.
LEMMA ExecStep == ExecOK /\ RunsOK /\ [RetentionNext]_retentionVars => ExecOK'
<1> SUFFICES ASSUME ExecOK, RunsOK, [RetentionNext]_retentionVars PROVE ExecOK'
  OBVIOUS
<1>0. Idle \in [pc : {"idle"}, of : Runs, left : {{}}, batch : {{}}, touched : {{}},
                heldThroughout : {{}}, pseudonymised : {0}, deleted : {0}, failed : {0}]
  BY DEF Idle
<1>1. ASSUME NEW s \in Subjects, ReleaseLegalHold(s) PROVE ExecOK'
  <2>1. ASSUME NEW w \in RetentionWorkers
        PROVE  exec'[w] \in Executions /\ Orderly(exec'[w])
    <3>1. PICK h \in SUBSET Subjects : exec'[w] = [exec[w] EXCEPT !.heldThroughout = h]
      BY <1>1, OneExec DEF ReleaseLegalHold
    <3> QED
      BY <3>1, OneExec DEF Executions, Orderly
  <2> QED
    BY <1>1, <2>1 DEF ReleaseLegalHold, ExecOK
<1>2. ASSUME NEW w \in RetentionWorkers, NEW r \in Runs, Deliver(w, r) PROVE ExecOK'
  <2>1. CASE UNCHANGED exec
    BY <2>1 DEF ExecOK
  <2>2. CASE exec' = [exec EXCEPT ![w] = [Idle EXCEPT !.pc = "start", !.of = r]]
    <3> DEFINE e == [Idle EXCEPT !.pc = "start", !.of = r]
    <3>0. Idle \in Executions /\ Idle.batch = {} /\ Idle.touched = {} /\ Idle.deleted = 0
      BY <1>0 DEF Executions
    <3>1. e \in Executions /\ Orderly(e)
      BY <3>0 DEF Executions, Orderly
    <3> HIDE DEF e
    <3> QED
      BY <2>2, <3>1, PutExec DEF e
  <2> QED
    BY <1>2, <2>1, <2>2 DEF Deliver
<1>3. ASSUME NEW w \in RetentionWorkers, exec' = [exec EXCEPT ![w] = Idle] PROVE ExecOK'
  <2>1. Idle \in Executions /\ Orderly(Idle)
    BY <1>0 DEF Executions, Orderly
  <2> QED
    BY <1>3, <2>1, PutExec
<1>4. ASSUME NEW w \in RetentionWorkers, StartRun(w) PROVE ExecOK'
  <2>1. CASE exec' = [exec EXCEPT ![w].pc = "scan"]
    <3> DEFINE e == [exec[w] EXCEPT !.pc = "scan"]
    <3>1. e \in Executions /\ Orderly(e) /\ exec' = [exec EXCEPT ![w] = e]
      BY <1>4, <2>1, OneExec DEF StartRun, Executions, Orderly
    <3> HIDE DEF e
    <3> QED
      BY <3>1, PutExec
  <2> QED
    BY <1>3, <1>4, <2>1 DEF StartRun
<1>5. ASSUME NEW w \in RetentionWorkers, ScanRetentionCandidates(w) PROVE ExecOK'
  <2>1. PICK due \in SUBSET Subjects :
             exec' = [exec EXCEPT ![w].pc = "next", ![w].left = due]
    BY <1>5 DEF ScanRetentionCandidates
  <2> DEFINE e == [exec[w] EXCEPT !.pc = "next", !.left = due]
  <2>2. e \in Executions /\ Orderly(e)
    BY <1>5, OneExec DEF Executions, Orderly, ScanRetentionCandidates
  <2>3. exec' = [exec EXCEPT ![w] = e]
    BY <2>1
  <2> HIDE DEF e
  <2> QED
    BY <2>2, <2>3, PutExec
<1>6. ASSUME NEW w \in RetentionWorkers, BeginBatch(w) PROVE ExecOK'
  <2>1. PICK b \in SUBSET exec[w].left :
             exec' = [exec EXCEPT ![w].pc = "tx", ![w].left = exec[w].left \ b, ![w].batch = b,
                                  ![w].heldThroughout = held]
    BY <1>6 DEF BeginBatch
  <2> DEFINE e == [exec[w] EXCEPT !.pc = "tx", !.left = exec[w].left \ b, !.batch = b,
                                  !.heldThroughout = held]
  <2>2. e \in Executions /\ Orderly(e)
    BY OneExec DEF Executions, Orderly, RunsOK
  <2>3. exec' = [exec EXCEPT ![w] = e]
    BY <2>1
  <2> HIDE DEF e
  <2> QED
    BY <2>2, <2>3, PutExec
<1>7. ASSUME NEW w \in RetentionWorkers, Candidate(w) PROVE ExecOK'
  <2> DEFINE s == Min(exec[w].batch)
             e == [exec[w] EXCEPT !.batch = @ \ {s},
                                  !.touched = IF Spared(s) THEN @ ELSE @ \union {s}]
  <2>1. s \in Subjects
    BY <1>7, OneExec, MinOfNats DEF Candidate
  <2>2. exec' = [exec EXCEPT ![w] = e] /\ exec[w].pc = "tx"
    BY <1>7 DEF Candidate
  <2> HIDE DEF s
  <2>3. e \in Executions /\ Orderly(e)
    BY <2>1, <2>2, OneExec DEF Executions, Orderly
  <2> HIDE DEF e
  <2> QED
    BY <2>2, <2>3, PutExec
<1>8. ASSUME NEW w \in RetentionWorkers, CommitBatch(w) PROVE ExecOK'
  <2>1. PICK p \in Nat, d \in Nat :
             exec' = [exec EXCEPT ![w].pc = "next", ![w].touched = {}, ![w].heldThroughout = {},
                                  ![w].pseudonymised = p, ![w].deleted = d]
    <3> DEFINE n == Cardinality(exec[w].touched)
               m == IF run[exec[w].of].stage = "delete" THEN n ELSE 0
    <3>1. n \in Nat
      BY OneExec, SubjectSets
    <3>2. exec' = [exec EXCEPT ![w].pc = "next", ![w].touched = {}, ![w].heldThroughout = {},
                               ![w].pseudonymised = exec[w].pseudonymised + n,
                               ![w].deleted = exec[w].deleted + m]
      BY <1>8 DEF CommitBatch, Tally
    <3>3. exec[w].pseudonymised + n \in Nat /\ exec[w].deleted + m \in Nat
      BY <3>1, OneExec
    <3> HIDE DEF n, m
    <3> QED
      BY <3>2, <3>3
  <2> DEFINE e == [exec[w] EXCEPT !.pc = "next", !.touched = {}, !.heldThroughout = {},
                                  !.pseudonymised = p, !.deleted = d]
  <2>2. e \in Executions /\ Orderly(e)
    BY <1>8, OneExec DEF Executions, Orderly, CommitBatch
  <2>3. exec' = [exec EXCEPT ![w] = e]
    BY <2>1
  <2> HIDE DEF e
  <2> QED
    BY <2>2, <2>3, PutExec
<1>9. ASSUME NEW w \in RetentionWorkers, FailBatch(w) PROVE ExecOK'
  <2> DEFINE f == exec[w].failed + 1
             e == [exec[w] EXCEPT !.pc = "next", !.touched = {}, !.batch = {},
                                  !.heldThroughout = {}, !.failed = f]
  <2>1. exec' = [exec EXCEPT ![w] = e]
    BY <1>9 DEF FailBatch, FailedBatch
  <2>0. f \in Nat
    BY OneExec
  <2> HIDE DEF f
  <2>2. e \in Executions /\ Orderly(e)
    BY <2>0, OneExec DEF Executions, Orderly
  <2> HIDE DEF e
  <2> QED
    BY <2>1, <2>2, PutExec
<1>10. ASSUME NEW w \in RetentionWorkers, CloseRun(w) \/ Abandon(w) PROVE ExecOK'
  BY <1>3, <1>10 DEF CloseRun, Abandon
<1>11. CASE UNCHANGED exec
  BY <1>11 DEF ExecOK
<1> QED
  BY <1>1, <1>2, <1>4, <1>5, <1>6, <1>7, <1>8, <1>9, <1>10, <1>11
     DEF RetentionNext, ExecuteRetention, retentionVars, DryRun, ApproveRun, RejectRun,
         CreateLegalHold, Reopen, CloseAgain

\* A row may take any status.
LEMMA OneRow ==
    ASSUME RunsOK, NEW r \in Runs
    PROVE  /\ run[r] \in RunRows
           /\ \A status \in {"dry_run", "approved", "rejected", "executing"} :
                [run[r] EXCEPT !.status = status] \in RunRows
<1>1. run[r] \in RunRows
  BY DEF RunsOK
<1> QED
  BY <1>1 DEF RunRows

\* What closing a run writes is a row.
LEMMA ClosedRow ==
    ASSUME NEW row \in RunRows, NEW n \in Nat, NEW p \in Nat, NEW d \in Nat
    PROVE  /\ [row EXCEPT !.status = "failed", !.failed = n] \in RunRows
           /\ [row EXCEPT !.status = "completed", !.pseudonymised = p, !.deleted = d] \in RunRows
<1>1. [row EXCEPT !.status = "failed", !.failed = n] \in RunRows
  BY DEF RunRows
<1>2. [row EXCEPT !.status = "completed", !.pseudonymised = p, !.deleted = d] \in RunRows
  BY DEF RunRows
<1> QED
  BY <1>1, <1>2

\* A row is updated.
LEMMA PutRow ==
    ASSUME RunsOK, NEW r \in Runs, NEW row \in RunRows, run' = [run EXCEPT ![r] = row],
           UNCHANGED <<subject, redacted, held, owed, took>>
    PROVE  RunsOK'
  BY DEF RunsOK

\* Every step leaves the rows well formed.
LEMMA RunsStep == ExecOK /\ RunsOK /\ [RetentionNext]_retentionVars => RunsOK'
<1> SUFFICES ASSUME ExecOK, RunsOK, [RetentionNext]_retentionVars PROVE RunsOK'
  OBVIOUS
<1>1. ASSUME NEW r \in Runs, NEW stage \in Stages, DryRun(r, stage) PROVE RunsOK'
  <2> DEFINE row == [run[r] EXCEPT !.status = "dry_run", !.stage = stage]
  <2>1. row \in RunRows
    BY OneRow DEF RunRows
  <2>2. /\ run' = [run EXCEPT ![r] = row]
        /\ UNCHANGED <<subject, redacted, held, owed, took>>
    BY <1>1 DEF DryRun
  <2> HIDE DEF row
  <2> QED
    BY <2>1, <2>2, PutRow
<1>2. ASSUME NEW r \in Runs, ApproveRun(r) \/ RejectRun(r) PROVE RunsOK'
  <2>1. PICK status \in {"approved", "rejected"} :
             /\ run' = [run EXCEPT ![r] = [run[r] EXCEPT !.status = status]]
             /\ UNCHANGED <<subject, redacted, held, owed, took>>
    BY <1>2 DEF ApproveRun, RejectRun
  <2> QED
    BY <2>1, OneRow, PutRow
<1>3. ASSUME NEW s \in Subjects, CreateLegalHold(s) \/ ReleaseLegalHold(s) PROVE RunsOK'
  BY <1>3 DEF CreateLegalHold, ReleaseLegalHold, RunsOK, runRows
<1>4. ASSUME NEW s \in Subjects, Reopen(s) \/ CloseAgain(s) PROVE RunsOK'
  BY <1>4 DEF Reopen, CloseAgain, RunsOK, runRows
<1>5. ASSUME NEW w \in RetentionWorkers, StartRun(w) PROVE RunsOK'
  <2>1. CASE Startable(exec[w].of)
    <3>1. /\ run' = [run EXCEPT ![exec[w].of] = [run[exec[w].of] EXCEPT !.status = "executing"]]
          /\ UNCHANGED <<subject, redacted, held, owed, took>> /\ exec[w].of \in Runs
      BY <1>5, <2>1, OneExec DEF StartRun
    <3> QED
      BY <3>1, OneRow, PutRow
  <2>2. CASE ~Startable(exec[w].of)
    BY <1>5, <2>2 DEF StartRun, RunsOK
  <2> QED
    BY <2>1, <2>2
<1>6. ASSUME NEW w \in RetentionWorkers, ScanRetentionCandidates(w) PROVE RunsOK'
  BY <1>6, OneExec DEF ScanRetentionCandidates, RunsOK, runRows
<1>7. ASSUME NEW w \in RetentionWorkers, CommitBatch(w) PROVE RunsOK'
  <2>1. exec[w].touched \subseteq Subjects /\ exec[w].of \in Runs
    BY OneExec
  <2>2. redacted' = redacted \union exec[w].touched /\ UNCHANGED <<run, held, owed>>
    BY <1>7 DEF CommitBatch, runRows
  <2>3. subject' \in [Subjects -> {"due", "open", "recent", "gone"}]
    BY <1>7, <2>1 DEF CommitBatch, RunsOK
  <2>4. took' \in [Runs -> SUBSET Subjects]
    BY <1>7, <2>1 DEF CommitBatch, RunsOK
  <2> QED
    BY <2>1, <2>2, <2>3, <2>4 DEF RunsOK
<1>8. ASSUME NEW w \in RetentionWorkers, CloseRun(w) PROVE RunsOK'
  <2> DEFINE r == exec[w].of
             failed == [run[r] EXCEPT !.status = "failed", !.failed = exec[w].failed]
             completed == [run[r] EXCEPT !.status = "completed",
                             !.pseudonymised = exec[w].pseudonymised, !.deleted = exec[w].deleted]
  <2>1. /\ r \in Runs /\ exec[w].failed \in Nat /\ exec[w].pseudonymised \in Nat
        /\ exec[w].deleted \in Nat
    BY OneExec
  <2>2. run' = [run EXCEPT ![r] = failed] \/ run' = [run EXCEPT ![r] = completed]
    BY <1>8 DEF CloseRun
  <2>3. UNCHANGED <<subject, redacted, held, owed, took>>
    BY <1>8 DEF CloseRun
  <2>4. failed \in RunRows /\ completed \in RunRows
    BY <2>1, OneRow, ClosedRow
  <2> HIDE DEF failed, completed, r
  <2> QED
    BY <2>1, <2>2, <2>3, <2>4, PutRow
<1>9. CASE UNCHANGED <<subject, redacted, held, run, owed, took>>
  BY <1>9 DEF RunsOK
<1> QED
  BY <1>1, <1>2, <1>3, <1>4, <1>5, <1>6, <1>7, <1>8, <1>9
     DEF RetentionNext, ExecuteRetention, retentionVars, runRows, Deliver, BeginBatch, Candidate,
         FailBatch, Abandon

\* A candidate is looked up among the holds before it is touched.
LEMMA HoldStep == ExecOK /\ RunsOK /\ HoldOK /\ [RetentionNext]_retentionVars => HoldOK'
<1> SUFFICES ASSUME ExecOK, RunsOK, HoldOK, [RetentionNext]_retentionVars PROVE HoldOK'
  OBVIOUS
<1>0. Idle.heldThroughout = {} /\ Idle.touched = {}
  BY DEF Idle
<1>1. ASSUME NEW s \in Subjects, CreateLegalHold(s) PROVE HoldOK'
  BY <1>1 DEF CreateLegalHold, HoldOK
<1>2. ASSUME NEW s \in Subjects, ReleaseLegalHold(s) PROVE HoldOK'
  <2>1. ASSUME NEW w \in RetentionWorkers
        PROVE  /\ exec'[w].heldThroughout = exec[w].heldThroughout \ {s}
               /\ exec'[w].touched = exec[w].touched
    BY <1>2, OneExec DEF ReleaseLegalHold, Executions
  <2> QED
    BY <1>2, <2>1 DEF ReleaseLegalHold, HoldOK
<1>3. ASSUME NEW w \in RetentionWorkers, NEW e, exec' = [exec EXCEPT ![w] = e], held' = held,
             e.touched = {} \/ (e.touched = exec[w].touched /\ e.heldThroughout \subseteq exec[w].heldThroughout),
             e.heldThroughout \subseteq held
      PROVE  HoldOK'
  BY <1>3 DEF ExecOK, HoldOK
<1>4. ASSUME NEW w \in RetentionWorkers, NEW r \in Runs, Deliver(w, r) PROVE HoldOK'
  <2>1. CASE UNCHANGED exec
    BY <1>4, <2>1 DEF Deliver, HoldOK
  <2>2. CASE exec' = [exec EXCEPT ![w] = [Idle EXCEPT !.pc = "start", !.of = r]]
    <3>1. [Idle EXCEPT !.pc = "start", !.of = r].touched = {}
          /\ [Idle EXCEPT !.pc = "start", !.of = r].heldThroughout = {}
      BY DEF Idle
    <3> QED
      BY <1>3, <1>4, <2>2, <3>1 DEF Deliver
  <2> QED
    BY <1>4, <2>1, <2>2 DEF Deliver
<1>5. ASSUME NEW w \in RetentionWorkers, exec' = [exec EXCEPT ![w] = Idle], held' = held
      PROVE  HoldOK'
  BY <1>0, <1>3, <1>5
<1>6. ASSUME NEW w \in RetentionWorkers, StartRun(w) \/ ScanRetentionCandidates(w) PROVE HoldOK'
  <2>1. CASE exec' = [exec EXCEPT ![w] = Idle]
    BY <1>5, <1>6, <2>1 DEF StartRun, ScanRetentionCandidates
  <2>2. CASE exec' # [exec EXCEPT ![w] = Idle]
    <3>1. /\ \A v \in RetentionWorkers : /\ exec'[v].touched = exec[v].touched
                                        /\ exec'[v].heldThroughout = exec[v].heldThroughout
          /\ held' = held
      BY <1>6, <2>2, OneExec DEF StartRun, ScanRetentionCandidates, ExecOK, Executions
    <3> QED
      BY <3>1 DEF HoldOK
  <2> QED
    BY <2>1, <2>2
<1>7. ASSUME NEW w \in RetentionWorkers, BeginBatch(w) PROVE HoldOK'
  <2>1. PICK left, b : exec' = [exec EXCEPT ![w].pc = "tx", ![w].left = left,
                                            ![w].batch = b, ![w].heldThroughout = held]
    BY <1>7 DEF BeginBatch
  <2> DEFINE e == [exec[w] EXCEPT !.pc = "tx", !.left = left, !.batch = b, !.heldThroughout = held]
  <2>2. e.touched = {} /\ e.heldThroughout = held
    BY <1>7, OneExec DEF BeginBatch, Executions, Orderly
  <2>3. exec' = [exec EXCEPT ![w] = e] /\ held' = held
    BY <1>7, <2>1 DEF BeginBatch
  <2> HIDE DEF e
  <2> QED
    BY <1>3, <2>2, <2>3
<1>8. ASSUME NEW w \in RetentionWorkers, Candidate(w) PROVE HoldOK'
  <2> DEFINE s == Min(exec[w].batch)
  <2>1. /\ exec' = [exec EXCEPT ![w].batch = @ \ {s},
                                ![w].touched = IF s \in held THEN @ ELSE @ \union {s}]
        /\ held' = held
    BY <1>8 DEF Candidate, Spared
  <2> HIDE DEF s
  <2>2. /\ exec'[w].touched = IF s \in held THEN exec[w].touched ELSE exec[w].touched \union {s}
        /\ exec'[w].heldThroughout = exec[w].heldThroughout
        /\ \A v \in RetentionWorkers \ {w} : exec'[v] = exec[v]
    BY <2>1, OneExec DEF ExecOK, Executions
  <2>3. /\ exec[w].heldThroughout \subseteq held
        /\ exec[w].touched \intersect exec[w].heldThroughout = {}
    BY DEF HoldOK
  <2>4. /\ exec'[w].heldThroughout \subseteq held'
        /\ exec'[w].touched \intersect exec'[w].heldThroughout = {}
    <3>1. CASE s \in held
      BY <2>1, <2>2, <2>3, <3>1
    <3>2. CASE s \notin held
      <4>1. s \notin exec[w].heldThroughout
        BY <2>3, <3>2
      <4>2. exec'[w].touched = exec[w].touched \union {s}
        BY <2>2, <3>2
      <4> QED
        BY <2>1, <2>2, <2>3, <4>1, <4>2
    <3> QED
      BY <3>1, <3>2
  <2>5. ASSUME NEW v \in RetentionWorkers
        PROVE  /\ exec'[v].heldThroughout \subseteq held'
               /\ exec'[v].touched \intersect exec'[v].heldThroughout = {}
    BY <2>1, <2>2, <2>4 DEF HoldOK
  <2> QED
    BY <2>5 DEF HoldOK
<1>9. ASSUME NEW w \in RetentionWorkers, CommitBatch(w) \/ FailBatch(w) PROVE HoldOK'
  <2>1. /\ exec'[w].touched = {} /\ exec'[w].heldThroughout = {} /\ held' = held
        /\ \A v \in RetentionWorkers \ {w} : exec'[v] = exec[v]
    BY <1>9, OneExec DEF ExecOK, Executions, CommitBatch, FailBatch
  <2> QED
    BY <2>1 DEF HoldOK
<1>10. CASE UNCHANGED <<exec, held>>
  BY <1>10 DEF HoldOK
<1> QED
  BY <1>1, <1>2, <1>4, <1>5, <1>6, <1>7, <1>8, <1>9, <1>10
     DEF RetentionNext, ExecuteRetention, retentionVars, runRows, DryRun, ApproveRun, RejectRun,
         Reopen, CloseAgain, CloseRun, Abandon

\* Only an approved run is started, and a run is approved once.
LEMMA OneExecutionStep ==
    ExecOK /\ RunsOK /\ OneExecution /\ [RetentionNext]_retentionVars => OneExecution'
<1> SUFFICES ASSUME ExecOK, RunsOK, OneExecution, [RetentionNext]_retentionVars PROVE OneExecution'
  OBVIOUS
<1> USE DEF OneExecution, ExecutedOnce, Executing
<1>1. ASSUME \A v \in RetentionWorkers : Executing(v)' => Executing(v) /\ exec'[v].of = exec[v].of,
             \A r \in Runs : run[r].status = "executing" => run'[r].status = "executing"
      PROVE  OneExecution'
  <2>1. \A w \in RetentionWorkers : exec[w].of \in Runs
    BY OneExec
  <2>2. ASSUME NEW w \in RetentionWorkers, Executing(w)'
        PROVE  run'[exec'[w].of].status = "executing"
    <3>1. Executing(w) /\ exec'[w].of = exec[w].of /\ run[exec[w].of].status = "executing"
      BY <1>1, <2>2
    <3> QED
      BY <1>1, <2>1, <3>1
  <2>3. ExecutedOnce'
    BY <1>1
  <2> QED
    BY <2>2, <2>3
<1>2. ASSUME NEW r \in Runs, \/ \E stage \in Stages : DryRun(r, stage)
                           \/ ApproveRun(r) \/ RejectRun(r)
      PROVE  OneExecution'
  <2>1. exec' = exec /\ \A q \in Runs : run[q].status = "executing" => run'[q] = run[q]
    BY <1>2 DEF DryRun, ApproveRun, RejectRun, RunsOK
  <2> QED
    BY <1>1, <2>1
<1>3. ASSUME NEW s \in Subjects, ReleaseLegalHold(s) PROVE OneExecution'
  <2>1. \A v \in RetentionWorkers : exec'[v].pc = exec[v].pc /\ exec'[v].of = exec[v].of
    BY <1>3, OneExec DEF ReleaseLegalHold, Executions
  <2> QED
    BY <1>1, <1>3, <2>1 DEF ReleaseLegalHold, runRows
<1>4. ASSUME NEW w \in RetentionWorkers, exec'[w].pc \in {"idle", "start"},
             \A v \in RetentionWorkers \ {w} : exec'[v] = exec[v], UNCHANGED run
      PROVE  OneExecution'
  BY <1>1, <1>4
<1>5. ASSUME NEW w \in RetentionWorkers, NEW r \in Runs, Deliver(w, r) PROVE OneExecution'
  <2>1. CASE UNCHANGED exec
    BY <1>1, <1>5, <2>1 DEF Deliver
  <2>2. CASE exec' = [exec EXCEPT ![w] = [Idle EXCEPT !.pc = "start", !.of = r]]
    <3>1. [Idle EXCEPT !.pc = "start", !.of = r].pc = "start"
      BY DEF Idle
    <3> QED
      BY <1>4, <1>5, <2>2, <3>1 DEF Deliver, ExecOK
  <2> QED
    BY <1>5, <2>1, <2>2 DEF Deliver
<1>6. ASSUME NEW w \in RetentionWorkers, exec' = [exec EXCEPT ![w] = Idle], UNCHANGED run
      PROVE  OneExecution'
  BY <1>4, <1>6 DEF ExecOK, Idle
<1>7. ASSUME NEW w \in RetentionWorkers, StartRun(w) PROVE OneExecution'
  <2> DEFINE r == exec[w].of
  <2>1. CASE run[r].status = "approved"
    <3>1. /\ r \in Runs /\ run'[r].status = "executing"
          /\ \A q \in Runs \ {r} : run'[q] = run[q]
          /\ exec'[w].of = r
          /\ \A v \in RetentionWorkers \ {w} : exec'[v] = exec[v]
      BY <1>7, <2>1, OneExec DEF StartRun, Startable, RunsOK, RunRows, ExecOK, Executions
    <3>2. \A v \in RetentionWorkers : Executing(v) => exec[v].of # r /\ exec[v].of \in Runs
      BY <2>1, OneExec
    <3> HIDE DEF r
    <3>3. \A v \in RetentionWorkers :
             Executing(v)' => v = w \/ (Executing(v) /\ exec'[v].of = exec[v].of)
      BY <3>1
    <3>4. \A v \in RetentionWorkers : Executing(v)' => run'[exec'[v].of].status = "executing"
      <4> SUFFICES ASSUME NEW v \in RetentionWorkers, Executing(v)'
                   PROVE  run'[exec'[v].of].status = "executing"
        OBVIOUS
      <4>1. CASE v = w
        BY <3>1, <4>1
      <4>2. CASE v # w
        <5>1. /\ exec'[v].of = exec[v].of /\ exec[v].of # r /\ exec[v].of \in Runs
              /\ run[exec[v].of].status = "executing"
          BY <3>2, <3>3, <4>2
        <5> QED
          BY <3>1, <5>1
      <4> QED
        BY <4>1, <4>2
    <3>5. ExecutedOnce'
      BY <3>1, <3>2, <3>3
    <3> QED
      BY <3>4, <3>5
  <2>2. CASE run[r].status # "approved"
    BY <1>6, <1>7, <2>2 DEF StartRun, Startable
  <2> QED
    BY <2>1, <2>2
<1>8. ASSUME NEW w \in RetentionWorkers, ScanRetentionCandidates(w) PROVE OneExecution'
  <2>1. Executing(w) /\ exec'[w].of = exec[w].of /\ UNCHANGED run
    BY <1>8, OneExec DEF ScanRetentionCandidates, ExecOK, Executions, runRows
  <2>2. \A v \in RetentionWorkers \ {w} : exec'[v] = exec[v]
    BY <1>8 DEF ScanRetentionCandidates, ExecOK
  <2> QED
    BY <1>1, <2>1, <2>2
<1>13. ASSUME NEW w \in RetentionWorkers, BeginBatch(w) PROVE OneExecution'
  <2>1. Executing(w) /\ exec'[w].of = exec[w].of /\ UNCHANGED run
    BY <1>13, OneExec DEF BeginBatch, ExecOK, Executions, runRows
  <2>2. \A v \in RetentionWorkers \ {w} : exec'[v] = exec[v]
    BY <1>13 DEF BeginBatch, ExecOK
  <2> QED
    BY <1>1, <2>1, <2>2
<1>14. ASSUME NEW w \in RetentionWorkers, Candidate(w) PROVE OneExecution'
  <2>1. Executing(w) /\ exec'[w].of = exec[w].of /\ UNCHANGED run
    BY <1>14, OneExec DEF Candidate, ExecOK, Executions, runRows
  <2>2. \A v \in RetentionWorkers \ {w} : exec'[v] = exec[v]
    BY <1>14 DEF Candidate, ExecOK
  <2> QED
    BY <1>1, <2>1, <2>2
<1>15. ASSUME NEW w \in RetentionWorkers, FailBatch(w) PROVE OneExecution'
  <2>1. Executing(w) /\ exec'[w].of = exec[w].of /\ UNCHANGED run
    BY <1>15, OneExec DEF FailBatch, ExecOK, Executions, runRows
  <2>2. \A v \in RetentionWorkers \ {w} : exec'[v] = exec[v]
    BY <1>15 DEF FailBatch, ExecOK
  <2> QED
    BY <1>1, <2>1, <2>2
<1>9. ASSUME NEW w \in RetentionWorkers, CommitBatch(w) PROVE OneExecution'
  <2>1. Executing(w) /\ exec'[w].of = exec[w].of /\ UNCHANGED run
    BY <1>9, OneExec DEF CommitBatch, ExecOK, Executions, runRows
  <2>2. \A v \in RetentionWorkers \ {w} : exec'[v] = exec[v]
    BY <1>9 DEF CommitBatch, ExecOK
  <2> QED
    BY <1>1, <2>1, <2>2
<1>10. ASSUME NEW w \in RetentionWorkers, CloseRun(w) PROVE OneExecution'
  <2>1. Executing(w) /\ exec'[w].pc = "idle"
        /\ \A v \in RetentionWorkers \ {w} : exec'[v] = exec[v]
    BY <1>10 DEF CloseRun, ExecOK, Idle
  <2>2. \A q \in Runs : q # exec[w].of => run'[q] = run[q]
    BY <1>10 DEF CloseRun, RunsOK
  <2>3. \A v \in RetentionWorkers : Executing(v)' => /\ v # w /\ Executing(v)
                                                   /\ exec'[v].of = exec[v].of
                                                   /\ exec[v].of # exec[w].of
    BY <2>1
  <2>4. \A v \in RetentionWorkers : Executing(v)' => run'[exec'[v].of].status = "executing"
    <3> SUFFICES ASSUME NEW v \in RetentionWorkers, Executing(v)'
                 PROVE  run'[exec'[v].of].status = "executing"
      OBVIOUS
    <3>1. /\ exec'[v].of = exec[v].of /\ exec[v].of # exec[w].of /\ exec[v].of \in Runs
          /\ run[exec[v].of].status = "executing"
      BY <2>3, OneExec
    <3> QED
      BY <2>2, <3>1
  <2>5. ExecutedOnce'
    BY <2>3
  <2> QED
    BY <2>4, <2>5
<1>11. ASSUME NEW w \in RetentionWorkers, Abandon(w) PROVE OneExecution'
  BY <1>6, <1>11 DEF Abandon, runRows
<1>12. CASE UNCHANGED <<exec, run>>
  BY <1>12
<1> QED
  BY <1>2, <1>3, <1>5, <1>7, <1>8, <1>9, <1>10, <1>11, <1>12, <1>13, <1>14, <1>15
     DEF RetentionNext, ExecuteRetention, retentionVars, runRows, Reopen, CloseAgain, CreateLegalHold

\* What is settled stays settled.
LEMMA SettledGrows ==
    ASSUME NEW r \in Runs, RunsOK, redacted \subseteq redacted', run'[r].stage = run[r].stage,
           \A s \in Subjects : subject[s] = "gone" => subject'[s] = "gone"
    PROVE  Settled(r) \subseteq Settled(r)'
  BY DEF Settled, RunsOK

\* Steps that leave a run and its execution alone.
LEMMA RunProgressKept ==
    ASSUME NEW r \in Runs, RunProgress(r), run'[r] = run[r], took'[r] = took[r],
           owed'[r] \subseteq owed[r], owed'[r] \intersect held' = {},
           Settled(r) \subseteq Settled(r)'
    PROVE  RunProgress(r)'
  BY DEF RunProgress

\* Steps that leave an execution and the run it works on alone.
LEMMA ExecProgressKept ==
    ASSUME NEW w \in RetentionWorkers, NEW r \in Runs, ExecProgress(w),
           exec[w].of = r, exec'[w].of = r, exec'[w].pc = exec[w].pc,
           exec'[w].left = exec[w].left, exec'[w].batch = exec[w].batch,
           exec'[w].touched = exec[w].touched, exec'[w].failed = exec[w].failed,
           exec'[w].deleted = exec[w].deleted,
           exec[w].pc \in {"scan", "next", "tx"} =>
              /\ took'[r] = took[r] /\ owed'[r] \subseteq owed[r] /\ Settled(r) \subseteq Settled(r)'
    PROVE  ExecProgress(w)'
<1>1. \A x \in Runs : x = r => Settled(x)' = Settled(r)'
  OBVIOUS
<1> QED
  BY DEF ExecProgress

\* A batch moves what it takes from left to batch to touched to settled; what it
\* spares is held, and what is held is owed by nobody.
LEMMA ProgressStep ==
    ExecOK /\ RunsOK /\ OneExecution /\ ProgressOK /\ [RetentionNext]_retentionVars => ProgressOK'
<1> SUFFICES ASSUME ExecOK, RunsOK, OneExecution, ProgressOK, [RetentionNext]_retentionVars
             PROVE  ProgressOK'
  OBVIOUS
<1>0. \A w \in RetentionWorkers :
        /\ exec[w].of \in Runs
        /\ exec[w].pc \in {"scan", "next", "tx"} => run[exec[w].of].status = "executing"
  BY OneExec DEF OneExecution, Executing
<1>1. ASSUME run' = run, took' = took, redacted' = redacted,
             \A s \in Subjects : subject[s] = "gone" => subject'[s] = "gone",
             \A r \in Runs : owed'[r] \subseteq owed[r] /\ owed'[r] \intersect held' = {},
             \A w \in RetentionWorkers :
               \/ exec'[w].pc \in {"idle", "start"}
               \/ /\ exec'[w].of = exec[w].of /\ exec'[w].pc = exec[w].pc
                  /\ exec'[w].left = exec[w].left /\ exec'[w].batch = exec[w].batch
                  /\ exec'[w].touched = exec[w].touched /\ exec'[w].failed = exec[w].failed
                  /\ exec'[w].deleted = exec[w].deleted
      PROVE  ProgressOK'
  <2>1. \A r \in Runs : Settled(r) \subseteq Settled(r)'
    BY <1>1, SettledGrows
  <2>2. ASSUME NEW r \in Runs PROVE RunProgress(r)'
    BY <1>1, <2>1, RunProgressKept DEF ProgressOK
  <2>3. ASSUME NEW w \in RetentionWorkers PROVE ExecProgress(w)'
    <3>1. CASE exec'[w].pc \in {"idle", "start"}
      BY <3>1 DEF ExecProgress
    <3>2. CASE exec'[w].pc \notin {"idle", "start"}
      <4>1. PICK r \in Runs : r = exec[w].of
        BY <1>0
      <4> QED
        BY <1>1, <2>1, <3>2, <4>1, ExecProgressKept DEF ProgressOK
    <3> QED
      BY <3>1, <3>2
  <2> QED
    BY <2>2, <2>3 DEF ProgressOK
<1>2. \A r \in Runs : owed[r] \intersect held = {}
  BY DEF ProgressOK, RunProgress
<1>3. ASSUME NEW s \in Subjects, CreateLegalHold(s) PROVE ProgressOK'
  BY <1>1, <1>2, <1>3 DEF CreateLegalHold, runRows, RunsOK
<1>4. ASSUME NEW s \in Subjects, ReleaseLegalHold(s) PROVE ProgressOK'
  <2>1. ASSUME NEW w \in RetentionWorkers
        PROVE  /\ exec'[w].of = exec[w].of /\ exec'[w].pc = exec[w].pc
               /\ exec'[w].left = exec[w].left /\ exec'[w].batch = exec[w].batch
               /\ exec'[w].touched = exec[w].touched /\ exec'[w].failed = exec[w].failed
               /\ exec'[w].deleted = exec[w].deleted
    BY <1>4, OneExec DEF ReleaseLegalHold, Executions
  <2>2. \A r \in Runs : owed'[r] \subseteq owed[r] /\ owed'[r] \intersect held' = {}
    BY <1>2, <1>4 DEF ReleaseLegalHold
  <2> QED
    BY <1>1, <1>4, <2>1, <2>2 DEF ReleaseLegalHold, runRows
<1>5. ASSUME NEW s \in Subjects, Reopen(s) \/ CloseAgain(s) PROVE ProgressOK'
  BY <1>1, <1>2, <1>5 DEF Reopen, CloseAgain, runRows, RunsOK
<1>6. ASSUME NEW w \in RetentionWorkers, exec'[w].pc \in {"idle", "start"},
             \A v \in RetentionWorkers \ {w} : exec'[v] = exec[v],
             UNCHANGED <<run, took, redacted, subject, owed, held>>
      PROVE  ProgressOK'
  BY <1>1, <1>2, <1>6
<1>7. ASSUME NEW w \in RetentionWorkers, NEW r \in Runs, Deliver(w, r) PROVE ProgressOK'
  <2>1. CASE UNCHANGED exec
    BY <1>1, <1>2, <1>7, <2>1 DEF Deliver
  <2>2. CASE exec' = [exec EXCEPT ![w] = [Idle EXCEPT !.pc = "start", !.of = r]]
    <3>1. [Idle EXCEPT !.pc = "start", !.of = r].pc = "start"
      BY DEF Idle
    <3> QED
      BY <1>6, <1>7, <2>2, <3>1 DEF Deliver, ExecOK
  <2> QED
    BY <1>7, <2>1, <2>2 DEF Deliver
<1>8. ASSUME NEW w \in RetentionWorkers, exec' = [exec EXCEPT ![w] = Idle],
             UNCHANGED <<run, took, redacted, subject, owed, held>>
      PROVE  ProgressOK'
  BY <1>6, <1>8 DEF ExecOK, Idle
<1>9. CASE UNCHANGED <<run, took, redacted, subject, owed, held, exec>>
  BY <1>1, <1>2, <1>9
\* A row changes that no execution works for.
<1>10. ASSUME NEW r \in Runs, NEW row, run' = [run EXCEPT ![r] = row],
              row.status \in {"dry_run", "approved", "rejected"},
              run[r].status \in {"none", "dry_run"},
              UNCHANGED <<took, redacted, subject, owed, held, exec>>
       PROVE  ProgressOK'
  <2>1. \A q \in Runs : q # r => run'[q] = run[q] /\ Settled(q) \subseteq Settled(q)'
    BY <1>10, SettledGrows DEF RunsOK
  <2>2. ASSUME NEW q \in Runs PROVE RunProgress(q)'
    <3>1. CASE q = r
      BY <1>2, <1>10, <3>1 DEF ProgressOK, RunProgress, RunsOK
    <3>2. CASE q # r
      BY <1>2, <1>10, <2>1, <3>2, RunProgressKept DEF ProgressOK
    <3> QED
      BY <3>1, <3>2
  <2>3. ASSUME NEW w \in RetentionWorkers PROVE ExecProgress(w)'
    <3>1. exec[w].pc \in {"scan", "next", "tx"} => exec[w].of # r
      BY <1>0, <1>10
    <3> QED
      BY <1>0, <1>10, <2>1, <3>1, ExecProgressKept DEF ProgressOK
  <2> QED
    BY <2>2, <2>3 DEF ProgressOK
<1>11. ASSUME NEW r \in Runs, \/ \E stage \in Stages : DryRun(r, stage)
                            \/ ApproveRun(r) \/ RejectRun(r)
       PROVE  ProgressOK'
  <2>1. PICK row : /\ run' = [run EXCEPT ![r] = row]
                   /\ row.status \in {"dry_run", "approved", "rejected"}
    <3>1. ASSUME NEW stage \in Stages, DryRun(r, stage)
          PROVE  /\ run' = [run EXCEPT ![r] = [run[r] EXCEPT !.status = "dry_run", !.stage = stage]]
                 /\ [run[r] EXCEPT !.status = "dry_run", !.stage = stage].status = "dry_run"
      BY <3>1 DEF DryRun, RunsOK, RunRows
    <3>2. ASSUME ApproveRun(r)
          PROVE  /\ run' = [run EXCEPT ![r] = [run[r] EXCEPT !.status = "approved"]]
                 /\ [run[r] EXCEPT !.status = "approved"].status = "approved"
      BY <3>2 DEF ApproveRun, RunsOK, RunRows
    <3>3. ASSUME RejectRun(r)
          PROVE  /\ run' = [run EXCEPT ![r] = [run[r] EXCEPT !.status = "rejected"]]
                 /\ [run[r] EXCEPT !.status = "rejected"].status = "rejected"
      BY <3>3 DEF RejectRun, RunsOK, RunRows
    <3> QED
      BY <1>11, <3>1, <3>2, <3>3
  <2> QED
    BY <1>10, <1>11, <2>1 DEF DryRun, ApproveRun, RejectRun
\* A step of the execution in w, which only works for its own run.
<1>12. ASSUME NEW w \in RetentionWorkers, NEW r \in Runs,
              \A v \in RetentionWorkers \ {w} :
                 /\ exec'[v] = exec[v]
                 /\ exec[v].pc \in {"scan", "next", "tx"} => exec[v].of # r,
              \A q \in Runs \ {r} : run'[q] = run[q] /\ took'[q] = took[q] /\ owed'[q] = owed[q],
              held' = held, redacted \subseteq redacted',
              \A s \in Subjects : subject[s] = "gone" => subject'[s] = "gone",
              RunProgress(r)', ExecProgress(w)'
       PROVE  ProgressOK'
  <2>1. \A q \in Runs \ {r} : Settled(q) \subseteq Settled(q)'
    BY <1>12, SettledGrows
  <2>2. ASSUME NEW q \in Runs \ {r} PROVE RunProgress(q)'
    BY <1>2, <1>12, <2>1, RunProgressKept DEF ProgressOK
  <2>3. ASSUME NEW v \in RetentionWorkers \ {w} PROVE ExecProgress(v)'
    <3>1. CASE exec[v].pc \in {"scan", "next", "tx"}
      BY <1>0, <1>12, <2>1, <3>1, ExecProgressKept DEF ProgressOK
    <3>2. CASE exec[v].pc \notin {"scan", "next", "tx"}
      BY <1>12, <3>2 DEF ExecProgress
    <3> QED
      BY <3>1, <3>2
  <2> QED
    BY <1>12, <2>2, <2>3 DEF ProgressOK
<1>13. ASSUME NEW w \in RetentionWorkers, exec[w].pc \in {"scan", "next", "tx"}
       PROVE  \A v \in RetentionWorkers \ {w} :
                 exec[v].pc \in {"scan", "next", "tx"} => exec[v].of # exec[w].of
  BY <1>13 DEF OneExecution, ExecutedOnce, Executing
<1>14. ASSUME NEW w \in RetentionWorkers, StartRun(w) PROVE ProgressOK'
  <2>1. CASE Startable(exec[w].of)
    <3>1. PICK r \in Runs : r = exec[w].of
      BY <1>0
    <3>2. /\ run[r].status = "approved" /\ run' = [run EXCEPT ![r].status = "executing"]
          /\ exec' = [exec EXCEPT ![w].pc = "scan"] /\ exec[w].pc = "start"
          /\ UNCHANGED <<subject, redacted, held, owed, took>>
      BY <1>14, <2>1, <3>1 DEF StartRun, Startable
    <3>3. owed[r] = {} /\ took[r] = {}
      BY <3>2 DEF ProgressOK, RunProgress
    <3>4. run'[r].status = "executing" /\ \A q \in Runs \ {r} : run'[q] = run[q]
      BY <3>2 DEF RunsOK, RunRows
    <3>5. /\ exec'[w].pc = "scan" /\ exec'[w].of = r
          /\ \A v \in RetentionWorkers \ {w} : exec'[v] = exec[v]
      BY <3>1, <3>2, OneExec DEF ExecOK, Executions
    <3>6. RunProgress(r)' /\ ExecProgress(w)'
      BY <3>2, <3>3, <3>4, <3>5 DEF RunProgress, ExecProgress
    <3>7. \A v \in RetentionWorkers \ {w} : exec[v].pc \in {"scan", "next", "tx"} => exec[v].of # r
      BY <1>0, <3>2
    <3> QED
      BY <1>12, <3>2, <3>4, <3>5, <3>6, <3>7
  <2>2. CASE ~Startable(exec[w].of)
    BY <1>8, <1>14, <2>2 DEF StartRun
  <2> QED
    BY <2>1, <2>2
<1>15. ASSUME NEW w \in RetentionWorkers, ScanRetentionCandidates(w) PROVE ProgressOK'
  <2>1. PICK r \in Runs : r = exec[w].of
    BY <1>0
  <2> DEFINE due == {s \in Subjects : subject[s] = "due"} \ held
  <2>2. /\ exec' = [exec EXCEPT ![w].pc = "next", ![w].left = due] /\ exec[w].pc = "scan"
        /\ owed' = [owed EXCEPT ![r] = due]
        /\ UNCHANGED <<subject, redacted, held, run, took>>
    BY <1>15, <2>1 DEF ScanRetentionCandidates, runRows
  <2>3. took[r] = {} /\ run[r].status = "executing" /\ exec[w].deleted = 0
    BY <1>0, <2>1, <2>2, OneExec DEF ProgressOK, ExecProgress, Orderly
  <2>4. due \intersect held = {}
    OBVIOUS
  <2> HIDE DEF due
  <2>5. /\ exec'[w].pc = "next" /\ exec'[w].of = r /\ exec'[w].left = due /\ exec'[w].deleted = 0
        /\ \A v \in RetentionWorkers \ {w} : exec'[v] = exec[v]
    BY <2>1, <2>2, <2>3, OneExec DEF ExecOK, Executions
  <2>6. owed'[r] = due /\ \A q \in Runs \ {r} : owed'[q] = owed[q]
    BY <2>2 DEF RunsOK
  <2>7. RunProgress(r)'
    BY <2>2, <2>3, <2>4, <2>6 DEF RunProgress
  <2>8. ExecProgress(w)'
    <3>1. Cardinality(took'[r]) <= exec'[w].deleted
      BY <2>2, <2>3, <2>5, FS_EmptySet
    <3> QED
      BY <2>5, <2>6, <3>1 DEF ExecProgress
  <2> QED
    <3>1. \A q \in Runs \ {r} : run'[q] = run[q] /\ took'[q] = took[q] /\ owed'[q] = owed[q]
      BY <2>2, <2>6
    <3>2. /\ held' = held /\ redacted \subseteq redacted'
          /\ \A s \in Subjects : subject[s] = "gone" => subject'[s] = "gone"
      BY <2>2
    <3>3. \A v \in RetentionWorkers \ {w} : exec[v].pc \in {"scan", "next", "tx"} => exec[v].of # r
      BY <1>13, <2>1, <2>2
    <3> QED
      BY <1>12, <2>5, <2>7, <2>8, <3>1, <3>2, <3>3
<1>16. ASSUME NEW w \in RetentionWorkers, BeginBatch(w) PROVE ProgressOK'
  <2>1. PICK r \in Runs : r = exec[w].of
    BY <1>0
  <2>2. PICK b \in SUBSET exec[w].left :
             exec' = [exec EXCEPT ![w].pc = "tx", ![w].left = exec[w].left \ b, ![w].batch = b,
                                  ![w].heldThroughout = held]
    BY <1>16 DEF BeginBatch
  <2>3. exec[w].pc = "next" /\ UNCHANGED <<subject, redacted, held, run, owed, took>>
    BY <1>16 DEF BeginBatch, runRows
  <2>4. /\ exec'[w].pc = "tx" /\ exec'[w].of = r /\ exec'[w].left = exec[w].left \ b
        /\ exec'[w].batch = b /\ exec'[w].touched = exec[w].touched
        /\ exec'[w].failed = exec[w].failed /\ exec'[w].deleted = exec[w].deleted
        /\ exec[w].batch = {}
        /\ \A v \in RetentionWorkers \ {w} : exec'[v] = exec[v]
    BY <2>1, <2>2, <2>3, OneExec DEF ExecOK, Executions, Orderly
  <2>5. RunProgress(r) /\ ExecProgress(w)
    BY DEF ProgressOK
  <2>6. RunProgress(r)' /\ Settled(r)' = Settled(r)
    BY <2>3, <2>5 DEF RunProgress, Settled
  <2>7. ExecProgress(w)'
    <3>1. exec[w].failed = 0 =>
            owed[r] \subseteq exec[w].left \union exec[w].touched \union Settled(r)
      BY <2>1, <2>3, <2>4, <2>5 DEF ExecProgress
    <3>2. exec'[w].failed = 0 =>
            owed'[r] \subseteq exec'[w].left \union exec'[w].batch \union exec'[w].touched \union Settled(r)'
      BY <2>3, <2>4, <2>6, <3>1
    <3> QED
      BY <2>1, <2>3, <2>4, <2>5, <3>2 DEF ExecProgress
  <2> QED
    BY <1>12, <1>13, <2>1, <2>3, <2>4, <2>6, <2>7
<1>17. ASSUME NEW w \in RetentionWorkers, Candidate(w) PROVE ProgressOK'
  <2>1. PICK r \in Runs : r = exec[w].of
    BY <1>0
  <2> DEFINE s == Min(exec[w].batch)
  <2>2. /\ exec' = [exec EXCEPT ![w].batch = @ \ {s},
                                ![w].touched = IF s \in held THEN @ ELSE @ \union {s}]
        /\ exec[w].pc = "tx" /\ UNCHANGED <<subject, redacted, held, run, owed, took>>
    BY <1>17 DEF Candidate, Spared, runRows
  <2> HIDE DEF s
  <2>3. /\ exec'[w].pc = "tx" /\ exec'[w].of = r /\ exec'[w].left = exec[w].left
        /\ exec'[w].batch = exec[w].batch \ {s}
        /\ exec'[w].touched = IF s \in held THEN exec[w].touched ELSE exec[w].touched \union {s}
        /\ exec'[w].failed = exec[w].failed /\ exec'[w].deleted = exec[w].deleted
        /\ \A v \in RetentionWorkers \ {w} : exec'[v] = exec[v]
    BY <2>1, <2>2, OneExec DEF ExecOK, Executions
  <2>4. RunProgress(r) /\ ExecProgress(w)
    BY DEF ProgressOK
  <2>5. RunProgress(r)' /\ Settled(r)' = Settled(r)
    BY <2>2, <2>4 DEF RunProgress, Settled
  <2>6. ExecProgress(w)'
    <3>1. exec[w].failed = 0 =>
            owed[r] \subseteq exec[w].left \union exec[w].batch \union exec[w].touched \union Settled(r)
      BY <2>1, <2>2, <2>4 DEF ExecProgress
    <3>2. exec'[w].failed = 0 =>
            owed'[r] \subseteq exec'[w].left \union exec'[w].batch \union exec'[w].touched \union Settled(r)'
      <4> SUFFICES ASSUME exec[w].failed = 0, NEW x \in owed[r]
                   PROVE  x \in exec'[w].left \union exec'[w].batch \union exec'[w].touched \union Settled(r)'
        BY <2>2, <2>3
      <4>1. x \in exec[w].left \union exec[w].batch \union exec[w].touched \union Settled(r)
        BY <3>1
      <4>2. x \notin held
        BY <1>2
      <4>3. x \in exec[w].batch => x \in exec'[w].batch \union exec'[w].touched
        BY <2>3, <4>2
      <4>4. exec[w].touched \subseteq exec'[w].touched
        BY <2>3
      <4> QED
        BY <2>3, <2>5, <4>1, <4>3, <4>4
    <3> QED
      BY <2>1, <2>2, <2>3, <2>4, <3>2 DEF ExecProgress
  <2>7. \A q \in Runs \ {r} : run'[q] = run[q] /\ took'[q] = took[q] /\ owed'[q] = owed[q]
    BY <2>2
  <2>8. /\ held' = held /\ redacted \subseteq redacted'
        /\ \A z \in Subjects : subject[z] = "gone" => subject'[z] = "gone"
    BY <2>2
  <2>9. \A v \in RetentionWorkers \ {w} :
          /\ exec'[v] = exec[v]
          /\ exec[v].pc \in {"scan", "next", "tx"} => exec[v].of # r
    BY <1>13, <2>1, <2>2, <2>3
  <2> QED
    BY <1>12, <2>5, <2>6, <2>7, <2>8, <2>9
<1>18. ASSUME NEW w \in RetentionWorkers, CommitBatch(w) PROVE ProgressOK'
  <2>1. PICK r \in Runs : r = exec[w].of
    BY <1>0
  <2> DEFINE t == exec[w].touched
             n == Cardinality(t)
             deletes == run[r].stage = "delete"
             fresh == {s \in t : subject[s] # "gone"}
  <2>2. /\ exec[w].pc = "tx" /\ exec[w].batch = {} /\ redacted' = redacted \union t
        /\ deletes => /\ subject' = [s \in Subjects |-> IF s \in t THEN "gone" ELSE subject[s]]
                      /\ took' = [took EXCEPT ![r] = @ \union fresh]
        /\ ~deletes => subject' = subject /\ took' = took
        /\ UNCHANGED <<held, run, owed>>
    BY <1>18, <2>1 DEF CommitBatch, runRows
  <2>3. /\ exec'[w].pc = "next" /\ exec'[w].of = r /\ exec'[w].left = exec[w].left
        /\ exec'[w].batch = exec[w].batch /\ exec'[w].touched = {}
        /\ exec'[w].failed = exec[w].failed
        /\ exec'[w].deleted = exec[w].deleted + (IF deletes THEN n ELSE 0)
        /\ \A v \in RetentionWorkers \ {w} : exec'[v] = exec[v]
    BY <1>18, <2>1, OneExec DEF CommitBatch, Tally, ExecOK, Executions
  <2>4. /\ t \subseteq Subjects /\ took[r] \subseteq Subjects /\ exec[w].deleted \in Nat
        /\ \A s \in Subjects : subject[s] = "gone" => subject'[s] = "gone"
    BY <2>2, OneExec DEF RunsOK
  <2>5. ExecProgress(w) /\ run[r].status = "executing" /\ owed[r] \intersect held = {}
    BY <1>0, <1>2, <2>1, <2>2 DEF ProgressOK
  <2>6. RunProgress(r)'
    BY <2>2, <2>5 DEF RunProgress
  <2>7. t \union Settled(r) \subseteq Settled(r)'
    BY <2>2, <2>4 DEF Settled, RunsOK
  <2>8. Cardinality(took'[r]) <= exec'[w].deleted
    <3>1. Cardinality(took[r]) <= exec[w].deleted /\ Cardinality(took[r]) \in Nat /\ n \in Nat
      BY <2>1, <2>2, <2>4, <2>5, SubjectSets DEF ExecProgress
    <3>2. CASE deletes
      <4>1. took'[r] = took[r] \union fresh
        BY <2>2, <3>2 DEF RunsOK
      <4>2. IsFiniteSet(t) /\ fresh \subseteq t /\ IsFiniteSet(took[r])
        BY <2>4, SubjectSets
      <4>3. /\ IsFiniteSet(fresh) /\ Cardinality(fresh) \in Nat
            /\ Cardinality(fresh) <= n
        BY <4>2, FS_Subset, FS_CardinalityType
      <4>4. Cardinality(took[r] \union fresh) <= Cardinality(took[r]) + Cardinality(fresh)
        <5>1. IsFiniteSet(took[r] \intersect fresh)
          BY <4>2, FS_Subset
        <5>2. /\ Cardinality(took[r] \union fresh) =
                   Cardinality(took[r]) + Cardinality(fresh) - Cardinality(took[r] \intersect fresh)
              /\ Cardinality(took[r] \intersect fresh) \in Nat
          BY <4>2, <4>3, <5>1, FS_Union, FS_CardinalityType
        <5> QED
          BY <3>1, <4>3, <5>2
      <4>5. Cardinality(took[r] \union fresh) \in Nat
        BY <4>2, <4>3, FS_Union, FS_CardinalityType
      <4> HIDE DEF n, fresh, t
      <4> QED
        BY <2>3, <2>4, <3>1, <3>2, <4>1, <4>3, <4>4, <4>5
    <3>3. CASE ~deletes
      BY <2>2, <2>3, <2>4, <3>1, <3>3
    <3> QED
      BY <3>2, <3>3
  <2>9. ExecProgress(w)'
    <3>1. exec[w].failed = 0 =>
            owed[r] \subseteq exec[w].left \union exec[w].batch \union exec[w].touched \union Settled(r)
      BY <2>1, <2>2, <2>5 DEF ExecProgress
    <3>2. exec'[w].failed = 0 =>
            owed'[r] \subseteq exec'[w].left \union exec'[w].batch \union exec'[w].touched \union Settled(r)'
      BY <2>2, <2>3, <2>7, <3>1
    <3> QED
      BY <2>3, <2>8, <3>2 DEF ExecProgress
  <2>10. \A q \in Runs \ {r} : took'[q] = took[q]
    BY <2>2 DEF RunsOK
  <2> QED
    BY <1>12, <1>13, <2>1, <2>2, <2>3, <2>4, <2>6, <2>9, <2>10
<1>19. ASSUME NEW w \in RetentionWorkers, FailBatch(w) PROVE ProgressOK'
  <2>1. PICK r \in Runs : r = exec[w].of
    BY <1>0
  <2>2. exec[w].pc = "tx" /\ UNCHANGED <<subject, redacted, held, run, owed, took>>
    BY <1>19 DEF FailBatch, runRows
  <2>3. /\ exec'[w].pc = "next" /\ exec'[w].of = r /\ exec'[w].failed # 0
        /\ exec'[w].deleted = exec[w].deleted
        /\ \A v \in RetentionWorkers \ {w} : exec'[v] = exec[v]
    BY <1>19, <2>1, OneExec DEF FailBatch, FailedBatch, ExecOK, Executions
  <2>4. RunProgress(r)' /\ ExecProgress(w)'
    BY <2>1, <2>2, <2>3 DEF ProgressOK, RunProgress, ExecProgress, Settled
  <2> QED
    BY <1>12, <1>13, <2>1, <2>2, <2>3, <2>4
<1>20. ASSUME NEW w \in RetentionWorkers, CloseRun(w) PROVE ProgressOK'
  <2>1. PICK r \in Runs : r = exec[w].of
    BY <1>0
  <2>2. /\ exec[w].pc = "next" /\ exec[w].left = {} /\ exec' = [exec EXCEPT ![w] = Idle]
        /\ run' = [run EXCEPT ![r] =
                     IF exec[w].failed > 0
                     THEN [@ EXCEPT !.status = "failed", !.failed = exec[w].failed]
                     ELSE [@ EXCEPT !.status = "completed", !.pseudonymised = exec[w].pseudonymised,
                                    !.deleted = exec[w].deleted]]
        /\ UNCHANGED <<subject, redacted, held, owed, took>>
    BY <1>20, <2>1 DEF CloseRun
  <2>3. /\ run'[r].stage = run[r].stage
        /\ \/ run'[r].status = "failed"
           \/ /\ exec[w].failed = 0 /\ run'[r].status = "completed"
              /\ run'[r].deleted = exec[w].deleted
        /\ \A q \in Runs \ {r} : run'[q] = run[q]
    BY <2>2, OneExec DEF RunsOK, RunRows
  <2>4. exec[w].batch = {} /\ exec[w].touched = {}
    BY <2>2, OneExec DEF Orderly
  <2>5. Settled(r)' = Settled(r)
    BY <2>2, <2>3 DEF Settled
  <2>6. /\ exec[w].failed = 0 => owed[r] \subseteq Settled(r)
        /\ Cardinality(took[r]) <= exec[w].deleted
    BY <2>1, <2>2, <2>4 DEF ProgressOK, ExecProgress
  <2>7. RunProgress(r)'
    BY <1>2, <2>2, <2>3, <2>5, <2>6 DEF RunProgress
  <2>8. exec'[w].pc = "idle" /\ \A v \in RetentionWorkers \ {w} : exec'[v] = exec[v]
    BY <2>2 DEF ExecOK, Idle
  <2>9. ExecProgress(w)'
    BY <2>8 DEF ExecProgress
  <2> QED
    BY <1>12, <1>13, <2>1, <2>2, <2>3, <2>7, <2>8, <2>9
<1>21. ASSUME NEW w \in RetentionWorkers, Abandon(w) PROVE ProgressOK'
  BY <1>8, <1>21 DEF Abandon, runRows
<1> QED
  BY <1>3, <1>4, <1>5, <1>7, <1>9, <1>11, <1>14, <1>15, <1>16, <1>17, <1>18, <1>19, <1>20, <1>21
     DEF RetentionNext, ExecuteRetention, retentionVars

\* The inductive invariant of the retention runs.
LEMMA RetentionStep == RetentionInv /\ [RetentionNext]_retentionVars => RetentionInv'
  BY ExecStep, RunsStep, HoldStep, OneExecutionStep, ProgressStep DEF RetentionInv

\* HoldIsHonoured for any number of workers, runs, batches and holds.
THEOREM HoldsAreHonoured == RetentionSpec => []HoldIsHonoured
<1>1. RetentionInv => HoldIsHonoured
  BY DEF RetentionInv, HoldOK, HoldIsHonoured
<1> QED
  BY <1>1, RetentionInitOK, RetentionStep, PTL DEF RetentionSpec

\* ExecutedOnce: a job that is delivered again finds its run started.
THEOREM RunsExecuteOnce == RetentionSpec => []ExecutedOnce
<1>1. RetentionInv => ExecutedOnce
  BY DEF RetentionInv, OneExecution
<1> QED
  BY <1>1, RetentionInitOK, RetentionStep, PTL DEF RetentionSpec

\* CompletedIsComplete: a run that ends as completed has settled everything it
\* scanned that nobody held since, and counts at least what it deleted.
THEOREM CompletedRunsAreComplete == RetentionSpec => []CompletedIsComplete
<1>1. RetentionInv => CompletedIsComplete
  BY DEF RetentionInv, ProgressOK, RunProgress, Settled, CompletedIsComplete
<1> QED
  BY <1>1, RetentionInitOK, RetentionStep, PTL DEF RetentionSpec

-------------------------------------------------------------------------------
(* SchemaMigration *)

\* The states of a run.
RunnerStates == [stage : MigrationStages, todo : SUBSET Versions, mine : SUBSET Versions,
                 broken : BOOLEAN]
SchemaTypes ==
    /\ executed \in [Versions -> FileChecksums \union {Unwritten}]
    /\ checksumLog \in [Versions -> FileChecksums \union {Unwritten}]
    /\ migration \in [Runners -> RunnerStates]

\* The versions of r, of goose and of the checksum log.
Files(r) == DOMAIN FilesOf[r]
Applied == Written(executed)
Logged == Written(checksumLog)

\* What a run in stage st with m = migration[r] knows of the two tables.
StageOK(r) ==
    LET m == migration[r] IN
    /\ m.stage \in {"up", "record"} => m.todo \union m.mine \subseteq Files(r)
    /\ m.stage = "up" =>
         gooseLock = {r} /\ Files(r) \subseteq Applied \union m.todo /\ m.todo \intersect Applied = {}
    /\ m.stage = "record" /\ ~m.broken => Files(r) \subseteq Applied
    /\ m.stage \in {"reread", "find", "recover", "done"} => Files(r) \subseteq Applied
    /\ m.stage = "find" => m.todo \subseteq Logged
    /\ m.stage = "recover" => m.todo \subseteq Files(r) /\ Files(r) \subseteq Logged \union m.todo
    /\ m.stage = "done" => Files(r) \subseteq Logged

SchemaInv == SchemaTypes /\ \A r \in Runners : StageOK(r)

USE MigrationAssumption, ChecksumAssumption

\* The fields of a run.
LEMMA RunState ==
    ASSUME SchemaTypes, NEW r \in Runners
    PROVE  /\ migration[r] \in RunnerStates /\ migration[r].stage \in MigrationStages
           /\ migration[r].todo \subseteq Versions /\ migration[r].mine \subseteq Versions
           /\ Files(r) \subseteq Versions
  BY DEF SchemaTypes, RunnerStates, Files

\* A run is a record of its fields.
LEMMA RunIsState ==
    ASSUME NEW stage \in MigrationStages, NEW todo \in SUBSET Versions,
           NEW mine \in SUBSET Versions, NEW broken \in BOOLEAN
    PROVE  /\ Run(stage, todo, mine, broken) \in RunnerStates
           /\ Run(stage, todo, mine, broken).stage = stage
           /\ Run(stage, todo, mine, broken).todo = todo
           /\ Run(stage, todo, mine, broken).mine = mine
           /\ Run(stage, todo, mine, broken).broken = broken
  BY DEF Run, RunnerStates

\* A stage that starts with nothing applied.
LEMMA FreshIsState ==
    ASSUME NEW stage \in MigrationStages, NEW todo \in SUBSET Versions
    PROVE  /\ Run(stage, todo, {}, FALSE) \in RunnerStates
           /\ Run(stage, todo, {}, FALSE).stage = stage
           /\ Run(stage, todo, {}, FALSE).todo = todo
           /\ Run(stage, todo, {}, FALSE).mine = {}
  BY DEF Run, RunnerStates

\* A stage with nothing to do.
LEMMA EndedIsState ==
    ASSUME NEW stage \in MigrationStages
    PROVE  Ended(stage) \in RunnerStates /\ Ended(stage).stage = stage
  BY DEF Ended, Run, RunnerStates

\* A file has a checksum.
LEMMA FileIsWritten ==
    ASSUME NEW r \in Runners, NEW v \in Files(r)
    PROVE  FilesOf[r][v] \in FileChecksums /\ FilesOf[r][v] # Unwritten
<1>1. FilesOf[r][v] \in FileChecksums
  BY DEF Files, FileChecksums
<1> QED
  BY <1>1

\* A step of r that leaves the tables of the others' stages as they are or
\* lets them grow.
LEMMA OtherRuns ==
    ASSUME SchemaInv, NEW r \in Runners, NEW m \in RunnerStates,
           migration' = [migration EXCEPT ![r] = m],
           executed' \in [Versions -> FileChecksums \union {Unwritten}],
           checksumLog' \in [Versions -> FileChecksums \union {Unwritten}],
           Applied \subseteq Applied', Logged \subseteq Logged',
           \A q \in Runners \ {r} : At(q, "up") => gooseLock' = gooseLock /\ Applied' = Applied,
           StageOK(r)'
    PROVE  SchemaInv'
<1>1. SchemaTypes'
  BY DEF SchemaInv, SchemaTypes
<1>2. ASSUME NEW q \in Runners \ {r} PROVE StageOK(q)'
  <2>1. migration'[q] = migration[q] /\ StageOK(q)
    BY DEF SchemaInv, SchemaTypes
  <2> QED
    BY <2>1 DEF StageOK, At
<1> QED
  BY <1>1, <1>2 DEF SchemaInv

\* Nobody has run.
LEMMA SchemaInitOK == SchemaInit => SchemaInv
<1> SUFFICES ASSUME SchemaInit PROVE SchemaInv
  OBVIOUS
<1>1. Ended("idle") \in RunnerStates /\ Ended("idle").stage = "idle"
  BY EndedIsState DEF MigrationStages
<1>2. SchemaTypes
  BY <1>1 DEF SchemaInit, SchemaTypes
<1>3. \A r \in Runners : migration[r].stage = "idle"
  BY <1>1 DEF SchemaInit
<1> QED
  BY <1>2, <1>3 DEF SchemaInv, StageOK

\* A row of the checksum log, in the stages that write one.
LEMMA InsertedRow ==
    ASSUME SchemaInv, NEW r \in Runners, migration[r].todo # {}, InsertRow(r),
           migration[r].todo \subseteq Files(r)
    PROVE  /\ checksumLog' \in [Versions -> FileChecksums \union {Unwritten}]
           /\ Logged \subseteq Logged'
           /\ \E v \in migration[r].todo :
                /\ v \in Logged'
                /\ migration' = [migration EXCEPT ![r] = [migration[r] EXCEPT !.todo = @ \ {v}]]
                /\ [migration[r] EXCEPT !.todo = @ \ {v}] \in RunnerStates
<1> DEFINE v == Min(migration[r].todo)
<1>0. SchemaTypes
  BY DEF SchemaInv
<1>1. v \in migration[r].todo /\ v \in Files(r) /\ v \in Versions
  BY <1>0, RunState, MinOfNats
<1>2. /\ checksumLog' = [checksumLog EXCEPT ![v] = IF @ = Unwritten THEN FilesOf[r][v] ELSE @]
      /\ migration' = [migration EXCEPT ![r] = [migration[r] EXCEPT !.todo = @ \ {v}]]
  BY DEF InsertRow, Goto
<1> HIDE DEF v
<1>3. checksumLog' \in [Versions -> FileChecksums \union {Unwritten}]
  BY <1>0, <1>1, <1>2, FileIsWritten DEF SchemaTypes
<1>4. Logged \subseteq Logged' /\ v \in Logged'
  BY <1>0, <1>1, <1>2, FileIsWritten DEF SchemaTypes, Logged, Written
<1>5. [migration[r] EXCEPT !.todo = @ \ {v}] \in RunnerStates
  <2>1. migration[r].todo \ {v} \in SUBSET Versions /\ migration[r] \in RunnerStates
    BY <1>0, RunState
  <2> QED
    BY <2>1 DEF RunnerStates
<1> QED
  BY <1>1, <1>2, <1>3, <1>4, <1>5

\* Every stage passes on what the next one relies on.
LEMMA SchemaStep == SchemaInv /\ [SchemaNext]_schemaVars => SchemaInv'
<1> SUFFICES ASSUME SchemaInv, [SchemaNext]_schemaVars PROVE SchemaInv'
  OBVIOUS
<1>0. SchemaTypes
  BY DEF SchemaInv
<1>1. ASSUME NEW r \in Runners, NEW stage \in {"idle", "verified", "failed"},
             Goto(r, Ended(stage)), UNCHANGED <<executed, checksumLog>>,
             gooseLock' = gooseLock \/ gooseLock' = gooseLock \ {r}
      PROVE  SchemaInv'
  <2>1. Ended(stage) \in RunnerStates /\ Ended(stage).stage = stage
    BY EndedIsState DEF MigrationStages
  <2>2. Applied' = Applied /\ Logged' = Logged
    BY <1>1 DEF Applied, Logged, Written
  <2>3. migration'[r].stage = stage
    BY <1>0, <1>1, <2>1 DEF Goto, SchemaTypes
  <2>4. StageOK(r)'
    BY <2>3 DEF StageOK
  <2>5. \A q \in Runners \ {r} : At(q, "up") => gooseLock' = gooseLock
    <3> SUFFICES ASSUME NEW q \in Runners \ {r}, At(q, "up") PROVE gooseLock' = gooseLock
      OBVIOUS
    <3>1. gooseLock = {q}
      BY DEF SchemaInv, StageOK, At
    <3>2. gooseLock \ {r} = gooseLock
      BY <3>1
    <3> QED
      BY <1>1, <3>2
  <2> QED
    BY <1>0, <1>1, <2>1, <2>2, <2>4, <2>5, OtherRuns DEF Goto, SchemaTypes
\* A step of r into stage m.stage that writes neither table.
<1>2. ASSUME NEW r \in Runners, NEW m \in RunnerStates, Goto(r, m),
             UNCHANGED <<executed, checksumLog>>,
             \A q \in Runners \ {r} : At(q, "up") => gooseLock' = gooseLock,
             /\ m.stage \in {"up", "record"} => m.todo \union m.mine \subseteq Files(r)
             /\ m.stage = "up" => /\ gooseLock' = {r} /\ Files(r) \subseteq Applied \union m.todo
                                  /\ m.todo \intersect Applied = {}
             /\ m.stage = "record" /\ ~m.broken => Files(r) \subseteq Applied
             /\ m.stage \in {"reread", "find", "recover", "done"} => Files(r) \subseteq Applied
             /\ m.stage = "find" => m.todo \subseteq Logged
             /\ m.stage = "recover" => m.todo \subseteq Files(r) /\ Files(r) \subseteq Logged \union m.todo
             /\ m.stage = "done" => Files(r) \subseteq Logged
      PROVE  SchemaInv'
  <2>1. Applied' = Applied /\ Logged' = Logged
    BY <1>2 DEF Applied, Logged, Written
  <2>2. migration'[r] = m
    BY <1>0, <1>2 DEF Goto, SchemaTypes
  <2>3. StageOK(r)'
    BY <1>2, <2>1, <2>2 DEF StageOK
  <2> QED
    BY <1>0, <1>2, <2>1, <2>3, OtherRuns DEF Goto, SchemaTypes
<1>3. ASSUME NEW r \in Runners, Migrate(r) PROVE SchemaInv'
  BY <1>1, <1>3 DEF Migrate
<1>4. ASSUME NEW r \in Runners, UpLocks(r) PROVE SchemaInv'
  <2>1. CASE OutOfOrder(r)
    BY <1>1, <1>4, <2>1 DEF UpLocks
  <2>2. CASE ~OutOfOrder(r)
    <3> DEFINE m == Run("up", Pending(r), {}, FALSE)
    <3>1. Pending(r) = Files(r) \ Applied /\ Pending(r) \in SUBSET Versions
      BY <1>0, RunState DEF Pending, Files, Applied
    <3>2. m \in RunnerStates /\ m.stage = "up" /\ m.todo = Pending(r) /\ m.mine = {}
      <4>1. "up" \in MigrationStages
        BY DEF MigrationStages
      <4> QED
        BY <3>1, <4>1, FreshIsState
    <3>3. Goto(r, m) /\ gooseLock' = {r} /\ UNCHANGED <<executed, checksumLog>>
      BY <1>4, <2>2 DEF UpLocks
    <3>4. \A q \in Runners \ {r} : ~At(q, "up")
      BY <1>4 DEF UpLocks, SchemaInv, StageOK, At
    <3> HIDE DEF m
    <3> QED
      BY <1>2, <3>1, <3>2, <3>3, <3>4
  <2> QED
    BY <2>1, <2>2
<1>5. ASSUME NEW r \in Runners, UpTimesOut(r) PROVE SchemaInv'
  BY <1>1, <1>5 DEF UpTimesOut
<1>6. ASSUME NEW r \in Runners, UpApplies(r) PROVE SchemaInv'
  <2> DEFINE v == Min(migration[r].todo)
             m == [migration[r] EXCEPT !.todo = @ \ {v}, !.mine = @ \union {v}]
  <2>1. /\ migration[r].stage = "up" /\ gooseLock = {r}
        /\ migration[r].todo \union migration[r].mine \subseteq Files(r)
        /\ Files(r) \subseteq Applied \union migration[r].todo
        /\ migration[r].todo \intersect Applied = {}
    BY <1>6 DEF UpApplies, At, SchemaInv, StageOK
  <2>2. v \in migration[r].todo /\ v \in Files(r) /\ v \in Versions
    BY <1>0, <1>6, <2>1, RunState, MinOfNats DEF UpApplies
  <2>3. /\ executed' = [executed EXCEPT ![v] = FilesOf[r][v]] /\ Goto(r, m)
        /\ UNCHANGED <<checksumLog, gooseLock>>
    BY <1>6 DEF UpApplies
  <2> HIDE DEF v
  <2>4. /\ m.stage = "up" /\ m.todo = migration[r].todo \ {v}
        /\ m.mine = migration[r].mine \union {v} /\ m \in RunnerStates
    <3>1. migration[r].todo \ {v} \in SUBSET Versions /\ migration[r].mine \union {v} \in SUBSET Versions
          /\ migration[r] \in RunnerStates
      BY <1>0, <2>2, RunState
    <3> QED
      BY <2>1, <3>1 DEF RunnerStates
  <2>5. executed' \in [Versions -> FileChecksums \union {Unwritten}]
    BY <1>0, <2>2, <2>3, FileIsWritten DEF SchemaTypes
  <2>6. Applied' = Applied \union {v} /\ Logged' = Logged
    BY <1>0, <2>2, <2>3, FileIsWritten DEF SchemaTypes, Applied, Logged, Written
  <2>7. migration'[r] = m
    BY <1>0, <2>3 DEF Goto, SchemaTypes
  <2> HIDE DEF m
  <2>8. StageOK(r)'
    <3>1. m.todo \intersect Applied' = {} /\ Files(r) \subseteq Applied' \union m.todo
      BY <2>1, <2>4, <2>6
    <3> QED
      BY <2>1, <2>2, <2>3, <2>4, <2>7, <3>1 DEF StageOK
  <2>9. \A q \in Runners \ {r} : ~At(q, "up")
    BY <2>1 DEF SchemaInv, StageOK, At
  <2> QED
    BY <1>0, <2>3, <2>4, <2>5, <2>6, <2>8, <2>9, OtherRuns DEF Goto, SchemaTypes
<1>7. ASSUME NEW r \in Runners, UpReturns(r) \/ UpBreaksOff(r) PROVE SchemaInv'
  <2>1. /\ migration[r].stage = "up" /\ migration[r].mine \subseteq Files(r)
        /\ Files(r) \subseteq Applied \union migration[r].todo /\ gooseLock = {r}
    BY <1>7 DEF UpReturns, UpBreaksOff, At, SchemaInv, StageOK
  <2>2. PICK broken \in BOOLEAN :
          /\ Goto(r, Run("record", migration[r].mine, migration[r].mine, broken))
          /\ ~broken => migration[r].todo = {}
          /\ UNCHANGED <<executed, checksumLog>>
    BY <1>7 DEF UpReturns, UpBreaksOff
  <2> DEFINE m == Run("record", migration[r].mine, migration[r].mine, broken)
  <2>3. /\ m \in RunnerStates /\ m.stage = "record" /\ m.todo = migration[r].mine
        /\ m.mine = migration[r].mine /\ m.broken = broken
    BY <1>0, RunState, RunIsState DEF MigrationStages
  <2>4. \A q \in Runners \ {r} : ~At(q, "up")
    BY <2>1 DEF SchemaInv, StageOK, At
  <2> HIDE DEF m
  <2> QED
    BY <1>2, <2>1, <2>2, <2>3, <2>4 DEF m
<1>8. ASSUME NEW r \in Runners, migration[r].stage \in {"record", "recover"},
             migration[r].todo # {}, InsertRow(r), UNCHANGED <<executed, gooseLock>>
      PROVE  SchemaInv'
  <2>1. migration[r].todo \subseteq Files(r)
    BY <1>8 DEF SchemaInv, StageOK
  <2>2. /\ checksumLog' \in [Versions -> FileChecksums \union {Unwritten}]
        /\ Logged \subseteq Logged'
    BY <1>8, <2>1, InsertedRow
  <2>3. PICK v \in migration[r].todo :
          /\ v \in Logged'
          /\ migration' = [migration EXCEPT ![r] = [migration[r] EXCEPT !.todo = @ \ {v}]]
          /\ [migration[r] EXCEPT !.todo = @ \ {v}] \in RunnerStates
    BY <1>8, <2>1, InsertedRow
  <2> DEFINE m == [migration[r] EXCEPT !.todo = @ \ {v}]
  <2>4. /\ m.stage = migration[r].stage /\ m.todo = migration[r].todo \ {v}
        /\ m.mine = migration[r].mine /\ m.broken = migration[r].broken
    BY <1>0, RunState DEF RunnerStates
  <2>5. migration'[r] = m
    BY <1>0, <2>3 DEF SchemaTypes
  <2> HIDE DEF m
  <2>6. Applied' = Applied
    BY <1>8 DEF Applied, Written
  <2>7. StageOK(r)'
    <3>1. StageOK(r)
      BY DEF SchemaInv
    <3>2. m.stage = "recover" => Files(r) \subseteq Logged' \union m.todo
      BY <2>2, <2>3, <2>4, <3>1 DEF StageOK
    <3> QED
      BY <1>8, <2>1, <2>4, <2>5, <2>6, <3>1, <3>2 DEF StageOK
  <2> QED
    BY <1>0, <1>8, <2>2, <2>3, <2>6, <2>7, OtherRuns DEF m, SchemaTypes
<1>9. ASSUME NEW r \in Runners, RecordApplied(r) PROVE SchemaInv'
  <2>1. CASE migration[r].todo # {}
    BY <1>8, <1>9, <2>1 DEF RecordApplied, At
  <2>2. CASE migration[r].todo = {} /\ migration[r].broken
    BY <1>1, <1>9, <2>2 DEF RecordApplied
  <2>3. CASE migration[r].todo = {} /\ ~migration[r].broken
    <3>1. Ended("reread") \in RunnerStates /\ Ended("reread").stage = "reread"
      BY EndedIsState DEF MigrationStages
    <3>2. Files(r) \subseteq Applied
      BY <1>9, <2>3 DEF RecordApplied, At, SchemaInv, StageOK
    <3>3. Goto(r, Ended("reread")) /\ UNCHANGED <<executed, checksumLog, gooseLock>>
      BY <1>9, <2>3 DEF RecordApplied
    <3> QED
      BY <1>2, <3>1, <3>2, <3>3
  <2> QED
    BY <2>1, <2>2, <2>3
<1>10. ASSUME NEW r \in Runners, RereadLog(r) PROVE SchemaInv'
  <2> DEFINE m == Run("find", Logged, {}, FALSE)
  <2>1. m \in RunnerStates /\ m.stage = "find" /\ m.todo = Logged
    BY FreshIsState DEF MigrationStages, Logged, Written
  <2>2. Goto(r, m) /\ UNCHANGED <<executed, checksumLog, gooseLock>>
    BY <1>10 DEF RereadLog, Logged
  <2>3. Files(r) \subseteq Applied
    BY <1>10 DEF RereadLog, At, SchemaInv, StageOK
  <2> HIDE DEF m
  <2> QED
    BY <1>2, <2>1, <2>2, <2>3
<1>11. ASSUME NEW r \in Runners, FindUnlogged(r) PROVE SchemaInv'
  <2> DEFINE missing == Applied \ migration[r].todo
             m == Run("recover", missing, {}, FALSE)
  <2>1. Files(r) \subseteq Applied /\ migration[r].todo \subseteq Logged
    BY <1>11 DEF FindUnlogged, At, SchemaInv, StageOK
  <2>2. CASE missing \subseteq Files(r)
    <3>1. /\ m \in RunnerStates /\ m.stage = "recover" /\ m.todo = missing
      BY FreshIsState DEF MigrationStages, Applied, Written
    <3>2. Goto(r, m) /\ UNCHANGED <<executed, checksumLog, gooseLock>>
      BY <1>11, <2>2 DEF FindUnlogged, Applied, Files
    <3>3. Files(r) \subseteq Logged \union missing
      BY <2>1
    <3> HIDE DEF m, missing
    <3> QED
      BY <1>2, <2>1, <2>2, <3>1, <3>2, <3>3
  <2>3. CASE ~(missing \subseteq Files(r))
    BY <1>1, <1>11, <2>3 DEF FindUnlogged, Applied, Files
  <2> QED
    BY <2>2, <2>3
<1>12. ASSUME NEW r \in Runners, RecordUnlogged(r) PROVE SchemaInv'
  <2>1. CASE migration[r].todo # {}
    BY <1>8, <1>12, <2>1 DEF RecordUnlogged, At
  <2>2. CASE migration[r].todo = {}
    <3>1. Ended("done") \in RunnerStates /\ Ended("done").stage = "done"
      BY EndedIsState DEF MigrationStages
    <3>2. Files(r) \subseteq Applied /\ Files(r) \subseteq Logged
      BY <1>12, <2>2 DEF RecordUnlogged, At, SchemaInv, StageOK
    <3>3. Goto(r, Ended("done")) /\ UNCHANGED <<executed, checksumLog, gooseLock>>
      BY <1>12, <2>2 DEF RecordUnlogged
    <3> QED
      BY <1>2, <3>1, <3>2, <3>3
  <2> QED
    BY <2>1, <2>2
<1>13. ASSUME NEW r \in Runners, RunBreaks(r) PROVE SchemaInv'
  BY <1>1, <1>13 DEF RunBreaks
<1>14. CASE UNCHANGED schemaVars
  BY <1>14 DEF schemaVars, SchemaInv, SchemaTypes, StageOK, Applied, Logged, Written
<1> QED
  BY <1>3, <1>4, <1>5, <1>6, <1>7, <1>9, <1>10, <1>11, <1>12, <1>13, <1>14 DEF SchemaNext

\* SuccessLogsAll for any number of processes with any files: a run that succeeds
\* finds all its files applied and logged, whoever broke off before (Migrate).
THEOREM SuccessIsLogged == SchemaSpec => []SuccessLogsAll
<1>1. SchemaInv => SuccessLogsAll
  BY DEF SchemaInv, StageOK, SuccessLogsAll, At, Files, Applied, Logged
<1> QED
  BY <1>1, SchemaInitOK, SchemaStep, PTL DEF SchemaSpec

\* What goose has applied is not applied again.
AppliedStays == \A v \in Applied : executed'[v] = executed[v]

\* No version is run twice, whichever binaries race for the session lock: goose
\* plans its run under the lock (runner.go, up).
THEOREM AppliedOnce == SchemaSpec => [][AppliedStays]_schemaVars
<1>1. SchemaInv /\ [SchemaNext]_schemaVars => [AppliedStays]_schemaVars
  <2> SUFFICES ASSUME SchemaInv, SchemaNext PROVE AppliedStays
    BY DEF schemaVars
  <2>1. ASSUME NEW r \in Runners, UpApplies(r) PROVE AppliedStays
    <3> DEFINE v == Min(migration[r].todo)
    <3>1. migration[r].todo \intersect Applied = {} /\ SchemaTypes
      BY <2>1 DEF UpApplies, At, SchemaInv, StageOK
    <3>2. v \in migration[r].todo
      BY <2>1, <3>1, RunState, MinOfNats DEF UpApplies
    <3>3. executed' = [executed EXCEPT ![v] = FilesOf[r][v]]
      BY <2>1 DEF UpApplies
    <3> HIDE DEF v
    <3> QED
      BY <3>1, <3>2, <3>3 DEF AppliedStays, Applied, Written, SchemaTypes
  <2>2. CASE UNCHANGED executed
    BY <2>2 DEF AppliedStays
  <2> QED
    BY <2>1, <2>2 DEF SchemaNext, Migrate, UpLocks, UpTimesOut, UpReturns, UpBreaksOff,
       RecordApplied, RereadLog, FindUnlogged, RecordUnlogged, RunBreaks
<1> QED
  BY <1>1, SchemaInitOK, SchemaStep, PTL DEF SchemaSpec
===============================================================================
