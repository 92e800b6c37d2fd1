------------------------------- MODULE Access -------------------------------
(***************************************************************************)
(* Users, their roles and their sessions: UsersService (the operations of  *)
(* administrators), AuthService (login with lockout, change of password,   *)
(* switch of the active role) and the three global guards that decide      *)
(* which route a session reaches.                                          *)
(*                                                                         *)
(* An operation is a request that runs in steps, each a statement of the   *)
(* database under READ COMMITTED.  The operations that may take an ADMIN   *)
(* away meet at the row of the role ADMIN, which they lock first; the      *)
(* others lock nothing, so what they read may be stale when they write.    *)
(***************************************************************************)
EXTENDS Naturals, FiniteSets, Routes

CONSTANTS
  Users,           \* rows of users, existing or to be created
  FirstAdmin,      \* the user the seed creates
  RoleSets,        \* the collections of roles that administrators assign
  Requests,
  NoRequest,
  MaxAttempts,     \* MAX_LOGIN_ATTEMPTS
  MaxSessions,     \* bound: sessions alive at once
  MaxOperations    \* bound: operations of administrators in a behaviour

ASSUME AccessAssumption ==
  /\ IsFiniteSet(Users)
  /\ FirstAdmin \in Users
  /\ RoleSets \subseteq (SUBSET Role) \ {{}}
  /\ NoRequest \notin Requests
  /\ MaxAttempts \in Nat \ {0}
  /\ MaxSessions \in Nat
  /\ MaxOperations \in Nat

VARIABLES
  status,        \* users.status, NONE while there is no row
  attempts,      \* users.failed_login_attempts
  blockedAt,     \* users.blocked_at is set
  mustChange,    \* users.must_change_password
  userRoles,     \* the roles of the rows of user_roles, by user
  roleLock,      \* who holds the row of the role ADMIN FOR UPDATE
  sessions,      \* tokens that clients hold: [sub, activeRole]
  request,       \* the requests being handled
  operations,    \* operations of administrators begun
  lockout        \* ghost: failed logins have blocked somebody

account == <<status, attempts, blockedAt, mustChange>>
vars == <<account, userRoles, roleLock, sessions, request, operations, lockout>>

Status == {"ACTIVE", "BLOCKED", "INACTIVE"}

ActiveAdmins == {u \in Users : status[u] = "ACTIVE" /\ "ADMIN" \in userRoles[u]}

Idle == [op |-> "none"]

\* What a request knows: whom it is about, what it asks for, the status or the
\* count of failed logins it has read, the rows of user_roles it deletes.
Request(op, target, names) ==
  [op |-> op, pc |-> "start", target |-> target, names |-> names,
   status |-> "NONE", attempts |-> 0, rows |-> {}]

At(p, op, pc) == request[p].op = op /\ request[p].pc = pc

Goto(p, pc) == request' = [request EXCEPT ![p].pc = pc]

(* The end of a request; its transaction's lock, if it holds it, ends too. *)
End(p) ==
  /\ request' = [request EXCEPT ![p] = Idle]
  /\ roleLock' = IF roleLock = p THEN NoRequest ELSE roleLock

Refuse(p) == End(p) /\ UNCHANGED <<account, userRoles, sessions, operations, lockout>>

Init ==
  /\ status = [u \in Users |-> IF u = FirstAdmin THEN "ACTIVE" ELSE "NONE"]
  /\ attempts = [u \in Users |-> 0]
  /\ blockedAt = [u \in Users |-> FALSE]
  /\ mustChange = [u \in Users |-> u = FirstAdmin]
  /\ userRoles = [u \in Users |-> IF u = FirstAdmin THEN {"ADMIN"} ELSE {}]
  /\ roleLock = NoRequest
  /\ sessions = {}
  /\ request = [p \in Requests |-> Idle]
  /\ operations = 0
  /\ lockout = FALSE

-----------------------------------------------------------------------------
(* The guards, in the order they run. *)

\* JwtAuthGuard: user and role are read again for every request.
JwtAuthGuard(s) ==
  /\ status[s.sub] = "ACTIVE"
  /\ s.activeRole \in userRoles[s.sub]

AllowsPendingPassword(r) ==
  r.area = "session" /\ r.op \in {"me", "logout", "changePassword"}

PasswordChangeGuard(s, r) == mustChange[s.sub] => AllowsPendingPassword(r)

RolesGuard(s, r) == s.activeRole \in r.roles

Admitted(s, r) == JwtAuthGuard(s) /\ PasswordChangeGuard(s, r) /\ RolesGuard(s, r)

RouteOf == [id \in {<<r.area, r.op>> : r \in Routes} |->
             CHOOSE r \in Routes : <<r.area, r.op>> = id]

(* A request of a session reaches the handler of a route. *)
Handle(p, area, op, s, target, names) ==
  /\ request[p] = Idle
  /\ Admitted(s, RouteOf[area, op])
  /\ request' = [request EXCEPT ![p] = Request(op, target, names)]
  /\ UNCHANGED <<account, userRoles, roleLock, sessions, lockout>>

(* The same for a route of UsersController. *)
Administer(p, op, s, u, names) ==
  /\ operations < MaxOperations
  /\ operations' = operations + 1
  /\ Handle(p, "users", op, s, u, names)

-----------------------------------------------------------------------------
(* Sessions. *)

\* DEFAULT_ACTIVE_ROLE_ORDER, the least privileged first.
DefaultOrder == <<"SELLER", "WAREHOUSE", "MANAGEMENT", "ACCOUNTANT", "ADMIN">>

ResolveDefaultActiveRole(roles) ==
  LET first == CHOOSE i \in 1..5 :
                 /\ DefaultOrder[i] \in roles
                 /\ \A j \in 1..(i - 1) : DefaultOrder[j] \notin roles
  IN DefaultOrder[first]

\* The token goes into the cookie of the user's browser, in the place of
\* another; of two browsers of one user only the later is followed.
SignToken(u, role) ==
  LET others == {s \in sessions : s.sub # u}
  IN /\ Cardinality(others) < MaxSessions
     /\ sessions' = others \cup {[sub |-> u, activeRole |-> role]}

(* A cookie is cleared by the logout or expires. *)
LoseSession(s) ==
  /\ s \in sessions
  /\ sessions' = sessions \ {s}
  /\ UNCHANGED <<account, userRoles, roleLock, request, operations, lockout>>

(* login: the row is read, without a lock, and the password is verified      *)
(* against the hash it holds.  An account that is not ACTIVE only has its    *)
(* attempt audited.                                                          *)
StartLogin(p, u) ==
  /\ request[p] = Idle
  /\ status[u] = "ACTIVE"
  /\ request' = [request EXCEPT ![p] =
                   [Request("login", u, {}) EXCEPT !.attempts = attempts[u]]]
  /\ UNCHANGED <<account, userRoles, roleLock, sessions, operations, lockout>>

\* The password does not match.
RegisterFailedAttempt(p) ==
  LET u == request[p].target
      next == request[p].attempts + 1
  IN /\ At(p, "login", "start")
     /\ attempts' = [attempts EXCEPT ![u] = next]
     /\ IF next >= MaxAttempts
          THEN /\ status' = [status EXCEPT ![u] = "BLOCKED"]
               /\ blockedAt' = [blockedAt EXCEPT ![u] = TRUE]
               /\ lockout' = TRUE
          ELSE UNCHANGED <<status, blockedAt, lockout>>
     /\ End(p)
     /\ UNCHANGED <<mustChange, userRoles, sessions, operations>>

\* It matches.  The roles are those at the time of the update, which returns
\* them.
LoginSucceeds(p) ==
  LET u == request[p].target
  IN /\ At(p, "login", "start")
     /\ attempts' = [attempts EXCEPT ![u] = 0]
     /\ blockedAt' = [blockedAt EXCEPT ![u] = FALSE]
     /\ SignToken(u, ResolveDefaultActiveRole(userRoles[u]))
     /\ End(p)
     /\ UNCHANGED <<status, mustChange, userRoles, operations, lockout>>

(* changePassword: the current password is verified against the hash read    *)
(* before the transaction.                                                   *)
StartChangePassword(p, s) ==
  /\ Handle(p, "session", "changePassword", s, s.sub, {})
  /\ UNCHANGED operations

ChangePassword(p) ==
  LET u == request[p].target
  IN /\ At(p, "changePassword", "start")
     /\ mustChange' = [mustChange EXCEPT ![u] = FALSE]
     /\ attempts' = [attempts EXCEPT ![u] = 0]
     /\ End(p)
     /\ UNCHANGED <<status, blockedAt, userRoles, sessions, operations, lockout>>

(* switchRole: user and roles are read again; the same role is a no-op. *)
StartSwitchRole(p, s, role) ==
  /\ role # s.activeRole
  /\ Handle(p, "session", "switchRole", s, s.sub, {role})
  /\ UNCHANGED operations

SwitchRole(p) ==
  LET u == request[p].target
  IN /\ At(p, "switchRole", "start")
     /\ status[u] = "ACTIVE"
     /\ \E role \in request[p].names \cap userRoles[u] : SignToken(u, role)
     /\ End(p)
     /\ UNCHANGED <<account, userRoles, operations, lockout>>

SwitchRefused(p) ==
  /\ At(p, "switchRole", "start")
  /\ \/ status[request[p].target] # "ACTIVE"
     \/ request[p].names \cap userRoles[request[p].target] = {}
  /\ Refuse(p)

-----------------------------------------------------------------------------
(* The row of the role ADMIN. *)

LockAdminRole(p) ==
  /\ roleLock = NoRequest
  /\ roleLock' = p

\* An insertion of user_roles takes the roles it refers to FOR KEY SHARE.
MayRefer(p, names) == "ADMIN" \in names => roleLock \in {NoRequest, p}

-----------------------------------------------------------------------------
(* Operations of administrators. *)

StartCreateUser(p, s, u, names) == Administer(p, "create", s, u, names)

CreateUser(p) ==
  LET u == request[p].target
  IN /\ At(p, "create", "start")
     /\ status[u] = "NONE"
     /\ MayRefer(p, request[p].names)
     /\ status' = [status EXCEPT ![u] = "ACTIVE"]
     /\ mustChange' = [mustChange EXCEPT ![u] = TRUE]
     /\ userRoles' = [userRoles EXCEPT ![u] = request[p].names]
     /\ End(p)
     /\ UNCHANGED <<attempts, blockedAt, sessions, operations, lockout>>

\* Username and e-mail are unique.
CreateRefused(p) ==
  /\ At(p, "create", "start")
  /\ status[request[p].target] # "NONE"
  /\ Refuse(p)

(* updateUser with roleNames.  Only the input decides whether the role       *)
(* ADMIN is locked.                                                          *)
StartUpdateUser(p, s, u, names) ==
  /\ status[u] # "NONE"
  /\ Administer(p, "update", s, u, names)

IsPotentiallyAdminRemoving(p) == "ADMIN" \notin request[p].names

\* Mutated form: the decision rests on a reading that nothing protects.
UpdateUnlocked(p) ==
  /\ At(p, "update", "start")
  /\ Goto(p, "read")
  /\ UNCHANGED <<account, userRoles, roleLock, sessions, operations, lockout>>

LockForUpdate(p) ==
  /\ At(p, "update", "start")
  /\ IF IsPotentiallyAdminRemoving(p)
       THEN LockAdminRole(p)
       ELSE UNCHANGED roleLock
  /\ Goto(p, "read")
  /\ UNCHANGED <<account, userRoles, sessions, operations, lockout>>

ReadForUpdate(p) ==
  LET u == request[p].target
      losesLastActiveAdmin == /\ IsPotentiallyAdminRemoving(p)
                              /\ "ADMIN" \in userRoles[u]
                              /\ status[u] = "ACTIVE"
  IN /\ At(p, "update", "read")
     /\ Goto(p, IF losesLastActiveAdmin THEN "count" ELSE "delete")
     /\ UNCHANGED <<account, userRoles, roleLock, sessions, operations, lockout>>

CountActiveAdmins(p) ==
  /\ At(p, "update", "count")
  /\ IF Cardinality(ActiveAdmins) <= 1
       THEN Refuse(p)
       ELSE /\ Goto(p, "delete")
            /\ UNCHANGED <<account, userRoles, roleLock, sessions, operations, lockout>>

\* deleteMany sees the rows committed when it begins ...
BeginDeleteRoles(p) ==
  /\ At(p, "update", "delete")
  /\ request' = [request EXCEPT ![p].pc = "deleting",
                                ![p].rows = userRoles[request[p].target]]
  /\ UNCHANGED <<account, userRoles, roleLock, sessions, operations, lockout>>

\* ... and waits for whoever has deleted one of them.
WaitsForRows(p, q) ==
  /\ At(p, "update", "deleting")
  /\ At(q, "update", "insert")
  /\ request[p].target = request[q].target
  /\ request[p].rows \cap request[q].rows # {}

DeleteRoles(p) ==
  /\ At(p, "update", "deleting")
  /\ \A q \in Requests : ~WaitsForRows(p, q)
  /\ Goto(p, "insert")
  /\ UNCHANGED <<account, userRoles, roleLock, sessions, operations, lockout>>

\* A role the user still has violates the unique index of user_roles.
Duplicate(p) ==
  (userRoles[request[p].target] \ request[p].rows) \cap request[p].names # {}

\* When the rows are gone, those that waited skip them; the rows inserted in
\* their place are not among those they saw.
UpdateUser(p) ==
  LET u == request[p].target
      skip(q) == IF At(q, "update", "deleting") /\ request[q].target = u
                   THEN [request[q] EXCEPT !.rows = @ \ request[p].rows]
                   ELSE request[q]
  IN /\ At(p, "update", "insert")
     /\ MayRefer(p, request[p].names)
     /\ ~Duplicate(p)
     /\ userRoles' = [userRoles EXCEPT ![u] = (@ \ request[p].rows) \cup request[p].names]
     /\ request' = [q \in Requests |-> IF q = p THEN Idle ELSE skip(q)]
     /\ roleLock' = IF roleLock = p THEN NoRequest ELSE roleLock
     /\ UNCHANGED <<account, sessions, operations, lockout>>

UpdateRefused(p) ==
  /\ At(p, "update", "insert")
  /\ MayRefer(p, request[p].names)
  /\ Duplicate(p)
  /\ Refuse(p)

Circle(p, q) ==
  /\ WaitsForRows(p, q)
  /\ roleLock = p
  /\ ~MayRefer(q, request[q].names)

\* The detector of the database aborts one of a circle of two: p waits to
\* delete what q has deleted, q to refer to the role that p has locked.
BreakDeadlock(p) ==
  /\ \E q \in Requests : \/ Circle(p, q)
                         \/ Circle(q, p)
  /\ Refuse(p)

(* blockUser: nobody blocks himself; the lock is taken unconditionally. *)
StartBlockUser(p, s, u) ==
  /\ u # s.sub
  /\ status[u] # "NONE"
  /\ Administer(p, "block", s, u, {})

LockForBlock(p) ==
  /\ At(p, "block", "start")
  /\ LockAdminRole(p)
  /\ Goto(p, "read")
  /\ UNCHANGED <<account, userRoles, sessions, operations, lockout>>

ReadForBlock(p) ==
  LET u == request[p].target
  IN /\ At(p, "block", "read")
     /\ IF status[u] = "BLOCKED"
          THEN Refuse(p)
          ELSE /\ Goto(p, IF "ADMIN" \in userRoles[u] THEN "count" ELSE "write")
               /\ UNCHANGED <<account, userRoles, roleLock, sessions, operations,
                              lockout>>

CountForBlock(p) ==
  /\ At(p, "block", "count")
  /\ IF Cardinality(ActiveAdmins) <= 1
       THEN Refuse(p)
       ELSE /\ Goto(p, "write")
            /\ UNCHANGED <<account, userRoles, roleLock, sessions, operations, lockout>>

BlockUser(p) ==
  LET u == request[p].target
  IN /\ At(p, "block", "write")
     /\ status' = [status EXCEPT ![u] = "BLOCKED"]
     /\ blockedAt' = [blockedAt EXCEPT ![u] = TRUE]
     /\ End(p)
     /\ UNCHANGED <<attempts, mustChange, userRoles, sessions, operations, lockout>>

(* unblockUser and resetPassword: the status is read without a lock. *)
StartUnblockUser(p, s, u) ==
  /\ status[u] # "NONE"
  /\ Administer(p, "unblock", s, u, {})

StartResetPassword(p, s, u) ==
  /\ status[u] # "NONE"
  /\ Administer(p, "resetPassword", s, u, {})

ReadTarget(p) ==
  /\ request[p].op \in {"unblock", "resetPassword"}
  /\ request[p].pc = "start"
  /\ request' = [request EXCEPT ![p].pc = "write",
                                ![p].status = status[request[p].target]]
  /\ UNCHANGED <<account, userRoles, roleLock, sessions, operations, lockout>>

\* Mutated form: the count of failed logins is left where it was.
UnblockKeepingAttempts(p) ==
  LET u == request[p].target
  IN /\ At(p, "unblock", "write")
     /\ request[p].status = "BLOCKED"
     /\ status' = [status EXCEPT ![u] = "ACTIVE"]
     /\ blockedAt' = [blockedAt EXCEPT ![u] = FALSE]
     /\ End(p)
     /\ UNCHANGED <<attempts, mustChange, userRoles, sessions, operations, lockout>>

UnblockUser(p) ==
  LET u == request[p].target
  IN /\ At(p, "unblock", "write")
     /\ request[p].status = "BLOCKED"
     /\ status' = [status EXCEPT ![u] = "ACTIVE"]
     /\ blockedAt' = [blockedAt EXCEPT ![u] = FALSE]
     /\ attempts' = [attempts EXCEPT ![u] = 0]
     /\ End(p)
     /\ UNCHANGED <<mustChange, userRoles, sessions, operations, lockout>>

UnblockRefused(p) ==
  /\ At(p, "unblock", "write")
  /\ request[p].status # "BLOCKED"
  /\ Refuse(p)

ResetPassword(p) ==
  LET u == request[p].target
      seen == request[p].status
  IN /\ At(p, "resetPassword", "write")
     /\ status' = [status EXCEPT ![u] = IF seen = "BLOCKED" THEN "ACTIVE" ELSE seen]
     /\ blockedAt' = [blockedAt EXCEPT ![u] = FALSE]
     /\ attempts' = [attempts EXCEPT ![u] = 0]
     /\ mustChange' = [mustChange EXCEPT ![u] = TRUE]
     /\ End(p)
     /\ UNCHANGED <<userRoles, sessions, operations, lockout>>

-----------------------------------------------------------------------------
(* Whose sales and quotes a role reads and operates, once its route is       *)
(* admitted: sale-access.policy and quote-access.policy.                     *)

SaleScope(role) == CASE role \in {"ADMIN", "MANAGEMENT"} -> "ALL"
                     [] role = "SELLER" -> "OWN"
                     [] OTHER -> "NONE"

CanReadSale(role, own) == SaleScope(role) = "ALL" \/ (SaleScope(role) = "OWN" /\ own)

CanOperateSale(role, own) == role = "ADMIN" \/ (role = "SELLER" /\ own)

QuoteScope(role) == CASE role \in {"ADMIN", "MANAGEMENT"} -> "ALL"
                      [] role = "SELLER" -> "OWN"
                      [] OTHER -> "NONE"

CanReadQuote(role, own) == QuoteScope(role) = "ALL" \/ (QuoteScope(role) = "OWN" /\ own)

CanOperateQuote(role, own) == role = "ADMIN" \/ (role = "SELLER" /\ own)

CanRead(area, role, own) ==
  CASE area \in {"sales", "payments"} -> CanReadSale(role, own)
    [] area = "quotes" -> CanReadQuote(role, own)
    [] OTHER -> TRUE

CanOperate(area, role, own) ==
  CASE area \in {"sales", "payments"} -> CanOperateSale(role, own)
    [] area = "quotes" -> CanOperateQuote(role, own)
    [] OTHER -> TRUE

-----------------------------------------------------------------------------
StartOperation(p, s) ==
  \/ StartChangePassword(p, s)
  \/ \E role \in UNION RoleSets : StartSwitchRole(p, s, role)
  \/ \E u \in Users :
       \/ \E names \in RoleSets : \/ StartCreateUser(p, s, u, names)
                                 \/ StartUpdateUser(p, s, u, names)
       \/ StartBlockUser(p, s, u)
       \/ StartUnblockUser(p, s, u)
       \/ StartResetPassword(p, s, u)

Step(p) ==
  \/ RegisterFailedAttempt(p) \/ LoginSucceeds(p)
  \/ ChangePassword(p) \/ SwitchRole(p) \/ SwitchRefused(p)
  \/ CreateUser(p) \/ CreateRefused(p)
  \/ LockForUpdate(p) \/ ReadForUpdate(p) \/ CountActiveAdmins(p)
  \/ BeginDeleteRoles(p) \/ DeleteRoles(p) \/ UpdateUser(p) \/ UpdateRefused(p)
  \/ BreakDeadlock(p)
  \/ LockForBlock(p) \/ ReadForBlock(p) \/ CountForBlock(p) \/ BlockUser(p)
  \/ ReadTarget(p) \/ UnblockUser(p) \/ UnblockRefused(p) \/ ResetPassword(p)

Next ==
  \/ \E s \in sessions : LoseSession(s)
  \/ \E p \in Requests :
       \/ \E u \in Users : StartLogin(p, u)
       \/ \E s \in sessions : StartOperation(p, s)
       \/ Step(p)

Spec == Init /\ [][Next]_vars

-----------------------------------------------------------------------------
(* Every row has the values the schema gives it. *)
TypeOK ==
  /\ status \in [Users -> Status \cup {"NONE"}]
  /\ attempts \in [Users -> Nat]
  /\ blockedAt \in [Users -> BOOLEAN]
  /\ mustChange \in [Users -> BOOLEAN]
  /\ userRoles \in [Users -> SUBSET Role]
  /\ roleLock \in Requests \cup {NoRequest}
  /\ lockout \in BOOLEAN

(* Whatever administrators do to each other and to themselves, and in        *)
(* whatever order their requests run, an active ADMIN remains.  Only the     *)
(* lockout of the login, which asks nobody, can take the last one.           *)
AdminsRemain == ~lockout => ActiveAdmins # {}

(* The columns of the lockout, written by five operations that lock nothing, *)
(* stay together: an active account is below the limit of failed logins, and *)
(* only a blocked one has the date of its block.                             *)
LockoutIsCoherent ==
  \A u \in Users :
    /\ status[u] = "ACTIVE" => attempts[u] < MaxAttempts
    /\ blockedAt[u] => status[u] = "BLOCKED"

AreasRead == [role \in Role |->
               {r.area : r \in {q \in Routes : ~q.writes /\ role \in q.roles}}]

(* Roles keep to their duties: management changes nothing, accountants only  *)
(* their manual entries, the warehouse only the stock; who may change        *)
(* something in an area also reads there; and a seller, once admitted to a   *)
(* route of sales, payments or quotes, is not refused everything by their    *)
(* access policy.                                                            *)
RolesKeepToTheirDuties ==
  \A s \in {x \in sessions : JwtAuthGuard(x)} : \A r \in Routes \ SessionRoutes :
    Admitted(s, r) =>
      /\ r.writes =>
           /\ s.activeRole \in {"ADMIN", "SELLER"}
                \/ <<s.activeRole, r.area>> \in {<<"ACCOUNTANT", "manualEntries">>,
                                                <<"WAREHOUSE", "inventory">>}
           /\ r.area \in AreasRead[s.activeRole]
           /\ CanOperate(r.area, s.activeRole, TRUE)
      /\ CanRead(r.area, s.activeRole, TRUE)
=============================================================================
