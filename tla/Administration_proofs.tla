------------------------ MODULE Administration_proofs ------------------------
(***************************************************************************)
(* Proofs about what administrators keep, for every number of users,       *)
(* requests, rows and documents:                                           *)
(*   - Access: the system keeps an active ADMIN, the columns of the        *)
(*     lockout of a user stay together, and roles keep to their duties     *)
(*     over the whole table of routes;                                     *)
(*   - SaleIntake: a sale is confirmed against rows that still allow it;   *)
(*   - ProductImages: a listed image can be opened, and one is primary;    *)
(*   - CatalogViews: the lists and the pages of a role agree;              *)
(*   - DocumentSequences: no document repeats a number;                    *)
(*   - Catalog: the tree of categories stands, for one administrator.      *)
(***************************************************************************)
EXTENDS Access, CatalogViews, SaleIntake, DocumentSequences, RecursionTheorems

-----------------------------------------------------------------------------
(* The inductive invariant. *)

Operation == {"create", "update", "block", "unblock", "resetPassword", "login",
              "changePassword", "switchRole"}

Place == {"start", "read", "count", "delete", "deleting", "insert", "write"}

Handled == [op : Operation, pc : Place, target : Users, names : SUBSET Role,
            status : {"ACTIVE", "BLOCKED", "NONE"}, attempts : Nat,
            rows : SUBSET Role]

\* Nothing makes an account INACTIVE.
Shape ==
  /\ status \in [Users -> {"ACTIVE", "BLOCKED", "NONE"}]
  /\ attempts \in [Users -> Nat]
  /\ userRoles \in [Users -> SUBSET Role]
  /\ lockout \in BOOLEAN
  /\ request \in [Requests -> Handled \cup {Idle}]

\* A request that has locked the role ADMIN, because it may take one away.
Removes(p) ==
  \/ /\ request[p].op = "block"
     /\ request[p].pc # "start"
  \/ /\ request[p].op = "update"
     /\ request[p].pc # "start"
     /\ "ADMIN" \notin request[p].names

\* Such a request that has found that it may.
Decided(p) == Removes(p) /\ request[p].pc \notin {"read", "count"}

\* What it has found stays true until it writes: an active ADMIN other than
\* its target, or a target without the role.
AnotherStays(p) ==
  \/ lockout
  \/ "ADMIN" \notin userRoles[request[p].target]
  \/ \E a \in ActiveAdmins : a # request[p].target

\* A user who is unblocked or given a password exists, and was seen to exist.
Existing ==
  \A p \in Requests :
    request[p].op \in {"unblock", "resetPassword"} =>
      /\ status[request[p].target] # "NONE"
      /\ request[p].pc = "write" => request[p].status # "NONE"

LockHeld == \A p \in Requests : Removes(p) => roleLock = p

Founded == \A p \in Requests : Decided(p) => AnotherStays(p)

IInv == Shape /\ Existing /\ LockHeld /\ Founded /\ AdminsRemain

-----------------------------------------------------------------------------
\* Of two users one is not a given one.
LEMMA AnotherOfTwo ==
  ASSUME NEW u, Cardinality(ActiveAdmins) > 1
  PROVE  \E a \in ActiveAdmins : a # u
<1>1. IsFiniteSet(ActiveAdmins)
  <2>1. ActiveAdmins \subseteq Users
    BY DEF ActiveAdmins
  <2>2. QED
    BY <2>1, FS_Subset, AccessAssumption
<1>2. SUFFICES ASSUME ActiveAdmins \subseteq {u}
               PROVE  FALSE
  OBVIOUS
<1>3. Cardinality(ActiveAdmins) <= Cardinality({u})
  BY <1>2, FS_Singleton, FS_Subset
<1>4. Cardinality({u}) = 1
  BY FS_Singleton
<1>5. Cardinality(ActiveAdmins) \in Nat
  BY <1>1, FS_CardinalityType
<1>6. QED
  BY <1>3, <1>4, <1>5

(* An active ADMIN other than u is left when u is not the only one.          *)
LEMMA AnotherIfNotOne ==
  ASSUME NEW u, ~(Cardinality(ActiveAdmins) <= 1)
  PROVE  \E a \in ActiveAdmins : a # u
<1>1. ActiveAdmins \subseteq Users
  BY DEF ActiveAdmins
<1>2. Cardinality(ActiveAdmins) \in Nat
  BY <1>1, FS_Subset, FS_CardinalityType, AccessAssumption
<1>3. QED
  BY <1>2, AnotherOfTwo

\* Some other request is past its lock only while it holds the lock.
LEMMA NobodyElseRemoves ==
  ASSUME LockHeld, NEW p \in Requests, roleLock \in {NoRequest, p}
  PROVE  \A q \in Requests \ {p} : ~Removes(q)
BY AccessAssumption DEF LockHeld

\* What the others rely on survives a step that takes nothing from them: it
\* leaves their requests and locks alone, and no active ADMIN is lost; and
\* nobody is made ADMIN while another is past its lock.
LEMMA OthersStand ==
  ASSUME IInv, NEW p \in Requests,
         \A q \in Requests \ {p} :
           /\ request'[q].op = request[q].op
           /\ request'[q].pc = request[q].pc
           /\ request'[q].names = request[q].names
           /\ request'[q].target = request[q].target
           /\ roleLock = q => roleLock' = q,
         lockout => lockout',
         lockout' \/ ActiveAdmins \subseteq ActiveAdmins',
         \/ \A q \in Requests \ {p} : ~Removes(q)
         \/ \A q \in Requests \ {p} :
              Removes(q) => ("ADMIN" \in userRoles[request[q].target]'
                               => "ADMIN" \in userRoles[request[q].target])
  PROVE  /\ AdminsRemain'
         /\ \A q \in Requests \ {p} : (Removes(q) => roleLock = q)'
         /\ \A q \in Requests \ {p} : (Decided(q) => AnotherStays(q))'
<1>1. AdminsRemain'
  BY DEF IInv, AdminsRemain
<1>2. ASSUME NEW q \in Requests \ {p}
      PROVE  (Removes(q) => roleLock = q)'
  BY <1>2 DEF IInv, LockHeld, Removes
<1>3. ASSUME NEW q \in Requests \ {p}
      PROVE  (Decided(q) => AnotherStays(q))'
  <2>1. CASE ~Removes(q)
    BY <2>1, <1>3 DEF Decided, Removes
  <2>2. CASE Removes(q)
    <3>1. Decided(q)' => Decided(q)
      BY <1>3 DEF Decided, Removes
    <3>2. Decided(q) => AnotherStays(q)
      BY <1>3 DEF IInv, Founded
    <3>3. "ADMIN" \in userRoles[request[q].target]' => "ADMIN" \in userRoles[request[q].target]
      BY <2>2, <1>3
    <3>4. request'[q].target = request[q].target
      BY <1>3
    <3>5. QED
      BY <3>1, <3>2, <3>3, <3>4 DEF AnotherStays
  <2>3. QED
    BY <2>1, <2>2
<1>4. QED
  BY <1>1, <1>2, <1>3

\* A request that ends, whatever its transaction did, leaves nothing to show
\* of itself.
LEMMA Ended ==
  ASSUME IInv, NEW p \in Requests, Shape', request'[p] = Idle,
         \A q \in Requests \ {p} :
           /\ request'[q].op = request[q].op
           /\ request'[q].pc = request[q].pc
           /\ request'[q].names = request[q].names
           /\ request'[q].target = request[q].target
           /\ request'[q].status = request[q].status,
         \A u \in Users : status[u] # "NONE" => status'[u] # "NONE",
         AdminsRemain',
         \A q \in Requests \ {p} : (Removes(q) => roleLock = q)',
         \A q \in Requests \ {p} : (Decided(q) => AnotherStays(q))'
  PROVE  IInv'
<1>1. request'[p].op = "none"
  BY DEF Idle
<1>2. ~Removes(p)' /\ ~Decided(p)'
  BY <1>1 DEF Removes, Decided
<1>3. Existing'
  <2>1. SUFFICES ASSUME NEW q \in Requests, request'[q].op \in {"unblock", "resetPassword"}
                 PROVE  /\ status'[request'[q].target] # "NONE"
                        /\ request'[q].pc = "write" => request'[q].status # "NONE"
    BY DEF Existing
  <2>2. q # p /\ request[q].op \in {"unblock", "resetPassword"}
    BY <1>1, <2>1
  <2>3. request[q].target \in Users
    BY <2>2 DEF IInv, Shape, Handled, Idle
  <2>4. QED
    BY <2>2, <2>3 DEF IInv, Existing
<1>4. QED
  BY <1>2, <1>3 DEF IInv, LockHeld, Founded

\* The end of a request touches only the request and its own lock.
LEMMA EndFrame ==
  ASSUME Shape, NEW p \in Requests, End(p)
  PROVE  /\ request' \in [Requests -> Handled \cup {Idle}]
         /\ request'[p] = Idle
         /\ \A q \in Requests \ {p} : request'[q] = request[q]
         /\ \A q \in Requests \ {p} : roleLock = q => roleLock' = q
BY DEF Shape, End

\* A step within a request that changes nothing but where it stands and what
\* it has read.
LEMMA Moved ==
  ASSUME IInv, NEW p \in Requests, NEW r \in Handled,
         request' = [request EXCEPT ![p] = r],
         r.op = request[p].op, r.names = request[p].names, r.target = request[p].target,
         r.op \in {"unblock", "resetPassword"} /\ r.pc = "write" => r.status # "NONE",
         \A q \in Requests \ {p} : roleLock = q => roleLock' = q,
         Removes(p)' => roleLock' = p,
         Decided(p)' => AnotherStays(p),
         UNCHANGED <<account, userRoles, lockout>>
  PROVE  IInv'
<1>1. Shape' /\ \A q \in Requests \ {p} : request'[q] = request[q]
  BY DEF IInv, Shape, account
<1>2. request'[p] = r
  BY DEF IInv, Shape
<1>3. ActiveAdmins' = ActiveAdmins
  BY DEF ActiveAdmins, account
<1>4. /\ AdminsRemain'
      /\ \A q \in Requests \ {p} : (Removes(q) => roleLock = q)'
      /\ \A q \in Requests \ {p} : (Decided(q) => AnotherStays(q))'
  BY <1>1, <1>3, OthersStand
<1>5. Existing'
  <2>1. SUFFICES ASSUME NEW q \in Requests, request'[q].op \in {"unblock", "resetPassword"}
                 PROVE  /\ status'[request'[q].target] # "NONE"
                        /\ request'[q].pc = "write" => request'[q].status # "NONE"
    BY DEF Existing
  <2>2. CASE q = p
    BY <2>1, <2>2, <1>2 DEF IInv, Existing, account
  <2>3. CASE q # p
    BY <2>1, <2>3, <1>1 DEF IInv, Existing, account
  <2>4. QED
    BY <2>2, <2>3
<1>6. (Decided(p) => AnotherStays(p))'
  BY <1>2, <1>3 DEF AnotherStays, account
<1>7. QED
  BY <1>1, <1>4, <1>5, <1>6 DEF IInv, LockHeld, Founded

\* A request that ends and changes neither a status, a role nor a lockout.
LEMMA EndedQuietly ==
  ASSUME IInv, NEW p \in Requests, End(p), attempts' \in [Users -> Nat],
         UNCHANGED <<status, userRoles, lockout>>
  PROVE  IInv'
<1>1. /\ request' \in [Requests -> Handled \cup {Idle}]
      /\ request'[p] = Idle
      /\ \A q \in Requests \ {p} : request'[q] = request[q]
      /\ \A q \in Requests \ {p} : roleLock = q => roleLock' = q
  BY EndFrame DEF IInv
<1>2. Shape'
  BY <1>1 DEF IInv, Shape
<1>3. ActiveAdmins' = ActiveAdmins
  BY DEF ActiveAdmins
<1>4. /\ AdminsRemain'
      /\ \A q \in Requests \ {p} : (Removes(q) => roleLock = q)'
      /\ \A q \in Requests \ {p} : (Decided(q) => AnotherStays(q))'
  BY <1>1, <1>3, OthersStand
<1>5. QED
  BY <1>1, <1>2, <1>4, Ended

(* A refusal ends the request and changes no row.                            *)
LEMMA RefusedKeeps ==
  ASSUME IInv, NEW p \in Requests, Refuse(p)
  PROVE  IInv'
BY EndedQuietly DEF Refuse, account, IInv, Shape

\* A request that begins is before its lock.
LEMMA BegunKeeps ==
  ASSUME IInv, NEW p \in Requests, NEW r \in Handled, r.pc = "start",
         request' = [request EXCEPT ![p] = r],
         r.op \in {"unblock", "resetPassword"} => status[r.target] # "NONE",
         UNCHANGED <<account, userRoles, roleLock, lockout>>
  PROVE  IInv'
<1>1. Shape' /\ request'[p] = r /\ \A q \in Requests \ {p} : request'[q] = request[q]
  BY DEF IInv, Shape, account
<1>2. ActiveAdmins' = ActiveAdmins
  BY DEF ActiveAdmins, account
<1>3. /\ AdminsRemain'
      /\ \A q \in Requests \ {p} : (Removes(q) => roleLock = q)'
      /\ \A q \in Requests \ {p} : (Decided(q) => AnotherStays(q))'
  BY <1>1, <1>2, OthersStand
<1>4. ~Removes(p)' /\ ~Decided(p)'
  BY <1>1 DEF Removes, Decided
<1>5. Existing'
  BY <1>1 DEF IInv, Existing, account
<1>6. QED
  BY <1>1, <1>3, <1>4, <1>5 DEF IInv, LockHeld, Founded

-----------------------------------------------------------------------------
(* The operations that write. *)

(* A failed login may block, which only the lockout flag excuses.            *)
LEMMA RegisterFailedAttemptKeeps ==
  ASSUME IInv, NEW p \in Requests, RegisterFailedAttempt(p)
  PROVE  IInv'
<1> DEFINE u == request[p].target
<1>1. /\ request' \in [Requests -> Handled \cup {Idle}]
      /\ request'[p] = Idle
      /\ \A q \in Requests \ {p} : request'[q] = request[q]
      /\ \A q \in Requests \ {p} : roleLock = q => roleLock' = q
  BY EndFrame DEF IInv, RegisterFailedAttempt
<1>2. request[p] \in Handled
  BY DEF IInv, Shape, RegisterFailedAttempt, At, Idle
<1>3. Shape' /\ \A x \in Users : status[x] # "NONE" => status'[x] # "NONE"
  <2>1. u \in Users /\ request[p].attempts + 1 \in Nat
    BY <1>2 DEF Handled
  <2>2. attempts' \in [Users -> Nat]
    BY <2>1 DEF IInv, Shape, RegisterFailedAttempt
  <2>3. status' \in {status, [status EXCEPT ![u] = "BLOCKED"]} /\ lockout' \in BOOLEAN
    BY DEF IInv, Shape, RegisterFailedAttempt
  <2>4. userRoles' = userRoles
    BY DEF RegisterFailedAttempt
  <2>5. QED
    BY <1>1, <2>1, <2>2, <2>3, <2>4 DEF IInv, Shape
<1>4. lockout' \/ ActiveAdmins \subseteq ActiveAdmins'
  BY DEF RegisterFailedAttempt, ActiveAdmins
<1>5. (lockout => lockout') /\ userRoles' = userRoles
  BY DEF RegisterFailedAttempt
<1>6. /\ AdminsRemain'
      /\ \A q \in Requests \ {p} : (Removes(q) => roleLock = q)'
      /\ \A q \in Requests \ {p} : (Decided(q) => AnotherStays(q))'
  BY <1>1, <1>4, <1>5, OthersStand
<1>7. QED
  BY <1>1, <1>3, <1>6, Ended

(* A creation only adds a user.                                              *)
LEMMA CreateUserKeeps ==
  ASSUME IInv, NEW p \in Requests, CreateUser(p)
  PROVE  IInv'
<1> DEFINE u == request[p].target
<1>1. /\ request' \in [Requests -> Handled \cup {Idle}]
      /\ request'[p] = Idle
      /\ \A q \in Requests \ {p} : request'[q] = request[q]
      /\ \A q \in Requests \ {p} : roleLock = q => roleLock' = q
  BY EndFrame DEF IInv, CreateUser
<1>2. request[p] \in Handled
  BY DEF IInv, Shape, CreateUser, At, Idle
<1>3. u \in Users /\ request[p].names \in SUBSET Role
  BY <1>2 DEF Handled
<1>4. Shape' /\ \A x \in Users : status[x] # "NONE" => status'[x] # "NONE"
  BY <1>1, <1>3 DEF IInv, Shape, CreateUser
<1>5. ActiveAdmins \subseteq ActiveAdmins'
  <2>1. SUFFICES ASSUME NEW a \in ActiveAdmins
                 PROVE  a \in ActiveAdmins'
    OBVIOUS
  <2>2. a # u /\ a \in Users
    BY DEF ActiveAdmins, CreateUser
  <2>3. status'[a] = status[a] /\ userRoles'[a] = userRoles[a]
    BY <2>2 DEF CreateUser, IInv, Shape
  <2>4. QED
    BY <2>2, <2>3 DEF ActiveAdmins
<1>6. \/ \A q \in Requests \ {p} : ~Removes(q)
      \/ \A q \in Requests \ {p} :
           Removes(q) => ("ADMIN" \in userRoles[request[q].target]'
                            => "ADMIN" \in userRoles[request[q].target])
  <2>1. CASE "ADMIN" \in request[p].names
    BY <2>1, NobodyElseRemoves DEF CreateUser, MayRefer, IInv
  <2>2. CASE "ADMIN" \notin request[p].names
    <3>1. ASSUME NEW q \in Requests \ {p}, Removes(q),
                 "ADMIN" \in userRoles[request[q].target]'
          PROVE  "ADMIN" \in userRoles[request[q].target]
      <4>1. request'[q].target = request[q].target
        BY <1>1
      <4>2. request[q].target \in Users
        BY <3>1 DEF IInv, Shape, Handled, Idle, Removes
      <4>3. userRoles'[request[q].target] \in {userRoles[request[q].target], request[p].names}
        BY <4>2 DEF CreateUser, IInv, Shape
      <4>4. QED
        BY <2>2, <3>1, <4>1, <4>3
    <3>2. QED
      BY <3>1
  <2>3. QED
    BY <2>1, <2>2
<1>7. /\ AdminsRemain'
      /\ \A q \in Requests \ {p} : (Removes(q) => roleLock = q)'
      /\ \A q \in Requests \ {p} : (Decided(q) => AnotherStays(q))'
  <2>1. lockout => lockout'
    BY DEF CreateUser
  <2>2. QED
    BY <2>1, <1>1, <1>5, <1>6, OthersStand
<1>8. QED
  BY <1>1, <1>4, <1>7, Ended

\* Whoever replaces roles either keeps the target an ADMIN or has decided that
\* another stays; nobody else is past the lock in either case.
LEMMA UpdateUserKeeps ==
  ASSUME IInv, NEW p \in Requests, UpdateUser(p)
  PROVE  IInv'
<1> DEFINE u == request[p].target
<1>1. request[p] \in Handled
  BY DEF IInv, Shape, UpdateUser, At, Idle
<1>2. u \in Users /\ request[p].names \in SUBSET Role
  BY <1>1 DEF Handled
<1>3. ASSUME NEW q \in Requests \ {p}
      PROVE  /\ request'[q] \in Handled \cup {Idle}
             /\ request'[q].op = request[q].op
             /\ request'[q].pc = request[q].pc
             /\ request'[q].names = request[q].names
             /\ request'[q].target = request[q].target
             /\ request'[q].status = request[q].status
             /\ roleLock = q => roleLock' = q
  <2>1. \/ request'[q] = request[q]
        \/ /\ At(q, "update", "deleting")
           /\ request'[q] = [request[q] EXCEPT !.rows = @ \ request[p].rows]
    BY <1>3 DEF UpdateUser
  <2>2. request[q] \in Handled \cup {Idle}
    BY DEF IInv, Shape
  <2>3. At(q, "update", "deleting") => request[q] \in Handled
    BY <2>2 DEF At, Idle
  <2>4. roleLock = q => roleLock' = q
    BY <1>3 DEF UpdateUser
  <2>5. QED
    BY <2>1, <2>2, <2>3, <2>4 DEF Handled
<1>4. request'[p] = Idle
  BY DEF UpdateUser
<1>5. Shape' /\ \A x \in Users : status[x] # "NONE" => status'[x] # "NONE"
  <2>1. request' \in [Requests -> Handled \cup {Idle}]
    <3>1. request' = [q \in Requests |-> request'[q]]
      BY DEF UpdateUser
    <3>2. QED
      BY <3>1, <1>3, <1>4
  <2>2. QED
    BY <2>1, <1>2 DEF IInv, Shape, UpdateUser, account
<1>6. \A q \in Requests \ {p} : ~Removes(q)
  <2>1. CASE "ADMIN" \in request[p].names
    BY <2>1, NobodyElseRemoves DEF UpdateUser, MayRefer, IInv
  <2>2. CASE "ADMIN" \notin request[p].names
    <3>1. Removes(p)
      BY <2>2 DEF UpdateUser, At, Removes
    <3>2. QED
      BY <3>1, NobodyElseRemoves DEF IInv, LockHeld
  <2>3. QED
    BY <2>1, <2>2
<1>7. lockout' = lockout /\ status' = status
  BY DEF UpdateUser, account
<1>8. \A a \in Users \ {u} : userRoles'[a] = userRoles[a]
  BY DEF UpdateUser, IInv, Shape
<1>9. \A a \in ActiveAdmins \ {u} : a \in ActiveAdmins'
  BY <1>7, <1>8 DEF ActiveAdmins
<1>10. AdminsRemain'
  <2>1. CASE "ADMIN" \in request[p].names
    <3>1. "ADMIN" \in userRoles'[u]
      BY <2>1, <1>2 DEF UpdateUser, IInv, Shape
    <3>2. ActiveAdmins \subseteq ActiveAdmins'
      BY <3>1, <1>2, <1>7, <1>9 DEF ActiveAdmins
    <3>3. QED
      BY <3>2, <1>7 DEF IInv, AdminsRemain
  <2>2. CASE "ADMIN" \notin request[p].names
    <3>1. Decided(p)
      BY <2>2 DEF UpdateUser, At, Removes, Decided
    <3>2. AnotherStays(p)
      BY <3>1 DEF IInv, Founded
    <3>3. CASE lockout
      BY <3>3, <1>7 DEF AdminsRemain
    <3>4. CASE "ADMIN" \notin userRoles[u]
      <4>1. u \notin ActiveAdmins
        BY <3>4 DEF ActiveAdmins
      <4>2. QED
        BY <4>1, <1>7, <1>9 DEF IInv, AdminsRemain
    <3>5. CASE \E a \in ActiveAdmins : a # u
      BY <3>5, <1>9 DEF AdminsRemain
    <3>6. QED
      BY <3>2, <3>3, <3>4, <3>5 DEF AnotherStays
  <2>3. QED
    BY <2>1, <2>2
<1>11. \A q \in Requests \ {p} : ~Removes(q)' /\ ~Decided(q)'
  BY <1>3, <1>6 DEF Removes, Decided
<1>12. QED
  BY <1>3, <1>4, <1>5, <1>10, <1>11, Ended

(* A block of an ADMIN is preceded by a count under the lock.                *)
LEMMA BlockUserKeeps ==
  ASSUME IInv, NEW p \in Requests, BlockUser(p)
  PROVE  IInv'
<1> DEFINE u == request[p].target
<1>1. /\ request' \in [Requests -> Handled \cup {Idle}]
      /\ request'[p] = Idle
      /\ \A q \in Requests \ {p} : request'[q] = request[q]
  BY EndFrame DEF IInv, BlockUser
<1>2. request[p] \in Handled
  BY DEF IInv, Shape, BlockUser, At, Idle
<1>3. u \in Users
  BY <1>2 DEF Handled
<1>4. Shape' /\ \A x \in Users : status[x] # "NONE" => status'[x] # "NONE"
  BY <1>1, <1>3 DEF IInv, Shape, BlockUser
<1>5. Decided(p) /\ AnotherStays(p) /\ roleLock = p
  <2>1. Removes(p) /\ Decided(p)
    BY DEF BlockUser, At, Removes, Decided
  <2>2. QED
    BY <2>1 DEF IInv, Founded, LockHeld
<1>6. \A q \in Requests \ {p} : ~Removes(q)' /\ ~Decided(q)'
  <2>1. \A q \in Requests \ {p} : ~Removes(q)
    BY <1>5, NobodyElseRemoves DEF IInv
  <2>2. QED
    BY <2>1, <1>1 DEF Removes, Decided
<1>7. \A a \in ActiveAdmins \ {u} : a \in ActiveAdmins'
  BY DEF ActiveAdmins, BlockUser, IInv, Shape
<1>8. AdminsRemain'
  <2>1. CASE lockout
    BY <2>1 DEF AdminsRemain, BlockUser
  <2>2. CASE "ADMIN" \notin userRoles[u]
    <3>1. u \notin ActiveAdmins
      BY <2>2 DEF ActiveAdmins
    <3>2. QED
      BY <3>1, <1>7 DEF IInv, AdminsRemain, BlockUser
  <2>3. CASE \E a \in ActiveAdmins : a # u
    BY <2>3, <1>7 DEF AdminsRemain
  <2>4. QED
    BY <1>5, <2>1, <2>2, <2>3 DEF AnotherStays
<1>9. QED
  BY <1>1, <1>4, <1>6, <1>8, Ended

\* Unblocking and resetting leave an account ACTIVE.
LEMMA RestoredKeeps ==
  ASSUME IInv, NEW p \in Requests, UnblockUser(p) \/ ResetPassword(p)
  PROVE  IInv'
<1> DEFINE u == request[p].target
<1>1. /\ request' \in [Requests -> Handled \cup {Idle}]
      /\ request'[p] = Idle
      /\ \A q \in Requests \ {p} : request'[q] = request[q]
      /\ \A q \in Requests \ {p} : roleLock = q => roleLock' = q
  BY EndFrame DEF IInv, UnblockUser, ResetPassword
<1>2. request[p] \in Handled
  BY DEF IInv, Shape, UnblockUser, ResetPassword, At, Idle
<1>3. u \in Users /\ request[p].status \in {"ACTIVE", "BLOCKED"}
  BY <1>2 DEF Handled, IInv, Existing, UnblockUser, ResetPassword, At
<1>4. status' = [status EXCEPT ![u] = "ACTIVE"]
  BY <1>3 DEF UnblockUser, ResetPassword
<1>5. Shape' /\ \A x \in Users : status[x] # "NONE" => status'[x] # "NONE"
  BY <1>1, <1>3, <1>4 DEF IInv, Shape, UnblockUser, ResetPassword
<1>6. lockout' = lockout /\ userRoles' = userRoles
  BY DEF UnblockUser, ResetPassword
<1>7. ActiveAdmins \subseteq ActiveAdmins'
  BY <1>4, <1>6 DEF ActiveAdmins, IInv, Shape
<1>8. /\ AdminsRemain'
      /\ \A q \in Requests \ {p} : (Removes(q) => roleLock = q)'
      /\ \A q \in Requests \ {p} : (Decided(q) => AnotherStays(q))'
  BY <1>1, <1>6, <1>7, OthersStand
<1>9. QED
  BY <1>1, <1>5, <1>8, Ended
-----------------------------------------------------------------------------
(* Steps that only read, or lock. *)

\* What a step that moves a request leaves in its record.
LEMMA MovedRecord ==
  ASSUME Shape, NEW p \in Requests, request[p].op # "none", NEW place \in Place
  PROVE  LET r == [request[p] EXCEPT !.pc = place]
         IN /\ r \in Handled
            /\ r.pc = place
            /\ r.op = request[p].op
            /\ r.names = request[p].names
            /\ r.target = request[p].target
            /\ r.status = request[p].status
            /\ request' = [request EXCEPT ![p].pc = place] => request' = [request EXCEPT ![p] = r]
<1>1. request[p] \in Handled
  BY DEF Shape, Idle
<1>2. QED
  BY <1>1 DEF Handled

(* Taking the lock of the ADMIN role before an update.                       *)
LEMMA LockForUpdateKeeps ==
  ASSUME IInv, NEW p \in Requests, LockForUpdate(p)
  PROVE  IInv'
<1> DEFINE r == [request[p] EXCEPT !.pc = "read"]
<1>1. request[p].op = "update" /\ "read" \in Place /\ request[p].op # "none"
  BY DEF LockForUpdate, At, Place
<1>2. /\ r \in Handled /\ r.pc = "read" /\ r.op = "update"
      /\ r.names = request[p].names /\ r.target = request[p].target
      /\ request' = [request EXCEPT ![p] = r]
  BY <1>1, MovedRecord DEF LockForUpdate, Goto, IInv
<1>3. request'[p] = r
  BY <1>2 DEF IInv, Shape
<1>4. Removes(p)' => roleLock' = p
  BY <1>2, <1>3 DEF Removes, LockForUpdate, IsPotentiallyAdminRemoving, LockAdminRole
<1>5. ~Decided(p)'
  BY <1>2, <1>3 DEF Decided
<1>6. \A q \in Requests \ {p} : roleLock = q => roleLock' = q
  BY AccessAssumption DEF LockForUpdate, LockAdminRole
<1>7. UNCHANGED <<account, userRoles, lockout>>
  BY DEF LockForUpdate
<1>8. QED
  BY <1>1, <1>2, <1>4, <1>5, <1>6, <1>7, Moved

(* Taking the lock of the ADMIN role before a block.                         *)
LEMMA LockForBlockKeeps ==
  ASSUME IInv, NEW p \in Requests, LockForBlock(p)
  PROVE  IInv'
<1> DEFINE r == [request[p] EXCEPT !.pc = "read"]
<1>1. request[p].op = "block" /\ "read" \in Place /\ request[p].op # "none"
  BY DEF LockForBlock, At, Place
<1>2. /\ r \in Handled /\ r.pc = "read" /\ r.op = "block"
      /\ r.names = request[p].names /\ r.target = request[p].target
      /\ request' = [request EXCEPT ![p] = r]
  BY <1>1, MovedRecord DEF LockForBlock, Goto, IInv
<1>3. request'[p] = r
  BY <1>2 DEF IInv, Shape
<1>4. ~Decided(p)'
  BY <1>2, <1>3 DEF Decided
<1>5. roleLock' = p /\ \A q \in Requests \ {p} : roleLock = q => roleLock' = q
  BY AccessAssumption DEF LockForBlock, LockAdminRole
<1>6. UNCHANGED <<account, userRoles, lockout>>
  BY DEF LockForBlock
<1>7. QED
  BY <1>1, <1>2, <1>4, <1>5, <1>6, Moved

\* Past the lock, a request goes on to write only if another ADMIN stays.
LEMMA LockedMoveKeeps ==
  ASSUME IInv, NEW p \in Requests, request[p].op \in {"update", "block"},
         request[p].pc # "start", NEW place \in Place, place # "start",
         Goto(p, place), UNCHANGED <<account, userRoles, roleLock, lockout>>,
         /\ Removes(p)
         /\ place \notin {"read", "count"}
         => AnotherStays(p)
  PROVE  IInv'
<1> DEFINE r == [request[p] EXCEPT !.pc = place]
<1>1. /\ r \in Handled /\ r.pc = place /\ r.op = request[p].op
      /\ r.names = request[p].names /\ r.target = request[p].target
      /\ request' = [request EXCEPT ![p] = r]
  BY MovedRecord DEF Goto, IInv
<1>2. request'[p] = r
  BY <1>1 DEF IInv, Shape
<1>3. Removes(p)' => Removes(p)
  BY <1>1, <1>2 DEF Removes
<1>4. Removes(p)' => roleLock' = p
  BY <1>3 DEF IInv, LockHeld
<1>5. Decided(p)' => AnotherStays(p)
  BY <1>1, <1>2, <1>3 DEF Decided
<1>6. QED
  BY <1>1, <1>4, <1>5, Moved

\* A user who is not ACTIVE leaves the active ADMIN to another.
LEMMA InactiveTarget ==
  ASSUME IInv, NEW p \in Requests, status[request[p].target] # "ACTIVE"
  PROVE  AnotherStays(p)
BY DEF IInv, AdminsRemain, ActiveAdmins, AnotherStays

(* The reads of an update and of a block remember what stays true under the lock. *)
LEMMA ReadsKeep ==
  ASSUME IInv, NEW p \in Requests,
         \/ ReadForUpdate(p) \/ CountActiveAdmins(p) \/ DeleteRoles(p)
         \/ ReadForBlock(p) \/ CountForBlock(p)
  PROVE  IInv'
<1>0. {"count", "delete", "insert", "write"} \subseteq Place
  BY DEF Place
<1>1. CASE ReadForUpdate(p)
  <2>1. CASE /\ IsPotentiallyAdminRemoving(p)
             /\ "ADMIN" \in userRoles[request[p].target]
             /\ status[request[p].target] = "ACTIVE"
    BY <1>0, <1>1, <2>1, LockedMoveKeeps DEF ReadForUpdate, At
  <2>2. CASE ~ /\ IsPotentiallyAdminRemoving(p)
               /\ "ADMIN" \in userRoles[request[p].target]
               /\ status[request[p].target] = "ACTIVE"
    <3>1. request[p].op = "update" /\ request[p].pc = "read" /\ Goto(p, "delete")
      BY <1>1, <2>2 DEF ReadForUpdate, At
    <3>2. Removes(p) => AnotherStays(p)
      BY <2>2, <3>1, InactiveTarget DEF Removes, AnotherStays, IsPotentiallyAdminRemoving
    <3>3. UNCHANGED <<account, userRoles, roleLock, lockout>>
      BY <1>1 DEF ReadForUpdate
    <3>4. QED
      BY <1>0, <3>1, <3>2, <3>3, LockedMoveKeeps
  <2>3. QED
    BY <2>1, <2>2
<1>2. CASE CountActiveAdmins(p)
  <2>1. CASE Cardinality(ActiveAdmins) <= 1
    BY <1>2, <2>1, RefusedKeeps DEF CountActiveAdmins
  <2>2. CASE ~(Cardinality(ActiveAdmins) <= 1)
    <3>1. AnotherStays(p)
      BY <2>2, AnotherIfNotOne DEF AnotherStays
    <3>2. QED
      BY <1>0, <1>2, <2>2, <3>1, LockedMoveKeeps DEF CountActiveAdmins, At
  <2>3. QED
    BY <2>1, <2>2
<1>3. CASE DeleteRoles(p)
  <2>1. Removes(p) => AnotherStays(p)
    BY <1>3 DEF DeleteRoles, At, Decided, IInv, Founded
  <2>2. QED
    BY <1>0, <1>3, <2>1, LockedMoveKeeps DEF DeleteRoles, At
<1>4. CASE ReadForBlock(p)
  <2>1. CASE status[request[p].target] = "BLOCKED"
    BY <1>4, <2>1, RefusedKeeps DEF ReadForBlock
  <2>2. CASE status[request[p].target] # "BLOCKED" /\ "ADMIN" \in userRoles[request[p].target]
    BY <1>0, <1>4, <2>2, LockedMoveKeeps DEF ReadForBlock, At
  <2>3. CASE status[request[p].target] # "BLOCKED" /\ "ADMIN" \notin userRoles[request[p].target]
    BY <1>0, <1>4, <2>3, LockedMoveKeeps DEF ReadForBlock, At, AnotherStays
  <2>4. QED
    BY <2>1, <2>2, <2>3
<1>5. CASE CountForBlock(p)
  <2>1. CASE Cardinality(ActiveAdmins) <= 1
    BY <1>5, <2>1, RefusedKeeps DEF CountForBlock
  <2>2. CASE ~(Cardinality(ActiveAdmins) <= 1)
    <3>1. AnotherStays(p)
      BY <2>2, AnotherIfNotOne DEF AnotherStays
    <3>2. QED
      BY <1>0, <1>5, <2>2, <3>1, LockedMoveKeeps DEF CountForBlock, At
  <2>3. QED
    BY <2>1, <2>2
<1>6. QED
  BY <1>1, <1>2, <1>3, <1>4, <1>5

(* The beginning of the replacement of roles changes no row of users.        *)
LEMMA BeginDeleteRolesKeeps ==
  ASSUME IInv, NEW p \in Requests, BeginDeleteRoles(p)
  PROVE  IInv'
<1> DEFINE r == [request[p] EXCEPT !.pc = "deleting", !.rows = userRoles[request[p].target]]
<1>1. request[p] \in Handled
  BY DEF IInv, Shape, BeginDeleteRoles, At, Idle
<1>2. userRoles[request[p].target] \in SUBSET Role
  BY <1>1 DEF Handled, IInv, Shape
<1>3. /\ r \in Handled /\ r.pc = "deleting" /\ r.op = "update"
      /\ r.names = request[p].names /\ r.target = request[p].target
  BY <1>1, <1>2 DEF Handled, Place, BeginDeleteRoles, At
<1>4. request' = [request EXCEPT ![p] = r]
  BY <1>1 DEF BeginDeleteRoles, Handled
<1>5. request'[p] = r
  BY <1>4 DEF IInv, Shape
<1>6. request[p].op = "update" /\ request[p].pc = "delete"
  BY DEF BeginDeleteRoles, At
<1>7. Removes(p)' => Removes(p) /\ Decided(p)
  BY <1>3, <1>5, <1>6 DEF Removes, Decided
<1>8. (Removes(p)' => roleLock' = p) /\ (Decided(p)' => AnotherStays(p))
  BY <1>7 DEF IInv, LockHeld, Founded, BeginDeleteRoles, Decided
<1>9. UNCHANGED <<account, userRoles, roleLock, lockout>>
  BY DEF BeginDeleteRoles
<1>10. QED
  BY <1>3, <1>4, <1>6, <1>8, <1>9, Moved

(* Reading the target of an unblocking or a reset.                           *)
LEMMA ReadTargetKeeps ==
  ASSUME IInv, NEW p \in Requests, ReadTarget(p)
  PROVE  IInv'
<1> DEFINE r == [request[p] EXCEPT !.pc = "write", !.status = status[request[p].target]]
<1>1. request[p] \in Handled
  BY DEF IInv, Shape, ReadTarget, Idle
<1>2. status[request[p].target] \in {"ACTIVE", "BLOCKED"}
  BY <1>1 DEF Handled, IInv, Shape, Existing, ReadTarget
<1>3. /\ r \in Handled /\ r.op = request[p].op /\ r.status # "NONE"
      /\ r.names = request[p].names /\ r.target = request[p].target
  BY <1>1, <1>2 DEF Handled, Place
<1>4. request' = [request EXCEPT ![p] = r]
  BY <1>1 DEF ReadTarget, Handled
<1>5. request'[p] = r
  BY <1>4 DEF IInv, Shape
<1>6. ~Removes(p)' /\ ~Decided(p)'
  BY <1>3, <1>5 DEF Removes, Decided, ReadTarget
<1>7. UNCHANGED <<account, userRoles, roleLock, lockout>>
  BY DEF ReadTarget
<1>8. QED
  BY <1>3, <1>4, <1>6, <1>7, Moved

-----------------------------------------------------------------------------
(* The steps. *)

\* A token names a user, so a session's request is about one.
Tokens == \A s \in sessions : s.sub \in Users

\* Logins, changes of password and switches of the active role touch neither
\* a status nor a role.
LEMMA SessionsKeep ==
  ASSUME IInv, NEW p \in Requests, LoginSucceeds(p) \/ ChangePassword(p) \/ SwitchRole(p)
  PROVE  IInv'
<1>1. End(p) /\ UNCHANGED <<status, userRoles, lockout>>
  BY DEF LoginSucceeds, ChangePassword, SwitchRole, account
<1>2. attempts' \in [Users -> Nat]
  BY DEF IInv, Shape, LoginSucceeds, ChangePassword, SwitchRole, account
<1>3. QED
  BY <1>1, <1>2, EndedQuietly

\* The refusals.
LEMMA RefusalsKeep ==
  ASSUME IInv, NEW p \in Requests,
         \/ SwitchRefused(p) \/ CreateRefused(p) \/ UpdateRefused(p)
         \/ BreakDeadlock(p) \/ UnblockRefused(p)
  PROVE  IInv'
<1>1. Refuse(p)
  BY DEF SwitchRefused, CreateRefused, UpdateRefused, BreakDeadlock, UnblockRefused
<1>2. QED
  BY <1>1, RefusedKeeps

\* The record of a request that begins.
LEMMA NewRequest ==
  ASSUME NEW op \in Operation, NEW u \in Users, NEW names \in SUBSET Role
  PROVE  LET r == Request(op, u, names)
         IN r \in Handled /\ r.op = op /\ r.target = u /\ r.pc = "start"
BY DEF Request, Handled, Place

\* A request that reaches its handler has only begun.
LEMMA HandleKeeps ==
  ASSUME IInv, NEW p \in Requests, NEW op \in Operation, NEW u \in Users,
         NEW names \in SUBSET Role, NEW s, NEW area,
         Handle(p, area, op, s, u, names),
         op \in {"unblock", "resetPassword"} => status[u] # "NONE"
  PROVE  IInv'
<1> DEFINE r == Request(op, u, names)
<1>1. r \in Handled /\ r.op = op /\ r.target = u /\ r.pc = "start"
  BY NewRequest
<1>2. request' = [request EXCEPT ![p] = r] /\ UNCHANGED <<account, userRoles, roleLock, lockout>>
  BY DEF Handle
<1> HIDE DEF r
<1>3. QED
  BY <1>1, <1>2, BegunKeeps

(* The beginning of a login.                                                 *)
LEMMA StartLoginKeeps ==
  ASSUME IInv, NEW p \in Requests, NEW u \in Users, StartLogin(p, u)
  PROVE  IInv'
<1> DEFINE r == [Request("login", u, {}) EXCEPT !.attempts = attempts[u]]
<1>1. Request("login", u, {}) \in Handled
  BY NewRequest DEF Operation
<1>2. attempts[u] \in Nat
  BY DEF IInv, Shape
<1>3. r \in Handled /\ r.op = "login" /\ r.pc = "start"
  BY <1>1, <1>2 DEF Handled, Request
<1>4. request' = [request EXCEPT ![p] = r] /\ UNCHANGED <<account, userRoles, roleLock, lockout>>
  BY DEF StartLogin
<1> HIDE DEF r
<1>5. QED
  BY <1>3, <1>4, BegunKeeps

(* The beginnings of the operations of administrators.                       *)
LEMMA StartOperationKeeps ==
  ASSUME IInv, Tokens, NEW p \in Requests, NEW s \in sessions, StartOperation(p, s)
  PROVE  IInv'
<1>1. s.sub \in Users /\ {} \in SUBSET Role
  BY DEF Tokens
<1>2. \A names \in RoleSets : names \in SUBSET Role
  BY AccessAssumption
<1>3. {"create", "update", "block", "unblock", "resetPassword", "changePassword",
       "switchRole"} \subseteq Operation
  BY DEF Operation
<1>4. CASE StartChangePassword(p, s)
  BY <1>1, <1>3, <1>4, HandleKeeps DEF StartChangePassword
<1>5. ASSUME NEW role \in UNION RoleSets, StartSwitchRole(p, s, role)
      PROVE  IInv'
  <2>1. {role} \in SUBSET Role
    BY <1>2
  <2>2. QED
    BY <1>1, <1>3, <1>5, <2>1, HandleKeeps DEF StartSwitchRole
<1>6. ASSUME NEW u \in Users, NEW names \in RoleSets,
             StartCreateUser(p, s, u, names) \/ StartUpdateUser(p, s, u, names)
      PROVE  IInv'
  BY <1>2, <1>3, <1>6, HandleKeeps DEF StartCreateUser, StartUpdateUser, Administer
<1>7. ASSUME NEW u \in Users,
             StartBlockUser(p, s, u) \/ StartUnblockUser(p, s, u) \/ StartResetPassword(p, s, u)
      PROVE  IInv'
  BY <1>1, <1>3, <1>7, HandleKeeps
     DEF StartBlockUser, StartUnblockUser, StartResetPassword, Administer
<1>8. QED
  BY <1>4, <1>5, <1>6, <1>7 DEF StartOperation

(* Each step of a request keeps the invariant.                               *)
LEMMA StepKeeps ==
  ASSUME IInv, NEW p \in Requests, Step(p)
  PROVE  IInv'
BY RegisterFailedAttemptKeeps, SessionsKeep, RefusalsKeep, CreateUserKeeps, UpdateUserKeeps,
   BlockUserKeeps, RestoredKeeps, LockForUpdateKeeps, LockForBlockKeeps, ReadsKeep,
   BeginDeleteRolesKeeps, ReadTargetKeeps DEF Step

\* Tokens are signed for the user who logs in or switches.
LEMMA TokensKept ==
  ASSUME IInv, Tokens, [Next]_vars
  PROVE  Tokens'
<1>1. ASSUME NEW p \in Requests, LoginSucceeds(p) \/ SwitchRole(p)
      PROVE  Tokens'
  <2>1. request[p].target \in Users
    BY <1>1 DEF IInv, Shape, Handled, Idle, LoginSucceeds, SwitchRole, At
  <2>2. \E role : SignToken(request[p].target, role)
    BY <1>1 DEF LoginSucceeds, SwitchRole
  <2>3. QED
    BY <2>1, <2>2 DEF Tokens, SignToken
<1>2. CASE \E s \in sessions : LoseSession(s)
  BY <1>2 DEF LoseSession, Tokens
<1>3. ASSUME NEW p \in Requests, Step(p), ~LoginSucceeds(p), ~SwitchRole(p)
      PROVE  UNCHANGED sessions
  BY <1>3 DEF Step, RegisterFailedAttempt, ChangePassword, SwitchRefused, CreateUser,
     CreateRefused, LockForUpdate, ReadForUpdate, CountActiveAdmins, BeginDeleteRoles,
     DeleteRoles, UpdateUser, UpdateRefused, BreakDeadlock, LockForBlock, ReadForBlock,
     CountForBlock, BlockUser, ReadTarget, UnblockUser, UnblockRefused, ResetPassword,
     Refuse
<1>4. ASSUME NEW p \in Requests, NEW s \in sessions, StartOperation(p, s)
      PROVE  UNCHANGED sessions
  BY <1>4 DEF StartOperation, StartChangePassword, StartSwitchRole, StartCreateUser,
     StartUpdateUser, StartBlockUser, StartUnblockUser, StartResetPassword, Administer, Handle
<1>5. ASSUME NEW p \in Requests, NEW u \in Users, StartLogin(p, u)
      PROVE  UNCHANGED sessions
  BY <1>5 DEF StartLogin
<1>6. CASE UNCHANGED vars
  BY <1>6 DEF vars, Tokens
<1>7. QED
  BY <1>1, <1>2, <1>3, <1>4, <1>5, <1>6 DEF Next, Tokens

(* So does each step of the system, and stuttering.                          *)
LEMMA NextKeeps ==
  ASSUME IInv, Tokens, [Next]_vars
  PROVE  IInv'
<1>1. ASSUME NEW s \in sessions, LoseSession(s)
      PROVE  IInv'
  BY <1>1 DEF LoseSession, IInv, Shape, Existing, LockHeld, Founded, AdminsRemain, Removes,
     Decided, AnotherStays, ActiveAdmins, account
<1>2. CASE UNCHANGED vars
  BY <1>2 DEF vars, IInv, Shape, Existing, LockHeld, Founded, AdminsRemain, Removes,
     Decided, AnotherStays, ActiveAdmins, account
<1>3. QED
  BY <1>1, <1>2, StartLoginKeeps, StartOperationKeeps, StepKeeps DEF Next

(* The seed leaves an active ADMIN.                                          *)
LEMMA InitHolds ==
  ASSUME Init
  PROVE  IInv /\ Tokens
<1>1. Role = {"ADMIN", "SELLER", "WAREHOUSE", "MANAGEMENT", "ACCOUNTANT"}
  BY DEF Role
<1>2. Shape
  BY <1>1, AccessAssumption DEF Init, Shape
<1>3. \A p \in Requests : request[p].op = "none"
  BY DEF Init, Idle
<1>4. Existing /\ LockHeld /\ Founded
  BY <1>3 DEF Existing, LockHeld, Founded, Removes, Decided
<1>5. FirstAdmin \in ActiveAdmins
  BY AccessAssumption DEF Init, ActiveAdmins
<1>6. QED
  BY <1>2, <1>4, <1>5 DEF IInv, AdminsRemain, Tokens, Init

-----------------------------------------------------------------------------
(* Whatever users.service does on behalf of concurrent administrators, an    *)
(* active ADMIN remains until the lockout of the login blocks somebody.      *)
THEOREM AdminsStand == Spec => []AdminsRemain
<1>1. Init => IInv /\ Tokens
  BY InitHolds
<1>2. IInv /\ Tokens /\ [Next]_vars => (IInv /\ Tokens)'
  BY NextKeeps, TokensKept
<1>3. IInv => AdminsRemain
  BY DEF IInv
<1>4. QED
  BY <1>1, <1>2, <1>3, PTL DEF Spec

-----------------------------------------------------------------------------
(* The columns of the lockout. *)

\* An account that is not blocked, even one that does not exist yet, is below
\* the limit, so that creating it or setting it free leaves it so.
Columns ==
  /\ blockedAt \in [Users -> BOOLEAN]
  /\ mustChange \in [Users -> BOOLEAN]
  /\ roleLock \in Requests \cup {NoRequest}
  /\ \A u \in Users : status[u] # "BLOCKED" => attempts[u] < MaxAttempts
  /\ \A u \in Users : blockedAt[u] => status[u] = "BLOCKED"

\* Whoever is at a step of an operation works on a user.
LEMMA TargetsExist ==
  ASSUME Shape, NEW p \in Requests, request[p] # Idle
  PROVE  /\ request[p].target \in Users /\ request[p].attempts \in Nat
         /\ request[p].status \in {"ACTIVE", "BLOCKED", "NONE"}
BY DEF Shape, Handled

\* A step that writes none of the columns keeps what is said of them.
LEMMA ColumnsUntouched ==
  ASSUME Columns, UNCHANGED account, roleLock' \in Requests \cup {NoRequest}
  PROVE  Columns'
BY DEF Columns, account

\* The five operations that write the columns keep them together.
LEMMA LockoutWrites ==
  ASSUME AccessAssumption, Shape, Columns, NEW p \in Requests,
         \/ RegisterFailedAttempt(p) \/ LoginSucceeds(p) \/ ChangePassword(p)
         \/ BlockUser(p) \/ UnblockUser(p) \/ ResetPassword(p) \/ CreateUser(p)
  PROVE  Columns'
<1> DEFINE u == request[p].target
<1>1. u \in Users /\ request[p].attempts \in Nat
  BY TargetsExist DEF RegisterFailedAttempt, LoginSucceeds, ChangePassword, BlockUser, UnblockUser,
                      ResetPassword, CreateUser, At, Idle
<1>2. MaxAttempts \in Nat /\ 0 < MaxAttempts
  BY DEF AccessAssumption
<1>3. /\ status \in [Users -> {"ACTIVE", "BLOCKED", "NONE"}] /\ attempts \in [Users -> Nat]
      /\ blockedAt \in [Users -> BOOLEAN] /\ mustChange \in [Users -> BOOLEAN]
      /\ roleLock \in Requests \cup {NoRequest}
  BY DEF Shape, Columns
<1>4. /\ \A x \in Users : status[x] # "BLOCKED" => attempts[x] < MaxAttempts
      /\ \A x \in Users : blockedAt[x] => status[x] = "BLOCKED"
  BY DEF Columns
<1>5. roleLock' \in Requests \cup {NoRequest}
  BY <1>3 DEF RegisterFailedAttempt, LoginSucceeds, ChangePassword, BlockUser, UnblockUser,
              ResetPassword, CreateUser, End
<1> HIDE DEF u
<1>6. CASE RegisterFailedAttempt(p)
  <2>1. attempts' = [attempts EXCEPT ![u] = request[p].attempts + 1] /\ mustChange' = mustChange
    BY <1>6 DEF RegisterFailedAttempt, u
  <2>2. CASE request[p].attempts + 1 >= MaxAttempts
    <3>1. status' = [status EXCEPT ![u] = "BLOCKED"] /\ blockedAt' = [blockedAt EXCEPT ![u] = TRUE]
      BY <1>6, <2>2 DEF RegisterFailedAttempt, u
    <3>. QED
      BY <1>1, <1>3, <1>4, <1>5, <2>1, <3>1 DEF Columns
  <2>3. CASE ~(request[p].attempts + 1 >= MaxAttempts)
    <3>1. status' = status /\ blockedAt' = blockedAt
      BY <1>6, <2>3 DEF RegisterFailedAttempt
    <3>2. request[p].attempts + 1 < MaxAttempts
      BY <1>1, <1>2, <2>3
    <3>. QED
      BY <1>1, <1>3, <1>4, <1>5, <2>1, <3>1, <3>2 DEF Columns
  <2>. QED
    BY <2>2, <2>3
<1>7. CASE LoginSucceeds(p)
  <2>1. /\ attempts' = [attempts EXCEPT ![u] = 0] /\ blockedAt' = [blockedAt EXCEPT ![u] = FALSE]
        /\ status' = status /\ mustChange' = mustChange
    BY <1>7 DEF LoginSucceeds, u
  <2>. QED
    BY <1>1, <1>2, <1>3, <1>4, <1>5, <2>1 DEF Columns
<1>8. CASE ChangePassword(p)
  <2>1. /\ attempts' = [attempts EXCEPT ![u] = 0] /\ mustChange' = [mustChange EXCEPT ![u] = FALSE]
        /\ status' = status /\ blockedAt' = blockedAt
    BY <1>8 DEF ChangePassword, u
  <2>. QED
    BY <1>1, <1>2, <1>3, <1>4, <1>5, <2>1 DEF Columns
<1>9. CASE BlockUser(p)
  <2>1. /\ status' = [status EXCEPT ![u] = "BLOCKED"] /\ blockedAt' = [blockedAt EXCEPT ![u] = TRUE]
        /\ attempts' = attempts /\ mustChange' = mustChange
    BY <1>9 DEF BlockUser, u
  <2>. QED
    BY <1>1, <1>3, <1>4, <1>5, <2>1 DEF Columns
<1>10. CASE UnblockUser(p) \/ ResetPassword(p)
  <2>1. /\ attempts' = [attempts EXCEPT ![u] = 0] /\ blockedAt' = [blockedAt EXCEPT ![u] = FALSE]
        /\ \E s : status' = [status EXCEPT ![u] = s]
        /\ mustChange' \in {mustChange, [mustChange EXCEPT ![u] = TRUE]}
    BY <1>10 DEF UnblockUser, ResetPassword, u
  <2>. QED
    BY <1>1, <1>2, <1>3, <1>4, <1>5, <2>1 DEF Columns
<1>11. CASE CreateUser(p)
  <2>1. /\ status[u] = "NONE" /\ status' = [status EXCEPT ![u] = "ACTIVE"]
        /\ mustChange' = [mustChange EXCEPT ![u] = TRUE]
        /\ attempts' = attempts /\ blockedAt' = blockedAt
    BY <1>11 DEF CreateUser, u
  <2>. QED
    BY <1>1, <1>3, <1>4, <1>5, <2>1 DEF Columns
<1>. QED
  BY <1>6, <1>7, <1>8, <1>9, <1>10, <1>11

\* The other steps write none of them.
LEMMA ColumnsKept ==
  ASSUME AccessAssumption, Shape, Columns, [Next]_vars
  PROVE  Columns'
<1>1. roleLock \in Requests \cup {NoRequest}
  BY DEF Columns
<1>2. CASE UNCHANGED vars
  BY <1>1, <1>2, ColumnsUntouched DEF vars
<1>3. ASSUME NEW s \in sessions, LoseSession(s) PROVE Columns'
  BY <1>1, <1>3, ColumnsUntouched DEF LoseSession
<1>4. ASSUME NEW p \in Requests, NEW u \in Users, StartLogin(p, u) PROVE Columns'
  BY <1>1, <1>4, ColumnsUntouched DEF StartLogin
<1>5. ASSUME NEW p \in Requests, NEW s \in sessions, StartOperation(p, s) PROVE Columns'
  BY <1>1, <1>5, ColumnsUntouched
     DEF StartOperation, StartChangePassword, StartSwitchRole, StartCreateUser, StartUpdateUser,
         StartBlockUser, StartUnblockUser, StartResetPassword, Administer, Handle
<1>6. ASSUME NEW p \in Requests, Step(p) PROVE Columns'
  <2>1. CASE \/ RegisterFailedAttempt(p) \/ LoginSucceeds(p) \/ ChangePassword(p)
             \/ BlockUser(p) \/ UnblockUser(p) \/ ResetPassword(p) \/ CreateUser(p)
    BY <2>1, LockoutWrites
  <2>2. CASE \/ SwitchRole(p) \/ SwitchRefused(p) \/ CreateRefused(p) \/ UpdateRefused(p)
             \/ BreakDeadlock(p) \/ UnblockRefused(p) \/ CountActiveAdmins(p)
             \/ ReadForBlock(p) \/ CountForBlock(p)
    BY <1>1, <2>2, ColumnsUntouched
       DEF SwitchRole, SwitchRefused, CreateRefused, UpdateRefused, BreakDeadlock, UnblockRefused,
           CountActiveAdmins, ReadForBlock, CountForBlock, Refuse, End
  <2>3. CASE \/ LockForUpdate(p) \/ ReadForUpdate(p) \/ BeginDeleteRoles(p) \/ DeleteRoles(p)
             \/ UpdateUser(p) \/ LockForBlock(p) \/ ReadTarget(p)
    BY <1>1, <2>3, ColumnsUntouched
       DEF LockForUpdate, ReadForUpdate, BeginDeleteRoles, DeleteRoles, UpdateUser, LockForBlock,
           ReadTarget, LockAdminRole
  <2>. QED
    BY <1>6, <2>1, <2>2, <2>3 DEF Step
<1>. QED
  BY <1>2, <1>3, <1>4, <1>5, <1>6 DEF Next

\* The columns hold together from the seed on.
LEMMA ColumnsHold == Spec => [](IInv /\ Columns)
<1>1. Init => IInv /\ Tokens /\ Columns
  <2>1. SUFFICES ASSUME Init PROVE Columns
    BY InitHolds
  <2>2. \A u \in Users : attempts[u] = 0 /\ blockedAt[u] = FALSE
    BY <2>1 DEF Init
  <2>3. 0 < MaxAttempts
    BY AccessAssumption DEF AccessAssumption
  <2>4. /\ blockedAt \in [Users -> BOOLEAN] /\ mustChange \in [Users -> BOOLEAN]
        /\ roleLock \in Requests \cup {NoRequest}
    BY <2>1 DEF Init
  <2>. QED
    BY <2>2, <2>3, <2>4 DEF Columns
<1>2. IInv /\ Tokens /\ Columns /\ [Next]_vars => (IInv /\ Tokens /\ Columns)'
  BY NextKeeps, TokensKept, ColumnsKept, AccessAssumption DEF IInv
<1>. QED
  BY <1>1, <1>2, PTL DEF Spec

\* Every row keeps the values that the schema gives it.
THEOREM TypeCorrect == Spec => []TypeOK
<1>1. IInv /\ Columns => TypeOK
  BY DEF IInv, Shape, Columns, TypeOK, Status
<1>. QED
  BY <1>1, ColumnsHold, PTL

\* Failed logins, successful ones, changes of password and administrators write
\* the columns of the lockout without a lock and from what they read before; an
\* active account stays below the limit, and only a blocked one has a date.
THEOREM LockoutStaysCoherent == Spec => []LockoutIsCoherent
<1>1. IInv /\ Columns => LockoutIsCoherent
  BY DEF Columns, LockoutIsCoherent
<1>. QED
  BY <1>1, ColumnsHold, PTL

-----------------------------------------------------------------------------
(* Access: the duties of the roles, over the table of the routes. *)

\* What each role that a route admits may do there.
Dutiful(r) ==
  \A role \in r.roles :
    /\ r.writes =>
         /\ role \in {"ADMIN", "SELLER"}
              \/ <<role, r.area>> \in {<<"ACCOUNTANT", "manualEntries">>,
                                       <<"WAREHOUSE", "inventory">>}
         /\ r.area \in AreasRead[role]
         /\ CanOperate(r.area, role, TRUE)
    /\ CanRead(r.area, role, TRUE)

\* Areas whose access policy looks at the role once more.
Policed == {"sales", "payments", "quotes"}

LEMMA ReadsRespectDuties ==
  ASSUME NEW area, NEW ops, NEW roles, area \in Policed => roles \subseteq SalesFloor
  PROVE  \A r \in Reads(area, ops, roles) : Dutiful(r)
<1> SUFFICES ASSUME NEW r \in Reads(area, ops, roles), NEW role \in r.roles
             PROVE  ~r.writes /\ CanRead(r.area, role, TRUE)
  BY DEF Dutiful
<1>1. r.area = area /\ ~r.writes /\ r.roles = roles
  BY DEF Reads, Route
<1>2. CASE area \notin Policed
  BY <1>1, <1>2 DEF CanRead, Policed
<1>3. CASE area \in Policed
  <2>1. role \in SalesFloor
    BY <1>1, <1>3
  <2>2. CanReadSale(role, TRUE) /\ CanReadQuote(role, TRUE)
    BY <2>1 DEF SalesFloor, CanReadSale, CanReadQuote, SaleScope, QuoteScope
  <2>. QED
    BY <1>1, <1>3, <2>2 DEF CanRead, Policed
<1>. QED
  BY <1>2, <1>3

\* A write is a duty of the administrator and of the seller.
LEMMA WritesRespectDuties ==
  ASSUME NEW area, NEW ops, NEW roles \in SUBSET Counter,
         \A role \in roles : area \in AreasRead[role]
  PROVE  \A r \in Writes(area, ops, roles) : Dutiful(r)
<1> SUFFICES ASSUME NEW r \in Writes(area, ops, roles), NEW role \in r.roles
             PROVE  /\ role \in {"ADMIN", "SELLER"}
                    /\ r.area \in AreasRead[role]
                    /\ CanOperate(r.area, role, TRUE) /\ CanRead(r.area, role, TRUE)
  BY DEF Dutiful
<1>1. r.area = area /\ r.roles = roles
  BY DEF Writes, Route
<1>2. role \in {"ADMIN", "SELLER"}
  BY <1>1 DEF Counter
<1>3. CanReadSale(role, TRUE) /\ CanReadQuote(role, TRUE)
  BY <1>2 DEF CanReadSale, CanReadQuote, SaleScope, QuoteScope
<1>4. CanOperateSale(role, TRUE) /\ CanOperateQuote(role, TRUE)
  BY <1>2 DEF CanOperateSale, CanOperateQuote
<1>5. CanOperate(r.area, role, TRUE)
  BY <1>4 DEF CanOperate
<1>6. CanRead(r.area, role, TRUE)
  BY <1>3 DEF CanRead
<1>. QED
  BY <1>1, <1>2, <1>5, <1>6

\* ... and of another role in the one area that it keeps.
LEMMA KeepersRespectDuties ==
  ASSUME NEW area, NEW ops, NEW keeper,
         <<keeper, area>> \in {<<"ACCOUNTANT", "manualEntries">>,
                               <<"WAREHOUSE", "inventory">>},
         \A role \in {"ADMIN", keeper} : area \in AreasRead[role]
  PROVE  \A r \in Writes(area, ops, {"ADMIN", keeper}) : Dutiful(r)
<1> SUFFICES ASSUME NEW r \in Writes(area, ops, {"ADMIN", keeper}), NEW role \in r.roles
             PROVE  /\ role = "ADMIN"
                         \/ <<role, r.area>> \in {<<"ACCOUNTANT", "manualEntries">>,
                                                  <<"WAREHOUSE", "inventory">>}
                    /\ r.area \in AreasRead[role]
                    /\ CanOperate(r.area, role, TRUE) /\ CanRead(r.area, role, TRUE)
  BY DEF Dutiful
<1>1. r.area = area /\ r.roles = {"ADMIN", keeper}
  BY DEF Writes, Route
<1>2. area \in {"manualEntries", "inventory"}
  OBVIOUS
<1>3. CanOperate(r.area, role, TRUE) /\ CanRead(r.area, role, TRUE)
  BY <1>1, <1>2 DEF CanOperate, CanRead
<1>. QED
  BY <1>1, <1>3

\* Who is admitted to one reading route of an area reads in that area.
LEMMA AdmittedToRead ==
  ASSUME NEW area, NEW ops, NEW roles \in SUBSET Role, NEW op \in ops,
         Reads(area, ops, roles) \subseteq Routes
  PROVE  \A role \in roles : area \in AreasRead[role]
<1> SUFFICES ASSUME NEW role \in roles
             PROVE  area \in AreasRead[role]
  OBVIOUS
<1> DEFINE r == [area |-> area, op |-> op, writes |-> FALSE, roles |-> roles]
<1>1. r \in Reads(area, ops, roles)
  BY DEF Reads, Route
<1>2. r \in {q \in Routes : ~q.writes /\ role \in q.roles} /\ r.area = area
  BY <1>1
<1>. QED
  BY <1>2 DEF AreasRead

\* Who sells, collects or issues a fiscal document is of the counter.
LEMMA SalesFloorKeeps ==
  \A r \in UNION {SaleEntryRoutes, SaleRoutes, QuoteReadRoutes, QuoteRoutes,
                  PaymentRoutes, ReceivableRoutes, FiscalDocumentRoutes,
                  FiscalIssueRoutes, FiscalSeriesRoutes} : Dutiful(r)
<1>1. \A role \in Counter : "sales" \in AreasRead[role]
  <2>1. Reads("sales",
              {"list", "exportXlsx", "findOne", "print"}, SalesFloor) \subseteq Routes
    BY DEF Routes, SaleRoutes
  <2>. QED
    BY <2>1, AdmittedToRead DEF Role, SalesFloor, Counter
<1>2. \A role \in Counter : "quotes" \in AreasRead[role]
  <2>1. Reads("quotes",
              {"list", "exportXlsx", "findOne"}, SalesFloor) \subseteq Routes
    BY DEF Routes, QuoteReadRoutes
  <2>. QED
    BY <2>1, AdmittedToRead DEF Role, SalesFloor, Counter
<1>3. \A role \in Counter : "payments" \in AreasRead[role]
  <2>1. Reads("payments", {"list"}, SalesFloor) \subseteq Routes
    BY DEF Routes, PaymentRoutes
  <2>. QED
    BY <2>1, AdmittedToRead DEF Role, SalesFloor, Counter
<1>4. \A role \in Counter : "fiscal" \in AreasRead[role]
  <2>1. Reads("fiscal", {"list", "findOne", "print"}, SalesFloor) \subseteq Routes
    BY DEF Routes, FiscalDocumentRoutes
  <2>. QED
    BY <2>1, AdmittedToRead DEF Role, SalesFloor, Counter
<1>5. \A r \in SaleEntryRoutes : Dutiful(r)
  BY WritesRespectDuties, <1>1 DEF SaleEntryRoutes, Counter
<1>6. \A r \in SaleRoutes : Dutiful(r)
  BY ReadsRespectDuties, WritesRespectDuties, <1>1 DEF SaleRoutes, Policed,
     SalesFloor, Counter, OnlyAdmin
<1>7. \A r \in QuoteReadRoutes : Dutiful(r)
  BY ReadsRespectDuties DEF QuoteReadRoutes, Policed, SalesFloor
<1>8. \A r \in QuoteRoutes : Dutiful(r)
  BY ReadsRespectDuties, WritesRespectDuties, <1>2 DEF QuoteRoutes, Policed,
     SalesFloor, Counter
<1>9. \A r \in PaymentRoutes : Dutiful(r)
  BY ReadsRespectDuties, WritesRespectDuties, <1>3 DEF PaymentRoutes, Policed,
     SalesFloor, Counter, OnlyAdmin
<1>10. \A r \in ReceivableRoutes : Dutiful(r)
  BY ReadsRespectDuties DEF ReceivableRoutes, Policed, SalesFloor
<1>11. \A r \in FiscalDocumentRoutes : Dutiful(r)
  BY ReadsRespectDuties, WritesRespectDuties, <1>4 DEF FiscalDocumentRoutes,
     Policed, SalesFloor, OnlyAdmin, Counter
<1>12. \A r \in FiscalIssueRoutes : Dutiful(r)
  BY WritesRespectDuties, <1>4 DEF FiscalIssueRoutes, Counter
<1>13. \A r \in FiscalSeriesRoutes : Dutiful(r)
  BY ReadsRespectDuties DEF FiscalSeriesRoutes, Policed, SalesFloor
<1>. QED
  BY <1>5, <1>6, <1>7, <1>8, <1>9, <1>10, <1>11, <1>12, <1>13

\* Customers are of the counter, the catalogue of the administrator.
LEMMA CatalogueKeeps ==
  \A r \in UNION {CustomerRoutes, CustomerStandingRoutes, ProductReadRoutes,
                  ProductRoutes, SpecificationRoutes, ImageRoutes,
                  CategoryRoutes, UnitRoutes, PaymentMethodRoutes} : Dutiful(r)
<1>1. \A role \in Counter : "customers" \in AreasRead[role]
  <2>1. Reads("customers", {"list", "findOne"}, SalesFloor) \subseteq Routes
    BY DEF Routes, CustomerRoutes
  <2>. QED
    BY <2>1, AdmittedToRead DEF Role, SalesFloor, Counter
<1>2. \A role \in OnlyAdmin : "products" \in AreasRead[role]
  <2>1. Reads("products",
              {"list", "exportXlsx", "findOne"}, Everyday) \subseteq Routes
    BY DEF Routes, ProductReadRoutes
  <2>. QED
    BY <2>1, AdmittedToRead DEF Role, Everyday, OnlyAdmin
<1>3. \A role \in OnlyAdmin : "categories" \in AreasRead[role]
  <2>1. Reads("categories", {"list", "findOne"}, Everyday) \subseteq Routes
    BY DEF Routes, CategoryRoutes
  <2>. QED
    BY <2>1, AdmittedToRead DEF Role, Everyday, OnlyAdmin
<1>4. \A role \in OnlyAdmin : "units" \in AreasRead[role]
  <2>1. Reads("units", {"list", "findOne"}, Everyday) \subseteq Routes
    BY DEF Routes, UnitRoutes
  <2>. QED
    BY <2>1, AdmittedToRead DEF Role, Everyday, OnlyAdmin
<1>5. \A role \in OnlyAdmin : "paymentMethods" \in AreasRead[role]
  <2>1. Reads("paymentMethods", {"list"}, SalesFloor) \subseteq Routes
    BY DEF Routes, PaymentMethodRoutes
  <2>. QED
    BY <2>1, AdmittedToRead DEF Role, SalesFloor, OnlyAdmin
<1>6. \A r \in CustomerRoutes : Dutiful(r)
  BY ReadsRespectDuties, WritesRespectDuties, <1>1 DEF CustomerRoutes, Policed,
     SalesFloor, Counter
<1>7. \A r \in CustomerStandingRoutes : Dutiful(r)
  BY WritesRespectDuties, <1>1 DEF CustomerStandingRoutes, Counter, OnlyAdmin
<1>8. \A r \in ProductReadRoutes : Dutiful(r)
  BY ReadsRespectDuties DEF ProductReadRoutes, Policed, Everyday
<1>9. \A r \in ProductRoutes : Dutiful(r)
  BY WritesRespectDuties, <1>2 DEF ProductRoutes, OnlyAdmin, Counter
<1>10. \A r \in SpecificationRoutes : Dutiful(r)
  BY WritesRespectDuties, <1>2 DEF SpecificationRoutes, OnlyAdmin, Counter
<1>11. \A r \in ImageRoutes : Dutiful(r)
  BY ReadsRespectDuties, WritesRespectDuties, <1>2 DEF ImageRoutes, Policed,
     Everyday, OnlyAdmin, Counter
<1>12. \A r \in CategoryRoutes : Dutiful(r)
  BY ReadsRespectDuties, WritesRespectDuties, <1>3 DEF CategoryRoutes, Policed,
     Everyday, OnlyAdmin, Counter
<1>13. \A r \in UnitRoutes : Dutiful(r)
  BY ReadsRespectDuties, WritesRespectDuties, <1>4 DEF UnitRoutes, Policed,
     Everyday, OnlyAdmin, Counter
<1>14. \A r \in PaymentMethodRoutes : Dutiful(r)
  BY ReadsRespectDuties, WritesRespectDuties, <1>5 DEF PaymentMethodRoutes,
     Policed, SalesFloor, OnlyAdmin, Counter
<1>. QED
  BY <1>6, <1>7, <1>8, <1>9, <1>10, <1>11, <1>12, <1>13, <1>14

\* Stock is of the store, purchases and imports of the administrator.
LEMMA StockroomKeeps ==
  \A r \in UNION {StockMovementRoutes, StockRoutes, ValuationRoutes,
                  SupplierRoutes, PurchaseInvoiceRoutes, ReceiptRoutes,
                  PayableRoutes, PayableDetailRoutes, SupplierPaymentRoutes,
                  ImportOperationRoutes, ImportShipmentEntryRoutes,
                  ShipmentRoutes, ExpenseRoutes, ExpenseAllocationRoutes,
                  ReceiptLinkRoutes, ImportReportRoutes} : Dutiful(r)
<1>1. \A role \in {"ADMIN", "WAREHOUSE"} : "inventory" \in AreasRead[role]
  <2>1. Reads("inventory",
              {"listMovements", "findMovementById", "listProductMovements",
               "listLowStock"}, Store \cup Oversight) \subseteq Routes
    BY DEF Routes, StockRoutes
  <2>. QED
    BY <2>1, AdmittedToRead DEF Role, Store, Oversight
<1>2. \A role \in OnlyAdmin : "suppliers" \in AreasRead[role]
  <2>1. Reads("suppliers", {"list", "findOne"}, Ledger) \subseteq Routes
    BY DEF Routes, SupplierRoutes
  <2>. QED
    BY <2>1, AdmittedToRead DEF Role, Ledger, OnlyAdmin
<1>3. \A role \in OnlyAdmin : "purchaseInvoices" \in AreasRead[role]
  <2>1. Reads("purchaseInvoices", {"list", "findOne"}, Ledger) \subseteq Routes
    BY DEF Routes, PurchaseInvoiceRoutes
  <2>. QED
    BY <2>1, AdmittedToRead DEF Role, Ledger, OnlyAdmin
<1>4. \A role \in OnlyAdmin : "receipts" \in AreasRead[role]
  <2>1. Reads("receipts", {"listReceipts", "findOne"}, Ledger) \subseteq Routes
    BY DEF Routes, ReceiptRoutes
  <2>. QED
    BY <2>1, AdmittedToRead DEF Role, Ledger, OnlyAdmin
<1>5. \A role \in OnlyAdmin : "supplierPayments" \in AreasRead[role]
  <2>1. Reads("supplierPayments", {"list", "findOne"}, Ledger) \subseteq Routes
    BY DEF Routes, SupplierPaymentRoutes
  <2>. QED
    BY <2>1, AdmittedToRead DEF Role, Ledger, OnlyAdmin
<1>6. \A role \in OnlyAdmin : "imports" \in AreasRead[role]
  <2>1. Reads("imports", {"list", "findOne"}, Ledger) \subseteq Routes
    BY DEF Routes, ImportOperationRoutes
  <2>. QED
    BY <2>1, AdmittedToRead DEF Role, Ledger, OnlyAdmin
<1>7. \A role \in OnlyAdmin : "shipments" \in AreasRead[role]
  <2>1. Reads("shipments", {"findOne"}, Ledger) \subseteq Routes
    BY DEF Routes, ShipmentRoutes
  <2>. QED
    BY <2>1, AdmittedToRead DEF Role, Ledger, OnlyAdmin
<1>8. \A role \in OnlyAdmin : "expenses" \in AreasRead[role]
  <2>1. Reads("expenses", {"list", "findOne"}, Ledger) \subseteq Routes
    BY DEF Routes, ExpenseRoutes
  <2>. QED
    BY <2>1, AdmittedToRead DEF Role, Ledger, OnlyAdmin
<1>9. \A role \in OnlyAdmin : "receiptLinks" \in AreasRead[role]
  <2>1. Reads("receiptLinks",
              {"list", "previewCostAttribution"}, Ledger) \subseteq Routes
    BY DEF Routes, ReceiptLinkRoutes
  <2>. QED
    BY <2>1, AdmittedToRead DEF Role, Ledger, OnlyAdmin
<1>10. \A r \in StockMovementRoutes : Dutiful(r)
  BY KeepersRespectDuties, <1>1 DEF StockMovementRoutes, Store
<1>11. \A r \in StockRoutes : Dutiful(r)
  BY ReadsRespectDuties, KeepersRespectDuties, <1>1 DEF StockRoutes, Policed,
     Store, Oversight, Everyday
<1>12. \A r \in ValuationRoutes : Dutiful(r)
  BY ReadsRespectDuties DEF ValuationRoutes, Policed, Ledger
<1>13. \A r \in SupplierRoutes : Dutiful(r)
  BY ReadsRespectDuties, WritesRespectDuties, <1>2 DEF SupplierRoutes, Policed,
     Ledger, OnlyAdmin, Counter
<1>14. \A r \in PurchaseInvoiceRoutes : Dutiful(r)
  BY ReadsRespectDuties, WritesRespectDuties, <1>3 DEF PurchaseInvoiceRoutes,
     Policed, Ledger, OnlyAdmin, Counter
<1>15. \A r \in ReceiptRoutes : Dutiful(r)
  BY ReadsRespectDuties, WritesRespectDuties, <1>4 DEF ReceiptRoutes, Policed,
     Ledger, OnlyAdmin, Counter
<1>16. \A r \in PayableRoutes : Dutiful(r)
  BY ReadsRespectDuties DEF PayableRoutes, Policed, Ledger
<1>17. \A r \in PayableDetailRoutes : Dutiful(r)
  BY ReadsRespectDuties DEF PayableDetailRoutes, Policed, Ledger
<1>18. \A r \in SupplierPaymentRoutes : Dutiful(r)
  BY ReadsRespectDuties, WritesRespectDuties, <1>5 DEF SupplierPaymentRoutes,
     Policed, Ledger, OnlyAdmin, Counter
<1>19. \A r \in ImportOperationRoutes : Dutiful(r)
  BY ReadsRespectDuties, WritesRespectDuties, <1>6 DEF ImportOperationRoutes,
     Policed, Ledger, OnlyAdmin, Counter
<1>20. \A r \in ImportShipmentEntryRoutes : Dutiful(r)
  BY ReadsRespectDuties, WritesRespectDuties, <1>6 DEF ImportShipmentEntryRoutes,
     Policed, Ledger, OnlyAdmin, Counter
<1>21. \A r \in ShipmentRoutes : Dutiful(r)
  BY ReadsRespectDuties, WritesRespectDuties, <1>7 DEF ShipmentRoutes, Policed,
     Ledger, OnlyAdmin, Counter
<1>22. \A r \in ExpenseRoutes : Dutiful(r)
  BY ReadsRespectDuties, WritesRespectDuties, <1>8 DEF ExpenseRoutes, Policed,
     Ledger, OnlyAdmin, Counter
<1>23. \A r \in ExpenseAllocationRoutes : Dutiful(r)
  BY ReadsRespectDuties, WritesRespectDuties, <1>8 DEF ExpenseAllocationRoutes,
     Policed, Ledger, OnlyAdmin, Counter
<1>24. \A r \in ReceiptLinkRoutes : Dutiful(r)
  BY ReadsRespectDuties, WritesRespectDuties, <1>9 DEF ReceiptLinkRoutes, Policed,
     Ledger, OnlyAdmin, Counter
<1>25. \A r \in ImportReportRoutes : Dutiful(r)
  BY ReadsRespectDuties DEF ImportReportRoutes, Policed, Ledger
<1>. QED
  BY <1>10, <1>11, <1>12, <1>13, <1>14, <1>15, <1>16, <1>17, <1>18, <1>19, <1>20,
     <1>21, <1>22, <1>23, <1>24, <1>25

\* The books are of the administrator, their manual entries of the accountant too.
LEMMA BooksKeep ==
  \A r \in UNION {EntryRoutes, PeriodRoutes, AccountingReportRoutes,
                  AccountRoutes, ChartRoutes, ChartEditRoutes,
                  ManualEntryRoutes, ReportRoutes, DashboardRoutes} : Dutiful(r)
<1>1. \A role \in OnlyAdmin : "periods" \in AreasRead[role]
  <2>1. Reads("periods", {"list", "findOne"}, Ledger) \subseteq Routes
    BY DEF Routes, PeriodRoutes
  <2>. QED
    BY <2>1, AdmittedToRead DEF Role, Ledger, OnlyAdmin
<1>2. \A role \in OnlyAdmin : "chart" \in AreasRead[role]
  <2>1. Reads("chart", {"list", "tree", "findOne"}, Ledger) \subseteq Routes
    BY DEF Routes, ChartRoutes
  <2>. QED
    BY <2>1, AdmittedToRead DEF Role, Ledger, OnlyAdmin
<1>3. \A role \in {"ADMIN", "ACCOUNTANT"} : "manualEntries" \in AreasRead[role]
  <2>1. Reads("manualEntries", {"list", "findOne"}, Ledger) \subseteq Routes
    BY DEF Routes, ManualEntryRoutes
  <2>. QED
    BY <2>1, AdmittedToRead DEF Role, Ledger
<1>4. \A r \in EntryRoutes : Dutiful(r)
  BY ReadsRespectDuties DEF EntryRoutes, Policed, Ledger
<1>5. \A r \in PeriodRoutes : Dutiful(r)
  BY ReadsRespectDuties, WritesRespectDuties, <1>1 DEF PeriodRoutes, Policed,
     Ledger, OnlyAdmin, Counter
<1>6. \A r \in AccountingReportRoutes : Dutiful(r)
  BY ReadsRespectDuties DEF AccountingReportRoutes, Policed, Ledger
<1>7. \A r \in AccountRoutes : Dutiful(r)
  BY ReadsRespectDuties DEF AccountRoutes, Policed, Ledger
<1>8. \A r \in ChartRoutes : Dutiful(r)
  BY ReadsRespectDuties, WritesRespectDuties, <1>2 DEF ChartRoutes, Policed,
     Ledger, OnlyAdmin, Counter
<1>9. \A r \in ChartEditRoutes : Dutiful(r)
  BY WritesRespectDuties, <1>2 DEF ChartEditRoutes, OnlyAdmin, Counter
<1>10. \A r \in ManualEntryRoutes : Dutiful(r)
  <2>1. <<"ACCOUNTANT", "manualEntries">> \in {<<"ACCOUNTANT", "manualEntries">>,
                                               <<"WAREHOUSE", "inventory">>}
    OBVIOUS
  <2>2. \A r \in Writes("manualEntries", {"create", "update", "post", "reverse"},
                        {"ADMIN", "ACCOUNTANT"}) : Dutiful(r)
    BY <1>3, <2>1, KeepersRespectDuties
  <2>. QED
    BY <2>2, ReadsRespectDuties DEF ManualEntryRoutes, Policed
<1>11. \A r \in ReportRoutes : Dutiful(r)
  BY ReadsRespectDuties DEF ReportRoutes, Policed, SalesFloor
<1>12. \A r \in DashboardRoutes : Dutiful(r)
  BY ReadsRespectDuties DEF DashboardRoutes, Policed, Everyday
<1>. QED
  BY <1>4, <1>5, <1>6, <1>7, <1>8, <1>9, <1>10, <1>11, <1>12

\* The administrator alone configures the system and keeps its users.
LEMMA OfficeKeeps ==
  \A r \in UNION {ConfigurationRoutes, SequenceRoutes, AuditRoutes,
                  UserReadRoutes, UserRoutes, RoleRoutes} : Dutiful(r)
<1>1. \A role \in OnlyAdmin : "configuration" \in AreasRead[role]
  <2>1. Reads("configuration", {"get"}, Oversight) \subseteq Routes
    BY DEF Routes, ConfigurationRoutes
  <2>. QED
    BY <2>1, AdmittedToRead DEF Role, Oversight, OnlyAdmin
<1>2. \A role \in OnlyAdmin : "sequences" \in AreasRead[role]
  <2>1. Reads("sequences", {"list"}, Oversight) \subseteq Routes
    BY DEF Routes, SequenceRoutes
  <2>. QED
    BY <2>1, AdmittedToRead DEF Role, Oversight, OnlyAdmin
<1>3. \A role \in OnlyAdmin : "users" \in AreasRead[role]
  <2>1. Reads("users", {"listRoles"}, OnlyAdmin) \subseteq Routes
    BY DEF Routes, RoleRoutes
  <2>. QED
    BY <2>1, AdmittedToRead DEF Role, OnlyAdmin
<1>4. \A r \in ConfigurationRoutes : Dutiful(r)
  BY ReadsRespectDuties, WritesRespectDuties, <1>1 DEF ConfigurationRoutes,
     Policed, Oversight, SalesFloor, OnlyAdmin, Counter
<1>5. \A r \in SequenceRoutes : Dutiful(r)
  BY ReadsRespectDuties, WritesRespectDuties, <1>2 DEF SequenceRoutes, Policed,
     Oversight, OnlyAdmin, Counter
<1>6. \A r \in AuditRoutes : Dutiful(r)
  BY ReadsRespectDuties DEF AuditRoutes, Policed, Oversight
<1>7. \A r \in UserReadRoutes : Dutiful(r)
  BY ReadsRespectDuties DEF UserReadRoutes, Policed, OnlyAdmin, SalesFloor
<1>8. \A r \in UserRoutes : Dutiful(r)
  BY WritesRespectDuties, <1>3 DEF UserRoutes, OnlyAdmin, Counter
<1>9. \A r \in RoleRoutes : Dutiful(r)
  BY ReadsRespectDuties DEF RoleRoutes, Policed, OnlyAdmin
<1>. QED
  BY <1>4, <1>5, <1>6, <1>7, <1>8, <1>9

\* Management changes nothing, accountants only their manual entries and the
\* warehouse only the stock; who may change something in an area also reads
\* there, and the policies of sales and quotes refuse no role all of what the
\* guard of roles admits it to.
THEOREM DutiesKept == Spec => []RolesKeepToTheirDuties
<1>1. \A r \in Routes \ SessionRoutes : Dutiful(r)
  BY SalesFloorKeeps, CatalogueKeeps, StockroomKeeps, BooksKeep, OfficeKeeps DEF
     Routes
<1>2. RolesKeepToTheirDuties
  <2> SUFFICES ASSUME NEW s \in sessions, NEW r \in Routes \ SessionRoutes, RolesGuard(s, r)
               PROVE  /\ r.writes =>
                           /\ s.activeRole \in {"ADMIN", "SELLER"}
                                \/ <<s.activeRole, r.area>> \in
                                     {<<"ACCOUNTANT", "manualEntries">>,
                                      <<"WAREHOUSE", "inventory">>}
                           /\ r.area \in AreasRead[s.activeRole]
                           /\ CanOperate(r.area, s.activeRole, TRUE)
                      /\ CanRead(r.area, s.activeRole, TRUE)
    BY DEF RolesKeepToTheirDuties, Admitted
  <2>. QED
    BY <1>1 DEF Dutiful, RolesGuard
<1>. QED
  BY <1>2, PTL

-----------------------------------------------------------------------------
(* Rows and the columns that are written *)

LEMMA TablesApart ==
  /\ Products \cap Customers = {} /\ Categories \cap Customers = {} /\ Units \cap Customers = {}
  /\ Suppliers \cap Customers = {} /\ Methods \cap Customers = {}
  /\ Products \cap Categories = {} /\ Products \cap Units = {}
  /\ Products \cap Suppliers = {} /\ Products \cap Methods = {}
<1> DEFINE tables == <<Categories, Units, Products, Customers, Suppliers, Methods>>
<1>1. \A m, n \in 1..6 : m # n => tables[m] \cap tables[n] = {}
  BY RecordsAssumption
<1>2. /\ tables[1] = Categories /\ tables[2] = Units /\ tables[3] = Products
      /\ tables[4] = Customers /\ tables[5] = Suppliers /\ tables[6] = Methods
  OBVIOUS
<1> HIDE DEF tables
<1>. QED
  BY <1>1, <1>2

\* The columns of a product, of its row or of an edit, name its category and unit.
Placed(columns) ==
  /\ "category" \in DOMAIN columns => columns["category"] \in Categories
  /\ "unit" \in DOMAIN columns => columns["unit"] \in Units

\* A row that is written names its category and unit, given or kept.
LEMMA WrittenPlaced ==
  ASSUME NEW columns, NEW row, Placed(columns),
         \/ {"category", "unit"} \subseteq DOMAIN columns
         \/ {"category", "unit"} \subseteq DOMAIN row /\ Placed(row)
  PROVE  {"category", "unit"} \subseteq DOMAIN Written(columns, row) /\ Placed(Written(columns, row))
<1> DEFINE W == Written(columns, row)
<1>1. /\ DOMAIN W = DOMAIN columns \cup DOMAIN row
      /\ \A c \in DOMAIN columns : W[c] = columns[c]
      /\ \A c \in DOMAIN row \ DOMAIN columns : W[c] = row[c]
  BY DEF Written
<1> HIDE DEF W
<1>2. {"category", "unit"} \subseteq DOMAIN W /\ Placed(W)
  BY <1>1 DEF Placed
<1>. QED
  BY <1>2 DEF W

LEMMA SaleTaken ==
  ASSUME NEW row, NEW o \in Orders
  PROVE  LET s == Written([seen |-> row], o)
         IN  /\ s.seen = row /\ s.customer = o.customer /\ s.product = o.product
             /\ s.quoted = o.quoted /\ s.debt = o.debt /\ s.fraction = o.fraction
             /\ s.customer \in Customers /\ s.product \in Products
  BY DEF Written, Orders

-----------------------------------------------------------------------------
(* The sales that are being confirmed *)

ProductStands(p) ==
  Exists(p) => {"category", "unit"} \subseteq DOMAIN rows[p] /\ Placed(rows[p])

\* Nothing edits the generic customer, which sales read without a lock.
EditStands(u) ==
  \A e \in edit[u] :
    /\ e.row \in Ids \ {Generic}
    /\ e.row \in Products =>
         Placed(e.columns) /\ (e.insert => {"category", "unit"} \subseteq DOMAIN e.columns)

\* Products and customers are held by one sale at a time, categories and units
\* by any number of them.
RowsStand ==
  /\ DOMAIN rows = Ids /\ DOMAIN edit = Admins /\ DOMAIN holders = Ids
  /\ \A p \in Products : ProductStands(p)
  /\ \A u \in Admins : EditStands(u)
  /\ \A i \in Products \cup Customers : \A r, s \in holders[i] : r = s

\* The customer is as it was read; what the sale has found of the rows it
\* holds is still true.
CustomerSeen(r, o) ==
  /\ o.customer \in Customers /\ o.product \in Products
  /\ o.customer # Generic => r \in holders[o.customer]
  /\ o.seen = rows[o.customer]
  /\ CustomerUsable(o)

ProductsSeen(r, o) ==
  /\ r \in holders[o.product]
  /\ r \in holders[rows[o.product].category] /\ r \in holders[rows[o.product].unit]
  /\ Eligible(o) /\ DebtAllowed(o, o.seen)

SaleStands(r) ==
  /\ \A o, w \in order[r] : o = w
  /\ pc[r] \in {"customer", "checked"} => \A o \in order[r] : CustomerSeen(r, o)
  /\ pc[r] = "checked" => \A o \in order[r] : ProductsSeen(r, o)

IntakeStands ==
  /\ RowsStand
  /\ DOMAIN pc = Sellers /\ DOMAIN order = Sellers
  /\ \A r \in Sellers : SaleStands(r)

LEMMA ProductsPlaced ==
  ASSUME RowsStand, NEW p \in Products, Exists(p)
  PROVE  rows[p].category \in Categories /\ rows[p].unit \in Units
<1>1. {"category", "unit"} \subseteq DOMAIN rows[p] /\ Placed(rows[p])
  BY DEF RowsStand, ProductStands
<1>. QED
  BY <1>1 DEF Placed

LEMMA EligibleExists ==
  ASSUME NEW o, Eligible(o)
  PROVE  Exists(o.product)
  BY DEF Eligible, Active, Exists, NoRow

\* A sale stands as long as the rows it holds stay as they are.
LEMMA HeldRowsKeep ==
  ASSUME IntakeStands, NEW r \in Sellers, pc'[r] = pc[r], order'[r] = order[r],
         \A i \in Ids : r \in holders[i] => r \in holders'[i] /\ rows'[i] = rows[i],
         rows'[Generic] = rows[Generic]
  PROVE  SaleStands(r)'
<1>1. SaleStands(r) /\ RowsStand
  BY DEF IntakeStands
<1>2. ASSUME NEW o \in order[r], CustomerSeen(r, o)
      PROVE  CustomerSeen(r, o)' /\ rows'[o.customer] = rows[o.customer]
  <2>1. rows'[o.customer] = rows[o.customer]
    BY <1>2 DEF CustomerSeen, Ids
  <2>2. o.customer # Generic => r \in holders'[o.customer]
    BY <1>2 DEF CustomerSeen, Ids
  <2>. QED
    BY <1>2, <2>1, <2>2 DEF CustomerSeen, CustomerUsable, Exists
<1>3. ASSUME NEW o \in order[r], CustomerSeen(r, o), ProductsSeen(r, o)
      PROVE  ProductsSeen(r, o)'
  <2>1. /\ o.product \in Products /\ Exists(o.product)
        /\ rows[o.product].category \in Categories /\ rows[o.product].unit \in Units
    BY <1>1, <1>3, EligibleExists, ProductsPlaced DEF CustomerSeen, ProductsSeen
  <2>2. \A i \in {o.product, rows[o.product].category, rows[o.product].unit} :
          r \in holders'[i] /\ rows'[i] = rows[i]
    BY <1>3, <2>1 DEF ProductsSeen, Ids
  <2>. QED
    BY <1>3, <2>2 DEF ProductsSeen, Eligible, Active, DebtAllowed
<1>. QED
  BY <1>1, <1>2, <1>3 DEF SaleStands

-----------------------------------------------------------------------------
(* Edits *)

\* What an administrator has decided to write touches no row yet.
LEMMA DecideKeeps ==
  ASSUME IntakeStands, UNCHANGED intakeVars, NEW u \in Admins, NEW i \in Ids \ {Generic},
         NEW columns, Decide(u, i, columns),
         i \in Products =>
           Placed(columns) /\ (~Exists(i) => {"category", "unit"} \subseteq DOMAIN columns)
  PROVE  IntakeStands'
<1> DEFINE e == [row |-> i, insert |-> ~Exists(i), columns |-> columns]
<1>1. edit' = [edit EXCEPT ![u] = {e}] /\ rows' = rows /\ holders' = holders
  BY DEF Decide
<1>2. pc' = pc /\ order' = order
  BY DEF intakeVars
<1>3. RowsStand
  BY DEF IntakeStands
<1>4. ASSUME NEW v \in Admins PROVE EditStands(v)'
  <2>1. e.row = i /\ (e.insert <=> ~Exists(i)) /\ e.columns = columns
    OBVIOUS
  <2> HIDE DEF e
  <2>2. edit'[v] = IF v = u THEN {e} ELSE edit[v]
    BY <1>1, <1>3 DEF RowsStand
  <2>3. /\ e.row \in Ids \ {Generic}
        /\ e.row \in Products =>
             Placed(e.columns) /\ (e.insert => {"category", "unit"} \subseteq DOMAIN e.columns)
    BY <2>1
  <2>. QED
    BY <1>3, <2>2, <2>3 DEF RowsStand, EditStands
<1>5. RowsStand'
  BY <1>1, <1>3, <1>4 DEF RowsStand, ProductStands, Exists
<1>6. \A r \in Sellers : SaleStands(r)'
  BY <1>1, <1>2, HeldRowsKeep
<1>. QED
  BY <1>2, <1>5, <1>6 DEF IntakeStands

\* An edit of what is no product.
LEMMA OtherEditKeeps ==
  ASSUME IntakeStands, UNCHANGED intakeVars, NEW u \in Admins, NEW i \in Ids \ {Generic},
         i \notin Products, NEW columns, Decide(u, i, columns)
  PROVE  IntakeStands'
  BY DecideKeeps

\* An edit of columns of a product that tell neither its category nor its unit.
LEMMA ProductEditKeeps ==
  ASSUME IntakeStands, UNCHANGED intakeVars, NEW u \in Admins, NEW p \in Products,
         Exists(p), NEW columns, Decide(u, p, columns), Placed(columns)
  PROVE  IntakeStands'
<1>1. p \in Ids \ {Generic}
  BY TablesApart, RecordsAssumption DEF Ids
<1>. QED
  BY <1>1, DecideKeeps

LEMMA PatchesPlaced ==
  ASSUME NEW patch \in Patches
  PROVE  Placed(patch)
<1>1. PICK S \in PatchedTogether, kind \in Kinds, place \in Places :
        patch = [c \in S |-> Written(kind, place)[c]]
  BY DEF Patches
<1>2. Written(kind, place)["category"] \in Categories /\ Written(kind, place)["unit"] \in Units
  BY DEF Written, Kinds, Places
<1>. QED
  BY <1>1, <1>2 DEF Placed

LEMMA NewProductPlaced ==
  ASSUME NEW kind \in Kinds, NEW place \in Places
  PROVE  LET row == Written([status |-> "ACTIVE", stock |-> 0], Written(kind, place))
         IN  Placed(row) /\ {"category", "unit"} \subseteq DOMAIN row
<1> DEFINE rest == Written(kind, place)
<1>1. /\ DOMAIN rest = {"type", "tracked", "minimum", "category", "unit"}
      /\ rest["category"] \in Categories /\ rest["unit"] \in Units
  BY DEF Written, Kinds, Places
<1> HIDE DEF rest
<1>2. LET row == Written([status |-> "ACTIVE", stock |-> 0], rest)
      IN  Placed(row) /\ {"category", "unit"} \subseteq DOMAIN row
  BY <1>1 DEF Written, Placed
<1>. QED
  BY <1>2 DEF rest

LEMMA CatalogStepKeeps ==
  ASSUME IntakeStands, UNCHANGED intakeVars, NEW u \in Admins, CatalogStep(u)
  PROVE  IntakeStands'
<1>1. /\ \A i \in Categories \cup Units : i \in Ids \ {Generic} /\ i \notin Products
      /\ Placed(<<>>) /\ \A new : Placed([status |-> new])
  BY TablesApart, RecordsAssumption DEF Ids, Placed
<1>2. ASSUME NEW i \in Categories \cup Units \cup Products, UpdateText(u, i)
      PROVE  IntakeStands'
  <2>1. CASE i \in Products
    BY <1>1, <1>2, <2>1, ProductEditKeeps DEF UpdateText
  <2>2. CASE i \notin Products
    BY <1>1, <1>2, <2>2, OtherEditKeeps DEF UpdateText
  <2>. QED
    BY <2>1, <2>2
<1>3. ASSUME NEW c \in Categories,
             \/ \E p \in Parents : CreateCategory(u, c, p) \/ UpdateCategory(u, c, p)
             \/ ActivateCategory(u, c) \/ DeactivateCategory(u, c)
      PROVE  IntakeStands'
  <2>1. \E columns : Decide(u, c, columns)
    BY <1>3 DEF CreateCategory, UpdateCategory, ActivateCategory, DeactivateCategory, Insert, Switch
  <2>. QED
    BY <1>1, <2>1, OtherEditKeeps
<1>4. ASSUME NEW n \in Units,
             \/ \E decimal \in BOOLEAN : CreateUnit(u, n, decimal) \/ UpdateUnit(u, n, decimal)
             \/ ActivateUnit(u, n) \/ DeactivateUnit(u, n)
      PROVE  IntakeStands'
  <2>1. \E columns : Decide(u, n, columns)
    BY <1>4 DEF CreateUnit, UpdateUnit, ActivateUnit, DeactivateUnit, Insert, Switch
  <2>. QED
    BY <1>1, <2>1, OtherEditKeeps
<1>5. ASSUME NEW p \in Products, NEW kind \in Kinds, NEW place \in Places, CreateProduct(u, p, kind, place)
      PROVE  IntakeStands'
  <2>1. p \in Ids \ {Generic}
    BY TablesApart, RecordsAssumption DEF Ids
  <2>. QED
    BY <1>5, <2>1, NewProductPlaced, DecideKeeps DEF CreateProduct, Insert
<1>6. ASSUME NEW p \in Products, NEW patch \in Patches, UpdateProduct(u, p, patch)
      PROVE  IntakeStands'
  BY <1>6, PatchesPlaced, ProductEditKeeps DEF UpdateProduct
<1>7. ASSUME NEW p \in Products, ActivateProduct(u, p) \/ DeactivateProduct(u, p)
      PROVE  IntakeStands'
  <2>1. Exists(p)
    BY <1>7 DEF ActivateProduct, DeactivateProduct, Switch, Exists, NoRow
  <2>2. Decide(u, p, [status |-> "ACTIVE"]) \/ Decide(u, p, [status |-> "INACTIVE"])
    BY <1>7 DEF ActivateProduct, DeactivateProduct, Switch
  <2>. QED
    BY <1>1, <2>1, <2>2, ProductEditKeeps
<1>. QED
  BY <1>2, <1>3, <1>4, <1>5, <1>6, <1>7 DEF CatalogStep

LEMMA PartyStepKeeps ==
  ASSUME IntakeStands, UNCHANGED intakeVars, NEW u \in Admins,
         \/ \E c \in Customers : CustomerStep(u, c)
         \/ \E s \in Suppliers : SupplierStep(u, s)
         \/ \E m \in Methods : MethodStep(u, m)
  PROVE  IntakeStands'
<1>1. \A c \in Customers : \A columns : c # Generic /\ Decide(u, c, columns) => IntakeStands'
  BY TablesApart, OtherEditKeeps DEF Ids
<1>2. \A i \in Suppliers \cup Methods : \A columns : Decide(u, i, columns) => IntakeStands'
  BY TablesApart, RecordsAssumption, OtherEditKeeps DEF Ids
<1>3. ASSUME NEW c \in Customers, CustomerStep(u, c) PROVE IntakeStands'
  <2>1. c # Generic /\ \E columns : Decide(u, c, columns)
    BY <1>3 DEF CustomerStep, CreateCustomer, UpdateCustomer, ActivateCustomer, DeactivateCustomer,
       BlockCustomer, UnblockCustomer, ChangeStatus, ConvertToCustomer, SetCreditEnabled,
       Insert, UpdateText, Switch
  <2>. QED
    BY <1>1, <2>1
<1>4. ASSUME NEW s \in Suppliers, SupplierStep(u, s) PROVE IntakeStands'
  <2>1. \E columns : Decide(u, s, columns)
    BY <1>4 DEF SupplierStep, CreateSupplier, ActivateSupplier, DeactivateSupplier, Insert, UpdateText, Switch
  <2>. QED
    BY <1>2, <2>1
<1>5. ASSUME NEW m \in Methods, MethodStep(u, m) PROVE IntakeStands'
  <2>1. \E columns : Decide(u, m, columns)
    BY <1>5 DEF MethodStep, CreateMethod, UpdateMethod, Insert
  <2>. QED
    BY <1>2, <2>1
<1>. QED
  BY <1>3, <1>4, <1>5

LEMMA CommitEditKeeps ==
  ASSUME IntakeStands, UNCHANGED intakeVars, NEW u \in Admins, CommitEdit(u)
  PROVE  IntakeStands'
<1>1. PICK e \in edit[u] :
        /\ holders[e.row] = {}
        /\ e.insert <=> ~Exists(e.row)
        /\ rows' = [rows EXCEPT ![e.row] = Written(e.columns, rows[e.row])]
        /\ edit' = [edit EXCEPT ![u] = {}]
        /\ holders' = holders
  BY DEF CommitEdit
<1>2. RowsStand /\ pc' = pc /\ order' = order
  BY DEF IntakeStands, intakeVars
<1>3. /\ e.row \in Ids \ {Generic}
      /\ e.row \in Products =>
           Placed(e.columns) /\ (e.insert => {"category", "unit"} \subseteq DOMAIN e.columns)
  BY <1>2 DEF RowsStand, EditStands
<1>4. \A i \in Ids : rows'[i] = IF i = e.row THEN Written(e.columns, rows[i]) ELSE rows[i]
  BY <1>1, <1>2 DEF RowsStand
<1>5. ASSUME NEW p \in Products PROVE ProductStands(p)'
  <2>1. p \in Ids
    BY DEF Ids
  <2>2. ProductStands(p)
    BY <1>2 DEF RowsStand
  <2>3. CASE p # e.row
    BY <1>4, <2>1, <2>2, <2>3 DEF ProductStands, Exists
  <2>4. CASE p = e.row
    <3> DEFINE row == rows[p]
    <3>1. rows'[p] = Written(e.columns, row)
      BY <1>4, <2>1, <2>4
    <3>2. Placed(e.columns) /\ (e.insert => {"category", "unit"} \subseteq DOMAIN e.columns)
      BY <1>3, <2>4
    <3>3. ~e.insert => {"category", "unit"} \subseteq DOMAIN row /\ Placed(row)
      BY <1>1, <2>2, <2>4 DEF ProductStands
    <3> HIDE DEF row
    <3>4. {"category", "unit"} \subseteq DOMAIN Written(e.columns, row) /\ Placed(Written(e.columns, row))
      BY <3>2, <3>3, WrittenPlaced
    <3>. QED
      BY <3>1, <3>4 DEF ProductStands
  <2>. QED
    BY <2>3, <2>4
<1>6. \A v \in Admins : EditStands(v)'
  BY <1>1, <1>2 DEF RowsStand, EditStands
<1>7. RowsStand'
  BY <1>1, <1>2, <1>5, <1>6 DEF RowsStand
<1>8. ASSUME NEW r \in Sellers PROVE SaleStands(r)'
  <2>1. \A i \in Ids : r \in holders[i] => r \in holders'[i] /\ rows'[i] = rows[i]
    BY <1>1, <1>4
  <2>2. rows'[Generic] = rows[Generic]
    BY <1>3, <1>4, RecordsAssumption DEF Ids
  <2>. QED
    BY <1>2, <2>1, <2>2, HeldRowsKeep
<1>. QED
  BY <1>2, <1>7, <1>8 DEF IntakeStands

LEMMA AbandonEditKeeps ==
  ASSUME IntakeStands, UNCHANGED intakeVars, NEW u \in Admins, AbandonEdit(u)
  PROVE  IntakeStands'
<1>1. /\ rows' = rows /\ holders' = holders /\ edit' = [edit EXCEPT ![u] = {}]
      /\ pc' = pc /\ order' = order /\ RowsStand
  BY DEF AbandonEdit, intakeVars, IntakeStands
<1>2. RowsStand'
  BY <1>1 DEF RowsStand, EditStands, ProductStands, Exists
<1>3. \A r \in Sellers : SaleStands(r)'
  BY <1>1, HeldRowsKeep
<1>. QED
  BY <1>1, <1>2, <1>3 DEF IntakeStands
-----------------------------------------------------------------------------
(* Sales *)

LEMMA LockCustomerKeeps ==
  ASSUME IntakeStands, NEW r \in Sellers, NEW o \in Orders, LockCustomer(r, o)
  PROVE  IntakeStands'
<1>1. RowsStand
  BY DEF IntakeStands
<1>2. PICK sale : sale = Written([seen |-> rows[o.customer]], o)
  OBVIOUS
<1>3. /\ sale.seen = rows[o.customer] /\ sale.customer = o.customer
      /\ sale.quoted = o.quoted /\ sale.customer \in Customers /\ sale.product \in Products
  BY <1>2, SaleTaken
<1>4. /\ o.customer = Generic \/ holders[o.customer] = {}
      /\ CustomerUsable(o)
      /\ rows' = rows /\ edit' = edit
      /\ order' = [order EXCEPT ![r] = {sale}]
      /\ pc' = [pc EXCEPT ![r] = "customer"]
      /\ holders' = [i \in Ids |-> holders[i] \cup (IF i \in {o.customer} \ {Generic} THEN {r} ELSE {})]
  BY <1>2 DEF LockCustomer, Proceed, Lock
<1>5. /\ \A s \in Sellers : pc'[s] = IF s = r THEN "customer" ELSE pc[s]
      /\ \A s \in Sellers : order'[s] = IF s = r THEN {sale} ELSE order[s]
      /\ DOMAIN pc' = Sellers /\ DOMAIN order' = Sellers
  BY <1>4 DEF IntakeStands
<1>6. RowsStand'
  <2>1. \A i \in Products \cup Customers : \A s, t \in holders'[i] : s = t
    BY <1>1, <1>4 DEF RowsStand, Ids
  <2>. QED
    BY <1>1, <1>4, <2>1 DEF RowsStand, EditStands, ProductStands, Exists
<1>7. ASSUME NEW s \in Sellers PROVE SaleStands(s)'
  <2>1. CASE s # r
    BY <1>4, <1>5, <2>1, HeldRowsKeep
  <2>2. CASE s = r
    <3>1. CustomerSeen(r, sale)'
      BY <1>3, <1>4 DEF CustomerSeen, CustomerUsable, Exists, Ids
    <3>. QED
      BY <1>5, <2>2, <3>1 DEF SaleStands
  <2>. QED
    BY <2>1, <2>2
<1>. QED
  BY <1>5, <1>6, <1>7 DEF IntakeStands

LEMMA LockProductsKeeps ==
  ASSUME IntakeStands, NEW r \in Sellers, LockProducts(r)
  PROVE  IntakeStands'
<1>1. RowsStand /\ SaleStands(r) /\ DOMAIN pc = Sellers /\ DOMAIN order = Sellers
  BY DEF IntakeStands
<1>2. PICK o \in order[r] :
        /\ pc[r] = "customer"
        /\ Exists(o.product) /\ holders[o.product] = {}
        /\ Eligible(o) /\ DebtAllowed(o, o.seen)
        /\ Lock(r, {o.product, rows[o.product].category, rows[o.product].unit})
        /\ pc' = [pc EXCEPT ![r] = "checked"]
        /\ rows' = rows /\ edit' = edit /\ order' = order
  BY DEF LockProducts, Proceed
<1> DEFINE held == {o.product, rows[o.product].category, rows[o.product].unit}
<1>3. CustomerSeen(r, o) /\ o.product \in Products
  BY <1>1, <1>2 DEF SaleStands, CustomerSeen
<1>4. rows[o.product].category \in Categories /\ rows[o.product].unit \in Units
  BY <1>1, <1>2, <1>3, ProductsPlaced
<1>5. held \subseteq Ids /\ held \cap Customers = {} /\ held \cap Products = {o.product}
  BY <1>3, <1>4, TablesApart DEF Ids
<1>6. \A i \in Ids : holders'[i] = holders[i] \cup (IF i \in held THEN {r} ELSE {})
  BY <1>2 DEF Lock
<1>7. DOMAIN holders' = Ids /\ \A s \in Sellers : pc'[s] = IF s = r THEN "checked" ELSE pc[s]
  BY <1>1, <1>2 DEF Lock
<1> HIDE DEF held
<1>8. RowsStand'
  <2>1. \A i \in Products \cup Customers : \A s, t \in holders'[i] : s = t
    BY <1>1, <1>2, <1>5, <1>6 DEF RowsStand, Ids
  <2>. QED
    BY <1>1, <1>2, <1>7, <2>1 DEF RowsStand, EditStands, ProductStands, Exists
<1>9. ASSUME NEW s \in Sellers PROVE SaleStands(s)'
  <2>1. CASE s # r
    BY <1>2, <1>6, <1>7, <2>1, HeldRowsKeep
  <2>2. CASE s = r
    <3>1. CustomerSeen(r, o)'
      BY <1>2, <1>3, <1>6 DEF CustomerSeen, CustomerUsable, Exists, Ids
    <3>2. \A i \in held : r \in holders'[i]
      BY <1>5, <1>6
    <3>3. ProductsSeen(r, o)'
      BY <1>2, <3>2 DEF held, ProductsSeen, Eligible, DebtAllowed, Active
    <3>. QED
      BY <1>1, <1>2, <1>7, <2>2, <3>1, <3>3 DEF SaleStands
  <2>. QED
    BY <2>1, <2>2
<1>. QED
  BY <1>1, <1>2, <1>7, <1>8, <1>9 DEF IntakeStands

LEMMA EndRequestKeeps ==
  ASSUME IntakeStands, NEW r \in Sellers, EndRequest(r)
  PROVE  IntakeStands'
<1>1. RowsStand /\ DOMAIN pc = Sellers /\ DOMAIN order = Sellers
  BY DEF IntakeStands
<1>2. /\ \A s \in Sellers : pc'[s] = IF s = r THEN "idle" ELSE pc[s]
      /\ \A s \in Sellers : order'[s] = IF s = r THEN {} ELSE order[s]
      /\ DOMAIN pc' = Sellers /\ DOMAIN order' = Sellers
      /\ holders' = [i \in Ids |-> holders[i] \ {r}]
      /\ rows' = rows /\ edit' = edit
  BY <1>1 DEF EndRequest, Proceed, Release
<1>3. RowsStand'
  <2>1. \A i \in Products \cup Customers : \A s, t \in holders'[i] : s = t
    BY <1>1, <1>2 DEF RowsStand, Ids
  <2>. QED
    BY <1>1, <1>2, <2>1 DEF RowsStand, EditStands, ProductStands, Exists
<1>4. ASSUME NEW s \in Sellers PROVE SaleStands(s)'
  <2>1. CASE s # r
    BY <1>2, <2>1, HeldRowsKeep
  <2>2. CASE s = r
    BY <1>2, <2>2 DEF SaleStands
  <2>. QED
    BY <2>1, <2>2
<1>. QED
  BY <1>2, <1>3, <1>4 DEF IntakeStands

\* Confirming writes only the product and the customer, which no other sale holds.
LEMMA ConfirmKeeps ==
  ASSUME IntakeStands, NEW r \in Sellers, Confirm(r)
  PROVE  IntakeStands'
<1>1. RowsStand /\ SaleStands(r) /\ DOMAIN pc = Sellers /\ DOMAIN order = Sellers
  BY DEF IntakeStands
<1>2. PICK o \in order[r] :
        /\ pc[r] = "checked"
        /\ rows' = [i \in Ids |->
             CASE i = o.product /\ rows[i].tracked -> [rows[i] EXCEPT !.stock = @ - 1]
               [] i = o.customer /\ o.customer # Generic -> [rows[i] EXCEPT !.stage = "CUSTOMER"]
               [] OTHER -> rows[i]]
  BY DEF Confirm
<1>3. /\ \A s \in Sellers : pc'[s] = IF s = r THEN "confirmed" ELSE pc[s]
      /\ \A s \in Sellers : order'[s] = IF s = r THEN {} ELSE order[s]
      /\ DOMAIN pc' = Sellers /\ DOMAIN order' = Sellers
      /\ holders' = [i \in Ids |-> holders[i] \ {r}]
      /\ edit' = edit
  BY <1>1 DEF Confirm, Proceed, Release
<1>4. CustomerSeen(r, o) /\ ProductsSeen(r, o)
  BY <1>1, <1>2 DEF SaleStands
<1>5. \A i \in Ids : i # o.product /\ (i # o.customer \/ i = Generic) => rows'[i] = rows[i]
  BY <1>2
<1>6. /\ o.product \in Products /\ o.customer \in Customers /\ o.product # Generic
      /\ Exists(o.product)
  BY <1>4, TablesApart, RecordsAssumption, EligibleExists DEF CustomerSeen, ProductsSeen
<1>7. ASSUME NEW p \in Products PROVE ProductStands(p)'
  <2>1. p \in Ids /\ p # o.customer /\ ProductStands(p)
    BY <1>1, <1>6, TablesApart DEF Ids, RowsStand
  <2>2. CASE p # o.product
    BY <1>5, <2>1, <2>2 DEF ProductStands, Exists
  <2>3. CASE p = o.product
    <3>1. rows'[p] = rows[p] \/ rows'[p] = [rows[p] EXCEPT !.stock = @ - 1]
      BY <1>2, <2>1
    <3>2. {"category", "unit"} \subseteq DOMAIN rows[p] /\ Placed(rows[p])
      BY <1>6, <2>1, <2>3 DEF ProductStands
    <3>3. {"category", "unit"} \subseteq DOMAIN rows'[p] /\ Placed(rows'[p])
      BY <3>1, <3>2 DEF Placed
    <3>. QED
      BY <3>3 DEF ProductStands
  <2>. QED
    BY <2>2, <2>3
<1>8. RowsStand'
  <2>1. \A i \in Products \cup Customers : \A s, t \in holders'[i] : s = t
    BY <1>1, <1>3 DEF RowsStand, Ids
  <2>2. DOMAIN rows' = Ids
    BY <1>2
  <2>. QED
    BY <1>1, <1>3, <1>7, <2>1, <2>2 DEF RowsStand, EditStands
<1>9. ASSUME NEW s \in Sellers PROVE SaleStands(s)'
  <2>1. CASE s # r
    <3>1. s \notin holders[o.product] /\ (o.customer # Generic => s \notin holders[o.customer])
      BY <1>1, <1>4, <1>6, <2>1 DEF RowsStand, CustomerSeen, ProductsSeen
    <3>2. \A i \in Ids : s \in holders[i] => s \in holders'[i] /\ rows'[i] = rows[i]
      BY <1>3, <1>5, <2>1, <3>1
    <3>3. rows'[Generic] = rows[Generic]
      BY <1>5, <1>6, RecordsAssumption DEF Ids
    <3>. QED
      BY <1>3, <2>1, <3>2, <3>3, HeldRowsKeep
  <2>2. CASE s = r
    BY <1>3, <2>2 DEF SaleStands
  <2>. QED
    BY <2>1, <2>2
<1>. QED
  BY <1>3, <1>8, <1>9 DEF IntakeStands

LEMMA RestockKeeps ==
  ASSUME IntakeStands, NEW p \in Products, Restock(p)
  PROVE  IntakeStands'
<1>1. RowsStand
  BY DEF IntakeStands
<1>2. /\ Exists(p) /\ holders[p] = {}
      /\ rows' = [rows EXCEPT ![p] = [rows[p] EXCEPT !.stock = @ + 1]]
      /\ edit' = edit /\ holders' = holders /\ pc' = pc /\ order' = order
  BY DEF Restock, intakeVars
<1>3. \A i \in Ids : rows'[i] = IF i = p THEN [rows[p] EXCEPT !.stock = @ + 1] ELSE rows[i]
  BY <1>1, <1>2 DEF RowsStand
<1>4. ASSUME NEW q \in Products PROVE ProductStands(q)'
  <2>1. q \in Ids /\ ProductStands(q)
    BY <1>1 DEF Ids, RowsStand
  <2>2. CASE q # p
    BY <1>3, <2>1, <2>2 DEF ProductStands, Exists
  <2>3. CASE q = p
    <3>1. {"category", "unit"} \subseteq DOMAIN rows[p] /\ Placed(rows[p])
      BY <1>2, <2>1, <2>3 DEF ProductStands
    <3>2. {"category", "unit"} \subseteq DOMAIN rows'[p] /\ Placed(rows'[p])
      BY <1>3, <2>1, <2>3, <3>1 DEF Placed
    <3>. QED
      BY <2>3, <3>2 DEF ProductStands
  <2>. QED
    BY <2>2, <2>3
<1>5. RowsStand'
  BY <1>1, <1>2, <1>4 DEF RowsStand, EditStands
<1>6. ASSUME NEW r \in Sellers PROVE SaleStands(r)'
  <2>1. \A i \in Ids : r \in holders[i] => r \in holders'[i] /\ rows'[i] = rows[i]
    BY <1>2, <1>3
  <2>2. rows'[Generic] = rows[Generic]
    BY <1>3, TablesApart, RecordsAssumption DEF Ids
  <2>. QED
    BY <1>2, <2>1, <2>2, HeldRowsKeep
<1>. QED
  BY <1>2, <1>5, <1>6 DEF IntakeStands

LEMMA IntakeInitStands == IntakeInit => IntakeStands
<1> SUFFICES ASSUME IntakeInit PROVE IntakeStands
  OBVIOUS
<1>1. \A p \in Products : ~Exists(p)
  BY TablesApart, RecordsAssumption DEF IntakeInit, RecordsInit, Exists, Ids
<1>2. RowsStand
  BY <1>1 DEF IntakeInit, RecordsInit, RowsStand, ProductStands, EditStands, Ids
<1>3. ASSUME NEW r \in Sellers PROVE SaleStands(r)
  BY DEF IntakeInit, SaleStands
<1>. QED
  BY <1>2, <1>3 DEF IntakeInit, IntakeStands

LEMMA IntakeStepKeeps ==
  ASSUME IntakeStands, [IntakeNext]_<<records, intakeVars>>
  PROVE  IntakeStands'
<1>1. CASE UNCHANGED <<records, intakeVars>>
  <2>1. /\ rows' = rows /\ edit' = edit /\ holders' = holders /\ pc' = pc /\ order' = order
        /\ RowsStand
    BY <1>1 DEF records, intakeVars, IntakeStands
  <2>2. RowsStand'
    BY <2>1 DEF RowsStand, EditStands, ProductStands, Exists
  <2>3. \A r \in Sellers : SaleStands(r)'
    BY <2>1, HeldRowsKeep
  <2>. QED
    BY <2>1, <2>2, <2>3 DEF IntakeStands
<1>2. ASSUME NEW u \in Admins, EditRows(u), UNCHANGED intakeVars PROVE IntakeStands'
  BY <1>2, CatalogStepKeeps, PartyStepKeeps, CommitEditKeeps, AbandonEditKeeps DEF EditRows
<1>3. ASSUME NEW r \in Sellers, IntakeStep(r) PROVE IntakeStands'
  BY <1>3, LockCustomerKeeps, LockProductsKeeps, ConfirmKeeps, EndRequestKeeps DEF IntakeStep
<1>. QED
  BY <1>1, <1>2, <1>3, RestockKeeps DEF IntakeNext

\* Only Confirm() reaches "confirmed".
LEMMA OnlyConfirms ==
  ASSUME IntakeStands, IntakeNext, NEW r \in Sellers, pc[r] # "confirmed", pc'[r] = "confirmed"
  PROVE  Confirm(r)
<1>1. PICK s \in Sellers : IntakeStep(s)
  BY DEF IntakeNext, Restock, intakeVars
<1>2. ASSUME NEW step \in {"customer", "checked", "idle"}, Proceed(s, step) PROVE FALSE
  BY <1>2 DEF Proceed, IntakeStands
<1>3. Confirm(s)
  BY <1>1, <1>2 DEF IntakeStep, LockCustomer, LockProducts, EndRequest
<1>4. r = s
  BY <1>3 DEF Confirm, Proceed, IntakeStands
<1>. QED
  BY <1>3, <1>4

\* For any catalog, customers, administrators and sales at once.
THEOREM SalesKeepFitting == IntakeSpec => SalesFitTheRows
<1>1. ASSUME IntakeStands, [IntakeNext]_<<records, intakeVars>>
      PROVE  [\A r \in Sellers : pc[r] # "confirmed" /\ pc'[r] = "confirmed" =>
                \A o \in order[r] :
                  /\ CustomerUsable(o) /\ DebtAllowed(o, rows[o.customer])
                  /\ Eligible(o)]_<<records, intakeVars>>
  <2> SUFFICES ASSUME IntakeNext, NEW r \in Sellers, pc[r] # "confirmed", pc'[r] = "confirmed",
                      NEW o \in order[r]
               PROVE  /\ CustomerUsable(o) /\ DebtAllowed(o, rows[o.customer])
                      /\ Eligible(o)
    BY <1>1
  <2>1. pc[r] = "checked"
    BY <1>1, OnlyConfirms DEF Confirm
  <2>2. CustomerSeen(r, o) /\ ProductsSeen(r, o)
    BY <1>1, <2>1 DEF IntakeStands, SaleStands
  <2>. QED
    BY <2>2 DEF CustomerSeen, ProductsSeen
<1>. QED
  BY <1>1, IntakeInitStands, IntakeStepKeeps, PTL DEF IntakeSpec, SalesFitTheRows

-----------------------------------------------------------------------------
(* What each role is shown *)

\* A list without a filter shows a row exactly to who may open its page.
LEMMA ListedUnfiltered ==
  ASSUME NEW role \in Roles, NEW table, NEW i \in table
  PROVE  Found(role, i) <=> i \in Listed(role, NoFilter, table)
  BY ViewsAssumption DEF Found, Listed, Matches, StatusFilter, Statuses, Active

\* A filter on the status only takes rows away.
LEMMA ListedFiltered ==
  ASSUME NEW role \in Roles, NEW table, NEW i \in table, NEW filter, i \in Listed(role, filter, table)
  PROVE  Found(role, i)
  BY ViewsAssumption DEF Found, Listed, Matches, StatusFilter, Statuses, Active

LEMMA CustomersFound ==
  ASSUME NEW role \in Roles, NEW c \in Customers
  PROVE  FoundCustomer(role, c) <=> \E filter \in Statuses \cup {NoFilter} : c \in ListedCustomers(role, filter)
  BY DEF FoundCustomer, ListedCustomers, Matches

\* The query of its own for little stock repeats the conditions of the list.
LEMMA LowStockFound ==
  ASSUME NEW role \in Roles, NEW query \in ProductQueries
  PROVE  LowStockProducts(role, query)
           = {p \in ListedProducts(role, query) : rows[p].tracked /\ LittleStock(p)}
<1>1. ASSUME NEW p \in Products
      PROVE  p \in Listed(role, query.status, Products) <=>
               Exists(p) /\ IF role = "SELLER" THEN Active(p) ELSE Matches(rows[p].status, query.status)
  BY ViewsAssumption DEF Listed, Matches, StatusFilter, Statuses, Active
<1>2. \A p \in ListedProducts(role, query) : p \in Products
  BY DEF ListedProducts, Listed
<1>. QED
  BY <1>1, <1>2 DEF LowStockProducts, ListedProducts

\* On any rows at all, the lists of a role, the pages of its rows and their images
\* show the same rows.
THEOREM ViewsAgree == HiddenStaysHidden
<1>1. ASSUME NEW role \in Roles, NEW i
      PROVE  Found(role, i) <=> \E filter \in Statuses \cup {NoFilter} : i \in Listed(role, filter, {i})
  BY ListedUnfiltered, ListedFiltered
<1>2. \A role \in Roles, s \in Suppliers : FoundSupplier(role, s) <=> s \in ListedSuppliers(role, NoFilter)
  BY DEF FoundSupplier, ListedSuppliers, Matches
<1>3. \A role \in Roles : \A m \in ListedMethods(role, FALSE) : Active(m)
  BY DEF ListedMethods
<1>4. \A role \in Roles, p \in Products, i \in Images :
        OpensImage(role, i, p) => p \in Listed(role, NoFilter, Products)
  BY ListedUnfiltered DEF OpensImage
<1>. QED
  BY <1>1, <1>2, <1>3, <1>4, CustomersFound, LowStockFound DEF HiddenStaysHidden

-----------------------------------------------------------------------------
(* The images of products *)

ImageRow == [product : Products \cup {NoRecord}, primary : BOOLEAN, order : Positions]

ImageSteps == {"idle", "insert", "counted", "promote", "remove", "delete"}

\* A row that is there is of a product, and its file is on the disk unless the
\* commit of the row was not answered; a product has one primary image.
RowStands(i) ==
  /\ images[i].product = NoRecord => images[i] = NoImage
  /\ Has(i) => i \in used /\ (i \in files \/ i \in unanswered)
  /\ \A j \in Images :
       images[i].product = images[j].product /\ images[i].primary /\ images[j].primary => i = j

\* A request that adds an image, and has not yet written its row.
Adds(q) == upload[q].step \in {"insert", "counted"}

\* A file of which the row is still to be written is there, and no other request
\* is at work on it; a file that is to be deleted has no row, or one of which the
\* commit was not answered.
UploadStands(q) ==
  /\ upload[q].id \subseteq used
  /\ Adds(q) =>
       /\ upload[q].image.product \in Products
       /\ upload[q].id \subseteq files
       /\ \A i \in upload[q].id : ~Has(i)
       /\ \A i, j \in upload[q].id : i = j
       /\ \A r \in Uploads : r # q => upload[q].id \cap upload[r].id = {}
  /\ upload[q].step = "delete" => \A i \in upload[q].id : ~Has(i) \/ i \in unanswered

ImagesTyped ==
  /\ images \in [Images -> ImageRow]
  /\ upload \in [Uploads -> [step : ImageSteps, image : ImageRow, id : SUBSET Images]]

UploadsStand ==
  /\ ImagesTyped
  /\ \A i \in Images : RowStands(i)
  /\ \A q \in Uploads : UploadStands(q)

\* At most one member is primary: what the unique index compares.
LEMMA OnePrimaryMeans ==
  ASSUME NEW table, NEW p
  PROVE  OnePrimary(table, p) <=>
           \A i, j \in {k \in Images : table[k].product = p /\ table[k].primary} : i = j
<1> DEFINE S == {i \in Images : table[i].product = p /\ table[i].primary}
<1>1. IsFiniteSet(S)
  BY FS_Subset, ImagesAssumption
<1>2. ASSUME Cardinality(S) <= 1, NEW i \in S, NEW j \in S, i # j PROVE FALSE
  <2> HIDE DEF S
  <2>1. {i, j} \subseteq S
    OBVIOUS
  <2>2. Cardinality({i, j}) <= Cardinality(S)
    BY <1>1, <2>1, FS_Subset
  <2>3. Cardinality({i}) = 1
    BY FS_Singleton
  <2>4. IsFiniteSet({i}) /\ j \notin {i}
    BY <1>2, FS_Singleton
  <2>5. Cardinality({i} \cup {j}) = 2
    BY <2>3, <2>4, FS_AddElement
  <2>6. {i, j} = {i} \cup {j}
    OBVIOUS
  <2>7. Cardinality(S) \in Nat
    BY <1>1, FS_CardinalityType
  <2>. QED
    BY <1>2, <2>2, <2>5, <2>6, <2>7
<1>3. ASSUME \A i, j \in S : i = j PROVE Cardinality(S) <= 1
  <2>1. CASE S = {}
    BY <2>1, FS_EmptySet
  <2>2. CASE S # {}
    <3>1. PICK i \in S : TRUE
      BY <2>2
    <3>2. S = {i}
      BY <1>3, <3>1
    <3>. QED
      BY <3>2, FS_Singleton
  <2>. QED
    BY <2>1, <2>2
<1>4. OnePrimary(table, p) <=> Cardinality(S) <= 1
  BY DEF OnePrimary
<1> HIDE DEF S
<1>5. OnePrimary(table, p) <=> \A i, j \in S : i = j
  BY <1>2, <1>3, <1>4
<1>. QED
  BY <1>5 DEF S

LEMMA NoImageTyped == NoImage \in ImageRow
  BY DEF NoImage, ImageRow, Positions

LEMMA ImagesInitStand == ImagesInit => UploadsStand
<1> SUFFICES ASSUME ImagesInit PROVE UploadsStand
  OBVIOUS
<1>1. ImagesTyped
  BY NoImageTyped DEF ImagesInit, ImagesTyped, NoUpload, ImageSteps
<1>2. ASSUME NEW i \in Images PROVE RowStands(i)
  BY DEF ImagesInit, RowStands, Has, NoImage
<1>3. ASSUME NEW q \in Uploads PROVE UploadStands(q)
  BY DEF ImagesInit, UploadStands, Adds, NoUpload
<1>. QED
  BY <1>1, <1>2, <1>3 DEF UploadsStand

\* A request that changes neither rows nor files, but only its own work.
LEMMA AdvanceKeeps ==
  ASSUME UploadsStand, UNCHANGED <<images, files, used, unanswered>>, NEW q \in Uploads,
         NEW step \in ImageSteps, NEW image \in ImageRow, NEW id \in SUBSET Images,
         upload' = [upload EXCEPT ![q] = [step |-> step, image |-> image, id |-> id]],
         step \in {"insert", "counted"} =>
           Adds(q) /\ image.product \in Products /\ id \subseteq upload[q].id,
         step = "delete" => \A i \in id : ~Has(i) \/ i \in unanswered,
         id \subseteq upload[q].id \/ \A i \in id : Has(i)
  PROVE  UploadsStand'
<1>1. ImagesTyped' /\ ImagesTyped
  BY DEF UploadsStand, ImagesTyped
<1>2. \A i \in Images : RowStands(i) /\ RowStands(i)'
  BY DEF UploadsStand, RowStands, Has
<1>3. \A r \in Uploads :
        upload'[r] = IF r = q THEN [step |-> step, image |-> image, id |-> id] ELSE upload[r]
  BY <1>1 DEF ImagesTyped
<1>4. \A r \in Uploads : UploadStands(r)
  BY DEF UploadsStand
<1>5. id \subseteq used
  BY <1>2, <1>4 DEF UploadStands, RowStands
<1>6. \A r \in Uploads : r # q /\ Adds(r) => id \cap upload[r].id = {}
  BY <1>4 DEF UploadStands
<1>7. UploadStands(q)'
  <2>1. /\ upload'[q].id = id /\ upload'[q].step = step /\ upload'[q].image = image
        /\ \A i \in Images : Has(i)' <=> Has(i)
    BY <1>3 DEF Has
  <2>2. ASSUME step \in {"insert", "counted"}
        PROVE  /\ image.product \in Products /\ id \subseteq files
               /\ \A i \in id : ~Has(i)
               /\ \A i, j \in id : i = j
               /\ \A r \in Uploads : r # q => id \cap upload[r].id = {}
    BY <1>4, <2>2 DEF UploadStands
  <2>3. \A r \in Uploads : r # q => upload'[r] = upload[r]
    BY <1>3
  <2>. QED
    BY <1>5, <2>1, <2>2, <2>3 DEF UploadStands, Adds
<1>8. ASSUME NEW r \in Uploads, r # q PROVE UploadStands(r)'
  <2>1. upload'[r] = upload[r] /\ (Adds(r)' <=> Adds(r)) /\ \A i \in Images : Has(i)' <=> Has(i)
    BY <1>3, <1>8 DEF Adds, Has
  <2>2. ASSUME Adds(r), NEW s \in Uploads, s # r PROVE upload[r].id \cap upload'[s].id = {}
    <3>1. CASE s = q
      BY <1>3, <1>6, <1>8, <2>2, <3>1
    <3>2. CASE s # q
      BY <1>3, <1>4, <2>2, <3>2 DEF UploadStands
    <3>. QED
      BY <3>1, <3>2
  <2>. QED
    BY <1>1, <1>4, <2>1, <2>2 DEF UploadStands, ImagesTyped
<1>. QED
  BY <1>1, <1>2, <1>7, <1>8 DEF UploadsStand

LEMMA ForgetKeeps ==
  ASSUME UploadsStand, UNCHANGED <<images, files, used, unanswered>>, NEW q \in Uploads, Forget(q)
  PROVE  UploadsStand'
<1>1. "idle" \in ImageSteps /\ {} \in SUBSET Images /\ {} \subseteq upload[q].id
  BY DEF ImageSteps
<1>2. upload' = [upload EXCEPT ![q] = [step |-> "idle", image |-> NoImage, id |-> {}]]
  BY DEF Forget, NoUpload
<1>. QED
  BY <1>1, <1>2, NoImageTyped, AdvanceKeeps

\* Writing the row of an image whose file is there and which has none: nobody
\* else can know of it yet.  The request forgets it, or it is not told and will
\* delete the file.
LEMMA InsertKeeps ==
  ASSUME UploadsStand, NEW q \in Uploads, InsertRow(q),
         \/ Forget(q) /\ UNCHANGED unanswered
         \/ Advance(q, "delete", NoImage, upload[q].id) /\ unanswered' = unanswered \cup upload[q].id
  PROVE  UploadsStand'
<1> DEFINE image == upload[q].image
<1>1. /\ ImagesTyped
      /\ \A i \in Images : RowStands(i)
      /\ \A r \in Uploads : UploadStands(r)
  BY DEF UploadsStand
<1>2. /\ image \in ImageRow /\ image.product \in Products
      /\ upload[q].id \subseteq Images
      /\ upload[q].id \subseteq files /\ upload[q].id \subseteq used
      /\ \A r \in Uploads : r # q => upload[q].id \cap upload[r].id = {}
  BY <1>1 DEF InsertRow, ImagesTyped, UploadStands, Adds
<1>3. /\ \A i \in Images : images'[i] = IF i \in upload[q].id THEN image ELSE images[i]
      /\ images' \in [Images -> ImageRow]
      /\ files' = files /\ used' = used /\ unanswered \subseteq unanswered'
      /\ OnePrimary(images', image.product)
  BY <1>1, <1>2 DEF InsertRow, ImagesTyped
<1>4. PICK next \in {NoUpload, [step |-> "delete", image |-> NoImage, id |-> upload[q].id]} :
        /\ upload' = [upload EXCEPT ![q] = next]
        /\ next.step = "delete" => upload[q].id \subseteq unanswered'
  BY DEF Forget, Advance, NoUpload
<1>5. /\ \A r \in Uploads : upload'[r] = IF r = q THEN next ELSE upload[r]
      /\ next.id \subseteq upload[q].id /\ next.step \in {"idle", "delete"}
  BY <1>1, <1>4 DEF ImagesTyped, NoUpload
<1>6. ImagesTyped'
  <2>1. next \in [step : ImageSteps, image : ImageRow, id : SUBSET Images]
    BY <1>2, NoImageTyped DEF NoUpload, ImageSteps
  <2>. QED
    BY <1>1, <1>3, <1>4, <2>1 DEF ImagesTyped
<1> HIDE DEF image
<1>7. \A i, j \in {k \in Images : images'[k].product = image.product /\ images'[k].primary} : i = j
  BY <1>3, OnePrimaryMeans
<1>8. ASSUME NEW i \in Images PROVE RowStands(i)'
  <2>1. images'[i].product = NoRecord => images'[i] = NoImage
    BY <1>1, <1>2, <1>3, RecordsAssumption DEF RowStands
  <2>2. Has(i)' => i \in used' /\ (i \in files' \/ i \in unanswered')
    BY <1>1, <1>2, <1>3 DEF RowStands, Has
  <2>3. ASSUME NEW j \in Images, images'[i].product = images'[j].product,
               images'[i].primary, images'[j].primary
        PROVE  i = j
    <3>1. CASE i \in upload[q].id \/ j \in upload[q].id
      BY <1>3, <1>7, <2>3, <3>1
    <3>2. CASE i \notin upload[q].id /\ j \notin upload[q].id
      BY <1>1, <1>3, <2>3, <3>2 DEF RowStands
    <3>. QED
      BY <3>1, <3>2
  <2>. QED
    BY <2>1, <2>2, <2>3 DEF RowStands
<1>9. UploadStands(q)'
  BY <1>2, <1>3, <1>4, <1>5 DEF UploadStands, Adds
<1>10. ASSUME NEW r \in Uploads, r # q PROVE UploadStands(r)'
  <2>1. /\ UploadStands(r) /\ upload'[r] = upload[r] /\ (Adds(r)' <=> Adds(r))
        /\ upload[r].id \cap upload[q].id = {} /\ upload[r].id \subseteq Images
    BY <1>1, <1>2, <1>5, <1>10 DEF UploadStands, ImagesTyped, Adds
  <2>2. \A i \in upload[r].id : Has(i)' <=> Has(i)
    BY <1>3, <2>1 DEF Has
  <2>3. Adds(r) => \A s \in Uploads : s # r => upload[r].id \cap upload'[s].id = {}
    BY <1>5, <2>1 DEF UploadStands
  <2>. QED
    BY <1>3, <2>1, <2>2, <2>3 DEF UploadStands
<1>. QED
  BY <1>6, <1>8, <1>9, <1>10 DEF UploadsStand

\* Rows deleted and primary marks moved: what is left is among what was there.
LEMMA RowsKeep ==
  ASSUME UploadsStand, UNCHANGED <<files, used, unanswered>>, images' \in [Images -> ImageRow],
         \A i \in Images : images'[i] = NoImage \/ (Has(i) /\ images'[i].product = images[i].product),
         \A i, j \in Images : images'[i].product = images'[j].product
                                /\ images'[i].primary /\ images'[j].primary => i = j
  PROVE  \A i \in Images : RowStands(i)' /\ (Has(i)' => Has(i))
<1>1. \A i \in Images : RowStands(i)
  BY DEF UploadsStand
<1>2. \A i \in Images : Has(i)' => Has(i)
  BY DEF Has
<1>3. \A i \in Images : images'[i].product = NoRecord => images'[i] = NoImage
  BY <1>1 DEF RowStands, Has
<1>4. \A i \in Images : Has(i)' => i \in used' /\ (i \in files' \/ i \in unanswered')
  BY <1>1, <1>2 DEF RowStands
<1>. QED
  BY <1>2, <1>3, <1>4 DEF RowStands

\* What a request drops or marks is no concern of the others: what they are still
\* to insert has no row, and their file is another one.
LEMMA OthersKeep ==
  ASSUME UploadsStand, UNCHANGED <<used, unanswered>>, NEW q \in Uploads, NEW r \in Uploads, r # q,
         \A s \in Uploads : s # q => upload'[s] = upload[s],
         \A i \in Images : Has(i)' => Has(i),
         files' = files \/ files' = files \ upload[q].id,
         upload'[q].id \subseteq upload[q].id \/ \A i \in upload'[q].id : Has(i)
  PROVE  UploadStands(r)'
<1>1. /\ UploadStands(r) /\ upload'[r] = upload[r] /\ (Adds(r)' <=> Adds(r))
      /\ upload[r].id \subseteq Images
  BY DEF UploadsStand, ImagesTyped, Adds
<1>2. \A i \in upload[r].id : Has(i)' => Has(i)
  BY <1>1
<1>3. ASSUME Adds(r), NEW s \in Uploads, s # r PROVE upload[r].id \cap upload'[s].id = {}
  BY <1>1, <1>3 DEF UploadStands
<1>4. Adds(r) => upload[r].id \subseteq files'
  BY <1>1 DEF UploadStands
<1>. QED
  BY <1>1, <1>2, <1>3, <1>4 DEF UploadStands

LEMMA SetPrimaryKeeps ==
  ASSUME UploadsStand, NEW q \in Uploads, SetPrimary(q)
  PROVE  UploadsStand'
<1>1. /\ ImagesTyped
      /\ \A j \in Images : RowStands(j)
      /\ \A r \in Uploads : UploadStands(r)
  BY DEF UploadsStand
<1>2. PICK i \in upload[q].id :
        /\ Has(i)
        /\ images' = [j \in Images |->
             IF j \in ImagesOf(images[i].product) THEN [images[j] EXCEPT !.primary = j = i] ELSE images[j]]
        /\ UNCHANGED <<files, used, unanswered>>
        /\ upload' = [upload EXCEPT ![q] = NoUpload]
  BY DEF SetPrimary, Forget
<1> DEFINE p == images[i].product
<1>3. i \in Images /\ p # NoRecord
  BY <1>1, <1>2 DEF RowStands, Has, ImagesTyped
<1>4. \A j \in Images : images'[j] =
        IF images[j].product = p THEN [images[j] EXCEPT !.primary = j = i] ELSE images[j]
  BY <1>2 DEF ImagesOf
<1>5. images' \in [Images -> ImageRow]
  BY <1>1, <1>2 DEF ImagesTyped, ImageRow
<1> HIDE DEF p
<1>6. \A j \in Images :
        /\ images'[j].product = images[j].product
        /\ images[j].product = p => (images'[j].primary <=> j = i)
        /\ images[j].product # p => images'[j] = images[j]
  BY <1>1, <1>4 DEF ImagesTyped, ImageRow
<1>7. \A j \in Images : images'[j] = NoImage \/ (Has(j) /\ images'[j].product = images[j].product)
  BY <1>1, <1>3, <1>6 DEF RowStands, Has, NoImage
<1>8. \A j, k \in Images : images'[j].product = images'[k].product
                            /\ images'[j].primary /\ images'[k].primary => j = k
  <2> SUFFICES ASSUME NEW j \in Images, NEW k \in Images, images'[j].product = images'[k].product,
                      images'[j].primary, images'[k].primary
               PROVE  j = k
    OBVIOUS
  <2>1. CASE images[j].product = p
    BY <1>6, <2>1
  <2>2. CASE images[j].product # p
    BY <1>1, <1>6, <2>2 DEF RowStands
  <2>. QED
    BY <2>1, <2>2
<1>9. \A j \in Images : RowStands(j)' /\ (Has(j)' => Has(j))
  BY <1>2, <1>5, <1>7, <1>8, RowsKeep
<1>10. \A r \in Uploads : upload'[r] = IF r = q THEN NoUpload ELSE upload[r]
  BY <1>1, <1>2 DEF ImagesTyped
<1>11. ASSUME NEW r \in Uploads PROVE UploadStands(r)'
  <2>1. CASE r = q
    BY <1>10, <2>1 DEF UploadStands, Adds, NoUpload
  <2>2. CASE r # q
    <3>1. upload'[q].id \subseteq upload[q].id /\ \A s \in Uploads : s # q => upload'[s] = upload[s]
      BY <1>10 DEF NoUpload
    <3>. QED
      BY <1>2, <1>9, <2>2, <3>1, OthersKeep
  <2>. QED
    BY <2>1, <2>2
<1>12. ImagesTyped'
  <2>1. NoUpload \in [step : ImageSteps, image : ImageRow, id : SUBSET Images]
    BY NoImageTyped DEF NoUpload, ImageSteps
  <2>. QED
    BY <1>1, <1>2, <1>5, <2>1 DEF ImagesTyped
<1>. QED
  BY <1>9, <1>11, <1>12 DEF UploadsStand

LEMMA RemoveKeeps ==
  ASSUME UploadsStand, NEW q \in Uploads, RemoveRow(q)
  PROVE  UploadsStand'
<1>1. /\ ImagesTyped
      /\ \A j \in Images : RowStands(j)
      /\ \A r \in Uploads : UploadStands(r)
  BY DEF UploadsStand
<1>2. PICK i \in upload[q].id :
        /\ Has(i)
        /\ \/ /\ \E next \in NextPrimary(i) : images' = Without(i, next)
              /\ OnePrimary(images', images[i].product)
           \/ images' = Without(i, i)
        /\ UNCHANGED <<files, used, unanswered>>
        /\ upload' = [upload EXCEPT ![q] = [step |-> "delete", image |-> NoImage, id |-> {i}]]
  BY DEF RemoveRow, Advance
<1>3. /\ i \in Images /\ images[i].product # NoRecord /\ i \in used
      /\ NextPrimary(i) \subseteq Images \ {i}
      /\ \A n \in NextPrimary(i) : images[n].product = images[i].product
  BY <1>1, <1>2 DEF RowStands, Has, ImagesTyped, NextPrimary, ImagesOf
<1>4. PICK next \in Images :
        /\ images' = Without(i, next)
        /\ images[next].product = images[i].product
        /\ next # i => OnePrimary(images', images[i].product)
  BY <1>2, <1>3
<1>5. \A j \in Images : images'[j] =
        IF j = i THEN NoImage ELSE IF j = next THEN [images[j] EXCEPT !.primary = TRUE] ELSE images[j]
  BY <1>4 DEF Without
<1>6. images' \in [Images -> ImageRow]
  BY <1>1, <1>4, NoImageTyped DEF Without, ImagesTyped, ImageRow
<1>7. \A j \in Images : j # i => images'[j].product = images[j].product
  BY <1>1, <1>5 DEF ImagesTyped, ImageRow
<1>8. \A j \in Images : images'[j] = NoImage \/ (Has(j) /\ images'[j].product = images[j].product)
  <2> SUFFICES ASSUME NEW j \in Images, j # i
               PROVE  images'[j] = NoImage \/ (Has(j) /\ images'[j].product = images[j].product)
    BY <1>5
  <2>1. CASE j = next
    BY <1>3, <1>4, <1>7, <2>1 DEF Has, NoImage
  <2>2. CASE j # next
    BY <1>5, <2>2 DEF Has
  <2>. QED
    BY <2>1, <2>2
<1>9. \A j, k \in Images : images'[j].product = images'[k].product
                            /\ images'[j].primary /\ images'[k].primary => j = k
  <2> SUFFICES ASSUME NEW j \in Images, NEW k \in Images, images'[j].product = images'[k].product,
                      images'[j].primary, images'[k].primary
               PROVE  j = k
    OBVIOUS
  <2>1. j # i /\ k # i
    <3>1. ~NoImage.primary
      BY DEF NoImage
    <3>. QED
      BY <1>5, <3>1
  <2>2. CASE next # i /\ images'[j].product = images[i].product
    <3>1. \A m, n \in {l \in Images : images'[l].product = images[i].product /\ images'[l].primary} : m = n
      BY <1>4, <2>2, OnePrimaryMeans
    <3>. QED
      BY <2>2, <3>1
  <2>3. CASE ~(next # i /\ images'[j].product = images[i].product)
    <3>1. j # next /\ k # next
      BY <1>4, <1>7, <2>1, <2>3
    <3>2. images'[j] = images[j] /\ images'[k] = images[k]
      BY <1>5, <2>1, <3>1
    <3>. QED
      BY <1>1, <3>2 DEF RowStands
  <2>. QED
    BY <2>2, <2>3
<1>10. \A j \in Images : RowStands(j)' /\ (Has(j)' => Has(j))
  BY <1>2, <1>6, <1>8, <1>9, RowsKeep
<1>11. ~Has(i)'
  BY <1>3, <1>5 DEF Has
<1>12. \A r \in Uploads : upload'[r] =
         IF r = q THEN [step |-> "delete", image |-> NoImage, id |-> {i}] ELSE upload[r]
  BY <1>1, <1>2 DEF ImagesTyped
<1>13. ASSUME NEW r \in Uploads PROVE UploadStands(r)'
  <2>1. CASE r = q
    BY <1>2, <1>3, <1>11, <1>12, <2>1 DEF UploadStands, Adds
  <2>2. CASE r # q
    <3>1. upload'[q].id \subseteq upload[q].id /\ \A s \in Uploads : s # q => upload'[s] = upload[s]
      BY <1>12
    <3>. QED
      BY <1>2, <1>10, <2>2, <3>1, OthersKeep
  <2>. QED
    BY <2>1, <2>2
<1>14. ImagesTyped'
  <2>1. [step |-> "delete", image |-> NoImage, id |-> {i}]
          \in [step : ImageSteps, image : ImageRow, id : SUBSET Images]
    BY <1>3, NoImageTyped DEF ImageSteps
  <2>. QED
    BY <1>1, <1>2, <1>6, <2>1 DEF ImagesTyped
<1>. QED
  BY <1>10, <1>13, <1>14 DEF UploadsStand

LEMMA SaveKeeps ==
  ASSUME UploadsStand, NEW q \in Uploads, NEW p \in Products, NEW i \in Images,
         NEW place \in Positions, SaveFile(q, p, i, place)
  PROVE  UploadsStand'
<1> DEFINE image == [product |-> p, primary |-> FALSE, order |-> place]
<1>1. /\ ImagesTyped
      /\ \A j \in Images : RowStands(j)
      /\ \A r \in Uploads : UploadStands(r)
  BY DEF UploadsStand
<1>2. image \in ImageRow /\ image.product \in Products
  BY DEF ImageRow
<1>3. /\ files' = files \cup {i} /\ used' = used \cup {i} /\ i \notin used
      /\ images' = images /\ unanswered' = unanswered
      /\ upload' = [upload EXCEPT ![q] = [step |-> "insert", image |-> image, id |-> {i}]]
  BY DEF SaveFile, Advance
<1> HIDE DEF image
<1>4. \A r \in Uploads : upload'[r] =
        IF r = q THEN [step |-> "insert", image |-> image, id |-> {i}] ELSE upload[r]
  BY <1>1, <1>3 DEF ImagesTyped
<1>5. ImagesTyped'
  <2>1. [step |-> "insert", image |-> image, id |-> {i}]
          \in [step : ImageSteps, image : ImageRow, id : SUBSET Images]
    BY <1>2 DEF ImageSteps
  <2>. QED
    BY <1>1, <1>3, <2>1 DEF ImagesTyped
<1>6. \A j \in Images : RowStands(j)'
  BY <1>1, <1>3 DEF RowStands, Has
<1>7. ~Has(i)
  BY <1>1, <1>3 DEF RowStands
<1>8. \A r \in Uploads : i \notin upload[r].id
  BY <1>1, <1>3 DEF UploadStands
<1>9. ASSUME NEW r \in Uploads PROVE UploadStands(r)'
  <2>1. Adds(r)' => \A s \in Uploads : s # r => upload'[r].id \cap upload'[s].id = {}
    BY <1>1, <1>4, <1>8 DEF UploadStands, Adds
  <2>2. CASE r = q
    BY <1>2, <1>3, <1>4, <1>7, <2>1, <2>2 DEF UploadStands, Adds, Has
  <2>3. CASE r # q
    BY <1>1, <1>3, <1>4, <2>1, <2>3 DEF UploadStands, Adds, Has
  <2>. QED
    BY <2>2, <2>3
<1>. QED
  BY <1>5, <1>6, <1>9 DEF UploadsStand

LEMMA DeleteKeeps ==
  ASSUME UploadsStand, NEW q \in Uploads, DeleteFile(q)
  PROVE  UploadsStand'
<1>1. /\ ImagesTyped
      /\ \A j \in Images : RowStands(j)
      /\ \A r \in Uploads : UploadStands(r)
  BY DEF UploadsStand
<1>2. /\ files' = files \ upload[q].id /\ UNCHANGED <<images, used, unanswered>>
      /\ upload' = [upload EXCEPT ![q] = NoUpload]
      /\ \A r \in Uploads : upload'[r] = IF r = q THEN NoUpload ELSE upload[r]
  BY <1>1 DEF DeleteFile, Forget, ImagesTyped
<1>3. ImagesTyped'
  <2>1. NoUpload \in [step : ImageSteps, image : ImageRow, id : SUBSET Images]
    BY NoImageTyped DEF NoUpload, ImageSteps
  <2>. QED
    BY <1>1, <1>2, <2>1 DEF ImagesTyped
<1>4. \A j \in Images : RowStands(j)'
  <2>1. \A j \in upload[q].id : ~Has(j) \/ j \in unanswered
    BY <1>1 DEF DeleteFile, UploadStands
  <2>2. \A j \in Images : Has(j) => j \in files' \/ j \in unanswered
    BY <1>1, <1>2, <2>1 DEF RowStands
  <2>. QED
    BY <1>1, <1>2, <2>2 DEF RowStands, Has
<1>5. ASSUME NEW r \in Uploads PROVE UploadStands(r)'
  <2>1. CASE r = q
    BY <1>2, <2>1 DEF UploadStands, Adds, NoUpload
  <2>2. CASE r # q
    <3>1. upload'[q].id \subseteq upload[q].id /\ \A s \in Uploads : s # q => upload'[s] = upload[s]
      BY <1>2 DEF NoUpload
    <3>2. \A i \in Images : Has(i)' => Has(i)
      BY <1>2 DEF Has
    <3>. QED
      BY <1>2, <2>2, <3>1, <3>2, OthersKeep
  <2>. QED
    BY <2>1, <2>2
<1>. QED
  BY <1>3, <1>4, <1>5 DEF UploadsStand

LEMMA CountKeeps ==
  ASSUME UploadsStand, NEW q \in Uploads, CountImages(q)
  PROVE  UploadsStand'
<1> DEFINE image == [upload[q].image EXCEPT !.primary = ImagesOf(upload[q].image.product) = {}]
<1>1. /\ Adds(q) /\ UNCHANGED <<images, files, used, unanswered>>
      /\ upload' = [upload EXCEPT ![q] = [step |-> "counted", image |-> image, id |-> upload[q].id]]
  BY DEF CountImages, Advance, Adds
<1>2. /\ image \in ImageRow /\ image.product \in Products
      /\ upload[q].id \in SUBSET Images /\ "counted" \in ImageSteps
  BY <1>1 DEF UploadsStand, ImagesTyped, UploadStands, ImageRow, ImageSteps
<1> HIDE DEF image
<1>. QED
  BY <1>1, <1>2, AdvanceKeeps

LEMMA FailKeeps ==
  ASSUME UploadsStand, NEW q \in Uploads, InsertFails(q)
  PROVE  UploadsStand'
<1>1. /\ "delete" \in ImageSteps /\ UNCHANGED <<images, files, used, unanswered>>
      /\ upload' = [upload EXCEPT ![q] = [step |-> "delete", image |-> NoImage, id |-> upload[q].id]]
  BY DEF InsertFails, Advance, ImageSteps
<1>2. upload[q].id \in SUBSET Images /\ \A i \in upload[q].id : ~Has(i)
  BY DEF InsertFails, UploadsStand, ImagesTyped, UploadStands, Adds
<1>. QED
  BY <1>1, <1>2, NoImageTyped, AdvanceKeeps

LEMMA ReadKeeps ==
  ASSUME UploadsStand, NEW q \in Uploads, NEW step \in {"promote", "remove"}, NEW i \in Images,
         ReadImage(q, step, i)
  PROVE  UploadsStand'
<1>1. /\ Has(i) /\ UNCHANGED <<images, files, used, unanswered>>
      /\ upload' = [upload EXCEPT ![q] = [step |-> step, image |-> images[i], id |-> {i}]]
  BY DEF ReadImage, Advance
<1>2. step \in ImageSteps /\ images[i] \in ImageRow /\ {i} \in SUBSET Images
  BY DEF ImageSteps, UploadsStand, ImagesTyped
<1>3. \A j \in {i} : Has(j)
  BY <1>1
<1>. QED
  BY <1>1, <1>2, <1>3, AdvanceKeeps

LEMMA ImageStepKeeps ==
  ASSUME UploadsStand, [ImageStep]_imageVars
  PROVE  UploadsStand'
<1>1. CASE UNCHANGED imageVars
  BY <1>1 DEF imageVars, UploadsStand, ImagesTyped, RowStands, UploadStands, Adds, Has
<1>2. ASSUME NEW q \in Uploads, Stop(q) PROVE UploadsStand'
  BY <1>2, ForgetKeeps DEF Stop
<1>3. ASSUME NEW q \in Uploads, InsertImage(q) \/ CommitUnanswered(q) PROVE UploadsStand'
  BY <1>3, InsertKeeps DEF InsertImage, CommitUnanswered
<1>. QED
  BY <1>1, <1>2, <1>3, SaveKeeps, CountKeeps, FailKeeps, ReadKeeps, SetPrimaryKeeps, RemoveKeeps,
     DeleteKeeps DEF ImageStep

\* For any number of images and requests, wherever a request stops: an image that
\* is listed can be opened unless the commit of its row was not answered, and a
\* product has at most one primary image.
THEOREM ImagesKeepStanding == ImagesSpec => []ImagesStand
<1>1. UploadsStand => ImagesStand
  <2> SUFFICES ASSUME UploadsStand PROVE ImagesStand
    OBVIOUS
  <2>1. \A i \in Images : RowStands(i)
    BY DEF UploadsStand
  <2>2. ASSUME NEW p \in Products PROVE OnePrimary(images, p)
    BY <2>1, OnePrimaryMeans DEF RowStands
  <2>. QED
    BY <2>1, <2>2 DEF ImagesStand, RowStands, Opens
<1>. QED
  BY <1>1, ImagesInitStand, ImageStepKeeps, PTL DEF ImagesSpec

-----------------------------------------------------------------------------
(* The numbers of documents *)

HeldSequence == [type : DocumentTypes, was : Nat, document : BOOLEAN]

\* A transaction that holds a sequence has found the number there, has drawn the
\* next one or none, and no document has been numbered meanwhile.
HoldStands(d) ==
  /\ current[d.type] = IF d.document THEN d.was + 1 ELSE d.was
  /\ \A n \in numbered : n[1] = d.type => n[2] <= d.was

\* No number is above the counter of its sequence, and a sequence is held once.
SequencesStand ==
  /\ current \in [DocumentTypes -> Nat]
  /\ writing \in [Writers -> SUBSET HeldSequence]
  /\ numbered \subseteq DocumentTypes \X Nat
  /\ \A n \in numbered : n[2] <= current[n[1]]
  /\ \A w, v \in Writers : \A d \in writing[w], e \in writing[v] : d.type = e.type => w = v
  /\ \A w \in Writers : \A d, e \in writing[w] : d = e
  /\ \A w \in Writers : \A d \in writing[w] : HoldStands(d)

\* Taking the lock of a sequence, with or without its next number.
LEMMA HoldKeeps ==
  ASSUME SequencesStand, NEW w \in Writers, NEW t \in DocumentTypes, NEW document \in BOOLEAN,
         writing[w] = {}, ~Locked(t), Hold(w, t, document), UNCHANGED numbered,
         current' = [current EXCEPT ![t] = IF document THEN @ + 1 ELSE @]
  PROVE  SequencesStand'
<1>1. PICK d \in HeldSequence :
        /\ writing' = [writing EXCEPT ![w] = {d}]
        /\ d.type = t /\ d.was = current[t] /\ d.document = document
  <2> DEFINE hold == [type |-> t, was |-> current[t], document |-> document]
  <2>1. writing' = [writing EXCEPT ![w] = {hold}]
    BY DEF Hold
  <2>2. hold \in HeldSequence
    BY DEF HeldSequence, SequencesStand
  <2>3. hold.type = t /\ hold.was = current[t] /\ hold.document = document
    OBVIOUS
  <2>. QED
    BY <2>1, <2>2, <2>3
<1>2. writing' \in [Writers -> SUBSET HeldSequence]
  BY <1>1 DEF SequencesStand
<1>3. \A v \in Writers : writing'[v] = IF v = w THEN {d} ELSE writing[v]
  BY <1>1 DEF SequencesStand
<1>5. \A v \in Writers : \A e \in writing[v] : e.type # t
  BY DEF Locked
<1>6. current' \in [DocumentTypes -> Nat] /\ current[t] \in Nat
  BY DEF SequencesStand
<1>7. \A s \in DocumentTypes : current'[s] = IF s = t /\ document THEN current[t] + 1 ELSE current[s]
  BY DEF SequencesStand
<1>8. \A n \in numbered' : n[1] \in DocumentTypes /\ n[2] \in Nat /\ n[2] <= current[n[1]]
  BY DEF SequencesStand
<1>9. \A n \in numbered' : n[2] <= current'[n[1]]
  BY <1>6, <1>7, <1>8
<1>10. HoldStands(d)'
  BY <1>1, <1>7, <1>8 DEF HoldStands
<1>11. ASSUME NEW v \in Writers, v # w, NEW e \in writing[v]
       PROVE  HoldStands(e)'
  <2>1. e.type \in DocumentTypes /\ e.type # t /\ HoldStands(e)
    BY <1>5, <1>11 DEF SequencesStand, HeldSequence
  <2>. QED
    BY <1>7, <2>1 DEF HoldStands
<1>12. \A v, u \in Writers : \A e \in writing'[v], f \in writing'[u] : e.type = f.type => v = u
  BY <1>1, <1>3, <1>5 DEF SequencesStand
<1>13. \A v \in Writers : \A e, f \in writing'[v] : e = f
  BY <1>3 DEF SequencesStand
<1>14. \A v \in Writers : \A e \in writing'[v] : HoldStands(e)'
  BY <1>3, <1>10, <1>11
<1>15. numbered' \subseteq DocumentTypes \X Nat
  BY DEF SequencesStand
<1>. QED
  BY <1>2, <1>6, <1>9, <1>12, <1>13, <1>14, <1>15 DEF SequencesStand

\* Giving the lock back, whatever has become of the counter and its document.
LEMMA ReleaseKeeps ==
  ASSUME SequencesStand, NEW w \in Writers, NEW d \in writing[w],
         writing' = [writing EXCEPT ![w] = {}],
         NEW number \in Nat, d.was <= number,
         current' = [current EXCEPT ![d.type] = number],
         \/ numbered' = numbered
         \/ numbered' = numbered \cup {<<d.type, number>>}
  PROVE  SequencesStand'
<1>1. d.type \in DocumentTypes /\ d.was \in Nat
  BY DEF SequencesStand, HeldSequence
<1>2. \A s \in DocumentTypes : current'[s] = IF s = d.type THEN number ELSE current[s]
  BY DEF SequencesStand
<1>3. current' \in [DocumentTypes -> Nat] /\ writing' \in [Writers -> SUBSET HeldSequence]
  BY DEF SequencesStand
<1>4. \A v \in Writers : writing'[v] = IF v = w THEN {} ELSE writing[v]
  BY DEF SequencesStand
<1>5. numbered' \subseteq DocumentTypes \X Nat
  BY <1>1 DEF SequencesStand
<1>6. \A n \in numbered : n[1] \in DocumentTypes /\ n[2] \in Nat /\ n[2] <= current[n[1]]
                          /\ (n[1] = d.type => n[2] <= d.was)
  BY DEF SequencesStand, HoldStands
<1>7. \A n \in numbered' : n \in numbered \/ (n[1] = d.type /\ n[2] = number)
  OBVIOUS
<1>8. \A n \in numbered' : n[2] <= current'[n[1]]
  BY <1>1, <1>2, <1>6, <1>7
<1>9. ASSUME NEW v \in Writers, v # w, NEW e \in writing[v]
      PROVE  HoldStands(e)'
  <2>1. e.type \in DocumentTypes /\ e.type # d.type /\ HoldStands(e)
    BY <1>9 DEF SequencesStand, HeldSequence
  <2>. QED
    BY <1>2, <1>7, <2>1 DEF HoldStands
<1>. QED
  BY <1>3, <1>4, <1>5, <1>8, <1>9 DEF SequencesStand

LEMMA SequenceStepKeeps ==
  ASSUME SequencesStand, [SequenceStep]_sequenceVars
  PROVE  SequencesStand'
<1>1. CASE UNCHANGED sequenceVars
  BY <1>1 DEF SequencesStand, HoldStands, sequenceVars
<1>2. CASE SequenceStep
  <2>1. PICK w \in Writers :
          \/ \E t \in DocumentTypes : NextNumber(w, t) \/ LockSequence(w, t)
          \/ \E number \in 0..MaxNumber : ChangeNumber(w, number)
          \/ CommitDocument(w) \/ RollBackNumber(w)
    BY <1>2 DEF SequenceStep
  <2>2. ASSUME NEW t \in DocumentTypes, NextNumber(w, t) PROVE SequencesStand'
    BY <2>2, HoldKeeps DEF NextNumber
  <2>3. ASSUME NEW t \in DocumentTypes, LockSequence(w, t) PROVE SequencesStand'
    <3>1. current' = [current EXCEPT ![t] = IF FALSE THEN @ + 1 ELSE @]
      BY <2>3 DEF LockSequence, SequencesStand
    <3>. QED
      BY <2>3, <3>1, HoldKeeps DEF LockSequence
  <2>4. \A d \in writing[w] : HoldStands(d) /\ d.was \in Nat /\ d.type \in DocumentTypes
    BY DEF SequencesStand, HeldSequence
  <2>5. ASSUME NEW number \in 0..MaxNumber, ChangeNumber(w, number) PROVE SequencesStand'
    <3>1. PICK d \in writing[w] : /\ ~d.document /\ current[d.type] <= number
                                  /\ current' = [current EXCEPT ![d.type] = number]
      BY <2>5 DEF ChangeNumber
    <3>2. d.was <= number /\ number \in Nat
      BY <2>4, <3>1, SequencesAssumption DEF HoldStands
    <3>. QED
      BY <2>5, <3>1, <3>2, ReleaseKeeps DEF ChangeNumber
  <2>6. CASE CommitDocument(w)
    <3>1. PICK d \in writing[w] : d.document /\ numbered' = numbered \cup {<<d.type, current[d.type]>>}
      BY <2>6 DEF CommitDocument
    <3>2. current[d.type] \in Nat /\ d.was <= current[d.type]
      BY <2>4, <3>1 DEF HoldStands
    <3>3. current' = [current EXCEPT ![d.type] = current[d.type]]
      BY <2>6 DEF CommitDocument, SequencesStand
    <3>. QED
      BY <2>6, <3>1, <3>2, <3>3, ReleaseKeeps DEF CommitDocument
  <2>7. CASE RollBackNumber(w)
    <3>1. PICK d \in writing[w] : current' = [current EXCEPT ![d.type] = d.was]
      BY <2>7 DEF RollBackNumber
    <3>2. d.was \in Nat /\ d.was <= d.was
      BY <2>4
    <3>3. writing' = [writing EXCEPT ![w] = {}] /\ numbered' = numbered
      BY <2>7 DEF RollBackNumber
    <3>. QED
      BY <3>1, <3>2, <3>3, ReleaseKeeps
  <2>. QED
    BY <2>1, <2>2, <2>3, <2>5, <2>6, <2>7
<1>. QED
  BY <1>1, <1>2

\* For any number of documents, transactions and edits of the sequences, no
\* document repeats a number, whatever is rolled back.
THEOREM NumbersStayUnique == SequencesSpec => []NumbersNeverRepeat
<1>1. SequencesInit => SequencesStand
  BY DEF SequencesInit, SequencesStand
<1>2. SequencesStand => NumbersNeverRepeat
  <2> SUFFICES ASSUME SequencesStand, NEW w \in Writers, NEW d \in writing[w]
               PROVE  /\ d.document => \A n \in numbered : n[1] = d.type => n[2] < current[d.type]
                      /\ \A v \in Writers \ {w} : \A e \in writing[v] : e.type # d.type
    BY DEF NumbersNeverRepeat
  <2>1. HoldStands(d) /\ d.was \in Nat
    BY DEF SequencesStand, HeldSequence
  <2>2. \A n \in numbered : n[2] \in Nat
    BY DEF SequencesStand
  <2>3. \A v \in Writers \ {w} : \A e \in writing[v] : e.type # d.type
    BY DEF SequencesStand
  <2>. QED
    BY <2>1, <2>2, <2>3 DEF HoldStands
<1>. QED
  BY <1>1, <1>2, SequenceStepKeeps, PTL DEF SequencesSpec

-----------------------------------------------------------------------------
(* The catalog stands, for one administrator: what is about to be written is *)
(* judged by the rows that it will leave.                                    *)

CategoriesIn(table) == {c \in Categories : table[c] # NoRow}
ProductsIn(table) == {p \in Products : table[p] # NoRow}

TreeFits(table) ==
  /\ ClosedUp(CategoriesIn(table), table, NoRecord)
  /\ Rooted(table, NoRecord, Cardinality(Categories), CategoriesIn(table))
  /\ \A c \in CategoriesIn(table) :
       /\ {"status", "parent"} \subseteq DOMAIN table[c]
       /\ table[c].status = "ACTIVE" /\ table[c].parent # NoRecord
            => table[table[c].parent].status = "ACTIVE"

ProductFits(table, p) ==
  /\ {"status", "type", "tracked", "minimum", "category", "unit"} \subseteq DOMAIN table[p]
  /\ table[p].category \in Categories /\ table[p].unit \in Units
  /\ table[p].status = "ACTIVE" =>
       table[table[p].category].status = "ACTIVE" /\ table[table[p].unit].status = "ACTIVE"
  /\ KindFits(table[p])

CatalogFits(table) ==
  /\ DOMAIN table = Ids
  /\ TreeFits(table)
  /\ \A n \in Units : "status" \in DOMAIN table[n]
  /\ \A p \in ProductsIn(table) : ProductFits(table, p)

Applied(table, i, columns) == [table EXCEPT ![i] = Written(columns, table[i])]

-----------------------------------------------------------------------------
LEMMA AboveCategory ==
  ASSUME NEW c
  PROVE  Above(c) = Climb(rows, NoRecord, Cardinality(Categories), c)
BY DEF Above, Climb, Climbs

LEMMA NoRecordApart == NoRecord \notin Categories /\ IsFiniteSet(Categories)
BY RecordsAssumption, CatalogAssumption

LEMMA WrittenColumns ==
  ASSUME NEW columns, NEW row
  PROVE  /\ DOMAIN Written(columns, row) = DOMAIN columns \cup DOMAIN row
         /\ \A x \in DOMAIN columns : Written(columns, row)[x] = columns[x]
         /\ \A x \in DOMAIN row \ DOMAIN columns : Written(columns, row)[x] = row[x]
BY DEF Written

\* A row is told from none by its columns.
LEMMA RowThere ==
  ASSUME NEW row, "parent" \in DOMAIN row \/ "type" \in DOMAIN row
  PROVE  row # NoRow
BY DEF NoRow

\* A category that is created, moved, stopped or started.
LEMMA CategoryFits ==
  ASSUME NEW table, CatalogFits(table), NEW next, NEW c \in Categories, DOMAIN next = Ids,
         \A i \in Ids \ {c} : next[i] = table[i],
         {"status", "parent"} \subseteq DOMAIN next[c],
         next[c].parent # NoRecord =>
           /\ next[c].parent \in CategoriesIn(table)
           /\ c \notin Climb(table, NoRecord, Cardinality(Categories), next[c].parent)
           /\ next[c].status = "ACTIVE" => table[next[c].parent].status = "ACTIVE",
         next[c].status # "ACTIVE" =>
           /\ \A d \in CategoriesIn(table) \ {c} : table[d].parent = c => table[d].status # "ACTIVE"
           /\ \A p \in ProductsIn(table) : table[p].category = c => table[p].status # "ACTIVE"
  PROVE  CatalogFits(next)
<1>1. /\ Products \cap Categories = {} /\ Units \cap Categories = {}
      /\ Categories \subseteq Ids /\ Units \subseteq Ids /\ Products \subseteq Ids
  <2>1. Units \cap Categories = {}
    <3> DEFINE tables == <<Categories, Units, Products, Customers, Suppliers, Methods>>
    <3>1. tables[1] \cap tables[2] = {}
      BY RecordsAssumption
    <3>. QED
      BY <3>1
  <2>. QED
    BY <2>1, TablesApart DEF Ids
<1>2. CategoriesIn(next) = CategoriesIn(table) \cup {c}
  BY <1>1, RowThere DEF CategoriesIn
<1>3. CategoriesIn(table) \subseteq Categories /\ \A d \in CategoriesIn(table) \ {c} : next[d] = table[d]
  BY <1>1 DEF CategoriesIn
<1>4. /\ ClosedUp(CategoriesIn(next), next, NoRecord)
      /\ Rooted(next, NoRecord, Cardinality(Categories), CategoriesIn(next))
  BY <1>2, <1>3, NoRecordApart, MovesKeepRoots DEF CatalogFits, TreeFits
<1>5. ASSUME NEW d \in CategoriesIn(next)
      PROVE  /\ {"status", "parent"} \subseteq DOMAIN next[d]
             /\ next[d].status = "ACTIVE" /\ next[d].parent # NoRecord
                  => next[next[d].parent].status = "ACTIVE"
  <2>1. CASE d = c
    <3>1. next[c].parent # NoRecord => next[c].parent # c
      BY <1>3, NoRecordApart, ClimbLeast DEF CatalogFits, TreeFits
    <3>. QED
      BY <2>1, <3>1, <1>3
  <2>2. CASE d # c
    <3>1. d \in CategoriesIn(table) /\ next[d] = table[d]
      BY <2>2, <1>2, <1>3
    <3>2. /\ {"status", "parent"} \subseteq DOMAIN table[d]
          /\ table[d].parent \in CategoriesIn(table) \cup {NoRecord}
          /\ table[d].status = "ACTIVE" /\ table[d].parent # NoRecord
                => table[table[d].parent].status = "ACTIVE"
      BY <3>1 DEF CatalogFits, TreeFits, ClosedUp
    <3>. QED
      BY <3>1, <3>2, <2>2, <1>3
  <2>. QED
    BY <2>1, <2>2
<1>6. ASSUME NEW p \in ProductsIn(next) PROVE ProductFits(next, p)
  <2>1. p \in ProductsIn(table) /\ next[p] = table[p]
    BY <1>1 DEF ProductsIn
  <2>2. ProductFits(table, p)
    BY <2>1 DEF CatalogFits
  <2>3. next[table[p].unit] = table[table[p].unit]
    BY <2>2, <1>1 DEF ProductFits
  <2>4. table[p].status = "ACTIVE" => next[table[p].category].status = "ACTIVE"
    <3>1. CASE table[p].category = c
      BY <3>1, <2>1
    <3>2. CASE table[p].category # c
      BY <3>2, <2>2, <1>1 DEF ProductFits
    <3>. QED
      BY <3>1, <3>2
  <2>. QED
    BY <2>1, <2>2, <2>3, <2>4 DEF ProductFits
<1>7. \A n \in Units : "status" \in DOMAIN next[n]
  BY <1>1 DEF CatalogFits
<1>. QED
  BY <1>4, <1>5, <1>6, <1>7 DEF CatalogFits, TreeFits

\* What is no category: a unit, a product or anything else.
LEMMA OthersFit ==
  ASSUME NEW table, CatalogFits(table), NEW next, DOMAIN next = Ids,
         \A c \in Categories : next[c] = table[c],
         \A n \in Units : "status" \in DOMAIN next[n],
         \A p \in ProductsIn(next) : ProductFits(next, p)
  PROVE  CatalogFits(next)
<1>1. CategoriesIn(next) = CategoriesIn(table)
  BY DEF CategoriesIn
<1>2. \A c \in CategoriesIn(table) : next[c] = table[c]
  BY DEF CategoriesIn
<1>3. /\ ClosedUp(CategoriesIn(next), next, NoRecord)
      /\ Rooted(next, NoRecord, Cardinality(Categories), CategoriesIn(next))
  <2>1. CASE CategoriesIn(table) = {}
    BY <2>1, <1>1 DEF ClosedUp, Rooted
  <2>2. ASSUME NEW c \in CategoriesIn(table)
        PROVE  /\ ClosedUp(CategoriesIn(next), next, NoRecord)
               /\ Rooted(next, NoRecord, Cardinality(Categories), CategoriesIn(next))
    <3>1. ClosedUp(CategoriesIn(next), next, NoRecord)
      BY <1>1, <1>2 DEF CatalogFits, TreeFits, ClosedUp
    <3>2. ASSUME NEW x \in CategoriesIn(next)
          PROVE  \E d \in Climb(next, NoRecord, Cardinality(Categories), x) : next[d].parent = NoRecord
      <4> DEFINE Up(y) == Climb(table, NoRecord, Cardinality(Categories), y)
                 Up2(y) == Climb(next, NoRecord, Cardinality(Categories), y)
      <4>1. CategoriesIn(table) \in SUBSET Categories /\ CategoriesIn(next) \in SUBSET Categories
        BY DEF CategoriesIn
      <4>2. /\ x \in Up2(x) /\ Up2(x) \subseteq CategoriesIn(next)
            /\ ClosedUp(Up2(x), next, NoRecord)
        BY <4>1, <3>1, NoRecordApart, ClimbLeast
      <4>3. ClosedUp(Up2(x), table, NoRecord) /\ NoRecord \notin Up2(x)
        BY <4>1, <4>2, <1>1, <1>2, NoRecordApart DEF ClosedUp
      <4>4. \A S : x \in S /\ NoRecord \notin S /\ ClosedUp(S, table, NoRecord) => Up(x) \subseteq S
        BY <4>1, <1>1, NoRecordApart, ClimbLeast DEF CatalogFits, TreeFits
      <4>5. Up(x) \subseteq Up2(x)
        <5>. HIDE DEF Up, Up2
        <5>. QED
          BY <4>2, <4>3, <4>4
      <4>6. PICK d \in Up(x) : table[d].parent = NoRecord
        BY <1>1 DEF CatalogFits, TreeFits, Rooted
      <4>7. d \in Up2(x) /\ next[d] = table[d]
        BY <4>2, <4>5, <4>6, <1>1, <1>2
      <4>. QED
        BY <4>6, <4>7
    <3>. QED
      BY <3>1, <3>2 DEF Rooted
  <2>. QED
    BY <2>1, <2>2
<1>4. ASSUME NEW c \in CategoriesIn(next)
      PROVE  /\ {"status", "parent"} \subseteq DOMAIN next[c]
             /\ next[c].status = "ACTIVE" /\ next[c].parent # NoRecord
                  => next[next[c].parent].status = "ACTIVE"
  <2>1. table[c].parent \in CategoriesIn(table) \cup {NoRecord}
    BY <1>1 DEF CatalogFits, TreeFits, ClosedUp
  <2>. QED
    BY <2>1, <1>1, <1>2 DEF CatalogFits, TreeFits
<1>. QED
  BY <1>3, <1>4 DEF CatalogFits, TreeFits

\* Whether the rows fit does not depend on stocks.
StockApart(row, next) ==
  \/ next = row
  \/ /\ "type" \in DOMAIN row
     /\ DOMAIN next = DOMAIN row
     /\ \A x \in DOMAIN row \ {"stock"} : next[x] = row[x]

LEMMA StockAside ==
  ASSUME NEW table, CatalogFits(table), NEW next, DOMAIN next = Ids,
         \A i \in Categories \cup Units : next[i] = table[i],
         \A p \in Products : StockApart(table[p], next[p])
  PROVE  CatalogFits(next)
<1>1. \A c \in Categories : next[c] = table[c]
  OBVIOUS
<1>2. \A n \in Units : "status" \in DOMAIN next[n]
  BY DEF CatalogFits
<1>3. ASSUME NEW p \in ProductsIn(next) PROVE ProductFits(next, p)
  <2>1. p \in Products /\ StockApart(table[p], next[p]) /\ p \in ProductsIn(table)
    BY RowThere DEF ProductsIn, StockApart
  <2>2. ProductFits(table, p)
    BY <2>1 DEF CatalogFits
  <2>3. /\ DOMAIN next[p] = DOMAIN table[p]
        /\ \A x \in DOMAIN table[p] \ {"stock"} : next[p][x] = table[p][x]
    BY <2>1 DEF StockApart
  <2>4. /\ next[table[p].category] = table[table[p].category]
        /\ next[table[p].unit] = table[table[p].unit]
    BY <2>2 DEF ProductFits
  <2>. QED
    BY <2>2, <2>3, <2>4 DEF ProductFits, KindFits
<1>. QED
  BY <1>1, <1>2, <1>3, OthersFit

-----------------------------------------------------------------------------
(* Each operation decides on columns that leave rows that fit. *)

LEMMA AppliedRow ==
  ASSUME NEW table, DOMAIN table = Ids, NEW i \in Ids, NEW columns
  PROVE  /\ DOMAIN Applied(table, i, columns) = Ids
         /\ Applied(table, i, columns)[i] = Written(columns, table[i])
         /\ \A j \in Ids \ {i} : Applied(table, i, columns)[j] = table[j]
BY DEF Applied

LEMMA IdsApart ==
  /\ Categories \subseteq Ids /\ Units \subseteq Ids /\ Products \subseteq Ids
  /\ Categories \cap Units = {} /\ Products \cap Categories = {} /\ Products \cap Units = {}
<1> DEFINE tables == <<Categories, Units, Products, Customers, Suppliers, Methods>>
<1>1. tables[1] \cap tables[2] = {}
  BY RecordsAssumption
<1>2. Categories \cap Units = {}
  BY <1>1
<1>. QED
  BY <1>2, TablesApart DEF Ids

\* Customers, suppliers and payment methods are not of the catalog.
LEMMA PartiesAside ==
  ASSUME CatalogFits(rows), NEW i \in Ids, i \notin Categories \cup Units \cup Products, NEW columns
  PROVE  CatalogFits(Applied(rows, i, columns))
<1> DEFINE next == Applied(rows, i, columns)
<1>1. DOMAIN next = Ids /\ \A j \in Categories \cup Units \cup Products : next[j] = rows[j]
  BY AppliedRow, IdsApart DEF CatalogFits
<1>. HIDE DEF next
<1>2. \A n \in Units : "status" \in DOMAIN next[n]
  BY <1>1 DEF CatalogFits
<1>3. ASSUME NEW p \in ProductsIn(next) PROVE ProductFits(next, p)
  BY <1>1 DEF ProductsIn, ProductFits, CatalogFits
<1>4. CatalogFits(next)
  BY <1>1, <1>2, <1>3, OthersFit
<1>. QED
  BY <1>4 DEF next

\* A unit that stays active, or that no active product is measured in.
LEMMA UnitFits ==
  ASSUME CatalogFits(rows), NEW n \in Units, NEW columns,
         \/ "status" \notin DOMAIN columns
         \/ columns["status"] = "ACTIVE"
         \/ \A p \in ProductsOf("unit", n) : ~Active(p)
  PROVE  CatalogFits(Applied(rows, n, columns))
<1> DEFINE next == Applied(rows, n, columns)
           row == Written(columns, rows[n])
<1>1. /\ DOMAIN next = Ids /\ next[n] = row
      /\ \A j \in Ids \ {n} : next[j] = rows[j]
  BY AppliedRow, IdsApart DEF CatalogFits
<1>0. "status" \in DOMAIN rows[n]
  BY DEF CatalogFits
<1>2. /\ "status" \in DOMAIN row
      /\ row["status"] = IF "status" \in DOMAIN columns THEN columns["status"] ELSE rows[n]["status"]
  <2> DEFINE old == rows[n]
  <2>1. "status" \in DOMAIN old
    BY <1>0
  <2>. HIDE DEF old
  <2>2. LET new == Written(columns, old)
        IN  /\ "status" \in DOMAIN new
            /\ new["status"] = IF "status" \in DOMAIN columns THEN columns["status"] ELSE old["status"]
    BY <2>1 DEF Written
  <2>. QED
    BY <2>2 DEF old
<1>. HIDE DEF next, row
<1>3. \A c \in Categories : next[c] = rows[c]
  BY <1>1, IdsApart
<1>4. \A m \in Units : "status" \in DOMAIN next[m]
  BY <1>1, <1>2, IdsApart DEF CatalogFits
<1>5. ASSUME NEW p \in ProductsIn(next) PROVE ProductFits(next, p)
  <2>1. p \in ProductsIn(rows) /\ next[p] = rows[p]
    BY <1>1, IdsApart DEF ProductsIn
  <2>2. ProductFits(rows, p)
    BY <2>1 DEF CatalogFits
  <2>3. next[rows[p].category] = rows[rows[p].category]
    BY <2>2, <1>3 DEF ProductFits
  <2>4. rows[p].status = "ACTIVE" => next[rows[p].unit].status = "ACTIVE"
    <3>1. CASE rows[p].unit # n
      BY <3>1, <2>2, <1>1, IdsApart DEF ProductFits
    <3>2. CASE rows[p].unit = n
      <4>1. p \in ProductsOf("unit", n)
        BY <2>1, <3>2 DEF ProductsOf, ProductsIn, Exists
      <4>2. rows[p].status = "ACTIVE" => rows[n].status = "ACTIVE"
        BY <2>2, <3>2 DEF ProductFits
      <4>. QED
        BY <1>1, <1>2, <3>2, <4>1, <4>2 DEF Active
    <3>. QED
      BY <3>1, <3>2
  <2>. QED
    BY <2>1, <2>2, <2>3, <2>4 DEF ProductFits
<1>6. CatalogFits(next)
  BY <1>1, <1>3, <1>4, <1>5, OthersFit
<1>. QED
  BY <1>6 DEF next

\* A product that fits where it is.
LEMMA ProductRowFits ==
  ASSUME CatalogFits(rows), NEW p \in Products, NEW columns, NEW row, row = Written(columns, rows[p]),
         {"status", "type", "tracked", "minimum", "category", "unit"} \subseteq DOMAIN row,
         row.category \in Categories, row.unit \in Units,
         row.status = "ACTIVE" => Active(row.category) /\ Active(row.unit),
         KindFits(row)
  PROVE  CatalogFits(Applied(rows, p, columns))
<1> DEFINE next == Applied(rows, p, columns)
<1>1. /\ DOMAIN next = Ids /\ next[p] = row
      /\ \A j \in Ids \ {p} : next[j] = rows[j]
  BY AppliedRow, IdsApart DEF CatalogFits
<1>. HIDE DEF next
<1>2. \A i \in Categories \cup Units : next[i] = rows[i]
  BY <1>1, IdsApart
<1>3. \A n \in Units : "status" \in DOMAIN next[n]
  BY <1>2 DEF CatalogFits
<1>4. ASSUME NEW q \in ProductsIn(next) PROVE ProductFits(next, q)
  <2>1. CASE q = p
    BY <2>1, <1>1, <1>2 DEF ProductFits, Active
  <2>2. CASE q # p
    <3>1. q \in ProductsIn(rows) /\ next[q] = rows[q]
      BY <2>2, <1>1, IdsApart DEF ProductsIn
    <3>2. ProductFits(rows, q)
      BY <3>1 DEF CatalogFits
    <3>. QED
      BY <3>1, <3>2, <1>2 DEF ProductFits
  <2>. QED
    BY <2>1, <2>2
<1>5. CatalogFits(next)
  BY <1>1, <1>2, <1>3, <1>4, OthersFit
<1>. QED
  BY <1>5 DEF next

\* A category that is where it may be, and is active if what is under it is.
LEMMA CategoryRowFits ==
  ASSUME CatalogFits(rows), NEW c \in Categories, NEW columns, NEW row, row = Written(columns, rows[c]),
         {"status", "parent"} \subseteq DOMAIN row,
         row.parent # NoRecord =>
           /\ row.parent \in CategoriesIn(rows)
           /\ c \notin Climb(rows, NoRecord, Cardinality(Categories), row.parent)
           /\ row.status = "ACTIVE" => Active(row.parent),
         row.status # "ACTIVE" => \A d \in Children(c) \cup ProductsOf("category", c) : d = c \/ ~Active(d)
  PROVE  CatalogFits(Applied(rows, c, columns))
<1> DEFINE next == Applied(rows, c, columns)
<1>1. /\ DOMAIN next = Ids /\ next[c] = row
      /\ \A j \in Ids \ {c} : next[j] = rows[j]
  BY AppliedRow, IdsApart DEF CatalogFits
<1>. HIDE DEF next
<1>2. ASSUME row.status # "ACTIVE"
      PROVE  /\ \A d \in CategoriesIn(rows) \ {c} : rows[d].parent = c => rows[d].status # "ACTIVE"
             /\ \A p \in ProductsIn(rows) : rows[p].category = c => rows[p].status # "ACTIVE"
  BY <1>2, IdsApart DEF Children, ProductsOf, CategoriesIn, ProductsIn, Exists, Active
<1>3. CatalogFits(next)
  BY <1>1, <1>2, CategoryFits DEF Active
<1>. QED
  BY <1>3 DEF next


-----------------------------------------------------------------------------
(* What an administrator decides on leaves rows that fit. *)

\* What each administrator is about to write leaves rows that fit.
EditFits(u) ==
  \A e \in edit[u] : e.row \in Ids /\ CatalogFits(Applied(rows, e.row, e.columns))

\* What goes up to a root goes round no circle.
LEMMA RootsMakeForest ==
  ASSUME CatalogFits(rows), NEW c \in CategoriesIn(rows), rows[c].parent # NoRecord
  PROVE  /\ rows[c].parent \in CategoriesIn(rows)
         /\ c \notin Climb(rows, NoRecord, Cardinality(Categories), rows[c].parent)
<1> DEFINE Up(x) == Climb(rows, NoRecord, Cardinality(Categories), x)
           E == CategoriesIn(rows)
           p == rows[c].parent
<1>1. E \in SUBSET Categories /\ ClosedUp(E, rows, NoRecord)
  BY DEF CatalogFits, TreeFits, CategoriesIn
<1>2. p \in E
  BY <1>1 DEF ClosedUp
<1>3. ASSUME NEW x \in E
      PROVE  /\ x \in Up(x) /\ Up(x) \subseteq E /\ ClosedUp(Up(x), rows, NoRecord)
             /\ \A S : x \in S /\ NoRecord \notin S /\ ClosedUp(S, rows, NoRecord) => Up(x) \subseteq S
             /\ \E d \in Up(x) : rows[d].parent = NoRecord
  <2>1. \E d \in Up(x) : rows[d].parent = NoRecord
    BY DEF CatalogFits, TreeFits, Rooted
  <2>2. /\ x \in Up(x) /\ Up(x) \subseteq E /\ ClosedUp(Up(x), rows, NoRecord)
        /\ \A S : x \in S /\ NoRecord \notin S /\ ClosedUp(S, rows, NoRecord) => Up(x) \subseteq S
    BY <1>1, NoRecordApart, ClimbLeast
  <2>. QED
    BY <2>1, <2>2
<1>4. NoRecord \notin E
  BY <1>1, NoRecordApart
<1>. HIDE DEF Up, E
<1>5. ASSUME NEW x \in E, c \in Up(x), c # x
      PROVE  rows[x].parent \in E /\ c \in Up(rows[x].parent)
  <2>1. CASE rows[x].parent = NoRecord
    <3>1. ClosedUp({x}, rows, NoRecord)
      BY <2>1 DEF ClosedUp
    <3>. QED
      BY <3>1, <1>3, <1>4, <1>5
  <2>2. CASE rows[x].parent # NoRecord
    <3>1. rows[x].parent \in E
      BY <1>1, <2>2 DEF ClosedUp
    <3>2. ClosedUp({x} \cup Up(rows[x].parent), rows, NoRecord)
      BY <3>1, <1>3 DEF ClosedUp
    <3>3. NoRecord \notin {x} \cup Up(rows[x].parent)
      BY <3>1, <1>3, <1>4
    <3>. QED
      BY <3>1, <3>2, <3>3, <1>3, <1>5
  <2>. QED
    BY <2>1, <2>2
<1>6. ASSUME c \in Up(p) PROVE FALSE
  <2> DEFINE S == {x \in E : c \in Up(x)}
  <2>1. p \in S /\ NoRecord \notin S
    BY <1>2, <1>4, <1>6
  <2>2. ClosedUp(S, rows, NoRecord) /\ \A x \in S : rows[x].parent \in S
    BY <1>2, <1>5, <1>6 DEF ClosedUp
  <2>3. \E d \in S : rows[d].parent = NoRecord
    BY <1>2, <1>3, <2>1, <2>2
  <2>. QED
    BY <2>1, <2>2, <2>3
<1>. QED
  BY <1>2, <1>6 DEF Up, E

\* What is not active carries nothing active.
LEMMA InactiveCarryNone ==
  ASSUME CatalogFits(rows), NEW c \in Categories, ~Active(c)
  PROVE  \A d \in Children(c) \cup ProductsOf("category", c) : ~Active(d)
<1>1. ASSUME NEW d \in Children(c) PROVE ~Active(d)
  <2>1. d \in CategoriesIn(rows) /\ rows[d].parent = c
    BY <1>1 DEF Children, CategoriesIn, Exists
  <2>2. c # NoRecord
    BY NoRecordApart
  <2>. QED
    BY <2>1, <2>2 DEF CatalogFits, TreeFits, Active
<1>2. ASSUME NEW d \in ProductsOf("category", c) PROVE ~Active(d)
  <2>1. d \in ProductsIn(rows) /\ rows[d].category = c
    BY <1>2 DEF ProductsOf, ProductsIn, Exists
  <2>. QED
    BY <2>1 DEF CatalogFits, ProductFits, Active
<1>. QED
  BY <1>1, <1>2

\* A category that exists and stays where it is.
LEMMA CategoryStays ==
  ASSUME CatalogFits(rows), NEW c \in CategoriesIn(rows), NEW columns,
         "parent" \notin DOMAIN columns,
         "status" \notin DOMAIN columns
         \/ IF columns["status"] = "ACTIVE" THEN UsableParent(rows[c].parent)
            ELSE \A d \in Children(c) \cup ProductsOf("category", c) : ~Active(d)
  PROVE  CatalogFits(Applied(rows, c, columns))
<1> DEFINE row == Written(columns, rows[c])
<1>1. c \in Categories /\ {"status", "parent"} \subseteq DOMAIN rows[c]
  BY DEF CategoriesIn, CatalogFits, TreeFits
<1>2. /\ {"status", "parent"} \subseteq DOMAIN row
      /\ row.parent = rows[c].parent
      /\ row.status = IF "status" \in DOMAIN columns THEN columns["status"] ELSE rows[c].status
  <2> DEFINE old == rows[c]
  <2>1. {"status", "parent"} \subseteq DOMAIN old
    BY <1>1
  <2>. HIDE DEF old
  <2>2. LET new == Written(columns, old)
        IN  /\ {"status", "parent"} \subseteq DOMAIN new
            /\ new.parent = old.parent
            /\ new.status = IF "status" \in DOMAIN columns THEN columns["status"] ELSE old.status
    BY <2>1 DEF Written
  <2>. QED
    BY <2>2 DEF old
<1>. HIDE DEF row
<1>3. row.parent # NoRecord =>
        /\ row.parent \in CategoriesIn(rows)
        /\ c \notin Climb(rows, NoRecord, Cardinality(Categories), row.parent)
        /\ row.status = "ACTIVE" => Active(row.parent)
  BY <1>2, RootsMakeForest DEF CatalogFits, TreeFits, UsableParent, Active
<1>4. row.status # "ACTIVE" => \A d \in Children(c) \cup ProductsOf("category", c) : ~Active(d)
  BY <1>1, <1>2, InactiveCarryNone DEF Active
<1>5. row = Written(columns, rows[c])
  BY DEF row
<1>. QED
  BY <1>1, <1>2, <1>3, <1>4, <1>5, CategoryRowFits

LEMMA CategoryStepFits ==
  ASSUME CatalogFits(rows), NEW u, NEW c \in Categories,
         \/ \E p \in Parents : CreateCategory(u, c, p) \/ UpdateCategory(u, c, p)
         \/ ActivateCategory(u, c) \/ DeactivateCategory(u, c)
  PROVE  \E columns : Decide(u, c, columns) /\ CatalogFits(Applied(rows, c, columns))
<1>1. ASSUME NEW p \in Parents, CreateCategory(u, c, p)
      PROVE  CatalogFits(Applied(rows, c, [status |-> "ACTIVE", parent |-> p]))
  <2> DEFINE columns == [status |-> "ACTIVE", parent |-> p]
             row == Written(columns, rows[c])
  <2>1. {"status", "parent"} \subseteq DOMAIN row /\ row.parent = p /\ row.status = "ACTIVE"
    BY DEF Written
  <2>2. p # NoRecord =>
          /\ p \in CategoriesIn(rows) /\ Active(p)
          /\ c \notin Climb(rows, NoRecord, Cardinality(Categories), p)
    <3>1. p # NoRecord => p \in CategoriesIn(rows) /\ Active(p)
      BY <1>1 DEF CreateCategory, UsableParent, Parents, Active, CategoriesIn, NoRow
    <3>2. c \notin CategoriesIn(rows)
      BY <1>1 DEF CreateCategory, Insert, Exists, CategoriesIn
    <3>3. CategoriesIn(rows) \in SUBSET Categories
      BY DEF CategoriesIn
    <3>4. p # NoRecord => Climb(rows, NoRecord, Cardinality(Categories), p) \subseteq CategoriesIn(rows)
      BY <3>1, <3>3, NoRecordApart, ClimbLeast DEF CatalogFits, TreeFits
    <3>. QED
      BY <3>1, <3>2, <3>4
  <2>. HIDE DEF row
  <2>3. row = Written(columns, rows[c])
    BY DEF row
  <2>. HIDE DEF columns
  <2>4. CatalogFits(Applied(rows, c, columns))
    BY <2>1, <2>2, <2>3, CategoryRowFits
  <2>. QED
    BY <2>4 DEF columns
<1>2. ASSUME NEW p \in Parents, UpdateCategory(u, c, p)
      PROVE  CatalogFits(Applied(rows, c, [parent |-> p]))
  <2> DEFINE columns == [parent |-> p]
             row == Written(columns, rows[c])
  <2>1. c \in CategoriesIn(rows) /\ {"status", "parent"} \subseteq DOMAIN rows[c]
    BY <1>2 DEF UpdateCategory, Exists, CategoriesIn, CatalogFits, TreeFits
  <2>2. {"status", "parent"} \subseteq DOMAIN row /\ row.parent = p /\ row.status = rows[c].status
    BY <2>1 DEF Written
  <2>3. p # NoRecord =>
          /\ p \in CategoriesIn(rows) /\ Active(p)
          /\ c \notin Climb(rows, NoRecord, Cardinality(Categories), p)
    BY <1>2, AboveCategory DEF UpdateCategory, MayMove, UsableParent, Parents, Active, CategoriesIn, NoRow
  <2>4. row.status # "ACTIVE" => \A d \in Children(c) \cup ProductsOf("category", c) : ~Active(d)
    BY <2>2, InactiveCarryNone DEF Active
  <2>. HIDE DEF row
  <2>5. row = Written(columns, rows[c])
    BY DEF row
  <2>. HIDE DEF columns
  <2>6. CatalogFits(Applied(rows, c, columns))
    BY <2>2, <2>3, <2>4, <2>5, CategoryRowFits
  <2>. QED
    BY <2>6 DEF columns
<1>3. ASSUME ActivateCategory(u, c)
      PROVE  CatalogFits(Applied(rows, c, [status |-> "ACTIVE"]))
  <2> DEFINE columns == [status |-> "ACTIVE"]
  <2>1. c \in CategoriesIn(rows) /\ UsableParent(rows[c].parent)
    BY <1>3 DEF ActivateCategory, Exists, CategoriesIn
  <2>2. "parent" \notin DOMAIN columns /\ columns["status"] = "ACTIVE"
    OBVIOUS
  <2>. HIDE DEF columns
  <2>3. CatalogFits(Applied(rows, c, columns))
    BY <2>1, <2>2, CategoryStays
  <2>. QED
    BY <2>3 DEF columns
<1>4. ASSUME DeactivateCategory(u, c)
      PROVE  CatalogFits(Applied(rows, c, [status |-> "INACTIVE"]))
  <2> DEFINE columns == [status |-> "INACTIVE"]
  <2>1. /\ c \in CategoriesIn(rows)
        /\ \A d \in Children(c) \cup ProductsOf("category", c) : ~Active(d)
    BY <1>4 DEF DeactivateCategory, Switch, NoRow, CategoriesIn
  <2>2. "parent" \notin DOMAIN columns /\ columns["status"] # "ACTIVE"
    OBVIOUS
  <2>. HIDE DEF columns
  <2>3. CatalogFits(Applied(rows, c, columns))
    BY <2>1, <2>2, CategoryStays
  <2>. QED
    BY <2>3 DEF columns
<1>. QED
  BY <1>1, <1>2, <1>3, <1>4 DEF CreateCategory, Insert, UpdateCategory, ActivateCategory, DeactivateCategory, Switch

LEMMA UnitStepFits ==
  ASSUME CatalogFits(rows), NEW u, NEW n \in Units,
         \/ \E decimal \in BOOLEAN : CreateUnit(u, n, decimal) \/ UpdateUnit(u, n, decimal)
         \/ ActivateUnit(u, n) \/ DeactivateUnit(u, n)
  PROVE  \E columns : Decide(u, n, columns) /\ CatalogFits(Applied(rows, n, columns))
<1>1. ASSUME NEW decimal \in BOOLEAN
      PROVE  CatalogFits(Applied(rows, n, [status |-> "ACTIVE", decimal |-> decimal]))
  BY UnitFits
<1>2. ASSUME NEW decimal \in BOOLEAN
      PROVE  CatalogFits(Applied(rows, n, [decimal |-> decimal]))
  BY UnitFits
<1>3. CatalogFits(Applied(rows, n, [status |-> "ACTIVE"]))
  BY UnitFits
<1>4. ASSUME DeactivateUnit(u, n)
      PROVE  CatalogFits(Applied(rows, n, [status |-> "INACTIVE"]))
  BY <1>4, UnitFits DEF DeactivateUnit
<1>. QED
  BY <1>1, <1>2, <1>3, <1>4 DEF CreateUnit, Insert, UpdateUnit, ActivateUnit, DeactivateUnit, Switch

\* The columns of a product that exists, some of them written.
ProductColumns == {"status", "type", "tracked", "minimum", "category", "unit"}

LEMMA WrittenProduct ==
  ASSUME NEW row, ProductColumns \subseteq DOMAIN row, NEW columns
  PROVE  LET new == Written(columns, row)
         IN  /\ ProductColumns \subseteq DOMAIN new
             /\ \A x \in ProductColumns : new[x] = IF x \in DOMAIN columns THEN columns[x] ELSE row[x]
BY DEF Written, ProductColumns

\* A product that stays of its kind and where it is.
LEMMA ProductStays ==
  ASSUME CatalogFits(rows), NEW p \in ProductsIn(rows), NEW columns,
         DOMAIN columns \subseteq {"status"},
         "status" \in DOMAIN columns /\ columns["status"] = "ACTIVE" => Usable(rows[p])
  PROVE  CatalogFits(Applied(rows, p, columns))
<1> DEFINE row == Written(columns, rows[p])
<1>1. p \in Products /\ ProductFits(rows, p)
  BY DEF ProductsIn, CatalogFits
<1>2. ProductColumns \subseteq DOMAIN rows[p]
  BY <1>1 DEF ProductFits, ProductColumns
<1>3. /\ ProductColumns \subseteq DOMAIN row
      /\ \A x \in ProductColumns : row[x] = IF x \in DOMAIN columns THEN columns[x] ELSE rows[p][x]
  BY <1>2, WrittenProduct
<1>4. row = Written(columns, rows[p])
  OBVIOUS
<1>. HIDE DEF row
<1>5. /\ row.type = rows[p].type /\ row.tracked = rows[p].tracked /\ row.minimum = rows[p].minimum
      /\ row.category = rows[p].category /\ row.unit = rows[p].unit
      /\ row.status = IF "status" \in DOMAIN columns THEN columns["status"] ELSE rows[p].status
  BY <1>3 DEF ProductColumns
<1>6. row.status = "ACTIVE" => Active(row.category) /\ Active(row.unit)
  BY <1>1, <1>5 DEF ProductFits, Usable, Active
<1>7. row.category \in Categories /\ row.unit \in Units /\ KindFits(row)
  BY <1>1, <1>5 DEF ProductFits, KindFits
<1>. QED
  BY <1>1, <1>3, <1>4, <1>6, <1>7, ProductRowFits DEF ProductColumns

LEMMA NewProductFits ==
  ASSUME CatalogFits(rows), NEW p \in Products, NEW kind \in Kinds, NEW place \in Places,
         KindFits(kind), Usable(place)
  PROVE  CatalogFits(Applied(rows, p, Written([status |-> "ACTIVE", stock |-> 0], Written(kind, place))))
<1> DEFINE rest == Written(kind, place)
           columns == Written([status |-> "ACTIVE", stock |-> 0], rest)
           row == Written(columns, rows[p])
<1>1. /\ DOMAIN rest = {"type", "tracked", "minimum", "category", "unit"}
      /\ rest.type = kind.type /\ rest.tracked = kind.tracked /\ rest.minimum = kind.minimum
      /\ rest.category = place.category /\ rest.unit = place.unit
  BY DEF Written, Kinds, Places
<1>. HIDE DEF rest
<1>2. /\ DOMAIN columns = ProductColumns \cup {"stock"}
      /\ columns.status = "ACTIVE"
      /\ columns.type = kind.type /\ columns.tracked = kind.tracked /\ columns.minimum = kind.minimum
      /\ columns.category = place.category /\ columns.unit = place.unit
  BY <1>1 DEF Written, ProductColumns
<1>. HIDE DEF columns
<1>3. /\ ProductColumns \subseteq DOMAIN row
      /\ row.type = kind.type /\ row.tracked = kind.tracked /\ row.minimum = kind.minimum
      /\ row.category = place.category /\ row.unit = place.unit
  BY <1>2 DEF Written, ProductColumns
<1>4. row = Written(columns, rows[p])
  OBVIOUS
<1>. HIDE DEF row
<1>5. /\ row.category \in Categories /\ row.unit \in Units /\ KindFits(row)
      /\ Active(row.category) /\ Active(row.unit)
  BY <1>3 DEF Places, KindFits, Usable
<1>6. CatalogFits(Applied(rows, p, columns))
  BY <1>3, <1>4, <1>5, ProductRowFits DEF ProductColumns
<1>. QED
  BY <1>6 DEF columns, rest

\* An update gives columns of the product other than its status.
LEMMA PatchColumns ==
  ASSUME NEW patch \in Patches
  PROVE  DOMAIN patch \subseteq ProductColumns \ {"status"}
<1>1. PICK S \in PatchedTogether, kind \in Kinds, place \in Places :
        patch = [c \in S |-> Written(kind, place)[c]]
  BY DEF Patches
<1>. QED
  BY <1>1, CatalogAssumption DEF ProductColumns

LEMMA PatchedProductFits ==
  ASSUME CatalogFits(rows), NEW p \in ProductsIn(rows), NEW patch \in Patches,
         PlaceFits(patch), KindFits(Written(patch, rows[p]))
  PROVE  CatalogFits(Applied(rows, p, patch))
<1> DEFINE row == Written(patch, rows[p])
<1>1. p \in Products /\ ProductFits(rows, p)
  BY DEF ProductsIn, CatalogFits
<1>2. ProductColumns \subseteq DOMAIN rows[p]
  BY <1>1 DEF ProductFits, ProductColumns
<1>3. /\ ProductColumns \subseteq DOMAIN row
      /\ \A x \in ProductColumns : row[x] = IF x \in DOMAIN patch THEN patch[x] ELSE rows[p][x]
  BY <1>2, WrittenProduct
<1>4. row = Written(patch, rows[p])
  OBVIOUS
<1>. HIDE DEF row
<1>5. row.status = rows[p].status
  BY <1>3, PatchColumns DEF ProductColumns
<1>6. row.category \in Categories /\ (row.status = "ACTIVE" => Active(row.category))
  <2>1. row.category = IF "category" \in DOMAIN patch THEN patch["category"] ELSE rows[p].category
    BY <1>3 DEF ProductColumns
  <2>. QED
    BY <1>1, <1>5, <2>1, PatchesPlaced DEF Placed, PlaceFits, ProductFits, Active
<1>7. row.unit \in Units /\ (row.status = "ACTIVE" => Active(row.unit))
  <2>1. row.unit = IF "unit" \in DOMAIN patch THEN patch["unit"] ELSE rows[p].unit
    BY <1>3 DEF ProductColumns
  <2>. QED
    BY <1>1, <1>5, <2>1, PatchesPlaced DEF Placed, PlaceFits, ProductFits, Active
<1>8. KindFits(row)
  BY <1>4
<1>. QED
  BY <1>1, <1>3, <1>4, <1>6, <1>7, <1>8, ProductRowFits DEF ProductColumns

LEMMA ProductStepFits ==
  ASSUME CatalogFits(rows), NEW u, NEW p \in Products,
         \/ \E kind \in Kinds, place \in Places : CreateProduct(u, p, kind, place)
         \/ \E patch \in Patches : UpdateProduct(u, p, patch)
         \/ ActivateProduct(u, p) \/ DeactivateProduct(u, p)
  PROVE  \E columns : Decide(u, p, columns) /\ CatalogFits(Applied(rows, p, columns))
<1>1. CASE \E kind \in Kinds, place \in Places : CreateProduct(u, p, kind, place)
  BY <1>1, NewProductFits DEF CreateProduct, Insert
<1>2. CASE \E patch \in Patches : UpdateProduct(u, p, patch)
  <2>1. PICK patch \in Patches : UpdateProduct(u, p, patch)
    BY <1>2
  <2>2. p \in ProductsIn(rows)
    BY <2>1 DEF UpdateProduct, Exists, ProductsIn
  <2>. QED
    BY <2>1, <2>2, PatchedProductFits DEF UpdateProduct
<1>3. ASSUME ActivateProduct(u, p)
      PROVE  CatalogFits(Applied(rows, p, [status |-> "ACTIVE"]))
  <2>1. p \in ProductsIn(rows) /\ Usable(rows[p])
    BY <1>3 DEF ActivateProduct, Exists, ProductsIn
  <2>. QED
    BY <2>1, ProductStays
<1>4. ASSUME DeactivateProduct(u, p)
      PROVE  CatalogFits(Applied(rows, p, [status |-> "INACTIVE"]))
  <2>1. p \in ProductsIn(rows)
    BY <1>4 DEF DeactivateProduct, Switch, NoRow, ProductsIn
  <2>. QED
    BY <2>1, ProductStays
<1>. QED
  BY <1>1, <1>2, <1>3, <1>4 DEF ActivateProduct, DeactivateProduct, Switch

LEMMA TextStepFits ==
  ASSUME CatalogFits(rows), NEW u, NEW i \in Categories \cup Units \cup Products, UpdateText(u, i)
  PROVE  Decide(u, i, <<>>) /\ CatalogFits(Applied(rows, i, <<>>))
<1> DEFINE none == <<>>
<1>1. Decide(u, i, none) /\ rows[i] # NoRow
  BY DEF UpdateText, Exists
<1>2. DOMAIN none = {}
  OBVIOUS
<1>. HIDE DEF none
<1>3. i \in Categories => CatalogFits(Applied(rows, i, none))
  BY <1>1, <1>2, CategoryStays DEF CategoriesIn
<1>4. i \in Units => CatalogFits(Applied(rows, i, none))
  BY <1>2, UnitFits
<1>5. i \in Products => CatalogFits(Applied(rows, i, none))
  BY <1>1, <1>2, ProductStays DEF ProductsIn
<1>6. Decide(u, i, none) /\ CatalogFits(Applied(rows, i, none))
  BY <1>1, <1>3, <1>4, <1>5
<1>. QED
  BY <1>6 DEF none

-----------------------------------------------------------------------------
(* One administrator, any number of sales *)

OneAdministrator == \A u, v \in Admins : u = v

CatalogIInv == IntakeStands /\ CatalogFits(rows) /\ \A u \in Admins : EditFits(u)

LEMMA DecideFits ==
  ASSUME CatalogIInv, OneAdministrator, NEW u \in Admins, NEW i \in Ids, NEW columns, Decide(u, i, columns),
         CatalogFits(Applied(rows, i, columns))
  PROVE  CatalogFits(rows)' /\ \A v \in Admins : EditFits(v)'
<1> DEFINE e == [row |-> i, insert |-> ~Exists(i), columns |-> columns]
<1>1. edit' = [edit EXCEPT ![u] = {e}] /\ rows' = rows
  BY DEF Decide
<1>2. e.row = i /\ e.columns = columns
  OBVIOUS
<1>. HIDE DEF e
<1>3. ASSUME NEW v \in Admins PROVE EditFits(v)'
  <2>1. edit'[v] = {e}
    BY <1>1 DEF OneAdministrator, CatalogIInv, IntakeStands, RowsStand
  <2>. QED
    BY <1>1, <1>2, <2>1 DEF EditFits
<1>. QED
  BY <1>1, <1>3 DEF CatalogIInv, CatalogFits

LEMMA CatalogStepFits ==
  ASSUME CatalogIInv, OneAdministrator, NEW u \in Admins, CatalogStep(u)
  PROVE  CatalogFits(rows)' /\ \A v \in Admins : EditFits(v)'
<1>1. CatalogFits(rows)
  BY DEF CatalogIInv
<1>2. \E i \in Categories \cup Units \cup Products : \E columns :
        Decide(u, i, columns) /\ CatalogFits(Applied(rows, i, columns))
  BY <1>1, TextStepFits, CategoryStepFits, UnitStepFits, ProductStepFits DEF CatalogStep
<1>. QED
  BY <1>2, IdsApart, DecideFits

LEMMA PartyStepFits ==
  ASSUME CatalogIInv, OneAdministrator, NEW u \in Admins,
         \/ \E c \in Customers : CustomerStep(u, c)
         \/ \E s \in Suppliers : SupplierStep(u, s)
         \/ \E m \in Methods : MethodStep(u, m)
  PROVE  CatalogFits(rows)' /\ \A v \in Admins : EditFits(v)'
<1>1. \E i \in Customers \cup Suppliers \cup Methods : \E columns : Decide(u, i, columns)
  BY DEF CustomerStep, CreateCustomer, UpdateCustomer, ActivateCustomer, DeactivateCustomer,
     BlockCustomer, UnblockCustomer, ChangeStatus, ConvertToCustomer, SetCreditEnabled,
     SupplierStep, CreateSupplier, ActivateSupplier, DeactivateSupplier,
     MethodStep, CreateMethod, UpdateMethod, Insert, UpdateText, Switch
<1>2. PICK i \in Customers \cup Suppliers \cup Methods : \E columns : Decide(u, i, columns)
  BY <1>1
<1>3. i \in Ids /\ i \notin Categories \cup Units \cup Products
  <2> DEFINE tables == <<Categories, Units, Products, Customers, Suppliers, Methods>>
  <2>1. \A m, n \in 1..6 : m # n => tables[m] \cap tables[n] = {}
    BY RecordsAssumption
  <2>2. /\ tables[1] = Categories /\ tables[2] = Units /\ tables[3] = Products
        /\ tables[4] = Customers /\ tables[5] = Suppliers /\ tables[6] = Methods
    OBVIOUS
  <2>. HIDE DEF tables
  <2>. QED
    BY <2>1, <2>2 DEF Ids
<1>. QED
  BY <1>2, <1>3, PartiesAside, DecideFits DEF CatalogIInv

LEMMA CommitEditFits ==
  ASSUME CatalogIInv, OneAdministrator, NEW u \in Admins, CommitEdit(u) \/ AbandonEdit(u)
  PROVE  CatalogFits(rows)' /\ \A v \in Admins : EditFits(v)'
<1>1. edit' = [edit EXCEPT ![u] = {}]
  BY DEF CommitEdit, AbandonEdit
<1>2. \A v \in Admins : edit'[v] = {}
  BY <1>1 DEF OneAdministrator, CatalogIInv, IntakeStands, RowsStand
<1>3. CatalogFits(rows')
  <2>1. CASE AbandonEdit(u)
    BY <2>1 DEF AbandonEdit, CatalogIInv
  <2>2. CASE CommitEdit(u)
    <3>1. PICK e \in edit[u] : rows' = Applied(rows, e.row, e.columns)
      BY <2>2 DEF CommitEdit, Applied
    <3>. QED
      BY <3>1 DEF CatalogIInv, EditFits
  <2>. QED
    BY <2>1, <2>2
<1>. QED
  BY <1>2, <1>3 DEF EditFits, CatalogFits

\* What is written over rows that differ in stocks alone.
LEMMA WrittenApart ==
  ASSUME NEW columns, NEW row, NEW next, StockApart(row, next)
  PROVE  StockApart(Written(columns, row), Written(columns, next))
<1>1. CASE next = row
  BY <1>1 DEF StockApart
<1>2. CASE next # row
  <2> DEFINE old == Written(columns, row)
             new == Written(columns, next)
  <2>1. /\ "type" \in DOMAIN row /\ DOMAIN next = DOMAIN row
        /\ \A x \in DOMAIN row \ {"stock"} : next[x] = row[x]
    BY <1>2 DEF StockApart
  <2>2. "type" \in DOMAIN old /\ DOMAIN new = DOMAIN old
    <3>1. DOMAIN old = DOMAIN columns \cup DOMAIN row
      BY DEF Written
    <3>2. DOMAIN new = DOMAIN columns \cup DOMAIN next
      BY DEF Written
    <3>. QED
      BY <2>1, <3>1, <3>2
  <2>3. \A x \in DOMAIN old \ {"stock"} : new[x] = old[x]
    BY <2>1 DEF Written
  <2>. QED
    BY <2>2, <2>3 DEF StockApart
<1>. QED
  BY <1>1, <1>2

\* Rows that differ in stocks alone, before and after an edit is written.
LEMMA StockKeepsFits ==
  ASSUME CatalogIInv, DOMAIN rows' = Ids, edit' = edit,
         \A i \in Categories \cup Units : rows'[i] = rows[i],
         \A p \in Products : StockApart(rows[p], rows'[p])
  PROVE  CatalogFits(rows)' /\ \A v \in Admins : EditFits(v)'
<1>1. CatalogFits(rows')
  BY StockAside DEF CatalogIInv
<1>2. ASSUME NEW v \in Admins, NEW e \in edit[v]
      PROVE  e.row \in Ids /\ CatalogFits(Applied(rows', e.row, e.columns))
  <2> DEFINE old == Applied(rows, e.row, e.columns)
             new == Applied(rows', e.row, e.columns)
  <2>1. e.row \in Ids /\ CatalogFits(old) /\ DOMAIN rows = Ids
    BY DEF CatalogIInv, EditFits, CatalogFits
  <2>2. /\ DOMAIN new = Ids
        /\ new[e.row] = Written(e.columns, rows'[e.row]) /\ old[e.row] = Written(e.columns, rows[e.row])
        /\ \A j \in Ids \ {e.row} : new[j] = rows'[j] /\ old[j] = rows[j]
    BY <2>1, AppliedRow
  <2>. HIDE DEF old, new
  <2>3. \A i \in Categories \cup Units : new[i] = old[i]
    BY <2>2, IdsApart
  <2>4. ASSUME NEW p \in Products PROVE StockApart(old[p], new[p])
    <3>1. CASE p # e.row
      BY <2>2, <3>1, IdsApart
    <3>2. CASE p = e.row
      <4>1. StockApart(rows[p], rows'[p])
        OBVIOUS
      <4>. QED
        BY <2>2, <3>2, <4>1, WrittenApart
    <3>. QED
      BY <3>1, <3>2
  <2>5. CatalogFits(new)
    BY <2>1, <2>2, <2>3, <2>4, StockAside
  <2>. QED
    BY <2>1, <2>5 DEF new
<1>. QED
  BY <1>1, <1>2 DEF EditFits, CatalogFits

LEMMA ConfirmFits ==
  ASSUME CatalogIInv, NEW r \in Sellers, Confirm(r)
  PROVE  CatalogFits(rows)' /\ \A v \in Admins : EditFits(v)'
<1>1. PICK o \in order[r] :
        /\ pc[r] = "checked"
        /\ rows' = [i \in Ids |->
             CASE i = o.product /\ rows[i].tracked -> [rows[i] EXCEPT !.stock = @ - 1]
               [] i = o.customer /\ o.customer # Generic -> [rows[i] EXCEPT !.stage = "CUSTOMER"]
               [] OTHER -> rows[i]]
  BY DEF Confirm
<1>2. DOMAIN rows' = Ids /\ edit' = edit
  BY <1>1 DEF Confirm
<1>3. CustomerSeen(r, o) /\ ProductsSeen(r, o)
  BY <1>1 DEF CatalogIInv, IntakeStands, SaleStands
<1>4. o.product \in Products /\ o.customer \in Customers /\ rows[o.product] # NoRow
  BY <1>3, EligibleExists DEF CustomerSeen, ProductsSeen, Exists
<1>5. \A i \in Categories \cup Units : rows'[i] = rows[i]
  <2>1. \A i \in Categories \cup Units : i \in Ids /\ i # o.product /\ i # o.customer
    BY <1>4, IdsApart, TablesApart
  <2>. QED
    BY <1>1, <2>1
<1>6. ASSUME NEW p \in Products PROVE StockApart(rows[p], rows'[p])
  <2>1. p \in Ids /\ p # o.customer
    BY <1>4, IdsApart, TablesApart
  <2>2. CASE p = o.product /\ rows[p].tracked
    <3>1. rows'[p] = [rows[p] EXCEPT !.stock = @ - 1]
      BY <1>1, <2>1, <2>2
    <3>2. "type" \in DOMAIN rows[p]
      BY <1>4, <2>2 DEF CatalogIInv, CatalogFits, ProductsIn, ProductFits
    <3>. QED
      BY <3>1, <3>2 DEF StockApart
  <2>3. CASE ~(p = o.product /\ rows[p].tracked)
    BY <1>1, <2>1, <2>3 DEF StockApart
  <2>. QED
    BY <2>2, <2>3
<1>. QED
  BY <1>2, <1>5, <1>6, StockKeepsFits

LEMMA RestockFits ==
  ASSUME CatalogIInv, NEW p \in Products, Restock(p)
  PROVE  CatalogFits(rows)' /\ \A v \in Admins : EditFits(v)'
<1>1. /\ rows[p] # NoRow /\ edit' = edit
      /\ rows' = [rows EXCEPT ![p] = [rows[p] EXCEPT !.stock = @ + 1]]
  BY DEF Restock, Exists
<1>2. DOMAIN rows = Ids /\ "type" \in DOMAIN rows[p]
  BY <1>1 DEF CatalogIInv, CatalogFits, ProductsIn, ProductFits
<1>3. /\ DOMAIN rows' = Ids /\ rows'[p] = [rows[p] EXCEPT !.stock = @ + 1]
      /\ \A i \in Ids \ {p} : rows'[i] = rows[i]
  BY <1>1, <1>2, IdsApart
<1>4. \A i \in Categories \cup Units : rows'[i] = rows[i]
  BY <1>3, IdsApart
<1>5. \A q \in Products : StockApart(rows[q], rows'[q])
  BY <1>2, <1>3, IdsApart DEF StockApart
<1>. QED
  BY <1>1, <1>3, <1>4, <1>5, StockKeepsFits

LEMMA CatalogStays ==
  ASSUME CatalogIInv, rows' = rows, edit' = edit
  PROVE  CatalogFits(rows)' /\ \A v \in Admins : EditFits(v)'
BY DEF CatalogIInv, EditFits, CatalogFits

LEMMA CatalogInitFits == IntakeInit => CatalogIInv
<1> SUFFICES ASSUME IntakeInit PROVE CatalogIInv
  OBVIOUS
<1>1. /\ DOMAIN rows = Ids
      /\ \A i \in Categories \cup Units \cup Products : rows[i] = NoRow
  BY IdsApart, TablesApart, RecordsAssumption DEF IntakeInit, RecordsInit
<1>2. CategoriesIn(rows) = {} /\ ProductsIn(rows) = {}
  BY <1>1 DEF CategoriesIn, ProductsIn
<1>3. \A n \in Units : "status" \in DOMAIN rows[n]
  BY <1>1 DEF NoRow
<1>4. CatalogFits(rows)
  BY <1>1, <1>2, <1>3 DEF CatalogFits, TreeFits, ClosedUp, Rooted
<1>5. \A u \in Admins : EditFits(u)
  BY DEF IntakeInit, RecordsInit, EditFits
<1>. QED
  BY <1>4, <1>5, IntakeInitStands DEF CatalogIInv

LEMMA CatalogNextFits ==
  ASSUME CatalogIInv, OneAdministrator, [IntakeNext]_<<records, intakeVars>>
  PROVE  CatalogIInv'
<1>1. IntakeStands'
  BY IntakeStepKeeps DEF CatalogIInv
<1>2. UNCHANGED <<records, intakeVars>> => CatalogFits(rows)' /\ \A v \in Admins : EditFits(v)'
  BY CatalogStays DEF records
<1>3. ASSUME NEW u \in Admins, EditRows(u)
      PROVE  CatalogFits(rows)' /\ \A v \in Admins : EditFits(v)'
  BY <1>3, CatalogStepFits, PartyStepFits, CommitEditFits DEF EditRows
<1>4. ASSUME NEW r \in Sellers, IntakeStep(r)
      PROVE  CatalogFits(rows)' /\ \A v \in Admins : EditFits(v)'
  <2>1. CASE Confirm(r)
    BY <2>1, ConfirmFits
  <2>2. CASE ~Confirm(r)
    <3>1. rows' = rows /\ edit' = edit
      BY <1>4, <2>2 DEF IntakeStep, LockCustomer, LockProducts, EndRequest
    <3>. QED
      BY <3>1, CatalogStays
  <2>. QED
    BY <2>1, <2>2
<1>5. CatalogFits(rows)' /\ \A v \in Admins : EditFits(v)'
  BY <1>2, <1>3, <1>4, RestockFits DEF IntakeNext
<1>. QED
  BY <1>1, <1>5 DEF CatalogIInv

LEMMA FitsStand == CatalogIInv => CatalogStands
<1> SUFFICES ASSUME CatalogIInv PROVE CatalogStands
  OBVIOUS
<1>0. CatalogFits(rows)
  BY DEF CatalogIInv
<1>1. ASSUME NEW c \in Categories, Exists(c)
      PROVE  ReachesRoot(c) /\ (Active(c) => UsableParent(rows[c].parent))
  <2>1. c \in CategoriesIn(rows)
    BY <1>1 DEF CategoriesIn, Exists
  <2>2. ReachesRoot(c)
    BY <1>0, <2>1, AboveCategory DEF ReachesRoot, CatalogFits, TreeFits, Rooted
  <2>. QED
    BY <1>0, <2>1, <2>2 DEF CatalogFits, TreeFits, UsableParent, Active
<1>2. ASSUME NEW p \in Products, Exists(p)
      PROVE  (Active(p) => Usable(rows[p])) /\ KindFits(rows[p])
  BY <1>0, <1>2 DEF CatalogFits, ProductsIn, ProductFits, Exists, Active, Usable
<1>. QED
  BY <1>1, <1>2 DEF CatalogStands

\* For any catalog, customers and sales, edited by one administrator: every
\* category goes up to a root, and what is in use stands on what is in use.
THEOREM CatalogKeepsStanding ==
  ASSUME OneAdministrator
  PROVE  IntakeSpec => []CatalogStands
<1>1. IntakeInit => CatalogIInv
  BY CatalogInitFits
<1>2. CatalogIInv /\ [IntakeNext]_<<records, intakeVars>> => CatalogIInv'
  BY CatalogNextFits
<1>3. CatalogIInv => CatalogStands
  BY FitsStand
<1>. QED
  BY <1>1, <1>2, <1>3, PTL DEF IntakeSpec

=============================================================================
