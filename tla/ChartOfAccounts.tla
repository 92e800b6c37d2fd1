--------------------------- MODULE ChartOfAccounts ---------------------------
(***************************************************************************)
(* The chart of accounts (ChartOfAccountsService): a hierarchy of groups   *)
(* and of accounts that entries are posted to, and the account that each   *)
(* system key stands for.                                                  *)
(*                                                                         *)
(* No operation locks a row: each one reads what it needs, decides, and    *)
(* writes afterwards.  edit[u] holds the columns that administrator u has  *)
(* decided to write.                                                       *)
(***************************************************************************)
EXTENDS Naturals, FiniteSets, Functions

CONSTANTS
  Accounts,      \* accounts, identified by their code
  Groups,        \* those that may be asked for as a parent
  Types,
  Keys,          \* system keys
  SystemAccount, \* the account of each key in the seeded chart, or NoAccount
  SystemType,    \* the type of the seeded accounts
  Admins,        \* who edits the chart at the same time
  NoAccount, NoKey

ASSUME ChartAssumption ==
  /\ IsFiniteSet(Accounts) /\ Groups \subseteq Accounts
  /\ NoAccount \notin Accounts /\ NoKey \notin Keys
  /\ SystemType \in Types
  /\ SystemAccount \in [Keys -> Accounts \cup {NoAccount}]
  /\ \A j, k \in Keys : SystemAccount[j] = SystemAccount[k] => j = k \/ SystemAccount[j] = NoAccount

VARIABLES
  accounts,   \* rows of accounts
  posted,     \* accounts with lines of entries
  edit        \* what each administrator is about to write

chart == <<accounts, posted, edit>>

NoRow == [status |-> "NONE"]

\* Roots are of level 1; a move does not rewrite the levels below it, which may
\* then be of any depth.
Level == Nat \ {0}

Row == [type : Types, parent : Accounts \cup {NoAccount}, level : Level, postable : BOOLEAN,
        status : {"ACTIVE", "INACTIVE"}, key : Keys \cup {NoKey}]
Columns == {"type", "parent", "level", "postable", "status", "key"}

NoEdit == [a \in {} |-> NoRow]

\* Columns of one row.
Only(a, columns) == [b \in {a} |-> columns]

RootRow(type, postable, key) ==
  [type |-> type, parent |-> NoAccount, level |-> 1, postable |-> postable,
   status |-> "ACTIVE", key |-> key]

\* The seed creates the accounts of the system keys, active and postable.
ChartInit ==
  /\ accounts = [a \in Accounts |->
       IF \E k \in Keys : SystemAccount[k] = a
       THEN RootRow(SystemType, TRUE, CHOOSE k \in Keys : SystemAccount[k] = a)
       ELSE NoRow]
  /\ posted = {}
  /\ edit = [u \in Admins |-> NoEdit]

Exists(a) == accounts[a] # NoRow
Active(a) == accounts[a].status = "ACTIVE"
Usable(a) == Active(a) /\ accounts[a].postable
Children(p) == {a \in Accounts : Exists(a) /\ accounts[a].parent = p}

\* The accounts above a and a itself, as far up as there are accounts.
Above(a) ==
  LET walk[n \in Nat] ==
        IF n = 0 THEN {a}
        ELSE walk[n - 1] \cup {accounts[b].parent : b \in walk[n - 1] \ {NoAccount}}
  IN  walk[Cardinality(Accounts)] \ {NoAccount}

\* assertParentUsableForNewChild
UsableAsParent(p) == Active(p) /\ ~accounts[p].postable

LevelUnder(p) == IF p = NoAccount THEN 1 ELSE accounts[p].level + 1

\* Every operation ends its reading with the columns to write.
Decide(u, columns) ==
  /\ edit[u] = NoEdit
  /\ edit' = [edit EXCEPT ![u] = columns]
  /\ UNCHANGED <<accounts, posted>>

-----------------------------------------------------------------------------
(* ChartOfAccountsService *)

CreateAccount(u, a, type, p, postable) ==
  /\ ~Exists(a)
  /\ p # NoAccount => UsableAsParent(p)
  /\ Decide(u, Only(a, [RootRow(type, postable, NoKey) EXCEPT !.parent = p, !.level = LevelUnder(p)]))

\* assertParentUsableForNewChild and assertNoCycle
MayMove(a, p) == p # NoAccount => UsableAsParent(p) /\ a \notin Above(p)

\* assertCanBecomePostable, and the protection of system accounts
MayBecome(a, postable) == IF postable THEN Children(a) = {} ELSE accounts[a].key = NoKey

\* A PATCH: only the columns that differ are written, and a new parent sets the
\* level of the account.
UpdateAccount(u, a, patch) ==
  LET differing == {c \in DOMAIN patch : patch[c] # accounts[a][c]}
      written == differing \cup (IF "parent" \in differing THEN {"level"} ELSE {})
  IN  /\ Exists(a)
      /\ differing # {}
      /\ "parent" \in differing => MayMove(a, patch.parent)
      /\ "type" \in differing => a \notin posted
      /\ "postable" \in differing => MayBecome(a, patch.postable)
      /\ Decide(u, Only(a, [c \in written |-> IF c = "level" THEN LevelUnder(patch.parent) ELSE patch[c]]))

ActivateAccount(u, a) ==
  /\ accounts[a].status = "INACTIVE"
  /\ accounts[a].parent # NoAccount => Active(accounts[a].parent)
  /\ Decide(u, Only(a, [status |-> "ACTIVE"]))

\* Mutated form: the accounts under it are not looked at.
MayDeactivateGroup(a) == accounts[a].key = NoKey

MayDeactivate(a) == accounts[a].key = NoKey /\ \A b \in Children(a) : ~Active(b)

DeactivateAccount(u, a) ==
  /\ Active(a)
  /\ MayDeactivate(a)
  /\ Decide(u, Only(a, [status |-> "INACTIVE"]))

Holders(k) == {a \in Accounts : Exists(a) /\ accounts[a].key = k}

\* Mutated form: the target is only asked to be active.
MayHoldAny(a, k) == Active(a) /\ accounts[a].key = NoKey

MayHold(a, k) == Usable(a) /\ accounts[a].key = NoKey

ReassignKey(u, k, a) ==
  /\ MayHold(a, k)
  /\ Decide(u, [b \in Holders(k) \cup {a} |-> [key |-> IF b = a THEN k ELSE NoKey]])

Written(row, columns) == [c \in Columns |-> IF c \in DOMAIN columns THEN columns[c] ELSE row[c]]

\* Codes and system keys are unique in the database: a second creation, or a
\* key that somebody else has reassigned meanwhile, fails and rolls back.
CommitEdit(u) ==
  /\ edit[u] # NoEdit
  /\ \A a \in DOMAIN edit[u] : Exists(a) # (DOMAIN edit[u][a] = Columns)
  /\ accounts' = [a \in Accounts |->
       IF a \in DOMAIN edit[u] THEN Written(accounts[a], edit[u][a]) ELSE accounts[a]]
  /\ \A a, b \in Accounts :
       accounts'[a] # NoRow /\ accounts'[b] # NoRow /\ accounts'[a].key = accounts'[b].key
         => a = b \/ accounts'[a].key = NoKey
  /\ edit' = [edit EXCEPT ![u] = NoEdit]
  /\ UNCHANGED posted

AbandonEdit(u) ==
  /\ edit[u] # NoEdit
  /\ edit' = [edit EXCEPT ![u] = NoEdit]
  /\ UNCHANGED <<accounts, posted>>

\* AccountingEngine: a line is posted to an account that is usable.
PostLine(a) ==
  /\ Usable(a)
  /\ posted' = posted \cup {a}
  /\ UNCHANGED <<accounts, edit>>

\* What a PATCH may ask for: a value for each of some columns.
Values == [type : Types, parent : Groups \cup {NoAccount}, postable : BOOLEAN]
Patches ==
  {Restrict(row, cs) : row \in Values, cs \in (SUBSET {"type", "parent", "postable"}) \ {{}}}

EditChart(u) ==
  \/ \E a \in Accounts :
       \/ \E type \in Types, p \in Groups \cup {NoAccount}, postable \in BOOLEAN :
            CreateAccount(u, a, type, p, postable)
       \/ \E patch \in Patches : UpdateAccount(u, a, patch)
       \/ ActivateAccount(u, a)
       \/ DeactivateAccount(u, a)
       \/ \E k \in Keys : ReassignKey(u, k, a)
  \/ CommitEdit(u)
  \/ AbandonEdit(u)

ChartNext == (\E u \in Admins : EditChart(u)) \/ \E a \in Accounts : PostLine(a)

ChartSpec == ChartInit /\ [][ChartNext]_chart

-----------------------------------------------------------------------------
(* Properties, for one administrator at a time unless they say otherwise *)

\* Rows have the shape of the schema, and what is about to be written is some
\* columns of some rows.
ChartTypeOK ==
  /\ accounts \in [Accounts -> Row \cup {NoRow}]
  /\ posted \subseteq Accounts
  /\ \A u \in Admins : /\ DOMAIN edit[u] \subseteq Accounts
                       /\ \A a \in DOMAIN edit[u] : DOMAIN edit[u][a] \subseteq Columns

\* The chart is a forest: no account is above itself, whatever is moved under
\* whatever, one account at a time.
Forest ==
  \A a \in Accounts : Exists(a) /\ accounts[a].parent # NoAccount => a \notin Above(accounts[a].parent)

\* A group is never posted to, and no account is active under a group that is
\* not: creation, moves, the postable flag and both changes of status each
\* check their own side of it.
GroupsStand ==
  \A a \in Accounts : Exists(a) /\ accounts[a].parent # NoAccount =>
    /\ ~accounts[accounts[a].parent].postable
    /\ Active(a) => Active(accounts[a].parent)

\* The chart stands after any sequence of edits: a forest of groups that bear
\* their accounts.
ChartStands == Forest /\ GroupsStand

-----------------------------------------------------------------------------
(* What the accounting engine sees of all this *)

\* The account of a key; two cannot have it (Holders has one element or none).
HolderOf(k) == IF Holders(k) = {} THEN NoAccount ELSE CHOOSE a \in Accounts : a \in Holders(k)

Mapping == INSTANCE AccountMapping WITH
  holder <- [k \in Keys |-> HolderOf(k)],
  usable <- {a \in Accounts : Exists(a) /\ Usable(a)}

\* The sequences of edits never take the account of a key away, not even to give
\* it another key, and never make it unusable.
ImplementsMapping == Mapping!MappingSpec
=============================================================================
