--------------------------- MODULE AccountMapping ---------------------------
(***************************************************************************)
(* What the accounting engine sees of the chart of accounts: which         *)
(* accounts lines can be posted to, and which account each system key      *)
(* stands for.  A key that has an account may get another one, but never   *)
(* loses it, and the account of a key can always be posted to.             *)
(***************************************************************************)
CONSTANTS Accounts, Keys, NoAccount

VARIABLES
  holder,   \* the account of each key
  usable    \* the accounts that are active and postable

mapping == <<holder, usable>>

MappingInit ==
  /\ holder \in [Keys -> Accounts \cup {NoAccount}]
  /\ usable = {holder[k] : k \in Keys} \ {NoAccount}

SwitchOn(a) == usable' = usable \cup {a} /\ UNCHANGED holder

SwitchOff(a) ==
  /\ \A k \in Keys : holder[k] # a
  /\ usable' = usable \ {a}
  /\ UNCHANGED holder

Reassign(k, a) ==
  /\ a \in usable
  /\ \A j \in Keys : holder[j] # a
  /\ holder' = [holder EXCEPT ![k] = a]
  /\ UNCHANGED usable

MappingNext ==
  \E a \in Accounts : SwitchOn(a) \/ SwitchOff(a) \/ \E k \in Keys : Reassign(k, a)

MappingSpec == MappingInit /\ [][MappingNext]_mapping
=============================================================================
