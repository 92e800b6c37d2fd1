----------------------------- MODULE PaymentBook -----------------------------
(***************************************************************************)
(* What the collection of sales promises, one step per operation: a sale   *)
(* is opened with its initial payments, payments are collected and         *)
(* refunded while it is open, and voiding it refunds everything.  Never    *)
(* more than the total is held for a sale.                                 *)
(***************************************************************************)
EXTENDS Integers, Functions

CONSTANTS Sales, Payments, Amounts, Total

VARIABLES
  state,      \* of each sale: "none", "open" or "void"
  held,       \* the payments held for each sale, with their amounts
  refunded    \* payments given back

vars == <<state, held, refunded>>

\* Payments that belong to no sale yet.
Fresh == (Payments \ refunded) \ UNION {DOMAIN held[s] : s \in Sales}

Batches == UNION {[ps -> Amounts] : ps \in SUBSET Fresh}

Init ==
  /\ state = [s \in Sales |-> "none"]
  /\ held = [s \in Sales |-> [p \in {} |-> 0]]
  /\ refunded = {}

Open(s, first) ==
  /\ state[s] = "none"
  /\ SumFunction(first) <= Total[s]
  /\ state' = [state EXCEPT ![s] = "open"]
  /\ held' = [held EXCEPT ![s] = first]
  /\ UNCHANGED refunded

Collect(s, p, a) ==
  /\ state[s] = "open"
  /\ SumFunction(held[s]) + a <= Total[s]
  /\ held' = [held EXCEPT ![s] =
       [q \in DOMAIN held[s] \cup {p} |-> IF q = p THEN a ELSE held[s][q]]]
  /\ UNCHANGED <<state, refunded>>

Refund(s, p) ==
  /\ state[s] = "open"
  /\ held' = [held EXCEPT ![s] = [q \in DOMAIN held[s] \ {p} |-> held[s][q]]]
  /\ refunded' = refunded \cup {p}
  /\ UNCHANGED state

Void(s) ==
  /\ state[s] = "open"
  /\ state' = [state EXCEPT ![s] = "void"]
  /\ held' = [held EXCEPT ![s] = [p \in {} |-> 0]]
  /\ refunded' = refunded \cup DOMAIN held[s]

Next ==
  \E s \in Sales :
    \/ \E first \in Batches : Open(s, first)
    \/ \E p \in Fresh, a \in Amounts : Collect(s, p, a)
    \/ \E p \in DOMAIN held[s] : Refund(s, p)
    \/ Void(s)

Spec == Init /\ [][Next]_vars
=============================================================================
