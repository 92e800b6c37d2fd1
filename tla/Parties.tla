------------------------------- MODULE Parties -------------------------------
(***************************************************************************)
(* Whom the company deals with and how it is paid: customers               *)
(* (CustomersService), suppliers (SuppliersService) and payment methods    *)
(* (PaymentMethodsService).  Names, documents and addresses are left out.  *)
(***************************************************************************)
EXTENDS Records

Stages == {"PROSPECT", "CUSTOMER"}

-----------------------------------------------------------------------------
(* CustomersService: nothing changes the generic customer. *)

CreateCustomer(u, c, stage) == c # Generic /\ Insert(u, c, CustomerRow(stage))

UpdateCustomer(u, c) == c # Generic /\ UpdateText(u, c)

\* applyStatusTransition
ChangeStatus(u, c, from, to) == c # Generic /\ Switch(u, c, from, to)

ActivateCustomer(u, c)   == ChangeStatus(u, c, "INACTIVE", "ACTIVE")
DeactivateCustomer(u, c) == ChangeStatus(u, c, "ACTIVE", "INACTIVE")
BlockCustomer(u, c)      == ChangeStatus(u, c, "ACTIVE", "BLOCKED")
UnblockCustomer(u, c)    == ChangeStatus(u, c, "BLOCKED", "ACTIVE")

ConvertToCustomer(u, c) ==
  /\ c # Generic /\ Exists(c)
  /\ rows[c].stage = "PROSPECT"
  /\ Decide(u, c, [stage |-> "CUSTOMER"])

\* The value it has already is not written.
SetCreditEnabled(u, c, credit) ==
  /\ c # Generic /\ Exists(c)
  /\ rows[c].credit # credit
  /\ Decide(u, c, [credit |-> credit])

CustomerStep(u, c) ==
  \/ \E stage \in Stages : CreateCustomer(u, c, stage)
  \/ UpdateCustomer(u, c)
  \/ ActivateCustomer(u, c) \/ DeactivateCustomer(u, c)
  \/ BlockCustomer(u, c) \/ UnblockCustomer(u, c)
  \/ ConvertToCustomer(u, c)
  \/ \E credit \in BOOLEAN : SetCreditEnabled(u, c, credit)

-----------------------------------------------------------------------------
(* SuppliersService *)

CreateSupplier(u, s)     == Insert(u, s, [status |-> "ACTIVE"])
ActivateSupplier(u, s)   == Switch(u, s, "INACTIVE", "ACTIVE")
DeactivateSupplier(u, s) == Switch(u, s, "ACTIVE", "INACTIVE")

SupplierStep(u, s) ==
  CreateSupplier(u, s) \/ UpdateText(u, s) \/ ActivateSupplier(u, s) \/ DeactivateSupplier(u, s)

-----------------------------------------------------------------------------
(* PaymentMethodsService *)

Destinations == {"CASH", "BANK"}

CreateMethod(u, m, destination) ==
  Insert(u, m, [status |-> "ACTIVE", destination |-> destination])

\* Only what differs is written.
UpdateMethod(u, m, status, destination) ==
  LET given == [status |-> status, destination |-> destination]
      changed == {c \in DOMAIN given : given[c] # rows[m][c]}
  IN  /\ Exists(m)
      /\ changed # {}
      /\ Decide(u, m, [c \in changed |-> given[c]])

MethodStep(u, m) ==
  \E destination \in Destinations :
    \/ CreateMethod(u, m, destination)
    \/ \E status \in {"ACTIVE", "INACTIVE"} : UpdateMethod(u, m, status, destination)

=============================================================================
