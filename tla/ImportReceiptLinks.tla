------------------------- MODULE ImportReceiptLinks -------------------------
(***************************************************************************)
(* Links between the lines of import shipments and the lines of purchase   *)
(* receipts (ImportReceiptLinksService), with the shipments they need to   *)
(* have arrived and the cancellation of receipts                           *)
(* (PurchaseReceiptsService.cancel).                                       *)
(*                                                                         *)
(* The link's transaction locks the two lines, the cancellation locks the  *)
(* receipt: this module is about what each of them may then rely on.       *)
(***************************************************************************)
EXTENDS Integers, FiniteSets, Functions

CONSTANTS
  ShipmentLines,  \* rows of import_shipment_lines, each of a shipment of its own
  ReceiptLines,   \* rows of purchase_receipt_lines
  Receipts,       \* rows of purchase_receipts
  ReceiptOf,      \* the receipt of each receipt line
  Planned,        \* planned_quantity of each shipment line
  Received,       \* quantity of each receipt line
  Compatible,     \* pairs of lines with the same invoice line and product
  ClientKeys,     \* idempotency keys that clients send
  NoKey,          \* no key sent
  Asked,          \* quantities that are asked for
  Links,          \* identifiers of import_receipt_links
  Linkers,        \* requests that link lines or cancel receipts
  NoLinker

ASSUME LinksAssumption ==
  /\ ReceiptOf \in [ReceiptLines -> Receipts]
  /\ Planned \in [ShipmentLines -> Nat \ {0}]
  /\ Received \in [ReceiptLines -> Nat \ {0}]
  /\ Compatible \subseteq ShipmentLines \X ReceiptLines
  /\ IsFiniteSet(Links)
  /\ Asked \subseteq Nat \ {0}
  /\ NoKey \notin ClientKeys
  /\ NoLinker \notin Linkers

Link == [status : {"ACTIVE", "CANCELLED"}, shipmentLine : ShipmentLines,
         receiptLine : ReceiptLines, quantity : Nat \ {0}, key : ClientKeys \cup {NoKey}]

NoLink == [status |-> "NONE"]

\* The body of POST /import-receipt-links.
Command == [shipmentLine : ShipmentLines, receiptLine : ReceiptLines,
            quantity : Asked, key : ClientKeys \cup {NoKey}]

NoCommand == [quantity |-> 0]

VARIABLES
  shipmentStatus,   \* import_shipments.status, by line
  receiptStatus,    \* purchase_receipts.status
  links,            \* rows of import_receipt_links
  shipmentLineLock, receiptLineLock, receiptLock,  \* row locks
  linking,          \* where each request stands
  command,          \* what a linking request asks for
  reqReceipt        \* the receipts a request cancels: one or none

linkRows  == <<shipmentStatus, receiptStatus, links>>
lineLocks == <<shipmentLineLock, receiptLineLock, receiptLock>>
linkVars  == <<linkRows, lineLocks, linking, command, reqReceipt>>

Exists(l) == links[l] # NoLink
ActiveLinks == {l \in Links : links[l].status = "ACTIVE"}

\* sumActiveLinkedQuantity
Linked(set) == SumFunction([l \in set |-> links[l].quantity])
LinkedToShipmentLine(sl) == Linked({l \in ActiveLinks : links[l].shipmentLine = sl})
LinkedToReceiptLine(rl)  == Linked({l \in ActiveLinks : links[l].receiptLine = rl})

LinksInit ==
  /\ shipmentStatus = [sl \in ShipmentLines |-> "PLANNED"]
  /\ receiptStatus = [rc \in Receipts |-> "ACTIVE"]
  /\ links = [l \in Links |-> NoLink]
  /\ shipmentLineLock = [sl \in ShipmentLines |-> NoLinker]
  /\ receiptLineLock = [rl \in ReceiptLines |-> NoLinker]
  /\ receiptLock = [rc \in Receipts |-> NoLinker]
  /\ linking = [r \in Linkers |-> "idle"]
  /\ command = [r \in Linkers |-> NoCommand]
  /\ reqReceipt = [r \in Linkers |-> {}]

GoOn(r, place) == linking' = [linking EXCEPT ![r] = place]

Freed(lock, r) == [x \in DOMAIN lock |-> IF lock[x] = r THEN NoLinker ELSE lock[x]]

EndLinking(r) ==
  /\ shipmentLineLock' = Freed(shipmentLineLock, r)
  /\ receiptLineLock' = Freed(receiptLineLock, r)
  /\ receiptLock' = Freed(receiptLock, r)
  /\ GoOn(r, "idle")
  /\ command' = [command EXCEPT ![r] = NoCommand]
  /\ reqReceipt' = [reqReceipt EXCEPT ![r] = {}]

-----------------------------------------------------------------------------
(* ImportShipmentsService: ARRIVED and CANCELLED are terminal. *)

MoveShipment(sl, from, to) ==
  /\ shipmentStatus[sl] \in from
  /\ shipmentStatus' = [shipmentStatus EXCEPT ![sl] = to]
  /\ UNCHANGED <<receiptStatus, links, lineLocks, linking, command, reqReceipt>>

DepartShipment(sl) == MoveShipment(sl, {"PLANNED"}, "IN_TRANSIT")
ArriveShipment(sl) == MoveShipment(sl, {"PLANNED", "IN_TRANSIT"}, "ARRIVED")
CancelShipment(sl) == MoveShipment(sl, {"PLANNED", "IN_TRANSIT"}, "CANCELLED")

-----------------------------------------------------------------------------
(* ImportReceiptLinksService.create() *)

\* FOR UPDATE OF the shipment line; the status of its shipment is read along.
LockShipmentLine(r, c) ==
  /\ linking[r] = "idle"
  /\ shipmentLineLock[c.shipmentLine] = NoLinker
  /\ shipmentStatus[c.shipmentLine] = "ARRIVED"
  /\ shipmentLineLock' = [shipmentLineLock EXCEPT ![c.shipmentLine] = r]
  /\ command' = [command EXCEPT ![r] = c]
  /\ GoOn(r, "shipmentLine")
  /\ UNCHANGED <<linkRows, receiptLineLock, receiptLock, reqReceipt>>

\* Mutated form: the receipt line is read without FOR UPDATE.
ReadReceiptLine(r) ==
  /\ linking[r] = "shipmentLine"
  /\ receiptStatus[ReceiptOf[command[r].receiptLine]] = "ACTIVE"
  /\ <<command[r].shipmentLine, command[r].receiptLine>> \in Compatible
  /\ GoOn(r, "lines")
  /\ UNCHANGED <<linkRows, lineLocks, command, reqReceipt>>

\* FOR UPDATE OF the receipt line; the status of its receipt is read along,
\* without a lock on the receipt.
LockReceiptLine(r) ==
  LET rl == command[r].receiptLine
  IN  /\ linking[r] = "shipmentLine"
      /\ receiptLineLock[rl] = NoLinker
      /\ receiptStatus[ReceiptOf[rl]] = "ACTIVE"
      /\ <<command[r].shipmentLine, rl>> \in Compatible
      /\ receiptLineLock' = [receiptLineLock EXCEPT ![rl] = r]
      /\ GoOn(r, "lines")
      /\ UNCHANGED <<linkRows, shipmentLineLock, receiptLock, command, reqReceipt>>

\* The link that an earlier request with the same key has created.
SameKey(c) ==
  {l \in Links : /\ Exists(l) /\ c.key # NoKey /\ links[l].key = c.key
                 /\ links[l].shipmentLine = c.shipmentLine}

\* A repeated request gets the existing link back and writes nothing.
RepeatLink(r) ==
  /\ linking[r] = "lines"
  /\ SameKey(command[r]) # {}
  /\ EndLinking(r)
  /\ UNCHANGED linkRows

LinkAllowed(c) ==
  /\ \A l \in ActiveLinks :
       <<links[l].shipmentLine, links[l].receiptLine>> # <<c.shipmentLine, c.receiptLine>>
  /\ LinkedToShipmentLine(c.shipmentLine) + c.quantity <= Planned[c.shipmentLine]
  /\ LinkedToReceiptLine(c.receiptLine) + c.quantity <= Received[c.receiptLine]

CheckLink(r) ==
  /\ linking[r] = "lines"
  /\ SameKey(command[r]) = {}
  /\ LinkAllowed(command[r])
  /\ GoOn(r, "checked")
  /\ UNCHANGED <<linkRows, lineLocks, command, reqReceipt>>

\* The unique index on (shipment line, key) rejects a second link of a key.
CommitLink(r, l) ==
  LET c == command[r]
  IN  /\ linking[r] = "checked"
      /\ ~Exists(l)
      /\ SameKey(c) = {}
      /\ links' = [links EXCEPT ![l] =
           [status |-> "ACTIVE", shipmentLine |-> c.shipmentLine,
            receiptLine |-> c.receiptLine, quantity |-> c.quantity, key |-> c.key]]
      /\ EndLinking(r)
      /\ UNCHANGED <<shipmentStatus, receiptStatus>>

\* ImportReceiptLinksService.cancel(): one row, locked, checked and updated.
CancelLink(l) ==
  /\ Exists(l) /\ links[l].status = "ACTIVE"
  /\ links' = [links EXCEPT ![l].status = "CANCELLED"]
  /\ UNCHANGED <<shipmentStatus, receiptStatus, lineLocks, linking, command, reqReceipt>>

-----------------------------------------------------------------------------
(* PurchaseReceiptsService.cancel() *)

LockReceipt(r, rc) ==
  /\ linking[r] = "idle"
  /\ receiptLock[rc] = NoLinker
  /\ receiptStatus[rc] = "ACTIVE"
  /\ receiptLock' = [receiptLock EXCEPT ![rc] = r]
  /\ reqReceipt' = [reqReceipt EXCEPT ![r] = {rc}]
  /\ GoOn(r, "receipt")
  /\ UNCHANGED <<linkRows, shipmentLineLock, receiptLineLock, command>>

\* The links are read without a lock.
CheckNoActiveLink(r) ==
  /\ linking[r] = "receipt"
  /\ \A l \in ActiveLinks : ReceiptOf[links[l].receiptLine] \notin reqReceipt[r]
  /\ GoOn(r, "unlinked")
  /\ UNCHANGED <<linkRows, lineLocks, command, reqReceipt>>

CommitCancelReceipt(r) ==
  /\ linking[r] = "unlinked"
  /\ receiptStatus' = [rc \in Receipts |->
       IF rc \in reqReceipt[r] THEN "CANCELLED" ELSE receiptStatus[rc]]
  /\ EndLinking(r)
  /\ UNCHANGED <<shipmentStatus, links>>

\* A failed check, a unique index, a deadlock or a lost connection.
RollBackLinking(r) ==
  /\ linking[r] # "idle"
  /\ EndLinking(r)
  /\ UNCHANGED linkRows

LinksNext ==
  \/ \E sl \in ShipmentLines : DepartShipment(sl) \/ ArriveShipment(sl) \/ CancelShipment(sl)
  \/ \E l \in Links : CancelLink(l)
  \/ \E r \in Linkers :
       \/ \E c \in Command : LockShipmentLine(r, c)
       \/ LockReceiptLine(r)
       \/ RepeatLink(r)
       \/ CheckLink(r)
       \/ \E l \in Links : CommitLink(r, l)
       \/ \E rc \in Receipts : LockReceipt(r, rc)
       \/ CheckNoActiveLink(r)
       \/ CommitCancelReceipt(r)
       \/ RollBackLinking(r)

LinksSpec == LinksInit /\ [][LinksNext]_linkVars

-----------------------------------------------------------------------------
(* Properties *)

\* Rows and requests have the shape the schema and the code give them.
LinksTyped ==
  /\ shipmentStatus \in [ShipmentLines -> {"PLANNED", "IN_TRANSIT", "ARRIVED", "CANCELLED"}]
  /\ receiptStatus \in [Receipts -> {"ACTIVE", "CANCELLED"}]
  /\ links \in [Links -> Link \cup {NoLink}]
  /\ shipmentLineLock \in [ShipmentLines -> Linkers \cup {NoLinker}]
  /\ receiptLineLock \in [ReceiptLines -> Linkers \cup {NoLinker}]
  /\ receiptLock \in [Receipts -> Linkers \cup {NoLinker}]
  /\ linking \in [Linkers ->
       {"idle", "shipmentLine", "lines", "checked", "receipt", "unlinked"}]
  /\ command \in [Linkers -> Command \cup {NoCommand}]
  /\ reqReceipt \in [Linkers -> SUBSET Receipts]

\* Two links that share only the shipment line, or only the receipt line,
\* never exceed its quantity together, although they are checked and
\* inserted in different transactions.
NeverOverLinked ==
  /\ \A sl \in ShipmentLines : LinkedToShipmentLine(sl) <= Planned[sl]
  /\ \A rl \in ReceiptLines : LinkedToReceiptLine(rl) <= Received[rl]

\* No index forbids it: only the locks keep a pair of lines from having two
\* active links.
OneActiveLinkPerPair ==
  \A k, l \in ActiveLinks :
    /\ links[k].shipmentLine = links[l].shipmentLine
    /\ links[k].receiptLine = links[l].receiptLine
    => k = l

\* What is linked has arrived and cannot be cancelled any more, although the
\* status of the shipment is read without a lock on the shipment.
LinkedHasArrived ==
  \A l \in Links : Exists(l) => shipmentStatus[links[l].shipmentLine] = "ARRIVED"

\* All at once: what requests that share lines insert stays within the
\* quantities of the lines, is not linked twice and has arrived.
LinksFit == NeverOverLinked /\ OneActiveLinkPerPair /\ LinkedHasArrived

=============================================================================
