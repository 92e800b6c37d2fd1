------------------------------- MODULE Routes -------------------------------
(***************************************************************************)
(* The routes of the HTTP API: for every controller the operations it      *)
(* offers, whether they change anything, and the roles RolesGuard admits   *)
(* to them (the @Roles of the method, or else those of the class).  A      *)
(* route without @Roles is open to every role.  What the handlers do is    *)
(* the business of the components; which user reaches them is the business *)
(* of module Access.                                                       *)
(***************************************************************************)

Role == {"ADMIN", "SELLER", "WAREHOUSE", "MANAGEMENT", "ACCOUNTANT"}

Route(area, ops, writes, roles) ==
  [area : {area}, op : ops, writes : {writes}, roles : {roles}]

Reads(area, ops, roles)  == Route(area, ops, FALSE, roles)
Writes(area, ops, roles) == Route(area, ops, TRUE, roles)

(* The role lists the controllers repeat. *)
OnlyAdmin  == {"ADMIN"}
Ledger     == {"ADMIN", "MANAGEMENT", "ACCOUNTANT"}
Oversight  == {"ADMIN", "MANAGEMENT"}
Counter    == {"ADMIN", "SELLER"}
SalesFloor == {"ADMIN", "SELLER", "MANAGEMENT"}
Everyday   == {"ADMIN", "SELLER", "WAREHOUSE", "MANAGEMENT"}
Store      == {"ADMIN", "WAREHOUSE"}

-----------------------------------------------------------------------------
(* Sales, quotes, collections and fiscal documents. *)

SaleEntryRoutes ==
  Writes("sales", {"create", "fromQuote"}, Counter)

SaleRoutes ==
  Reads("sales", {"list", "exportXlsx", "findOne", "print"}, SalesFloor) \cup
  Writes("sales", {"markDelivered", "markObserved"}, Counter) \cup
  Writes("sales", {"cancel"}, OnlyAdmin)

QuoteReadRoutes ==
  Reads("quotes", {"list", "exportXlsx", "findOne"}, SalesFloor)

QuoteRoutes ==
  Reads("quotes", {"print"}, SalesFloor) \cup
  Writes("quotes", {"create", "update", "accept", "reject"}, Counter)

PaymentRoutes ==
  Reads("payments", {"list"}, SalesFloor) \cup
  Writes("payments", {"register"}, Counter) \cup
  Writes("payments", {"cancel"}, OnlyAdmin)

ReceivableRoutes ==
  Reads("receivables", {"list", "exportXlsx"}, SalesFloor)

FiscalDocumentRoutes ==
  Reads("fiscal", {"list", "findOne", "print"}, SalesFloor) \cup
  Writes("fiscal", {"retry"}, OnlyAdmin)

FiscalIssueRoutes ==
  Writes("fiscal", {"issue"}, Counter)

FiscalSeriesRoutes ==
  Reads("fiscalSeries", {"list"}, SalesFloor)

-----------------------------------------------------------------------------
(* Customers and the catalogue. *)

CustomerRoutes ==
  Reads("customers", {"list", "findOne"}, SalesFloor) \cup
  Writes("customers", {"create", "update"}, Counter)

CustomerStandingRoutes ==
  Writes("customers", {"convertToCustomer"}, Counter) \cup
  Writes("customers",
         {"activate", "deactivate", "block", "unblock",
          "setCredit"}, OnlyAdmin)

ProductReadRoutes ==
  Reads("products", {"list", "exportXlsx", "findOne"}, Everyday)

ProductRoutes ==
  Writes("products",
         {"create", "update", "activate", "deactivate"}, OnlyAdmin)

SpecificationRoutes ==
  Writes("products",
         {"createSpecification", "updateSpecification",
          "deleteSpecification"}, OnlyAdmin)

ImageRoutes ==
  Reads("products", {"downloadImage"}, Everyday) \cup
  Writes("products",
         {"uploadImage", "setPrimaryImage", "removeImage"}, OnlyAdmin)

CategoryRoutes ==
  Reads("categories", {"list", "findOne"}, Everyday) \cup
  Writes("categories",
         {"create", "update", "activate", "deactivate"}, OnlyAdmin)

UnitRoutes ==
  Reads("units", {"list", "findOne"}, Everyday) \cup
  Writes("units", {"create", "update", "activate", "deactivate"}, OnlyAdmin)

PaymentMethodRoutes ==
  Reads("paymentMethods", {"list"}, SalesFloor) \cup
  Writes("paymentMethods", {"create", "update"}, OnlyAdmin)

-----------------------------------------------------------------------------
(* Inventory, purchases and imports. *)

StockMovementRoutes ==
  Writes("inventory",
         {"registerInitialBalance", "registerEntry", "registerExit",
          "registerPositiveAdjustment"}, Store)

StockRoutes ==
  Writes("inventory", {"registerNegativeAdjustment"}, Store) \cup
  Reads("inventory",
        {"listMovements", "findMovementById", "listProductMovements",
         "listLowStock"}, Store \cup Oversight) \cup
  Reads("inventory", {"getProductStock"}, Everyday)

ValuationRoutes ==
  Reads("valuation", {"getValuedInventory", "getPendingValuation"}, Ledger)

SupplierRoutes ==
  Reads("suppliers", {"list", "findOne"}, Ledger) \cup
  Writes("suppliers",
         {"create", "update", "activate", "deactivate"}, OnlyAdmin)

PurchaseInvoiceRoutes ==
  Reads("purchaseInvoices", {"list", "findOne"}, Ledger) \cup
  Writes("purchaseInvoices",
         {"create", "update", "confirm", "cancel"}, OnlyAdmin)

ReceiptRoutes ==
  Reads("receipts", {"listReceipts", "findOne"}, Ledger) \cup
  Writes("receipts", {"create", "cancel"}, OnlyAdmin)

PayableRoutes ==
  Reads("payables",
        {"list", "exportDetailedXlsx", "getSummary", "exportSummaryXlsx",
         "getAging", "exportAgingXlsx"}, Ledger)

PayableDetailRoutes ==
  Reads("payables",
        {"getReconciliation", "exportReconciliationXlsx",
         "getDetail"}, Ledger)

SupplierPaymentRoutes ==
  Reads("supplierPayments", {"list", "findOne"}, Ledger) \cup
  Writes("supplierPayments", {"create", "cancel"}, OnlyAdmin)

ImportOperationRoutes ==
  Reads("imports", {"list", "findOne"}, Ledger) \cup
  Writes("imports", {"create", "update", "complete"}, OnlyAdmin)

ImportShipmentEntryRoutes ==
  Reads("imports", {"listShipments"}, Ledger) \cup
  Writes("imports", {"cancel", "createShipment"}, OnlyAdmin)

ShipmentRoutes ==
  Reads("shipments", {"findOne"}, Ledger) \cup
  Writes("shipments", {"update", "depart", "arrive", "cancel"}, OnlyAdmin)

ExpenseRoutes ==
  Reads("expenses", {"list", "findOne"}, Ledger) \cup
  Writes("expenses", {"create", "update", "finalize"}, OnlyAdmin)

ExpenseAllocationRoutes ==
  Reads("expenses", {"previewAllocation", "listAllocations"}, Ledger) \cup
  Writes("expenses", {"cancel", "allocate"}, OnlyAdmin)

ReceiptLinkRoutes ==
  Reads("receiptLinks", {"list", "previewCostAttribution"}, Ledger) \cup
  Writes("receiptLinks", {"create", "cancel"}, OnlyAdmin)

ImportReportRoutes ==
  Reads("importReports",
        {"getOperationsSummary", "getShipmentReconciliation",
         "getExpenseReconciliation", "getConsolidatedReconciliation",
         "exportOperationsSummary", "exportShipmentReconciliation",
         "exportExpenseReconciliation",
         "exportConsolidatedReconciliation"}, Ledger)

-----------------------------------------------------------------------------
(* Accounting and reports. *)

EntryRoutes ==
  Reads("entries", {"list", "findOne"}, Ledger)

PeriodRoutes ==
  Reads("periods", {"list", "findOne"}, Ledger) \cup
  Writes("periods", {"create", "close", "reopen"}, OnlyAdmin)

AccountingReportRoutes ==
  Reads("accountingReports",
        {"getJournal", "exportJournal", "getLedger", "exportLedger",
         "getTrialBalance", "exportTrialBalance"}, Ledger)

AccountRoutes ==
  Reads("accounts", {"list"}, Ledger)

ChartRoutes ==
  Reads("chart", {"list", "tree", "findOne"}, Ledger) \cup
  Writes("chart", {"create"}, OnlyAdmin)

ChartEditRoutes ==
  Writes("chart",
         {"update", "activate", "deactivate",
          "reassignSystemKey"}, OnlyAdmin)

\* Mutated form: whoever reads the entries may write them.
ManualEntryRoutesForReaders ==
  Reads("manualEntries", {"list", "findOne"}, Ledger) \cup
  Writes("manualEntries", {"create", "update", "post", "reverse"}, Ledger)

ManualEntryRoutes ==
  Reads("manualEntries", {"list", "findOne"}, Ledger) \cup
  Writes("manualEntries",
         {"create", "update", "post", "reverse"}, {"ADMIN", "ACCOUNTANT"})

ReportRoutes ==
  Reads("reports",
        {"salesByProduct", "salesByCustomer", "salesBySeller",
         "quotesByStatus", "paymentsByMethod"}, SalesFloor)

DashboardRoutes ==
  Reads("dashboard", {"getDashboard"}, Everyday)

-----------------------------------------------------------------------------
(* Administration. *)

ConfigurationRoutes ==
  Reads("configuration", {"get"}, Oversight) \cup
  Reads("configuration", {"getPos"}, SalesFloor) \cup
  Writes("configuration", {"update"}, OnlyAdmin)

SequenceRoutes ==
  Reads("sequences", {"list"}, Oversight) \cup
  Writes("sequences", {"update"}, OnlyAdmin)

AuditRoutes ==
  Reads("audit", {"list", "findOne"}, Oversight)

UserReadRoutes ==
  Reads("users", {"list", "findOne"}, OnlyAdmin) \cup
  Reads("users", {"lookup"}, SalesFloor)

UserRoutes ==
  Writes("users",
         {"create", "update", "block", "unblock",
          "resetPassword"}, OnlyAdmin)

RoleRoutes ==
  Reads("users", {"listRoles"}, OnlyAdmin)

SessionRoutes ==
  Reads("session", {"me"}, Role) \cup
  Writes("session", {"logout", "changePassword", "switchRole"}, Role)

(* Every route but the two public ones, the login and the health check. *)
Routes ==
  UNION {SaleEntryRoutes, SaleRoutes, QuoteReadRoutes, QuoteRoutes, PaymentRoutes,
         ReceivableRoutes, FiscalDocumentRoutes, FiscalIssueRoutes,
         FiscalSeriesRoutes, CustomerRoutes, CustomerStandingRoutes,
         ProductReadRoutes, ProductRoutes, SpecificationRoutes, ImageRoutes,
         CategoryRoutes, UnitRoutes, PaymentMethodRoutes, StockMovementRoutes,
         StockRoutes, ValuationRoutes, SupplierRoutes, PurchaseInvoiceRoutes,
         ReceiptRoutes, PayableRoutes, PayableDetailRoutes,
         SupplierPaymentRoutes, ImportOperationRoutes,
         ImportShipmentEntryRoutes, ShipmentRoutes, ExpenseRoutes,
         ExpenseAllocationRoutes, ReceiptLinkRoutes, ImportReportRoutes,
         EntryRoutes, PeriodRoutes, AccountingReportRoutes, AccountRoutes,
         ChartRoutes, ChartEditRoutes, ManualEntryRoutes, ReportRoutes,
         DashboardRoutes, ConfigurationRoutes, SequenceRoutes, AuditRoutes,
         UserReadRoutes, UserRoutes, RoleRoutes, SessionRoutes}
=============================================================================
