--------------------------- MODULE QuoteLifecycle ---------------------------
(***************************************************************************)
(* Quotes (QuotesService) and their conversion into sales                  *)
(* (SalesService.createFromQuote), on top of the company's settings and of *)
(* the sales made from them: this module composes with CompanySettings,    *)
(* whose row the conversion locks.                                         *)
(***************************************************************************)
EXTENDS Naturals, FiniteSets

CONSTANTS
  Currencies, Sales, Invoices, Rates, Requests, NoRequest,
  Quotes,        \* identifiers of quotes
  Revisions,     \* what tells one wording of a quote from another
  LastDay        \* bound: days are 0 to LastDay

ASSUME QuoteLifecycleAssumption ==
  /\ NoRequest \notin Requests
  /\ Rates \subseteq Nat
  /\ LastDay \in Nat
  /\ Revisions # {}

VARIABLES
  settings, sales, invoices, settingsLock, pc, reqData,  \* see CompanySettings
  quotes,       \* rows of quotes
  saleTerms,    \* of each sale: the quote and what was copied from it, or {}
  quoteLock,
  reqQuote,     \* the quotes a request works on: one or none
  today

Settings == INSTANCE CompanySettings

quoteVars    == <<quotes, saleTerms, quoteLock, reqQuote, today>>
settingsRows == <<settings, sales, invoices>>
settingsVars == <<settingsRows, settingsLock, pc, reqData>>
vars         == <<settingsVars, quoteVars>>

NoQuote == [status |-> "NONE"]

\* revision stands for items, prices and discount; priced for the currency in
\* which those amounts were calculated.
Quote == [status : {"PENDING", "ACCEPTED", "REJECTED", "CONVERTED"},
          issued : 0..LastDay, expires : 0..LastDay, revision : Revisions,
          currency : Currencies, priced : Currencies]

Exists(q) == quotes[q] # NoQuote

Init ==
  /\ Settings!Init
  /\ quotes = [q \in Quotes |-> NoQuote]
  /\ saleTerms = [s \in Sales |-> {}]
  /\ quoteLock = [q \in Quotes |-> NoRequest]
  /\ reqQuote = [r \in Requests |-> {}]
  /\ today = 0

EndTransaction(r) ==
  /\ Settings!EndTransaction(r)
  /\ quoteLock' = [q \in Quotes |-> IF quoteLock[q] = r THEN NoRequest ELSE quoteLock[q]]
  /\ reqQuote' = [reqQuote EXCEPT ![r] = {}]

\* effectiveStatus, on the day the request looked at the calendar
EffectiveStatus(quote, day) ==
  IF quote.status \in {"PENDING", "ACCEPTED"} /\ quote.expires < day
  THEN "EXPIRED" ELSE quote.status

\* A request reads the calendar before it waits for its lock: it may still
\* hold yesterday's date.
RequestDays == {day \in 0..LastDay : day = today \/ day + 1 = today}

\* lockQuote and lockQuoteForConversion
LockQuote(r, q, allowed, next) ==
  /\ pc[r] = "idle"
  /\ Exists(q)
  /\ quoteLock[q] = NoRequest
  /\ \E day \in RequestDays : EffectiveStatus(quotes[q], day) \in allowed
  /\ quoteLock' = [quoteLock EXCEPT ![q] = r]
  /\ reqQuote' = [reqQuote EXCEPT ![r] = {q}]
  /\ Settings!Goto(r, next)
  /\ UNCHANGED <<settingsRows, settingsLock, reqData, quotes, saleTerms, today>>

-----------------------------------------------------------------------------
(* QuotesService *)

\* create() reads the settings without a lock and inserts the quote later.
BeginQuote(r) ==
  /\ Settings!ReadSettings(r, "quote")
  /\ UNCHANGED quoteVars

CommitQuote(r, q, revision, expires) ==
  /\ pc[r] = "quote"
  /\ ~Exists(q)
  /\ today <= expires
  /\ quotes' = [quotes EXCEPT ![q] =
       [status |-> "PENDING", issued |-> today, expires |-> expires, revision |-> revision,
        currency |-> reqData[r].currency, priced |-> reqData[r].currency]]
  /\ EndTransaction(r)
  /\ UNCHANGED <<settingsRows, saleTerms, today>>

BeginEdit(r, q) == LockQuote(r, q, {"PENDING"}, "edit")

\* update() of the expiration date or the notes only
CommitDates(r, expires) ==
  /\ pc[r] = "edit"
  /\ \A q \in reqQuote[r] : quotes[q].issued <= expires
  /\ quotes' = [q \in Quotes |->
       IF q \in reqQuote[r] THEN [quotes[q] EXCEPT !.expires = expires] ELSE quotes[q]]
  /\ EndTransaction(r)
  /\ UNCHANGED <<settingsRows, saleTerms, today>>

\* A commercial change reads the current settings, without a lock.
ReadForEdit(r) ==
  /\ pc[r] = "edit"
  /\ reqData' = [reqData EXCEPT ![r] = settings]
  /\ Settings!Goto(r, "terms")
  /\ UNCHANGED <<settingsRows, settingsLock, quoteVars>>

\* applyTaxInclusiveMonetaryUpdate: new items are priced anew, a new discount
\* keeps the amounts of the stored items; the currency is copied either way.
CommitTerms(r, revision, newItems, expires) ==
  LET currency == reqData[r].currency
  IN  /\ pc[r] = "terms"
      /\ \A q \in reqQuote[r] : quotes[q].issued <= expires
      /\ quotes' = [q \in Quotes |->
           IF q \in reqQuote[r]
           THEN [quotes[q] EXCEPT !.revision = revision, !.expires = expires,
                                  !.currency = currency,
                                  !.priced = IF newItems THEN currency ELSE @]
           ELSE quotes[q]]
      /\ EndTransaction(r)
      /\ UNCHANGED <<settingsRows, saleTerms, today>>

\* accept() and reject(): lock, check and update.
Decide(q, status) ==
  /\ Exists(q)
  /\ quoteLock[q] = NoRequest
  /\ \E day \in RequestDays : EffectiveStatus(quotes[q], day) = "PENDING"
  /\ quotes' = [quotes EXCEPT ![q].status = status]
  /\ UNCHANGED <<settingsVars, saleTerms, quoteLock, reqQuote, today>>

Accept(q) == Decide(q, "ACCEPTED")
Reject(q) == Decide(q, "REJECTED")

-----------------------------------------------------------------------------
(* SalesService.createFromQuote() *)

SalesOf(q) == {s \in Sales : \E t \in saleTerms[s] : t.quote = q}

BeginConversion(r, q) ==
  LockQuote(r, q, {"PENDING", "ACCEPTED"}, "convert") /\ SalesOf(q) = {}

\* Mutated form: the currency is compared without locking the settings.
ReadCurrency(r) ==
  /\ pc[r] = "convert"
  /\ \A q \in reqQuote[r] : quotes[q].currency = settings.currency
  /\ Settings!Goto(r, "converting")
  /\ UNCHANGED <<settingsRows, settingsLock, reqData, quoteVars>>

LockCurrency(r) ==
  /\ pc[r] = "convert"
  /\ settingsLock = NoRequest
  /\ \A q \in reqQuote[r] : quotes[q].currency = settings.currency
  /\ settingsLock' = r
  /\ Settings!Goto(r, "converting")
  /\ UNCHANGED <<settingsRows, reqData, quoteVars>>

Terms(q) == [quote |-> q, revision |-> quotes[q].revision, currency |-> quotes[q].currency,
             priced |-> quotes[q].priced]

\* Mutated form: the quote keeps its status.
ConvertSilently(r, s) ==
  /\ pc[r] = "converting"
  /\ sales[s] = {}
  /\ sales' = [sales EXCEPT ![s] = {quotes[q].currency : q \in reqQuote[r]}]
  /\ saleTerms' = [saleTerms EXCEPT ![s] = {Terms(q) : q \in reqQuote[r]}]
  /\ EndTransaction(r)
  /\ UNCHANGED <<settings, invoices, quotes, today>>

\* The unique index on sales.quote_id rejects a second sale of a quote.
CommitConversion(r, s) ==
  /\ pc[r] = "converting"
  /\ sales[s] = {}
  /\ \A q \in reqQuote[r] : SalesOf(q) = {}
  /\ sales' = [sales EXCEPT ![s] = {quotes[q].currency : q \in reqQuote[r]}]
  /\ saleTerms' = [saleTerms EXCEPT ![s] = {Terms(q) : q \in reqQuote[r]}]
  /\ quotes' = [q \in Quotes |->
       IF q \in reqQuote[r] THEN [quotes[q] EXCEPT !.status = "CONVERTED"] ELSE quotes[q]]
  /\ EndTransaction(r)
  /\ UNCHANGED <<settings, invoices, today>>

-----------------------------------------------------------------------------
NextDay ==
  /\ today < LastDay
  /\ today' = today + 1
  /\ UNCHANGED <<settingsVars, quotes, saleTerms, quoteLock, reqQuote>>

RollBack(r) ==
  /\ pc[r] # "idle"
  /\ EndTransaction(r)
  /\ UNCHANGED <<settingsRows, quotes, saleTerms, today>>

\* What CompanySettings does by itself leaves quotes alone.
SettingsStep(r) ==
  /\ \/ \E patch \in Settings!Patch : Settings!BeginUpdate(r, patch)
     \/ Settings!CheckHistory(r)
     \/ Settings!CommitUpdate(r)
     \/ Settings!BeginSale(r)
     \/ \E s \in Sales : Settings!CommitSale(r, s)
     \/ Settings!BeginInvoice(r)
     \/ \E i \in Invoices : Settings!CommitInvoice(r, i)
  /\ UNCHANGED quoteVars

InvoiceStep(i) ==
  /\ Settings!ConfirmInvoice(i) \/ Settings!CancelInvoice(i)
  /\ UNCHANGED quoteVars

Next ==
  \/ NextDay
  \/ \E i \in Invoices : InvoiceStep(i)
  \/ \E q \in Quotes : Accept(q) \/ Reject(q)
  \/ \E r \in Requests :
       \/ SettingsStep(r)
       \/ BeginQuote(r)
       \/ \E q \in Quotes, revision \in Revisions, day \in 0..LastDay :
            CommitQuote(r, q, revision, day)
       \/ \E q \in Quotes : BeginEdit(r, q) \/ BeginConversion(r, q)
       \/ \E day \in 0..LastDay : CommitDates(r, day)
       \/ ReadForEdit(r)
       \/ \E revision \in Revisions, newItems \in BOOLEAN, day \in 0..LastDay :
            CommitTerms(r, revision, newItems, day)
       \/ LockCurrency(r)
       \/ \E s \in Sales : CommitConversion(r, s)
       \/ RollBack(r)

Spec == Init /\ [][Next]_vars

-----------------------------------------------------------------------------
(* Properties *)

\* Rows, locks and requests have the shape the schema and the code give them.
TypeOK ==
  /\ Settings!RowsOK
  /\ quotes \in [Quotes -> Quote \cup {NoQuote}]
  /\ \A s \in Sales : saleTerms[s] \subseteq
       [quote : Quotes, revision : Revisions, currency : Currencies, priced : Currencies]
  /\ quoteLock \in [Quotes -> Requests \cup {NoRequest}]
  /\ settingsLock \in Requests \cup {NoRequest}
  /\ reqQuote \in [Requests -> SUBSET Quotes]
  /\ pc \in [Requests -> {"idle", "history", "update", "sale", "invoice", "quote", "edit",
                          "terms", "convert", "converting"}]
  /\ today \in 0..LastDay

\* A quote is converted exactly when it has a sale, it has at most one, and the
\* sale says what the quote says: nothing edits or decides a quote after, or
\* during, its conversion.
SaleAgreesWithQuote ==
  \A q \in Quotes :
    /\ Exists(q) /\ quotes[q].status = "CONVERTED" <=> SalesOf(q) # {}
    /\ Cardinality(SalesOf(q)) <= 1
    /\ \A s \in SalesOf(q) : saleTerms[s] = {Terms(q)}

\* Converted sales, too, are in the company's currency, although quotes do not
\* stop the currency from changing.
SalesInCompanyCurrency == Settings!SalesInCompanyCurrency

=============================================================================
