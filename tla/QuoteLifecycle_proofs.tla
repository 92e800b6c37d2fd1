------------------------ MODULE QuoteLifecycle_proofs ------------------------
(***************************************************************************)
(* Proofs about QuoteLifecycle, for any sets of quotes, sales, currencies  *)
(* and requests: every sale is in the currency of the company, and a quote *)
(* that has been converted agrees with its only sale.                      *)
(***************************************************************************)
EXTENDS QuoteLifecycle, FiniteSetTheorems, TLAPS

-----------------------------------------------------------------------------
(* The inductive invariant *)

\* Some columns of a row of settings.
Columns == {"currency", "taxEnabled", "taxRate"}

Partial(data) ==
  /\ DOMAIN data \subseteq Columns
  /\ "currency" \in DOMAIN data => data["currency"] \in Currencies
  /\ "taxEnabled" \in DOMAIN data => data["taxEnabled"] \in BOOLEAN
  /\ "taxRate" \in DOMAIN data => data["taxRate"] \in Rates

HoldsQuote(r, statuses) ==
  \E q \in Quotes : reqQuote[r] = {q} /\ quoteLock[q] = r /\ quotes[q].status \in statuses

\* What a request knows and holds, by the place it has reached.  Whoever is to
\* write a sale, or to change the currency, holds the row of settings; and the
\* change has found that there are no sales.
RequestOK(r) ==
  /\ pc[r] \in {"sale", "invoice"} => settingsLock = r /\ reqData[r] = settings
  /\ pc[r] \in {"quote", "terms"} => reqData[r] \in Settings!SettingsRow
  /\ pc[r] = "history" => settingsLock = r /\ Partial(reqData[r])
  /\ pc[r] = "update" =>
       /\ Partial(reqData[r])
       /\ "currency" \in DOMAIN reqData[r] => settingsLock = r /\ \A s \in Sales : sales[s] = {}
  /\ pc[r] \in {"edit", "terms"} => HoldsQuote(r, {"PENDING"})
  /\ pc[r] \in {"convert", "converting"} => HoldsQuote(r, {"PENDING", "ACCEPTED"})
  /\ pc[r] = "converting" =>
       settingsLock = r /\ \A q \in reqQuote[r] : quotes[q].currency = settings.currency

\* SaleAgreesWithQuote, of the rows that it reads.
SoldIn(terms, q) == {s \in Sales : \E t \in terms[s] : t.quote = q}

TermsIn(rows, q) == [quote |-> q, revision |-> rows[q].revision, currency |-> rows[q].currency,
                     priced |-> rows[q].priced]

Agrees(rows, terms) ==
  \A q \in Quotes :
    /\ rows[q].status = "CONVERTED" <=> SoldIn(terms, q) # {}
    /\ Cardinality(SoldIn(terms, q)) <= 1
    /\ \A s \in SoldIn(terms, q) : terms[s] = {TermsIn(rows, q)}

Term == [quote : Quotes, revision : Revisions, currency : Currencies, priced : Currencies]

\* What holds of the rows, whatever the requests are doing.
RowsStand ==
  /\ Settings!RowsOK
  /\ quotes \in [Quotes -> Quote \cup {NoQuote}]
  /\ sales \in [Sales -> SUBSET Currencies]
  /\ saleTerms \in [Sales -> SUBSET Term]
  /\ today \in 0..LastDay
  /\ Agrees(quotes, saleTerms)
  /\ \A s \in Sales : saleTerms[s] # {} => sales[s] # {}
  /\ \A s \in Sales : sales[s] \subseteq {settings.currency}

Places == {"idle", "history", "update", "sale", "invoice", "quote", "edit",
           "terms", "convert", "converting"}

RequestTypes ==
  /\ quoteLock \in [Quotes -> Requests \cup {NoRequest}]
  /\ settingsLock \in Requests \cup {NoRequest}
  /\ reqQuote \in [Requests -> SUBSET Quotes]
  /\ pc \in [Requests -> Places]
  /\ reqData = [r \in Requests |-> reqData[r]]

IInv ==
  /\ RowsStand
  /\ RequestTypes
  /\ \A r \in Requests : RequestOK(r)

-----------------------------------------------------------------------------
(* Lemmas about rows *)

\* No row says so in its status.
LEMMA NoRows ==
  ASSUME RowsStand
  PROVE  /\ NoQuote.status = "NONE"
         /\ \A q \in Quotes : quotes[q].status # "NONE" => quotes[q] \in Quote
         /\ \A q \in Quotes : Exists(q) <=> quotes[q].status # "NONE"
BY DEF RowsStand, NoQuote, Quote, Exists

\* The invariant says of quotes and sales what the property does.
LEMMA AsProperty ==
  ASSUME RowsStand
  PROVE  SaleAgreesWithQuote <=> Agrees(quotes, saleTerms)
<1>1. \A q \in Quotes : SalesOf(q) = SoldIn(saleTerms, q) /\ Terms(q) = TermsIn(quotes, q)
  BY DEF SalesOf, SoldIn, Terms, TermsIn
<1>2. \A q \in Quotes : Exists(q) /\ quotes[q].status = "CONVERTED" <=> quotes[q].status = "CONVERTED"
  BY NoRows
<1>. QED
  BY <1>1, <1>2 DEF SaleAgreesWithQuote, Agrees

\* The date may only make a status EXPIRED.
LEMMA StatusIs ==
  ASSUME NEW quote, NEW day
  PROVE  EffectiveStatus(quote, day) # "EXPIRED" => quote.status = EffectiveStatus(quote, day)
BY DEF EffectiveStatus

\* The body of a request has some of the columns, and so has what it changes.
LEMMA PatchIsPartial ==
  ASSUME RowsStand, NEW patch \in Settings!Patch
  PROVE  Partial(patch) /\ Partial(Settings!Changed(settings, patch))
<1> DEFINE row0 == CHOOSE r \in Settings!SettingsRow : TRUE
<1>1. row0 \in Settings!SettingsRow
  BY DEF RowsStand, Settings!RowsOK
<1>2. DOMAIN row0 = Columns
  BY <1>1 DEF Settings!SettingsRow, Columns
<1>3. PICK cs \in SUBSET Columns, row \in Settings!SettingsRow : patch = [c \in cs |-> row[c]]
  BY <1>2 DEF Settings!Patch
<1>4. row["currency"] \in Currencies /\ row["taxEnabled"] \in BOOLEAN /\ row["taxRate"] \in Rates
  BY DEF Settings!SettingsRow
<1>5. Partial(patch)
  BY <1>3, <1>4 DEF Partial, Columns
<1>6. Partial(Settings!Changed(settings, patch))
  BY <1>5 DEF Partial, Settings!Changed
<1>. QED
  BY <1>5, <1>6

\* Merging some columns into a row makes a row, with the same currency unless
\* that is one of them.
LEMMA MergeIsRow ==
  ASSUME NEW row \in Settings!SettingsRow, NEW data, Partial(data)
  PROVE  /\ Settings!Merge(row, data) \in Settings!SettingsRow
         /\ "currency" \notin DOMAIN data => Settings!Merge(row, data).currency = row.currency
<1>1. /\ DOMAIN row = Columns /\ row["currency"] \in Currencies
      /\ row["taxEnabled"] \in BOOLEAN /\ row["taxRate"] \in Rates
  BY DEF Settings!SettingsRow, Columns
<1> DEFINE new == Settings!Merge(row, data)
<1>2. new = [c \in Columns |-> IF c \in DOMAIN data THEN data[c] ELSE row[c]]
  BY <1>1 DEF Settings!Merge
<1>3. new["currency"] \in Currencies /\ new["taxEnabled"] \in BOOLEAN /\ new["taxRate"] \in Rates
  BY <1>1, <1>2 DEF Partial, Columns
<1>4. new = [currency |-> new["currency"], taxEnabled |-> new["taxEnabled"], taxRate |-> new["taxRate"]]
  BY <1>2 DEF Columns
<1>5. new \in Settings!SettingsRow
  BY <1>3, <1>4 DEF Settings!SettingsRow
<1>6. "currency" \notin DOMAIN data => new["currency"] = row["currency"]
  BY <1>2 DEF Columns
<1>. QED
  BY <1>5, <1>6

\* Quotes change without their sales noticing as long as they are not converted.
LEMMA UnsoldChange ==
  ASSUME NEW before, NEW after, NEW terms, Agrees(before, terms),
         \A q \in Quotes : \/ after[q] = before[q]
                           \/ before[q].status # "CONVERTED" /\ after[q].status # "CONVERTED"
  PROVE  Agrees(after, terms)
<1>1. ASSUME NEW q \in Quotes
      PROVE  /\ after[q].status = "CONVERTED" <=> SoldIn(terms, q) # {}
             /\ \A s \in SoldIn(terms, q) : TermsIn(after, q) = TermsIn(before, q)
  <2>1. CASE after[q] = before[q]
    BY <2>1 DEF Agrees, TermsIn
  <2>2. CASE before[q].status # "CONVERTED" /\ after[q].status # "CONVERTED"
    BY <2>2 DEF Agrees
  <2>. QED
    BY <2>1, <2>2
<1>. QED
  BY <1>1 DEF Agrees

-----------------------------------------------------------------------------
(* What a step leaves alone *)

\* A step of r keeps its hands off the places, the data and the locks of the
\* other requests ...
KeepsApart(r) ==
  \A o \in Requests \ {r} :
    /\ pc'[o] = pc[o] /\ reqData'[o] = reqData[o] /\ reqQuote'[o] = reqQuote[o]
    /\ settingsLock = o => settingsLock' = o
    /\ \A q \in Quotes : quoteLock[q] = o => quoteLock'[q] = o

\* ... and off the rows that they have locked.
KeepsRows(r) ==
  \A o \in Requests \ {r} :
    /\ settingsLock = o => settings' = settings /\ sales' = sales
    /\ \A q \in Quotes :
         quoteLock[q] = o /\ quotes[q].status # "NONE" => quotes'[q] = quotes[q]

\* Such a step leaves the others as they were.
LEMMA OthersStand ==
  ASSUME NEW r, KeepsApart(r), KeepsRows(r), NEW o \in Requests \ {r}, RequestOK(o)
  PROVE  RequestOK(o)'
<1>1. /\ pc'[o] = pc[o] /\ reqData'[o] = reqData[o] /\ reqQuote'[o] = reqQuote[o]
      /\ settingsLock = o => settingsLock' = o /\ settings' = settings /\ sales' = sales
  BY DEF KeepsApart, KeepsRows
<1>2. ASSUME NEW statuses, "NONE" \notin statuses, HoldsQuote(o, statuses)
      PROVE  HoldsQuote(o, statuses)'
  <2>1. PICK q \in Quotes : reqQuote[o] = {q} /\ quoteLock[q] = o /\ quotes[q].status \in statuses
    BY <1>2 DEF HoldsQuote
  <2>2. quoteLock'[q] = o /\ quotes'[q] = quotes[q]
    BY <1>2, <2>1 DEF KeepsApart, KeepsRows
  <2>. QED
    BY <1>1, <2>1, <2>2 DEF HoldsQuote
<1>3. (pc[o] \in {"sale", "invoice"} => settingsLock = o /\ reqData[o] = settings)'
  BY <1>1 DEF RequestOK
<1>4. (pc[o] \in {"quote", "terms"} => reqData[o] \in Settings!SettingsRow)'
  BY <1>1 DEF RequestOK, Settings!SettingsRow
<1>5. (pc[o] = "history" => settingsLock = o /\ Partial(reqData[o]))'
  BY <1>1 DEF RequestOK, Partial
<1>6. (pc[o] = "update" =>
        /\ Partial(reqData[o])
        /\ "currency" \in DOMAIN reqData[o] => settingsLock = o /\ \A s \in Sales : sales[s] = {})'
  BY <1>1 DEF RequestOK, Partial
<1>7. (pc[o] \in {"edit", "terms"} => HoldsQuote(o, {"PENDING"}))'
  BY <1>1, <1>2 DEF RequestOK
<1>8. (pc[o] \in {"convert", "converting"} => HoldsQuote(o, {"PENDING", "ACCEPTED"}))'
  BY <1>1, <1>2 DEF RequestOK
<1>9. ASSUME pc'[o] = "converting"
      PROVE  settingsLock' = o /\ \A q \in reqQuote'[o] : quotes'[q].currency = settings'.currency
  <2>1. PICK q \in Quotes :
          reqQuote[o] = {q} /\ quoteLock[q] = o /\ quotes[q].status # "NONE"
    BY <1>1, <1>9 DEF RequestOK, HoldsQuote
  <2>2. quotes'[q] = quotes[q]
    BY <2>1 DEF KeepsRows
  <2>. QED
    BY <1>1, <1>9, <2>1, <2>2 DEF RequestOK
<1>. QED
  BY <1>3, <1>4, <1>5, <1>6, <1>7, <1>8, <1>9 DEF RequestOK

\* The end of a transaction gives up its own locks, and nobody else's; one
\* that has none on a quote may end by itself.
Ends(r) ==
  /\ Settings!EndTransaction(r)
  /\ EndTransaction(r) \/ UNCHANGED <<quoteLock, reqQuote>>

LEMMA EndApart ==
  ASSUME RequestTypes, NEW r \in Requests, Ends(r)
  PROVE  KeepsApart(r) /\ RequestTypes' /\ RequestOK(r)'
<1>1. /\ pc' = [pc EXCEPT ![r] = "idle"]
      /\ reqData' = [reqData EXCEPT ![r] = Settings!NoData]
      /\ settingsLock' = IF settingsLock = r THEN NoRequest ELSE settingsLock
      /\ \/ UNCHANGED <<quoteLock, reqQuote>>
         \/ /\ quoteLock' = [q \in Quotes |-> IF quoteLock[q] = r THEN NoRequest ELSE quoteLock[q]]
            /\ reqQuote' = [reqQuote EXCEPT ![r] = {}]
  BY DEF Ends, EndTransaction, Settings!EndTransaction, Settings!Goto
<1>2. pc'[r] = "idle"
  BY <1>1 DEF RequestTypes
<1>3. RequestOK(r)'
  BY <1>2 DEF RequestOK
<1>4. reqData' = [q \in Requests |-> reqData'[q]]
  BY <1>1 DEF RequestTypes
<1>5. ASSUME NEW o \in Requests \ {r}
      PROVE  pc'[o] = pc[o] /\ reqData'[o] = reqData[o] /\ reqQuote'[o] = reqQuote[o]
  BY <1>1 DEF RequestTypes
<1>6. KeepsApart(r)
  BY <1>1, <1>5 DEF KeepsApart
<1>7. RequestTypes'
  BY <1>1, <1>4 DEF RequestTypes, Places
<1>. QED
  BY <1>3, <1>6, <1>7

\* A request goes on to another place: it may read something, and take a lock
\* that nobody has.
GoesOn(r, place) ==
  /\ pc' = [pc EXCEPT ![r] = place]
  /\ reqData' = reqData \/ \E data : reqData' = [reqData EXCEPT ![r] = data]
  /\ settingsLock' = settingsLock \/ (settingsLock = NoRequest /\ settingsLock' = r)
  /\ \/ UNCHANGED <<quoteLock, reqQuote>>
     \/ \E q \in Quotes : /\ quoteLock[q] = NoRequest
                          /\ quoteLock' = [quoteLock EXCEPT ![q] = r]
                          /\ reqQuote' = [reqQuote EXCEPT ![r] = {q}]

LEMMA OnwardApart ==
  ASSUME RequestTypes, NEW r \in Requests, NEW place \in Places, GoesOn(r, place)
  PROVE  KeepsApart(r) /\ RequestTypes' /\ pc'[r] = place
<1>1. pc' \in [Requests -> Places] /\ pc'[r] = place
  BY DEF GoesOn, RequestTypes
<1>2. reqData' = [q \in Requests |-> reqData'[q]]
  BY DEF GoesOn, RequestTypes
<1>3. settingsLock' \in Requests \cup {NoRequest}
  BY DEF GoesOn, RequestTypes
<1>4. /\ quoteLock' \in [Quotes -> Requests \cup {NoRequest}]
      /\ reqQuote' \in [Requests -> SUBSET Quotes]
  BY DEF GoesOn, RequestTypes
<1>5. ASSUME NEW o \in Requests \ {r}
      PROVE  pc'[o] = pc[o] /\ reqData'[o] = reqData[o] /\ reqQuote'[o] = reqQuote[o]
  BY DEF GoesOn, RequestTypes
<1>6. ASSUME NEW o \in Requests \ {r}
      PROVE  /\ settingsLock = o => settingsLock' = o
             /\ \A q \in Quotes : quoteLock[q] = o => quoteLock'[q] = o
  BY QuoteLifecycleAssumption DEF GoesOn, RequestTypes
<1>. QED
  BY <1>1, <1>2, <1>3, <1>4, <1>5, <1>6 DEF RequestTypes, KeepsApart

-----------------------------------------------------------------------------
(* The shape of every step *)

\* A request that ends, having kept its hands off the rows of others.
LEMMA Ending ==
  ASSUME IInv, NEW r \in Requests, Ends(r), KeepsRows(r), RowsStand'
  PROVE  IInv'
<1>1. KeepsApart(r) /\ RequestTypes' /\ RequestOK(r)'
  BY EndApart DEF IInv
<1>2. ASSUME NEW o \in Requests \ {r}
      PROVE  RequestOK(o)'
  BY <1>1, OthersStand DEF IInv
<1>3. \A o \in Requests : RequestOK(o)'
  BY <1>1, <1>2
<1>. QED
  BY <1>1, <1>3 DEF IInv

\* Rows that nobody writes stand.
RowsKept == UNCHANGED <<settings, sales, invoices, quotes, saleTerms, today>>

LEMMA Kept ==
  ASSUME RowsKept
  PROVE  /\ RowsStand => RowsStand'
         /\ \A r : KeepsRows(r)
<1>1. RowsStand => RowsStand'
  BY ZenonT(60) DEF RowsKept, RowsStand, Settings!RowsOK, Agrees, SoldIn, TermsIn
<1>. QED
  BY <1>1 DEF RowsKept, KeepsRows

\* A request that goes on with what the invariant says it needs there.
LEMMA Onward ==
  ASSUME IInv, NEW r \in Requests, NEW place \in Places, GoesOn(r, place), RowsKept,
         RequestOK(r)'
  PROVE  IInv'
<1>1. KeepsApart(r) /\ RequestTypes'
  BY OnwardApart DEF IInv
<1>2. RowsStand' /\ KeepsRows(r)
  BY Kept DEF IInv
<1>3. ASSUME NEW o \in Requests \ {r}
      PROVE  RequestOK(o)'
  BY <1>1, <1>2, OthersStand DEF IInv
<1>4. \A o \in Requests : RequestOK(o)'
  BY <1>3
<1>. QED
  BY <1>1, <1>2, <1>4 DEF IInv


-----------------------------------------------------------------------------
(* Steps that lock and read *)

LEMMA BeginUpdateKeeps ==
  ASSUME IInv, NEW r \in Requests, NEW patch \in Settings!Patch, Settings!BeginUpdate(r, patch),
         UNCHANGED quoteVars
  PROVE  IInv'
<1> DEFINE data == Settings!Changed(settings, patch)
           place == IF "currency" \in DOMAIN reqData'[r] THEN "history" ELSE "update"
<1>1. reqData' = [reqData EXCEPT ![r] = data]
  BY DEF Settings!BeginUpdate
<1>2. reqData'[r] = data
  BY <1>1 DEF IInv, RequestTypes
<1>3. "currency" \in DOMAIN data => "currency" \in DOMAIN patch
  BY DEF Settings!Changed
<1>4. Partial(data)
  BY PatchIsPartial DEF IInv
<1>5. settingsLock' = IF "currency" \in DOMAIN patch THEN r ELSE settingsLock
  BY DEF Settings!BeginUpdate
<1> HIDE DEF data
<1>6. RowsKept /\ GoesOn(r, place)
  BY <1>1 DEF Settings!BeginUpdate, Settings!Goto, Settings!rows, quoteVars, RowsKept, GoesOn
<1>7. place \in Places
  BY DEF Places
<1>8. pc'[r] = place
  BY <1>6, <1>7, OnwardApart DEF IInv
<1>9. Partial(reqData'[r])
  BY <1>2, <1>4
<1>10. RequestOK(r)'
  <2>1. CASE "currency" \in DOMAIN data
    BY <1>2, <1>3, <1>5, <1>8, <1>9, <2>1 DEF RequestOK
  <2>2. CASE "currency" \notin DOMAIN data
    BY <1>2, <1>8, <1>9, <2>2 DEF RequestOK
  <2>. QED
    BY <2>1, <2>2
<1> HIDE DEF place
<1>. QED
  BY <1>6, <1>7, <1>10, Onward

\* There are no sales, and the row stays locked.
LEMMA CheckHistoryKeeps ==
  ASSUME IInv, NEW r \in Requests, Settings!CheckHistory(r), UNCHANGED quoteVars
  PROVE  IInv'
<1>1. RowsKept /\ GoesOn(r, "update")
  BY DEF Settings!CheckHistory, Settings!Goto, Settings!rows, quoteVars, RowsKept, GoesOn
<1>0. "update" \in Places
  BY DEF Places
<1>2. pc'[r] = "update"
  BY <1>0, <1>1, OnwardApart DEF IInv
<1>3. settingsLock = r /\ Partial(reqData[r]) /\ reqData' = reqData /\ settingsLock' = settingsLock
  BY DEF Settings!CheckHistory, IInv, RequestOK
<1>4. \A s \in Sales : sales'[s] = {}
  BY <1>1 DEF Settings!CheckHistory, Settings!SaleExists, RowsKept
<1>5. RequestOK(r)'
  BY <1>2, <1>3, <1>4 DEF RequestOK
<1>. QED
  BY <1>0, <1>1, <1>5, Onward

LEMMA LockSettingsKeeps ==
  ASSUME IInv, NEW r \in Requests, NEW place \in {"sale", "invoice"},
         Settings!LockSettings(r, place), UNCHANGED quoteVars
  PROVE  IInv'
<1>1. RowsKept /\ GoesOn(r, place)
  BY DEF Settings!LockSettings, Settings!Goto, Settings!rows, quoteVars, RowsKept, GoesOn
<1>0. place \in Places
  BY DEF Places
<1>2. pc'[r] = place
  BY <1>0, <1>1, OnwardApart DEF IInv
<1>3. settingsLock' = r /\ reqData'[r] = settings'
  BY <1>1 DEF Settings!LockSettings, RowsKept, IInv, RequestTypes
<1>4. RequestOK(r)'
  BY <1>2, <1>3 DEF RequestOK
<1>. QED
  BY <1>0, <1>1, <1>4, Onward

LEMMA BeginQuoteKeeps ==
  ASSUME IInv, NEW r \in Requests, BeginQuote(r)
  PROVE  IInv'
<1>1. RowsKept /\ GoesOn(r, "quote")
  BY DEF BeginQuote, Settings!ReadSettings, Settings!Goto, Settings!rows, quoteVars, RowsKept, GoesOn
<1>0. "quote" \in Places
  BY DEF Places
<1>2. pc'[r] = "quote"
  BY <1>0, <1>1, OnwardApart DEF IInv
<1>3. reqData'[r] \in Settings!SettingsRow
  BY DEF BeginQuote, Settings!ReadSettings, IInv, RequestTypes, RowsStand, Settings!RowsOK
<1>4. RequestOK(r)'
  BY <1>2, <1>3 DEF RequestOK, Settings!SettingsRow
<1>. QED
  BY <1>0, <1>1, <1>4, Onward

LEMMA LockQuoteKeeps ==
  ASSUME IInv, NEW r \in Requests, NEW q \in Quotes, NEW place, NEW allowed,
         \/ place = "edit" /\ allowed = {"PENDING"}
         \/ place = "convert" /\ allowed = {"PENDING", "ACCEPTED"},
         LockQuote(r, q, allowed, place)
  PROVE  IInv'
<1>1. RowsKept /\ GoesOn(r, place)
  BY DEF LockQuote, Settings!Goto, settingsRows, RowsKept, GoesOn
<1>0. place \in Places
  BY DEF Places
<1>2. pc'[r] = place
  BY <1>0, <1>1, OnwardApart DEF IInv
<1>3. quotes[q].status \in allowed
  BY StatusIs DEF LockQuote
<1>4. reqQuote'[r] = {q} /\ quoteLock'[q] = r
  BY DEF LockQuote, IInv, RequestTypes
<1>5. HoldsQuote(r, allowed)'
  BY <1>1, <1>3, <1>4 DEF HoldsQuote, RowsKept
<1>6. RequestOK(r)'
  BY <1>2, <1>5 DEF RequestOK
<1>. QED
  BY <1>0, <1>1, <1>6, Onward

LEMMA ReadForEditKeeps ==
  ASSUME IInv, NEW r \in Requests, ReadForEdit(r)
  PROVE  IInv'
<1>1. RowsKept /\ GoesOn(r, "terms")
  BY DEF ReadForEdit, Settings!Goto, settingsRows, quoteVars, RowsKept, GoesOn
<1>0. "terms" \in Places
  BY DEF Places
<1>2. pc'[r] = "terms"
  BY <1>0, <1>1, OnwardApart DEF IInv
<1>3. reqData'[r] \in Settings!SettingsRow
  BY DEF ReadForEdit, IInv, RequestTypes, RowsStand, Settings!RowsOK
<1>4. HoldsQuote(r, {"PENDING"})
  BY DEF ReadForEdit, IInv, RequestOK
<1>5. HoldsQuote(r, {"PENDING"})'
  BY <1>4 DEF ReadForEdit, quoteVars, HoldsQuote
<1>6. RequestOK(r)'
  BY <1>2, <1>3, <1>5 DEF RequestOK, Settings!SettingsRow
<1>. QED
  BY <1>0, <1>1, <1>6, Onward

\* The conversion finds its quote in the currency of the row it has locked.
LEMMA LockCurrencyKeeps ==
  ASSUME IInv, NEW r \in Requests, LockCurrency(r)
  PROVE  IInv'
<1>1. RowsKept /\ GoesOn(r, "converting")
  BY DEF LockCurrency, Settings!Goto, settingsRows, quoteVars, RowsKept, GoesOn
<1>0. "converting" \in Places
  BY DEF Places
<1>2. pc'[r] = "converting"
  BY <1>0, <1>1, OnwardApart DEF IInv
<1>3. HoldsQuote(r, {"PENDING", "ACCEPTED"})
  BY DEF LockCurrency, IInv, RequestOK
<1>4. HoldsQuote(r, {"PENDING", "ACCEPTED"})'
  BY <1>3 DEF LockCurrency, quoteVars, HoldsQuote
<1>5. settingsLock' = r /\ \A q \in reqQuote'[r] : quotes'[q].currency = settings'.currency
  BY <1>1 DEF LockCurrency, quoteVars, RowsKept
<1>6. RequestOK(r)'
  BY <1>2, <1>4, <1>5 DEF RequestOK
<1>. QED
  BY <1>0, <1>1, <1>6, Onward

-----------------------------------------------------------------------------
(* Steps that write *)

\* What is done between transactions, or in one of a single statement.
LEMMA Aside ==
  ASSUME IInv, UNCHANGED <<settingsLock, pc, reqData, quoteLock, reqQuote>>,
         KeepsRows(NoRequest), RowsStand'
  PROVE  IInv'
<1>1. RequestTypes'
  BY DEF IInv, RequestTypes
<1>2. KeepsApart(NoRequest)
  BY DEF KeepsApart
<1>3. ASSUME NEW o \in Requests
      PROVE  RequestOK(o)'
  BY <1>2, OthersStand, QuoteLifecycleAssumption DEF IInv
<1>. QED
  BY <1>1, <1>3 DEF IInv

\* Quotes may be written as long as those written are not converted.
LEMMA QuotesWritten ==
  ASSUME RowsStand, UNCHANGED <<settings, sales, invoices, saleTerms, today>>,
         quotes' \in [Quotes -> Quote \cup {NoQuote}],
         \A q \in Quotes : \/ quotes'[q] = quotes[q]
                           \/ quotes[q].status # "CONVERTED" /\ quotes'[q].status # "CONVERTED"
  PROVE  RowsStand'
<1>1. Agrees(quotes', saleTerms)
  BY UnsoldChange DEF RowsStand
<1>2. Agrees(quotes, saleTerms)'
  BY <1>1
<1>. QED
  BY <1>2 DEF RowsStand, Settings!RowsOK

\* Whoever may write settings now is alone with them.
LEMMA Alone ==
  ASSUME NEW r, settingsLock \in {r, NoRequest}, quotes' = quotes
  PROVE  KeepsRows(r)
BY QuoteLifecycleAssumption DEF KeepsRows

LEMMA CommitUpdateKeeps ==
  ASSUME IInv, NEW r \in Requests, Settings!CommitUpdate(r), UNCHANGED quoteVars
  PROVE  IInv'
<1> DEFINE data == reqData[r]
           new == Settings!Merge(settings, data)
<1>1. /\ pc[r] = "update" /\ settingsLock \in {r, NoRequest}
      /\ settings' = new
      /\ UNCHANGED <<sales, invoices, quotes, saleTerms, today, quoteLock, reqQuote>>
      /\ Ends(r)
  BY DEF Settings!CommitUpdate, quoteVars, Ends
<1>2. Partial(data) /\ ("currency" \in DOMAIN data => \A s \in Sales : sales[s] = {})
  BY <1>1 DEF IInv, RequestOK
<1>3. /\ new \in Settings!SettingsRow
      /\ "currency" \notin DOMAIN data => new.currency = settings.currency
  BY <1>2, MergeIsRow DEF IInv, RowsStand, Settings!RowsOK
<1> HIDE DEF data, new
<1>4. settings' \in Settings!SettingsRow
  BY <1>1, <1>3
<1>5. \A s \in Sales : sales'[s] \subseteq {settings'.currency}
  <2>1. CASE "currency" \in DOMAIN data
    BY <1>1, <1>2, <2>1
  <2>2. CASE "currency" \notin DOMAIN data
    BY <1>1, <1>3, <2>2 DEF IInv, RowsStand
  <2>. QED
    BY <2>1, <2>2
<1>6. Settings!RowsOK'
  BY <1>1, <1>4 DEF IInv, RowsStand, Settings!RowsOK, Settings!SettingsRow
<1>7. Agrees(quotes, saleTerms)'
  BY <1>1 DEF IInv, RowsStand, Agrees, SoldIn, TermsIn
<1>8. RowsStand'
  BY <1>1, <1>5, <1>6, <1>7 DEF IInv, RowsStand
<1>9. KeepsRows(r)
  BY <1>1, Alone
<1>. QED
  BY <1>1, <1>8, <1>9, Ending

\* The instance of CompanySettings counts as this module does.
LEMMA SettingsCount ==
  ASSUME NEW set
  PROVE  Settings!Cardinality(set) = Cardinality(set)
BY DEF Settings!Cardinality, Cardinality

LEMMA OneCounts ==
  ASSUME NEW x
  PROVE  Settings!Cardinality({x}) <= 1 /\ Cardinality({x}) <= 1
<1>1. Cardinality({x}) = 1
  BY FS_Singleton
<1>2. Settings!Cardinality({x}) = 1
  BY <1>1, SettingsCount
<1>. QED
  BY <1>1, <1>2

LEMMA CommitSaleKeeps ==
  ASSUME IInv, NEW r \in Requests, NEW s \in Sales, Settings!CommitSale(r, s), UNCHANGED quoteVars
  PROVE  IInv'
<1>1. /\ pc[r] = "sale" /\ sales[s] = {}
      /\ sales' = [sales EXCEPT ![s] = {reqData[r].currency}]
      /\ UNCHANGED <<settings, invoices, quotes, saleTerms, today>>
      /\ Ends(r)
  BY DEF Settings!CommitSale, quoteVars, Ends
<1>2. settingsLock = r /\ reqData[r] = settings
  BY <1>1 DEF IInv, RequestOK
<1>3. settings \in Settings!SettingsRow /\ settings.currency \in Currencies
  BY DEF IInv, RowsStand, Settings!RowsOK, Settings!SettingsRow
<1>4. \A x \in Sales : sales'[x] = IF x = s THEN {settings.currency} ELSE sales[x]
  BY <1>1, <1>2 DEF IInv, RowsStand
<1>5. /\ sales' \in [Sales -> SUBSET Currencies]
      /\ \A x \in Sales : saleTerms'[x] # {} => sales'[x] # {}
      /\ \A x \in Sales : sales'[x] \subseteq {settings'.currency}
  BY <1>1, <1>2, <1>3, <1>4 DEF IInv, RowsStand
<1>6. Settings!Cardinality({settings.currency}) <= 1
  BY OneCounts
<1>7. \A x \in Sales : sales'[x] \subseteq Currencies /\ Settings!Cardinality(sales'[x]) <= 1
  BY <1>3, <1>4, <1>6 DEF IInv, RowsStand, Settings!RowsOK
<1>8. Settings!RowsOK'
  BY <1>1, <1>7 DEF IInv, RowsStand, Settings!RowsOK, Settings!SettingsRow
<1>9. Agrees(quotes, saleTerms)'
  BY <1>1 DEF IInv, RowsStand, Agrees, SoldIn, TermsIn
<1>10. RowsStand'
  BY <1>1, <1>5, <1>8, <1>9 DEF IInv, RowsStand
<1>11. KeepsRows(r)
  BY <1>1, <1>2, Alone
<1>. QED
  BY <1>1, <1>10, <1>11, Ending

LEMMA CommitInvoiceKeeps ==
  ASSUME IInv, NEW r \in Requests, NEW i \in Invoices, Settings!CommitInvoice(r, i),
         UNCHANGED quoteVars
  PROVE  IInv'
<1>1. /\ pc[r] = "invoice"
      /\ invoices' = [invoices EXCEPT ![i] = [status |-> "DRAFT", currency |-> reqData[r].currency]]
      /\ UNCHANGED <<settings, sales, quotes, saleTerms, today>>
      /\ Ends(r)
  BY DEF Settings!CommitInvoice, quoteVars, Ends
<1>2. reqData[r] = settings
  BY <1>1 DEF IInv, RequestOK
<1>3. [status |-> "DRAFT", currency |-> reqData[r].currency] \in Settings!Invoice
  BY <1>2 DEF IInv, RowsStand, Settings!RowsOK, Settings!SettingsRow, Settings!Invoice
<1>4. invoices' \in [Invoices -> Settings!Invoice \cup {Settings!NoInvoice}]
  BY <1>1, <1>3 DEF IInv, RowsStand, Settings!RowsOK
<1>5. RowsStand'
  BY <1>1, <1>4 DEF IInv, RowsStand, Settings!RowsOK, Agrees, SoldIn, TermsIn
<1>6. KeepsRows(r)
  BY <1>1 DEF KeepsRows
<1>. QED
  BY <1>1, <1>5, <1>6, Ending

LEMMA InvoiceStepKeeps ==
  ASSUME IInv, NEW i \in Invoices, InvoiceStep(i)
  PROVE  IInv'
<1>1. PICK status \in {"CONFIRMED", "CANCELLED"} :
        /\ invoices[i].status \in {"DRAFT", "CONFIRMED"}
        /\ invoices' = [invoices EXCEPT ![i].status = status]
        /\ UNCHANGED <<settings, sales, quotes, saleTerms, today>>
        /\ UNCHANGED <<settingsLock, pc, reqData, quoteLock, reqQuote>>
  BY DEF InvoiceStep, Settings!ConfirmInvoice, Settings!CancelInvoice, Settings!MoveInvoice, quoteVars
<1>2. invoices[i] \in Settings!Invoice
  BY <1>1 DEF IInv, RowsStand, Settings!RowsOK, Settings!NoInvoice
<1>3. [invoices[i] EXCEPT !.status = status] \in Settings!Invoice
  BY <1>2 DEF Settings!Invoice
<1>4. invoices' \in [Invoices -> Settings!Invoice \cup {Settings!NoInvoice}]
  BY <1>1, <1>3 DEF IInv, RowsStand, Settings!RowsOK
<1>5. RowsStand'
  BY <1>1, <1>4 DEF IInv, RowsStand, Settings!RowsOK, Agrees, SoldIn, TermsIn
<1>6. KeepsRows(NoRequest)
  BY <1>1 DEF KeepsRows
<1>. QED
  BY <1>1, <1>5, <1>6, Aside

-----------------------------------------------------------------------------
(* Steps that write quotes *)

LEMMA CommitQuoteKeeps ==
  ASSUME IInv, NEW r \in Requests, NEW q \in Quotes, NEW revision \in Revisions,
         NEW day \in 0..LastDay, CommitQuote(r, q, revision, day)
  PROVE  IInv'
<1> DEFINE quote == [status |-> "PENDING", issued |-> today, expires |-> day,
                     revision |-> revision, currency |-> reqData[r].currency,
                     priced |-> reqData[r].currency]
<1>1. /\ pc[r] = "quote" /\ ~Exists(q)
      /\ quotes' = [quotes EXCEPT ![q] = quote]
      /\ UNCHANGED <<settings, sales, invoices, saleTerms, today>>
      /\ Ends(r)
  BY DEF CommitQuote, settingsRows, Ends, EndTransaction
<1>2. reqData[r].currency \in Currencies
  BY <1>1 DEF IInv, RequestOK, Settings!SettingsRow
<1>3. quote \in Quote
  BY <1>2 DEF Quote, IInv, RowsStand
<1>4. quote.status = "PENDING"
  OBVIOUS
<1>5. quotes[q].status = "NONE"
  BY <1>1, NoRows DEF IInv
<1> HIDE DEF quote
<1>6. /\ quotes' \in [Quotes -> Quote \cup {NoQuote}]
      /\ \A p \in Quotes : quotes'[p] = IF p = q THEN quote ELSE quotes[p]
  BY <1>1, <1>3 DEF IInv, RowsStand
<1>7. RowsStand'
  BY <1>1, <1>4, <1>5, <1>6, QuotesWritten DEF IInv
<1>8. KeepsRows(r)
  BY <1>1, <1>5, <1>6 DEF KeepsRows
<1>. QED
  BY <1>1, <1>7, <1>8, Ending

\* An edit writes the quote that it holds, and leaves it pending.
LEMMA EditKeeps ==
  ASSUME IInv, NEW r \in Requests, HoldsQuote(r, {"PENDING"}), EndTransaction(r),
         NEW after, \A q \in Quotes : quotes[q] \in Quote =>
                       after[q] \in Quote /\ after[q].status = quotes[q].status,
         quotes' = [q \in Quotes |-> IF q \in reqQuote[r] THEN after[q] ELSE quotes[q]],
         UNCHANGED <<settings, sales, invoices, saleTerms, today>>
  PROVE  IInv'
<1>1. PICK q \in Quotes :
        reqQuote[r] = {q} /\ quoteLock[q] = r /\ quotes[q].status = "PENDING"
  BY DEF HoldsQuote
<1>2. quotes[q] \in Quote
  BY <1>1, NoRows DEF IInv
<1>3. \A p \in Quotes : quotes'[p] = IF p = q THEN after[q] ELSE quotes[p]
  BY <1>1
<1>4. quotes' \in [Quotes -> Quote \cup {NoQuote}]
  BY <1>2, <1>3 DEF IInv, RowsStand
<1>5. RowsStand'
  BY <1>1, <1>2, <1>3, <1>4, QuotesWritten DEF IInv
<1>6. KeepsRows(r)
  BY <1>1, <1>3 DEF KeepsRows
<1>7. Ends(r)
  BY DEF Ends, EndTransaction
<1>. QED
  BY <1>5, <1>6, <1>7, Ending

LEMMA CommitDatesKeeps ==
  ASSUME IInv, NEW r \in Requests, NEW day \in 0..LastDay, CommitDates(r, day)
  PROVE  IInv'
<1> DEFINE after == [q \in Quotes |-> [quotes[q] EXCEPT !.expires = day]]
<1>1. HoldsQuote(r, {"PENDING"}) /\ EndTransaction(r)
  BY DEF CommitDates, IInv, RequestOK
<1>2. \A q \in Quotes : quotes[q] \in Quote =>
        after[q] \in Quote /\ after[q].status = quotes[q].status
  BY DEF Quote
<1>3. quotes' = [q \in Quotes |-> IF q \in reqQuote[r] THEN after[q] ELSE quotes[q]]
  BY DEF CommitDates
<1>4. UNCHANGED <<settings, sales, invoices, saleTerms, today>>
  BY DEF CommitDates, settingsRows
<1> HIDE DEF after
<1>. QED
  BY <1>1, <1>2, <1>3, <1>4, EditKeeps

LEMMA CommitTermsKeeps ==
  ASSUME IInv, NEW r \in Requests, NEW revision \in Revisions, NEW newItems \in BOOLEAN,
         NEW day \in 0..LastDay, CommitTerms(r, revision, newItems, day)
  PROVE  IInv'
<1> DEFINE currency == reqData[r].currency
           after == [q \in Quotes |->
             [quotes[q] EXCEPT !.revision = revision, !.expires = day, !.currency = currency,
                               !.priced = IF newItems THEN currency ELSE @]]
<1>1. HoldsQuote(r, {"PENDING"}) /\ EndTransaction(r) /\ currency \in Currencies
  BY DEF CommitTerms, IInv, RequestOK, Settings!SettingsRow
<1>2. quotes' = [q \in Quotes |-> IF q \in reqQuote[r] THEN after[q] ELSE quotes[q]]
  BY DEF CommitTerms
<1> HIDE DEF currency
<1>3. \A q \in Quotes : quotes[q] \in Quote =>
        after[q] \in Quote /\ after[q].status = quotes[q].status
  BY <1>1 DEF Quote
<1>4. UNCHANGED <<settings, sales, invoices, saleTerms, today>>
  BY DEF CommitTerms, settingsRows
<1> HIDE DEF after
<1>. QED
  BY <1>1, <1>2, <1>3, <1>4, EditKeeps

\* A decision is made of a pending quote that nobody has locked.
LEMMA DecideKeeps ==
  ASSUME IInv, NEW q \in Quotes, NEW status \in {"ACCEPTED", "REJECTED"}, Decide(q, status)
  PROVE  IInv'
<1>1. /\ Exists(q) /\ quoteLock[q] = NoRequest
      /\ quotes' = [quotes EXCEPT ![q].status = status]
      /\ UNCHANGED <<settings, sales, invoices, saleTerms, today>>
      /\ UNCHANGED <<settingsLock, pc, reqData, quoteLock, reqQuote>>
  BY DEF Decide, settingsVars, settingsRows
<1>2. quotes[q].status = "PENDING"
  BY StatusIs DEF Decide
<1>3. quotes[q] \in Quote
  BY <1>2, NoRows DEF IInv
<1> DEFINE quote == [quotes[q] EXCEPT !.status = status]
<1>4. quote \in Quote /\ quote.status = status
  BY <1>3 DEF Quote
<1>5. quotes' = [quotes EXCEPT ![q] = quote]
  BY <1>1
<1> HIDE DEF quote
<1>6. /\ quotes' \in [Quotes -> Quote \cup {NoQuote}]
      /\ \A p \in Quotes : quotes'[p] = IF p = q THEN quote ELSE quotes[p]
  BY <1>4, <1>5 DEF IInv, RowsStand
<1>7. RowsStand'
  BY <1>1, <1>2, <1>4, <1>6, QuotesWritten DEF IInv
<1>8. KeepsRows(NoRequest)
  BY <1>1, <1>6, QuoteLifecycleAssumption DEF KeepsRows
<1>. QED
  BY <1>1, <1>7, <1>8, Aside

LEMMA NextDayKeeps ==
  ASSUME IInv, NextDay
  PROVE  IInv'
<1>1. /\ UNCHANGED <<settings, sales, invoices, quotes, saleTerms>>
      /\ UNCHANGED <<settingsLock, pc, reqData, quoteLock, reqQuote>>
      /\ today' \in 0..LastDay
  BY QuoteLifecycleAssumption DEF NextDay, settingsVars, settingsRows, IInv, RowsStand
<1>2. RowsStand'
  BY <1>1, ZenonT(60) DEF IInv, RowsStand, Settings!RowsOK, Agrees, SoldIn, TermsIn
<1>3. KeepsRows(NoRequest)
  BY <1>1 DEF KeepsRows
<1>. QED
  BY <1>1, <1>2, <1>3, Aside

LEMMA RollBackKeeps ==
  ASSUME IInv, NEW r \in Requests, RollBack(r)
  PROVE  IInv'
<1>1. RowsKept /\ Ends(r)
  BY DEF RollBack, settingsRows, RowsKept, Ends, EndTransaction
<1>. QED
  BY <1>1, Kept, Ending DEF IInv

\* A sale of a quote that has none, with the quote's terms, is its only one.
LEMMA FirstSale ==
  ASSUME NEW before, NEW terms, Agrees(before, terms), NEW q \in Quotes, NEW s \in Sales,
         SoldIn(terms, q) = {}, terms[s] = {},
         NEW after, NEW sold,
         \A p \in Quotes : /\ after[p].status = IF p = q THEN "CONVERTED" ELSE before[p].status
                           /\ TermsIn(after, p) = TermsIn(before, p),
         \A x \in Sales : sold[x] = IF x = s THEN {TermsIn(before, q)} ELSE terms[x]
  PROVE  Agrees(after, sold)
<1>1. TermsIn(before, q).quote = q
  BY DEF TermsIn
<1>2. SoldIn(sold, q) = {s}
  BY <1>1 DEF SoldIn
<1>3. Cardinality(SoldIn(sold, q)) <= 1
  BY <1>2, OneCounts
<1>4. ASSUME NEW p \in Quotes, p # q
      PROVE  SoldIn(sold, p) = SoldIn(terms, p) /\ s \notin SoldIn(terms, p)
  BY <1>1, <1>4 DEF SoldIn
<1>5. ASSUME NEW p \in Quotes
      PROVE  /\ after[p].status = "CONVERTED" <=> SoldIn(sold, p) # {}
             /\ Cardinality(SoldIn(sold, p)) <= 1
             /\ \A x \in SoldIn(sold, p) : sold[x] = {TermsIn(after, p)}
  <2>1. CASE p = q
    <3>1. after[q].status = "CONVERTED" /\ SoldIn(sold, q) # {}
      BY <1>2
    <3>2. \A x \in SoldIn(sold, q) : sold[x] = {TermsIn(after, q)}
      BY <1>2
    <3>. QED
      BY <1>3, <2>1, <3>1, <3>2
  <2>2. CASE p # q
    <3>1. SoldIn(sold, p) = SoldIn(terms, p) /\ \A x \in SoldIn(terms, p) : x \in Sales /\ x # s
      BY <1>4, <2>2 DEF SoldIn
    <3>. QED
      BY <2>2, <3>1 DEF Agrees
  <2>. QED
    BY <2>1, <2>2
<1>. QED
  BY <1>5 DEF Agrees

LEMMA CommitConversionKeeps ==
  ASSUME IInv, NEW r \in Requests, NEW s \in Sales, CommitConversion(r, s)
  PROVE  IInv'
<1>1. /\ pc[r] = "converting" /\ sales[s] = {}
      /\ \A q \in reqQuote[r] : SalesOf(q) = {}
      /\ sales' = [sales EXCEPT ![s] = {quotes[q].currency : q \in reqQuote[r]}]
      /\ saleTerms' = [saleTerms EXCEPT ![s] = {Terms(q) : q \in reqQuote[r]}]
      /\ quotes' = [q \in Quotes |->
           IF q \in reqQuote[r] THEN [quotes[q] EXCEPT !.status = "CONVERTED"] ELSE quotes[q]]
      /\ UNCHANGED <<settings, invoices, today>>
      /\ Ends(r)
  BY DEF CommitConversion, Ends, EndTransaction
<1>2. /\ HoldsQuote(r, {"PENDING", "ACCEPTED"})
      /\ settingsLock = r /\ \A q \in reqQuote[r] : quotes[q].currency = settings.currency
  BY <1>1 DEF IInv, RequestOK
<1>3. PICK q \in Quotes :
        reqQuote[r] = {q} /\ quoteLock[q] = r /\ quotes[q].status \in {"PENDING", "ACCEPTED"}
  BY <1>2 DEF HoldsQuote
<1>4. quotes[q] \in Quote /\ quotes[q].currency = settings.currency
  BY <1>2, <1>3, NoRows DEF IInv
<1>5. SoldIn(saleTerms, q) = {} /\ saleTerms[s] = {}
  BY <1>1, <1>3 DEF SalesOf, SoldIn, IInv, RowsStand
<1> DEFINE converted == [quotes[q] EXCEPT !.status = "CONVERTED"]
           term == TermsIn(quotes, q)
<1>6. /\ converted \in Quote /\ converted.status = "CONVERTED"
      /\ converted.revision = quotes[q].revision /\ converted.currency = quotes[q].currency
      /\ converted.priced = quotes[q].priced
  BY <1>4 DEF Quote
<1>7. term \in Term
  BY <1>4 DEF TermsIn, Term, Quote
<1>8. \A p \in Quotes : quotes'[p] = IF p = q THEN converted ELSE quotes[p]
  BY <1>1, <1>3
<1>9. sales' = [sales EXCEPT ![s] = {settings.currency}]
  BY <1>1, <1>3, <1>4
<1>10. saleTerms' = [saleTerms EXCEPT ![s] = {term}]
  BY <1>1, <1>3 DEF Terms, TermsIn
<1>11. quotes' \in [Quotes -> Quote \cup {NoQuote}]
  BY <1>1, <1>3, <1>6, <1>8 DEF IInv, RowsStand
<1> HIDE DEF converted
<1>12. \A p \in Quotes : /\ quotes'[p].status = IF p = q THEN "CONVERTED" ELSE quotes[p].status
                         /\ TermsIn(quotes', p) = TermsIn(quotes, p)
  BY <1>6, <1>8 DEF TermsIn
<1> HIDE DEF term
<1>13. /\ \A x \in Sales : saleTerms'[x] = IF x = s THEN {term} ELSE saleTerms[x]
       /\ \A x \in Sales : sales'[x] = IF x = s THEN {settings.currency} ELSE sales[x]
       /\ saleTerms' \in [Sales -> SUBSET Term]
  BY <1>7, <1>9, <1>10 DEF IInv, RowsStand
<1>14. Agrees(quotes', saleTerms')
  <2>1. Agrees(quotes, saleTerms)
    BY DEF IInv, RowsStand
  <2>2. \A x \in Sales : saleTerms'[x] = IF x = s THEN {TermsIn(quotes, q)} ELSE saleTerms[x]
    BY <1>13 DEF term
  <2>. QED
    BY <1>5, <1>12, <2>1, <2>2, FirstSale
<1>15. Settings!Cardinality({settings.currency}) <= 1
  BY OneCounts
<1>16. settings.currency \in Currencies
  BY DEF IInv, RowsStand, Settings!RowsOK, Settings!SettingsRow
<1>17. Settings!RowsOK'
  <2>1. \A x \in Sales : sales[x] \subseteq Currencies /\ Settings!Cardinality(sales[x]) <= 1
    BY DEF IInv, RowsStand, Settings!RowsOK
  <2>2. \A x \in Sales : sales'[x] \subseteq Currencies /\ Settings!Cardinality(sales'[x]) <= 1
    BY <1>13, <1>15, <1>16, <2>1
  <2>. QED
    BY <1>1, <2>2 DEF IInv, RowsStand, Settings!RowsOK, Settings!SettingsRow
<1>18. /\ sales' \in [Sales -> SUBSET Currencies]
       /\ \A x \in Sales : saleTerms'[x] # {} => sales'[x] # {}
       /\ \A x \in Sales : sales'[x] \subseteq {settings'.currency}
  <2>1. /\ sales \in [Sales -> SUBSET Currencies]
        /\ \A x \in Sales : saleTerms[x] # {} => sales[x] # {}
        /\ \A x \in Sales : sales[x] \subseteq {settings.currency}
    BY DEF IInv, RowsStand
  <2>2. settings' = settings
    BY <1>1
  <2>3. sales' \in [Sales -> SUBSET Currencies]
    BY <1>9, <1>16, <2>1
  <2>. QED
    BY <1>13, <2>1, <2>2, <2>3
<1>19. Agrees(quotes, saleTerms)'
  BY <1>14
<1>20. RowsStand'
  BY <1>1, <1>11, <1>13, <1>17, <1>18, <1>19 DEF IInv, RowsStand
<1>21. KeepsRows(r)
  BY <1>1, <1>2, <1>3, <1>8 DEF KeepsRows
<1>. QED
  BY <1>1, <1>20, <1>21, Ending

-----------------------------------------------------------------------------
(* The theorems *)

LEMMA NoneCounts ==
  ASSUME NEW set, set = {}
  PROVE  Settings!Cardinality(set) <= 1 /\ Cardinality(set) <= 1
BY FS_EmptySet, SettingsCount

LEMMA InitIInv == Init => IInv
<1> SUFFICES ASSUME Init
             PROVE  IInv
  OBVIOUS
<1> USE DEF Init, Settings!Init
<1>1. Settings!Cardinality({}) <= 1
  BY NoneCounts
<1>2. Settings!RowsOK
  BY <1>1 DEF Settings!RowsOK, Settings!SettingsRow
<1>3. \A q \in Quotes : SoldIn(saleTerms, q) = {} /\ quotes[q].status = "NONE"
  BY DEF SoldIn, NoQuote
<1>4. Agrees(quotes, saleTerms)
  <2>1. \A q \in Quotes : Cardinality(SoldIn(saleTerms, q)) <= 1
    BY <1>3, NoneCounts, Zenon
  <2>. QED
    BY <1>3, <2>1 DEF Agrees
<1>5. RowsStand
  BY <1>2, <1>4, QuoteLifecycleAssumption DEF RowsStand
<1>6. RequestTypes
  BY DEF RequestTypes, Places
<1>7. \A r \in Requests : pc[r] = "idle"
  OBVIOUS
<1>8. \A r \in Requests : RequestOK(r)
  BY <1>7 DEF RequestOK
<1>. QED
  BY <1>5, <1>6, <1>8 DEF IInv

LEMMA SettingsStepKeeps ==
  ASSUME IInv, NEW r \in Requests, SettingsStep(r)
  PROVE  IInv'
<1>1. CASE \E patch \in Settings!Patch : Settings!BeginUpdate(r, patch)
  BY <1>1, BeginUpdateKeeps DEF SettingsStep
<1>2. CASE Settings!CheckHistory(r)
  BY <1>2, CheckHistoryKeeps DEF SettingsStep
<1>3. CASE Settings!CommitUpdate(r)
  BY <1>3, CommitUpdateKeeps DEF SettingsStep
<1>4. CASE Settings!BeginSale(r)
  BY <1>4, LockSettingsKeeps DEF SettingsStep, Settings!BeginSale
<1>5. CASE \E s \in Sales : Settings!CommitSale(r, s)
  BY <1>5, CommitSaleKeeps DEF SettingsStep
<1>6. CASE Settings!BeginInvoice(r)
  BY <1>6, LockSettingsKeeps DEF SettingsStep, Settings!BeginInvoice
<1>7. CASE \E i \in Invoices : Settings!CommitInvoice(r, i)
  BY <1>7, CommitInvoiceKeeps DEF SettingsStep
<1>. QED
  BY <1>1, <1>2, <1>3, <1>4, <1>5, <1>6, <1>7 DEF SettingsStep

LEMMA NextIInv == IInv /\ [Next]_vars => IInv'
<1> SUFFICES ASSUME IInv, [Next]_vars
             PROVE  IInv'
  OBVIOUS
<1>1. CASE NextDay
  BY <1>1, NextDayKeeps
<1>2. CASE \E i \in Invoices : InvoiceStep(i)
  BY <1>2, InvoiceStepKeeps
<1>3. CASE \E q \in Quotes : Accept(q) \/ Reject(q)
  BY <1>3, DecideKeeps DEF Accept, Reject
<1>4. ASSUME NEW r \in Requests,
             \/ SettingsStep(r)
             \/ BeginQuote(r)
             \/ \E q \in Quotes, revision \in Revisions, day \in 0..LastDay :
                  CommitQuote(r, q, revision, day)
             \/ \E q \in Quotes : BeginEdit(r, q) \/ BeginConversion(r, q)
             \/ \E day \in 0..LastDay : CommitDates(r, day)
             \/ ReadForEdit(r)
             \/ \E revision \in Revisions, newItems \in BOOLEAN, day \in 0..LastDay :
                  CommitTerms(r, revision, newItems, day)
             \/ LockCurrency(r)
             \/ \E s \in Sales : CommitConversion(r, s)
             \/ RollBack(r)
      PROVE  IInv'
  <2>1. CASE SettingsStep(r)
    BY <2>1, SettingsStepKeeps
  <2>2. CASE BeginQuote(r)
    BY <2>2, BeginQuoteKeeps
  <2>3. CASE \E q \in Quotes, revision \in Revisions, day \in 0..LastDay :
               CommitQuote(r, q, revision, day)
    BY <2>3, CommitQuoteKeeps
  <2>4. CASE \E q \in Quotes : BeginEdit(r, q) \/ BeginConversion(r, q)
    BY <2>4, LockQuoteKeeps DEF BeginEdit, BeginConversion
  <2>5. CASE \E day \in 0..LastDay : CommitDates(r, day)
    BY <2>5, CommitDatesKeeps
  <2>6. CASE ReadForEdit(r)
    BY <2>6, ReadForEditKeeps
  <2>7. CASE \E revision \in Revisions, newItems \in BOOLEAN, day \in 0..LastDay :
               CommitTerms(r, revision, newItems, day)
    BY <2>7, CommitTermsKeeps
  <2>8. CASE LockCurrency(r)
    BY <2>8, LockCurrencyKeeps
  <2>9. CASE \E s \in Sales : CommitConversion(r, s)
    BY <2>9, CommitConversionKeeps
  <2>10. CASE RollBack(r)
    BY <2>10, RollBackKeeps
  <2>. QED
    BY <1>4, <2>1, <2>2, <2>3, <2>4, <2>5, <2>6, <2>7, <2>8, <2>9, <2>10
<1>5. CASE UNCHANGED vars
  <2>1. RowsKept /\ UNCHANGED <<settingsLock, pc, reqData, quoteLock, reqQuote>>
    BY <1>5 DEF vars, settingsVars, settingsRows, quoteVars, RowsKept
  <2>. QED
    BY <2>1, Kept, Aside DEF IInv
<1>. QED
  BY <1>1, <1>2, <1>3, <1>4, <1>5 DEF Next

\* The inductive invariant holds of every state the program reaches.
THEOREM InvariantHolds == Spec => []IInv
<1>1. Init => IInv
  BY InitIInv
<1>2. IInv /\ [Next]_vars => IInv'
  BY NextIInv
<1>. QED
  BY <1>1, <1>2, PTL DEF Spec

\* Rows, locks and requests always have the shape of TypeOK.
THEOREM TypeCorrect == Spec => []TypeOK
<1>1. IInv => TypeOK
  BY DEF IInv, RowsStand, RequestTypes, Places, TypeOK, Term
<1>. QED
  BY <1>1, InvariantHolds, PTL

\* A converted quote has one sale, which says what the quote says: neither an
\* edit nor a decision slips in during or after the conversion.
THEOREM SalesAgree == Spec => []SaleAgreesWithQuote
<1>1. IInv => SaleAgreesWithQuote
  BY AsProperty DEF IInv, RowsStand
<1>. QED
  BY <1>1, InvariantHolds, PTL

\* A change of currency and a sale exclude each other by the lock on the row of
\* settings: no sale is left in a currency the company has no longer.
THEOREM SalesKeepCurrency == Spec => []SalesInCompanyCurrency
<1>1. IInv => SalesInCompanyCurrency
  BY DEF IInv, RowsStand, SalesInCompanyCurrency, Settings!SalesInCompanyCurrency
<1>. QED
  BY <1>1, InvariantHolds, PTL
=============================================================================
