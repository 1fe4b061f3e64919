---------------------------- MODULE PurchaseOrders ----------------------------
(***************************************************************************)
(* A customer's purchase orders, from the imported lines to the approved   *)
(* proforma invoice (packages/db/src/commercial-orders.ts), together with  *)
(* the active prices they are matched with (commercial-costing.ts,         *)
(* commercial-revisions.ts).                                               *)
(*                                                                         *)
(* Every operation is one transaction that locks the rows it decides on    *)
(* before it reads them, so each is one action; two that lock in opposite  *)
(* orders deadlock, and the one PostgreSQL aborts has done nothing.  Two   *)
(* things are not one transaction.  The PI document set is stored by a     *)
(* transaction of the artifact service before the one that marks the PI    *)
(* sent: it stays when that one is lost.  And sending a quote, listing the *)
(* requests it answers and resolving them one by one are separate          *)
(* transactions of a server action, which may stop after any of them.      *)
(*                                                                         *)
(* All orders are of one customer.  A line is matched by its Customer Part *)
(* Code, which is also the key under which only one price may be active    *)
(* (migration 0022); matches by item UID or alias are left out.  Open      *)
(* orders have at most one invoice that is not cancelled, because          *)
(* generateProformaInvoice returns a Draft or Sent one, and cancelling it  *)
(* closes the order: invoice[o] is that one.                               *)
(***************************************************************************)
EXTENDS Integers

CONSTANTS
    Orders, Quotes, Codes, Items, Prices,
    Lines,          \* purchase-order lines, by line number
    OrderOf,        \* the order a line belongs to
    LineCode,       \* the customer part code a line orders
    CodeOf, ItemOf, PriceOf,    \* what a quote prices, and its price
    TreeOf,         \* the items of a quote and of its package components
    NoLine, NoQuote, NoPrice, NoRequest

Line == [price : Prices, quote : Quotes \union {NoQuote},
         match : {"Matched", "Difference", "Unmatched", "Quote Required",
                  "Pending Costing Revision"},
         decision : {"Pending", "Matched", "Accept PO Price", "Keep Our Price"},
         systemPrice : Prices \union {NoPrice}, piPrice : Prices \union {NoPrice}]

Request == [quote : Quotes, price : Prices]

InvoiceLine == [quote : Quotes, price : Prices]

ASSUME ConstantsAssumption ==
    /\ Lines \subseteq Int
    /\ \A S \in SUBSET Lines : S # {} => \E last \in S : \A l \in S : l <= last
    /\ OrderOf \in [Lines -> Orders] /\ LineCode \in [Lines -> Codes]
    /\ CodeOf \in [Quotes -> Codes] /\ ItemOf \in [Quotes -> Items]
    /\ PriceOf \in [Quotes -> Prices] /\ TreeOf \in [Quotes -> SUBSET Items]
    /\ \A q \in Quotes : ItemOf[q] \in TreeOf[q]
    /\ NoQuote \notin Quotes /\ NoPrice \notin Prices
    /\ NoLine \notin Line /\ NoRequest \notin Request

VARIABLES
    order,      \* sales.purchase_orders.status, "none" before the row exists
    line,       \* sales.purchase_order_lines
    request,    \* the Open quote_revision_request of each line
    invoice,    \* sales.proforma_invoices with its lines
    issued,     \* orders whose PI PDF and XLSX are stored and linked
    quote,      \* sales.quote_items.status; "Ready" is not sent yet
    active,     \* sales.quote_items.is_active
    ordered,    \* sales.customer_part_order_status rows that are P
    converted,  \* catalog.items converted to INTERNAL and P
    resolving   \* requests that a quote's server action has still to resolve

vars == <<order, line, request, invoice, issued, quote, active, ordered,
          converted, resolving>>

prices == <<quote, active, ordered, converted>>

Present == {l \in Lines : line[l] # NoLine}

LinesOf(o) == {l \in Present : OrderOf[l] = o}

\* Every editing command refuses a closed order.
IsOpen(o) == order[o] \notin {"none", "Approved", "Cancelled"}

Init ==
    /\ order = [o \in Orders |-> "none"]
    /\ line = [l \in Lines |-> NoLine]
    /\ request = [l \in Lines |-> NoRequest]
    /\ invoice = [o \in Orders |-> [status |-> "none", lines |-> <<>>]]
    /\ issued = {}
    /\ quote = [q \in Quotes |-> "Ready"]
    /\ active = {} /\ ordered = {} /\ converted = {}
    /\ resolving = [q \in Quotes |-> {}]

------------------------------------------------------------------------------
(* Lines.                                                                 *)

CreatePurchaseOrder(o) ==
    /\ order[o] = "none"
    /\ order' = [order EXCEPT ![o] = "Imported"]
    /\ UNCHANGED <<line, request, invoice, issued, prices, resolving>>

Sendable == {"Sent", "Accepted"}

\* findQuoteMatch
Matches(l) == {q \in active : CodeOf[q] = LineCode[l] /\ quote[q] \in Sendable}

\* The row inserted for a line that asks for price p.
Imported(l, p) ==
    IF Matches(l) = {}
    THEN [price |-> p, quote |-> NoQuote, match |-> "Unmatched",
          decision |-> "Pending", systemPrice |-> NoPrice, piPrice |-> NoPrice]
    ELSE LET q == CHOOSE r \in Matches(l) : TRUE
             same == PriceOf[q] = p
         IN  [price |-> p, quote |-> q, systemPrice |-> PriceOf[q],
              match |-> IF same THEN "Matched" ELSE "Difference",
              decision |-> IF same THEN "Matched" ELSE "Pending",
              piPrice |-> IF same THEN PriceOf[q] ELSE NoPrice]

\* addPurchaseOrderLine with one line, importPurchaseOrderLines with more.  An
\* order whose PI is already drafted or sent still takes lines.
ImportLines(o, added) ==
    /\ IsOpen(o)
    /\ added # {}
    /\ \A l \in added : OrderOf[l] = o /\ line[l] = NoLine
    /\ \E p \in [added -> Prices] :
          line' = [l \in Lines |-> IF l \in added THEN Imported(l, p[l]) ELSE line[l]]
    /\ UNCHANGED <<order, request, invoice, issued, prices, resolving>>

\* decidePurchaseOrderLinePrice: "Accept PO Price".  The Open request of the
\* line, when there is one, is updated in place.
AcceptPOPrice(l) ==
    /\ l \in Present /\ IsOpen(OrderOf[l]) /\ line[l].quote # NoQuote
    /\ request' = [request EXCEPT ![l] =
          [quote |-> IF @ = NoRequest THEN line[l].quote ELSE @.quote,
           price |-> line[l].price]]
    /\ line' = [line EXCEPT ![l].decision = "Accept PO Price",
                            ![l].match = "Pending Costing Revision",
                            ![l].piPrice = NoPrice]
    /\ UNCHANGED <<order, invoice, issued, prices, resolving>>

KeepOurPrice_LeavesRequest(l) ==
    /\ l \in Present /\ IsOpen(OrderOf[l]) /\ line[l].quote # NoQuote
    /\ line' = [line EXCEPT ![l].decision = "Keep Our Price",
                            ![l].match = "Difference",
                            ![l].piPrice = line[l].systemPrice]
    /\ UNCHANGED <<order, request, invoice, issued, prices, resolving>>

\* decidePurchaseOrderLinePrice: "Keep Our Price" cancels the Open request.  A
\* server action that still has the cancelled request on its list fails there.
KeepOurPrice(l) ==
    /\ l \in Present /\ IsOpen(OrderOf[l]) /\ line[l].quote # NoQuote
    /\ request' = [request EXCEPT ![l] = NoRequest]
    /\ resolving' = [q \in Quotes |-> resolving[q] \ {l}]
    /\ line' = [line EXCEPT ![l].decision = "Keep Our Price",
                            ![l].match = "Difference",
                            ![l].piPrice = line[l].systemPrice]
    /\ UNCHANGED <<order, invoice, issued, prices>>

\* createQuoteRequestFromPurchaseOrderLine.  Nothing matches the line again
\* when the quote it asks for is sent.
RequestQuote(l) ==
    /\ l \in Present /\ IsOpen(OrderOf[l])
    /\ line[l].match \in {"Unmatched", "Quote Required"}
    /\ line' = [line EXCEPT ![l].match = "Quote Required", ![l].decision = "Pending"]
    /\ UNCHANGED <<order, request, invoice, issued, prices, resolving>>

------------------------------------------------------------------------------
(* Proforma invoices.                                                     *)

\* What generateProformaInvoice asks of a line.
Invoiceable(l) ==
    /\ line[l].quote # NoQuote /\ line[l].piPrice # NoPrice
    /\ line[l].match \notin {"Unmatched", "Pending Costing Revision"}
    /\ line[l].decision # "Pending"

\* generateProformaInvoice, when the order has no Draft or Sent invoice yet.
GenerateProformaInvoice(o) ==
    /\ IsOpen(o)
    /\ invoice[o].status \notin {"Draft", "Sent"}
    /\ LinesOf(o) # {}
    /\ \A l \in LinesOf(o) : Invoiceable(l)
    /\ invoice' = [invoice EXCEPT ![o] =
          [status |-> "Draft",
           lines |-> [l \in LinesOf(o) |-> [quote |-> line[l].quote,
                                            price |-> line[l].piPrice]]]]
    /\ order' = [order EXCEPT ![o] = "PI Draft"]
    /\ UNCHANGED <<line, request, issued, prices, resolving>>

\* markProformaInvoiceSent has the artifact service store the PDF and XLSX of
\* a draft in a transaction of their own.
StoreIssuedSet(o) ==
    /\ invoice[o].status = "Draft"
    /\ o \notin issued
    /\ issued' = issued \union {o}
    /\ UNCHANGED <<order, line, request, invoice, prices, resolving>>

\* The rest of markProformaInvoiceSent: a set that an earlier attempt stored is
\* taken as it is.
MarkProformaInvoiceSent(o) ==
    /\ invoice[o].status = "Draft"
    /\ o \in issued
    /\ invoice' = [invoice EXCEPT ![o].status = "Sent"]
    /\ order' = [order EXCEPT ![o] = "PI Sent"]
    /\ UNCHANGED <<line, request, issued, prices, resolving>>

InvoicedQuotes(o) == {invoice[o].lines[l].quote : l \in DOMAIN invoice[o].lines}

\* approveQuoteAndProduct runs line by line, and supersedes the other active
\* price of the line's code: of two quotes for one code the last line's wins.
Accepted(o) ==
    LET named == invoice[o].lines
    IN  {q \in InvoicedQuotes(o) :
            \E l \in DOMAIN named :
                /\ named[l].quote = q
                /\ \A k \in DOMAIN named :
                      CodeOf[named[k].quote] = CodeOf[q] => k <= l}

Repriced(o) == {q \in active \union InvoicedQuotes(o) :
                   \E r \in InvoicedQuotes(o) : CodeOf[r] = CodeOf[q]}

OtherPrices_Remain(o) == {}

\* The prices that an approval supersedes.
OtherPrices(o) == Repriced(o) \ Accepted(o)

\* approveProformaInvoice.  A quote that was superseded since the PI was sent
\* becomes the active price again.  Only the line's own product becomes P for
\* its code; the items of the whole package are converted.
ApproveProformaInvoice(o) ==
    /\ invoice[o].status = "Sent"
    /\ quote' = [q \in Quotes |-> IF q \in Accepted(o) THEN "Accepted"
                                  ELSE IF q \in OtherPrices(o) THEN "Superseded"
                                  ELSE quote[q]]
    /\ active' = (active \ OtherPrices(o)) \union Accepted(o)
    /\ ordered' = ordered \union {<<CodeOf[q], ItemOf[q]>> : q \in InvoicedQuotes(o)}
    /\ converted' = converted \union UNION {TreeOf[q] : q \in InvoicedQuotes(o)}
    /\ invoice' = [invoice EXCEPT ![o].status = "Approved"]
    /\ order' = [order EXCEPT ![o] = "Approved"]
    /\ UNCHANGED <<line, request, issued, resolving>>

CancelPurchaseOrder_DraftOnly(o) ==
    /\ IsOpen(o)
    /\ order' = [order EXCEPT ![o] = "Cancelled"]
    /\ invoice' = [invoice EXCEPT ![o].status =
                      IF @ = "Draft" THEN "Cancelled" ELSE @]
    /\ UNCHANGED <<line, request, issued, prices, resolving>>

\* cancelPurchaseOrder takes the invoice along and leaves the lines and their
\* requests as they are.
CancelPurchaseOrder(o) ==
    /\ IsOpen(o)
    /\ order' = [order EXCEPT ![o] = "Cancelled"]
    /\ invoice' = [invoice EXCEPT ![o].status =
                      IF @ \in {"Draft", "Sent"} THEN "Cancelled" ELSE @]
    /\ UNCHANGED <<line, request, issued, prices, resolving>>

------------------------------------------------------------------------------
(* Prices, and the requests that a sent quote answers.                    *)

\* transitionQuoteToSent for one quote of the enquiry.
SendQuote(q) ==
    LET others == {r \in active \ {q} : CodeOf[r] = CodeOf[q]}
    IN  /\ quote[q] = "Ready"
        /\ quote' = [r \in Quotes |-> IF r = q THEN "Sent"
                                      ELSE IF r \in others THEN "Superseded"
                                      ELSE quote[r]]
        /\ active' = (active \ others) \union {q}
        /\ UNCHANGED <<order, line, request, invoice, issued, ordered,
                       converted, resolving>>

\* createRevisedQuote and its batched form, for bulk revisions and ECNs: the
\* revision goes out at once.  When another price than the prior one is active
\* the unique index of migration 0022 refuses the revision.  Nothing looks for
\* requests that the new price would answer.
ReviseQuote(prior, q) ==
    /\ quote[q] = "Ready" /\ quote[prior] # "Ready"
    /\ CodeOf[q] = CodeOf[prior] /\ ItemOf[q] = ItemOf[prior]
    /\ {r \in active : CodeOf[r] = CodeOf[q]} \subseteq {prior}
    /\ quote' = [quote EXCEPT ![prior] = "Superseded", ![q] = "Sent"]
    /\ active' = (active \ {prior}) \union {q}
    /\ UNCHANGED <<order, line, request, invoice, issued, ordered, converted,
                   resolving>>

\* listResolvableQuoteRevisionRequestIds, after q was sent or sent again.  The
\* list is read outside any transaction.
ListResolvable(q) ==
    /\ quote[q] \in Sendable
    /\ resolving' = [resolving EXCEPT ![q] =
          {l \in Lines : /\ request[l] # NoRequest
                         /\ ItemOf[request[l].quote] = ItemOf[q]
                         /\ request[l].price = PriceOf[q]}]
    /\ UNCHANGED <<order, line, request, invoice, issued, prices>>

\* What resolveQuoteRevisionRequest checks again.
Answers(q, l) ==
    /\ request[l] # NoRequest
    /\ quote[q] \in Sendable
    /\ PriceOf[q] = request[l].price

\* resolveQuoteRevisionRequest, for the next request of the list.  It does not
\* look at the order, which may be closed.
ResolveRequest(q, l) ==
    /\ l \in resolving[q]
    /\ Answers(q, l)
    /\ line' = [line EXCEPT ![l].quote = q, ![l].match = "Matched",
                            ![l].decision = "Matched",
                            ![l].systemPrice = PriceOf[q],
                            ![l].piPrice = PriceOf[q]]
    /\ request' = [request EXCEPT ![l] = NoRequest]
    /\ resolving' = [r \in Quotes |-> resolving[r] \ {l}]
    /\ UNCHANGED <<order, invoice, issued, prices>>

\* The server action fails at a request or dies: the rest of its list waits
\* until the quote is sent again.
AbandonList(q) ==
    /\ resolving[q] # {}
    /\ resolving' = [resolving EXCEPT ![q] = {}]
    /\ UNCHANGED <<order, line, request, invoice, issued, prices>>

Next ==
    \/ \E o \in Orders :
          \/ CreatePurchaseOrder(o)
          \/ \E added \in SUBSET Lines : ImportLines(o, added)
          \/ GenerateProformaInvoice(o) \/ StoreIssuedSet(o)
          \/ MarkProformaInvoiceSent(o) \/ ApproveProformaInvoice(o)
          \/ CancelPurchaseOrder(o)
    \/ \E l \in Lines : AcceptPOPrice(l) \/ KeepOurPrice(l) \/ RequestQuote(l)
    \/ \E q \in Quotes :
          \/ SendQuote(q) \/ ListResolvable(q) \/ AbandonList(q)
          \/ \E prior \in Quotes : ReviseQuote(prior, q)
          \/ \E l \in Lines : ResolveRequest(q, l)

Spec == Init /\ [][Next]_vars

------------------------------------------------------------------------------
TypeOK ==
    /\ order \in [Orders -> {"none", "Imported", "PI Draft", "PI Sent",
                             "Approved", "Cancelled"}]
    /\ line \in [Lines -> Line \union {NoLine}]
    /\ request \in [Lines -> Request \union {NoRequest}]
    /\ invoice \in [Orders ->
          [status : {"none", "Draft", "Sent", "Approved", "Cancelled"},
           lines : UNION {[S -> InvoiceLine] : S \in SUBSET Lines}]]
    /\ issued \subseteq Orders
    /\ quote \in [Quotes -> {"Ready", "Sent", "Accepted", "Superseded"}]
    /\ active \subseteq Quotes
    /\ ordered \subseteq Codes \X Items
    /\ converted \subseteq Items
    /\ resolving \in [Quotes -> SUBSET Lines]

ApprovedQuotes == UNION {InvoicedQuotes(o) : o \in {p \in Orders : order[p] = "Approved"}}

\* An order and its invoice tell the same story whatever storing, sending,
\* approving and cancelling are retried or raced, an invoice is only sent with
\* its stored documents, and a part code is P exactly when an approved order
\* invoiced it (glossary/commercial-enquiries.md:541, 575).
StatusesAgree ==
    /\ \A o \in Orders :
          /\ invoice[o].status = "none" => order[o] \in {"none", "Imported", "Cancelled"}
          /\ invoice[o].status = "Draft" => order[o] = "PI Draft"
          /\ invoice[o].status = "Sent" => order[o] = "PI Sent"
          /\ invoice[o].status = "Approved" => order[o] = "Approved"
          /\ invoice[o].status = "Cancelled" => order[o] = "Cancelled"
          /\ invoice[o].status \in {"Sent", "Approved"} => o \in issued
    /\ ordered = {<<CodeOf[q], ItemOf[q]>> : q \in ApprovedQuotes}
    /\ converted = UNION {TreeOf[q] : q \in ApprovedQuotes}

LinePriced(l) ==
    LET row == line[l]
    IN  /\ row.match = "Pending Costing Revision" <=> request[l] # NoRequest
        /\ request[l] # NoRequest => /\ request[l].price = row.price
                                     /\ request[l].quote = row.quote
                                     /\ row.piPrice = NoPrice
        /\ row.quote # NoQuote => /\ row.systemPrice = PriceOf[row.quote]
                                  /\ quote[row.quote] # "Ready"
        /\ row.piPrice # NoPrice => row.piPrice = row.systemPrice
        /\ row.match = "Matched" => row.piPrice = row.price

InvoicePriced(o) ==
    \A l \in DOMAIN invoice[o].lines :
        LET item == invoice[o].lines[l]
        IN  item.price = PriceOf[item.quote] /\ quote[item.quote] # "Ready"

\* No line gets a price that no quote was sent for: a line waits for costing
\* exactly while its request for its own price is open, and every price on a
\* line or an invoice is that of the sent quote named beside it, whichever of
\* decisions, withdrawn decisions and replacement quotes came first.
PricedAsQuoted ==
    /\ \A l \in Present : LinePriced(l)
    /\ \A l \in Lines \ Present : request[l] = NoRequest
    /\ \A o \in Orders : InvoicePriced(o)

\* Once a quote for a part code was sent, exactly one price of it is active,
\* in whatever order quotes are sent and revised and old invoices approved.
ActivePrices ==
    /\ active = {q \in Quotes : quote[q] \in Sendable}
    /\ \A q \in active, r \in active : CodeOf[q] = CodeOf[r] => q = r
    /\ \A q \in Quotes : quote[q] # "Ready" => \E r \in active : CodeOf[r] = CodeOf[q]
==============================================================================
