------------------------ MODULE PurchaseOrders_proofs -------------------------
(***************************************************************************)
(* Proofs about PurchaseOrders, for any orders, lines, quotes and prices.  *)
(* The three invariants that the run checks are inductive together with    *)
(* the types: prices rest on active quotes having been sent, and the Q/P   *)
(* mapping on each order agreeing with its invoice.                        *)
(***************************************************************************)
EXTENDS PurchaseOrders, TLAPS

IInv == TypeOK /\ StatusesAgree /\ PricedAsQuoted /\ ActivePrices

------------------------------------------------------------------------------
\* No order, line or sent price exists at first.
LEMMA InitIInv == Init => IInv
<1> SUFFICES ASSUME Init PROVE IInv
  OBVIOUS
<1> USE ConstantsAssumption DEF Init
<1>1. TypeOK
  <2>1. <<>> \in UNION {[S -> InvoiceLine] : S \in SUBSET Lines}
    <3>1. <<>> \in [{} -> InvoiceLine]
      OBVIOUS
    <3> QED BY <3>1
  <2> QED BY <2>1 DEF TypeOK
<1>2. StatusesAgree
  BY DEF StatusesAgree, ApprovedQuotes
<1>3. PricedAsQuoted
  BY DEF PricedAsQuoted, Present, InvoicePriced
<1>4. ActivePrices
  BY DEF ActivePrices, Sendable
<1> QED BY <1>1, <1>2, <1>3, <1>4 DEF IInv

\* The Q/P mapping owes nothing to a step that approves no order and keeps the
\* invoices of the approved ones.
LEMMA SameApproved ==
    ASSUME \A o \in Orders : order'[o] = "Approved" <=> order[o] = "Approved",
           \A o \in Orders : order[o] = "Approved" => invoice'[o] = invoice[o]
    PROVE  ApprovedQuotes' = ApprovedQuotes
BY DEF ApprovedQuotes, InvoicedQuotes

\* A line stays soundly priced when it, its request and the quotes stay.
LEMMA SameLine ==
    ASSUME NEW l \in Lines, LinePriced(l), line'[l] = line[l],
           request'[l] = request[l],
           \A q \in Quotes \union {line[l].quote} : quote[q] # "Ready" => quote'[q] # "Ready"
    PROVE  LinePriced(l)'
BY DEF LinePriced

LEMMA SameInvoice ==
    ASSUME IInv, NEW o \in Orders, invoice'[o].lines = invoice[o].lines,
           \A q \in Quotes : quote[q] # "Ready" => quote'[q] # "Ready"
    PROVE  InvoicePriced(o)'
<1>1. \A l \in DOMAIN invoice[o].lines : invoice[o].lines[l].quote \in Quotes
  <2>0. invoice[o].lines \in UNION {[S -> InvoiceLine] : S \in SUBSET Lines}
    BY DEF IInv, TypeOK
  <2>1. PICK S \in SUBSET Lines : invoice[o].lines \in [S -> InvoiceLine]
    BY <2>0
  <2> QED BY <2>1 DEF InvoiceLine
<1>2. InvoicePriced(o)
  BY DEF IInv, PricedAsQuoted
<1> QED BY <1>1, <1>2 DEF InvoicePriced

\* Quotes may be sent and superseded under the lines and invoices that name
\* them, as long as none becomes unsent again.
LEMMA LaterQuotes ==
    ASSUME IInv, UNCHANGED line, UNCHANGED request, UNCHANGED invoice,
           UNCHANGED order, UNCHANGED issued, UNCHANGED ordered,
           UNCHANGED converted,
           \A q \in Quotes : quote[q] # "Ready" => quote'[q] # "Ready"
    PROVE  StatusesAgree' /\ PricedAsQuoted'
<1>1. Present' = Present
  BY DEF Present
<1>2. ASSUME NEW l \in Lines, l \in Present PROVE LinePriced(l)'
  <2>1. line[l] \in Line /\ LinePriced(l)
    BY <1>2 DEF IInv, TypeOK, Present, PricedAsQuoted
  <2>2. line[l].quote \in Quotes \union {NoQuote}
    BY <2>1 DEF Line
  <2>3. line[l].quote # NoQuote => quote'[line[l].quote] # "Ready"
    BY <2>1, <2>2 DEF LinePriced
  <2> QED BY <2>1, <2>3 DEF LinePriced
<1>3. \A o \in Orders : InvoicePriced(o)'
  BY SameInvoice
<1>4. \A l \in Lines \ Present : request'[l] = NoRequest
  BY DEF IInv, PricedAsQuoted
<1>5. PricedAsQuoted'
  BY <1>1, <1>2, <1>3, <1>4 DEF PricedAsQuoted, Present
<1>6. ApprovedQuotes' = ApprovedQuotes
  BY SameApproved
<1>7. StatusesAgree'
  BY <1>6 DEF IInv, StatusesAgree
<1> QED BY <1>5, <1>7

\* Prices and lines stay sound when none of them changes.
LEMMA SamePrices ==
    ASSUME IInv, UNCHANGED line, UNCHANGED request, UNCHANGED quote, UNCHANGED active,
           \A o \in Orders : invoice'[o].lines = invoice[o].lines
    PROVE  PricedAsQuoted' /\ ActivePrices'
<1>1. ActivePrices'
  BY DEF IInv, ActivePrices
<1>2. Present' = Present
  BY DEF Present
<1>3. ASSUME NEW l \in Lines, l \in Present PROVE LinePriced(l)'
  BY <1>3, SameLine DEF IInv, PricedAsQuoted
<1>4. \A o \in Orders : InvoicePriced(o)'
  BY SameInvoice
<1>5. \A l \in Lines \ Present : request'[l] = NoRequest
  BY DEF IInv, PricedAsQuoted
<1>6. PricedAsQuoted'
  BY <1>2, <1>3, <1>4, <1>5 DEF PricedAsQuoted, Present
<1> QED BY <1>1, <1>6

\* Creating an order touches nothing else.
LEMMA CreateStep ==
    ASSUME IInv, NEW o \in Orders, CreatePurchaseOrder(o)
    PROVE  IInv'
<1> USE DEF CreatePurchaseOrder, prices
<1>1. TypeOK'
  BY DEF IInv, TypeOK
<1>2. ApprovedQuotes' = ApprovedQuotes
  BY SameApproved DEF IInv, TypeOK
<1>3. StatusesAgree'
  BY <1>2 DEF IInv, TypeOK, StatusesAgree
<1>4. PricedAsQuoted' /\ ActivePrices'
  BY SamePrices DEF IInv
<1> QED BY <1>1, <1>3, <1>4 DEF IInv

\* A row that is inserted has the price of the quote that its code matches.
LEMMA ImportedRow ==
    ASSUME IInv, NEW l \in Lines, NEW p \in Prices
    PROVE  /\ Imported(l, p) \in Line
           /\ Imported(l, p).match # "Pending Costing Revision"
           /\ Imported(l, p).quote # NoQuote =>
                 /\ Imported(l, p).systemPrice = PriceOf[Imported(l, p).quote]
                 /\ quote[Imported(l, p).quote] # "Ready"
           /\ Imported(l, p).piPrice # NoPrice =>
                 Imported(l, p).piPrice = Imported(l, p).systemPrice
           /\ Imported(l, p).match = "Matched" => Imported(l, p).piPrice = p
           /\ Imported(l, p).price = p
<1>1. CASE Matches(l) = {}
  BY <1>1 DEF Imported, Line
<1>2. CASE Matches(l) # {}
  <2> DEFINE q == CHOOSE r \in Matches(l) : TRUE
  <2>1. q \in Matches(l)
    BY <1>2
  <2>2. q \in Quotes /\ quote[q] # "Ready" /\ PriceOf[q] \in Prices
    BY <2>1, ConstantsAssumption DEF Matches, Sendable, IInv, TypeOK
  <2>3. Imported(l, p) =
          [price |-> p, quote |-> q, systemPrice |-> PriceOf[q],
           match |-> IF PriceOf[q] = p THEN "Matched" ELSE "Difference",
           decision |-> IF PriceOf[q] = p THEN "Matched" ELSE "Pending",
           piPrice |-> IF PriceOf[q] = p THEN PriceOf[q] ELSE NoPrice]
    BY <1>2 DEF Imported
  <2> HIDE DEF q
  <2>4. CASE PriceOf[q] = p
    <3>1. Imported(l, p) =
            [price |-> p, quote |-> q, systemPrice |-> PriceOf[q],
             match |-> "Matched", decision |-> "Matched", piPrice |-> PriceOf[q]]
      BY <2>3, <2>4
    <3>2. Imported(l, p) \in Line
      BY <2>2, <3>1 DEF Line
    <3> QED BY <2>2, <2>4, <3>1, <3>2
  <2>5. CASE PriceOf[q] # p
    <3>1. Imported(l, p) =
            [price |-> p, quote |-> q, systemPrice |-> PriceOf[q],
             match |-> "Difference", decision |-> "Pending", piPrice |-> NoPrice]
      BY <2>3, <2>5
    <3>2. Imported(l, p) \in Line
      BY <2>2, <3>1 DEF Line
    <3> QED BY <2>2, <3>1, <3>2
  <2> QED BY <2>4, <2>5
<1> QED BY <1>1, <1>2

\* Imported lines have no request yet.
LEMMA ImportStep ==
    ASSUME IInv, NEW o \in Orders, NEW added \in SUBSET Lines,
           ImportLines(o, added)
    PROVE  IInv'
<1> USE ConstantsAssumption DEF prices
<1>0. PICK p \in [added -> Prices] :
        line' = [l \in Lines |-> IF l \in added THEN Imported(l, p[l]) ELSE line[l]]
  BY DEF ImportLines
<1>a. /\ UNCHANGED <<order, request, invoice, issued, prices, resolving>>
      /\ \A l \in added : l \in Lines \ Present
  BY DEF ImportLines, Present
<1>1. \A l \in added : line'[l] = Imported(l, p[l]) /\ p[l] \in Prices
  BY <1>0
<1>b. ASSUME NEW l \in added
      PROVE
        /\ line'[l] \in Line
        /\ line'[l].match # "Pending Costing Revision"
        /\ line'[l].quote # NoQuote =>
              /\ line'[l].systemPrice = PriceOf[line'[l].quote]
              /\ quote[line'[l].quote] # "Ready"
        /\ line'[l].piPrice # NoPrice => line'[l].piPrice = line'[l].systemPrice
        /\ line'[l].match = "Matched" => line'[l].piPrice = line'[l].price
  <2>1. line'[l] = Imported(l, p[l]) /\ l \in Lines /\ p[l] \in Prices
    BY <1>1
  <2> DEFINE row == Imported(l, p[l])
  <2>2. /\ row \in Line /\ row.match # "Pending Costing Revision"
        /\ row.quote # NoQuote => /\ row.systemPrice = PriceOf[row.quote]
                                  /\ quote[row.quote] # "Ready"
        /\ row.piPrice # NoPrice => row.piPrice = row.systemPrice
        /\ row.match = "Matched" => row.piPrice = p[l]
        /\ row.price = p[l]
    BY ZenonT(60), <2>1, ImportedRow
  <2> HIDE DEF row
  <2> QED BY <2>1, <2>2 DEF row
<1>2. \A l \in Lines \ added : line'[l] = line[l]
  BY <1>0
<1>3. TypeOK'
  BY <1>0, <1>a, ImportedRow DEF IInv, TypeOK
<1>4. ApprovedQuotes' = ApprovedQuotes
  BY <1>a, SameApproved
<1>5. StatusesAgree'
  BY <1>a, <1>4 DEF IInv, StatusesAgree
<1>6. \A l \in added : request[l] = NoRequest
  BY <1>a DEF IInv, PricedAsQuoted
<1>7. PricedAsQuoted'
  <2>1. \A l \in added : l \in Present'
    BY <1>b DEF Present
  <2>2. \A l \in Lines \ added : l \in Present' <=> l \in Present
    BY <1>2 DEF Present
  <2>3. \A l \in Lines \ Present' : request'[l] = NoRequest
    BY <1>a, <2>1, <2>2 DEF IInv, PricedAsQuoted
  <2>4. ASSUME NEW l \in Lines, l \in Present' PROVE LinePriced(l)'
    <3>1. CASE l \in added
      BY <3>1, <1>b, <1>6, <1>a DEF LinePriced
    <3>2. CASE l \notin added
      BY <3>2, <1>2, <1>a, <2>2, <2>4, SameLine DEF IInv, PricedAsQuoted
    <3> QED BY <3>1, <3>2
  <2>5. \A o2 \in Orders : InvoicePriced(o2)'
    BY <1>a, SameInvoice
  <2> QED BY <2>3, <2>4, <2>5 DEF PricedAsQuoted, Present
<1>8. ActivePrices'
  BY <1>a DEF IInv, ActivePrices
<1> QED BY <1>3, <1>5, <1>7, <1>8 DEF IInv

------------------------------------------------------------------------------
(* Decisions.                                                             *)

\* A step that rewrites one line and its request leaves the invariant when it
\* leaves that line soundly priced.
LEMMA OneLine ==
    ASSUME IInv, NEW l \in Lines, l \in Present,
           UNCHANGED order, UNCHANGED invoice, UNCHANGED issued,
           UNCHANGED quote, UNCHANGED active, UNCHANGED ordered,
           UNCHANGED converted,
           resolving' \in [Quotes -> SUBSET Lines],
           NEW row \in Line, line' = [line EXCEPT ![l] = row],
           NEW req \in Request \union {NoRequest},
           request' = [request EXCEPT ![l] = req],
           LinePriced(l)'
    PROVE  IInv'
<1> USE ConstantsAssumption
<1>1. TypeOK'
  BY DEF IInv, TypeOK
<1>2. ApprovedQuotes' = ApprovedQuotes
  BY SameApproved
<1>3. StatusesAgree'
  BY <1>2 DEF IInv, StatusesAgree
<1>4. line'[l] = row /\ request'[l] = req
  BY DEF IInv, TypeOK
<1>5. \A k \in Lines : k # l => line'[k] = line[k] /\ request'[k] = request[k]
  BY DEF IInv, TypeOK
<1>6. Present' = Present
  BY <1>4, <1>5 DEF Present
<1>7. ASSUME NEW k \in Lines, k \in Present, k # l PROVE LinePriced(k)'
  BY <1>5, <1>7, SameLine DEF IInv, PricedAsQuoted
<1>8. \A o \in Orders : InvoicePriced(o)'
  BY SameInvoice
<1>9. \A k \in Lines \ Present : request'[k] = NoRequest
  BY <1>5 DEF IInv, PricedAsQuoted
<1>10. PricedAsQuoted'
  BY <1>6, <1>7, <1>8, <1>9 DEF PricedAsQuoted, Present
<1>11. ActivePrices'
  BY DEF IInv, ActivePrices
<1> QED BY <1>1, <1>3, <1>10, <1>11 DEF IInv

\* A request asks for the line's own price from the line's own quote.
LEMMA AcceptStep ==
    ASSUME IInv, NEW l \in Lines, AcceptPOPrice(l)
    PROVE  IInv'
<1> DEFINE row == [line[l] EXCEPT !.decision = "Accept PO Price",
                                  !.match = "Pending Costing Revision",
                                  !.piPrice = NoPrice]
           req == [quote |-> line[l].quote, price |-> line[l].price]
<1>1. l \in Present /\ line[l] \in Line /\ line[l].quote \in Quotes /\ LinePriced(l)
  BY DEF AcceptPOPrice, IInv, TypeOK, Present, PricedAsQuoted, Line
<1>2. request[l] # NoRequest => request[l].quote = line[l].quote
  BY <1>1 DEF LinePriced
<1>3. row \in Line
  BY <1>1 DEF Line
<1>4. line' = [line EXCEPT ![l] = row]
  BY DEF AcceptPOPrice
<1>5. request' = [request EXCEPT ![l] = req]
  BY <1>2 DEF AcceptPOPrice
<1>6. req \in Request
  BY <1>1 DEF Request, Line
<1>7. line'[l] = row /\ request'[l] = req
  BY <1>4, <1>5 DEF IInv, TypeOK
<1>8. /\ row.match = "Pending Costing Revision" /\ row.piPrice = NoPrice
      /\ row.price = line[l].price /\ row.quote = line[l].quote
      /\ row.systemPrice = line[l].systemPrice
  BY <1>1 DEF Line
<1>9. LinePriced(l)'
  <2>1. req # NoRequest /\ req.price = line[l].price /\ req.quote = line[l].quote
    BY <1>6, ConstantsAssumption
  <2>2. quote' = quote
    BY DEF AcceptPOPrice, prices
  <2> HIDE DEF row, req
  <2> QED BY <1>1, <1>7, <1>8, <2>1, <2>2 DEF LinePriced
<1> HIDE DEF row, req
<1> QED BY <1>1, <1>3, <1>4, <1>5, <1>6, <1>9, OneLine
        DEF AcceptPOPrice, prices, IInv, TypeOK

\* The system price is that of the quote, and the request goes.
LEMMA KeepStep ==
    ASSUME IInv, NEW l \in Lines, KeepOurPrice(l)
    PROVE  IInv'
<1> DEFINE row == [line[l] EXCEPT !.decision = "Keep Our Price",
                                  !.match = "Difference",
                                  !.piPrice = line[l].systemPrice]
<1>1. l \in Present /\ line[l] \in Line /\ LinePriced(l)
  BY DEF KeepOurPrice, IInv, TypeOK, Present, PricedAsQuoted
<1>2. row \in Line
  BY <1>1 DEF Line
<1>3. line' = [line EXCEPT ![l] = row] /\ request' = [request EXCEPT ![l] = NoRequest]
  BY DEF KeepOurPrice
<1>4. line'[l] = row /\ request'[l] = NoRequest
  BY <1>3 DEF IInv, TypeOK
<1>5. /\ row.match = "Difference" /\ row.piPrice = row.systemPrice
      /\ row.systemPrice = line[l].systemPrice /\ row.quote = line[l].quote
  BY <1>1 DEF Line
<1>6. LinePriced(l)'
  <2>1. quote' = quote
    BY DEF KeepOurPrice, prices
  <2> HIDE DEF row
  <2> QED BY <1>1, <1>4, <1>5, <2>1 DEF LinePriced
<1>7. resolving' \in [Quotes -> SUBSET Lines]
  BY DEF KeepOurPrice, IInv, TypeOK
<1> HIDE DEF row
<1> QED BY <1>1, <1>2, <1>3, <1>6, <1>7, OneLine DEF KeepOurPrice, prices

\* A line that asks for a quote has no request and no price.
LEMMA RequestStep ==
    ASSUME IInv, NEW l \in Lines, RequestQuote(l)
    PROVE  IInv'
<1> DEFINE row == [line[l] EXCEPT !.match = "Quote Required", !.decision = "Pending"]
<1>1. l \in Present /\ line[l] \in Line /\ LinePriced(l)
  BY DEF RequestQuote, IInv, TypeOK, Present, PricedAsQuoted
<1>2. row \in Line
  BY <1>1 DEF Line
<1>3. line' = [line EXCEPT ![l] = row]
  BY DEF RequestQuote
<1>4. request' = [request EXCEPT ![l] = request[l]] /\ request[l] \in Request \union {NoRequest}
  BY DEF RequestQuote, IInv, TypeOK
<1>5. line'[l] = row /\ request'[l] = request[l]
  BY <1>3, <1>4 DEF IInv, TypeOK
<1>6. /\ row.match = "Quote Required" /\ row.piPrice = line[l].piPrice
      /\ row.systemPrice = line[l].systemPrice /\ row.quote = line[l].quote
  BY <1>1 DEF Line
<1>7. LinePriced(l)'
  <2>1. quote' = quote /\ line[l].match \in {"Unmatched", "Quote Required"}
    BY DEF RequestQuote, prices
  <2>2. request[l] = NoRequest
    BY <1>1, <2>1 DEF LinePriced
  <2> HIDE DEF row
  <2> QED BY <1>1, <1>5, <1>6, <2>1, <2>2 DEF LinePriced
<1>8. resolving' \in [Quotes -> SUBSET Lines]
  BY DEF RequestQuote, IInv, TypeOK
<1> HIDE DEF row
<1> QED BY <1>1, <1>2, <1>3, <1>4, <1>7, <1>8, OneLine DEF RequestQuote, prices

\* A request is resolved only by a sent quote of exactly the line's price.
LEMMA ResolveStep ==
    ASSUME IInv, NEW q \in Quotes, NEW l \in Lines, ResolveRequest(q, l)
    PROVE  IInv'
<1> DEFINE row == [line[l] EXCEPT !.quote = q, !.match = "Matched",
                                  !.decision = "Matched",
                                  !.systemPrice = PriceOf[q],
                                  !.piPrice = PriceOf[q]]
<1>1. request[l] # NoRequest /\ quote[q] # "Ready" /\ PriceOf[q] = request[l].price
  BY DEF ResolveRequest, Answers, Sendable
<1>2. l \in Present
  BY <1>1 DEF IInv, PricedAsQuoted
<1>3. line[l] \in Line /\ LinePriced(l)
  BY <1>2 DEF IInv, TypeOK, Present, PricedAsQuoted
<1>4. PriceOf[q] = line[l].price /\ PriceOf[q] \in Prices
  BY <1>1, <1>3, ConstantsAssumption DEF LinePriced
<1>5. row \in Line
  BY <1>3, <1>4 DEF Line
<1>6. line' = [line EXCEPT ![l] = row] /\ request' = [request EXCEPT ![l] = NoRequest]
  BY DEF ResolveRequest
<1>7. line'[l] = row /\ request'[l] = NoRequest
  BY <1>6 DEF IInv, TypeOK
<1>8. /\ row.match = "Matched" /\ row.piPrice = PriceOf[q] /\ row.quote = q
      /\ row.systemPrice = PriceOf[q] /\ row.price = line[l].price
  BY <1>3 DEF Line
<1>9. LinePriced(l)'
  <2>1. quote' = quote
    BY DEF ResolveRequest, prices
  <2> HIDE DEF row
  <2> QED BY <1>1, <1>4, <1>7, <1>8, <2>1 DEF LinePriced
<1>10. resolving' \in [Quotes -> SUBSET Lines]
  BY DEF ResolveRequest, IInv, TypeOK
<1> HIDE DEF row
<1> QED BY <1>2, <1>5, <1>6, <1>9, <1>10, OneLine DEF ResolveRequest, prices

------------------------------------------------------------------------------
(* Invoices.                                                              *)

\* An invoice takes over the prices of lines that all have one.
LEMMA GenerateStep ==
    ASSUME IInv, NEW o \in Orders, GenerateProformaInvoice(o)
    PROVE  IInv'
<1> DEFINE drafted == [l \in LinesOf(o) |-> [quote |-> line[l].quote,
                                             price |-> line[l].piPrice]]
<1>0. /\ invoice' = [invoice EXCEPT ![o] = [status |-> "Draft", lines |-> drafted]]
      /\ order' = [order EXCEPT ![o] = "PI Draft"]
      /\ UNCHANGED line /\ UNCHANGED request /\ UNCHANGED issued
      /\ UNCHANGED quote /\ UNCHANGED active /\ UNCHANGED ordered
      /\ UNCHANGED converted /\ UNCHANGED resolving
      /\ order[o] \notin {"none", "Approved", "Cancelled"}
  BY DEF GenerateProformaInvoice, prices, IsOpen
<1>1. ASSUME NEW l \in LinesOf(o)
      PROVE  /\ l \in Lines /\ line[l].quote \in Quotes /\ line[l].piPrice \in Prices
             /\ line[l].piPrice = PriceOf[line[l].quote] /\ quote[line[l].quote] # "Ready"
  <2>1. l \in Present /\ l \in Lines /\ line[l] \in Line /\ LinePriced(l)
    BY DEF LinesOf, Present, IInv, TypeOK, PricedAsQuoted
  <2>2. line[l].quote # NoQuote /\ line[l].piPrice # NoPrice
    BY DEF GenerateProformaInvoice, Invoiceable
  <2> QED BY <2>1, <2>2 DEF LinePriced, Line
<1>2. TypeOK'
  <2>1. drafted \in [LinesOf(o) -> InvoiceLine]
    BY <1>1 DEF InvoiceLine
  <2>2. LinesOf(o) \in SUBSET Lines
    BY <1>1
  <2>3. drafted \in UNION {[S -> InvoiceLine] : S \in SUBSET Lines}
    BY <2>1, <2>2
  <2> HIDE DEF drafted
  <2> QED BY <1>0, <2>3 DEF IInv, TypeOK
<1>3. ApprovedQuotes' = ApprovedQuotes
  BY <1>0, SameApproved DEF IInv, TypeOK
<1>4. StatusesAgree'
  <2> HIDE DEF drafted
  <2> QED BY <1>0, <1>3 DEF IInv, TypeOK, StatusesAgree
<1>5. PricedAsQuoted'
  <2>1. Present' = Present
    BY <1>0 DEF Present
  <2>2. ASSUME NEW l \in Lines, l \in Present PROVE LinePriced(l)'
    BY <1>0, <2>2, SameLine DEF IInv, PricedAsQuoted
  <2>3. ASSUME NEW p \in Orders PROVE InvoicePriced(p)'
    <3>1. CASE p = o
      <4>1. invoice'[p].lines = drafted
        BY <1>0, <3>1 DEF IInv, TypeOK
      <4>2. /\ DOMAIN drafted = LinesOf(o)
            /\ \A l \in LinesOf(o) : /\ drafted[l].quote = line[l].quote
                                     /\ drafted[l].price = line[l].piPrice
        OBVIOUS
      <4> HIDE DEF drafted
      <4> QED BY <4>1, <4>2, <1>0, <1>1 DEF InvoicePriced
    <3>2. CASE p # o
      <4>1. invoice'[p].lines = invoice[p].lines
        BY <1>0, <3>2 DEF IInv, TypeOK
      <4> QED BY <4>1, <1>0, SameInvoice
    <3> QED BY <3>1, <3>2
  <2>4. \A l \in Lines \ Present : request'[l] = NoRequest
    BY <1>0 DEF IInv, PricedAsQuoted
  <2> QED BY <2>1, <2>2, <2>3, <2>4 DEF PricedAsQuoted, Present
<1>6. ActivePrices'
  BY <1>0 DEF IInv, ActivePrices
<1> QED BY <1>2, <1>4, <1>5, <1>6 DEF IInv

\* Storing the documents changes neither the order nor the invoice.
LEMMA StoreStep ==
    ASSUME IInv, NEW o \in Orders, StoreIssuedSet(o)
    PROVE  IInv'
<1> USE DEF StoreIssuedSet, prices
<1>1. TypeOK'
  BY DEF IInv, TypeOK
<1>2. ApprovedQuotes' = ApprovedQuotes
  BY SameApproved
<1>3. StatusesAgree'
  BY <1>2 DEF IInv, StatusesAgree
<1>4. PricedAsQuoted' /\ ActivePrices'
  BY SamePrices
<1> QED BY <1>1, <1>3, <1>4 DEF IInv

\* What setting the status of an invoice does.
LEMMA InvoiceStatus ==
    ASSUME TypeOK, NEW o \in Orders,
           NEW s \in {"none", "Draft", "Sent", "Approved", "Cancelled"},
           invoice' = [invoice EXCEPT ![o].status = s]
    PROVE  /\ invoice' \in [Orders ->
                 [status : {"none", "Draft", "Sent", "Approved", "Cancelled"},
                  lines : UNION {[S -> InvoiceLine] : S \in SUBSET Lines}]]
           /\ \A p \in Orders : /\ invoice'[p].lines = invoice[p].lines
                                /\ invoice'[p].status = IF p = o THEN s
                                                        ELSE invoice[p].status
<1> DEFINE L == UNION {[S -> InvoiceLine] : S \in SUBSET Lines}
<1>1. invoice \in [Orders ->
          [status : {"none", "Draft", "Sent", "Approved", "Cancelled"}, lines : L]]
  BY DEF TypeOK
<1> HIDE DEF L
<1>2. invoice' \in [Orders ->
          [status : {"none", "Draft", "Sent", "Approved", "Cancelled"}, lines : L]]
  BY <1>1
<1>3. \A p \in Orders : /\ invoice'[p].lines = invoice[p].lines
                        /\ invoice'[p].status = IF p = o THEN s ELSE invoice[p].status
  BY <1>1
<1> QED BY <1>2, <1>3 DEF L

\* The order follows its invoice when it is sent or cancelled.
LEMMA StatusStep ==
    ASSUME IInv, NEW o \in Orders,
           MarkProformaInvoiceSent(o) \/ CancelPurchaseOrder(o)
    PROVE  IInv'
<1>0. /\ UNCHANGED line /\ UNCHANGED request /\ UNCHANGED issued
      /\ UNCHANGED quote /\ UNCHANGED active /\ UNCHANGED ordered
      /\ UNCHANGED converted /\ UNCHANGED resolving
  BY DEF MarkProformaInvoiceSent, CancelPurchaseOrder, prices
<1>1. PICK s \in {"none", "Draft", "Sent", "Approved", "Cancelled"} :
        invoice' = [invoice EXCEPT ![o].status = s]
  BY DEF MarkProformaInvoiceSent, CancelPurchaseOrder, IInv, TypeOK
<1>2. \A p \in Orders : /\ invoice'[p].lines = invoice[p].lines
                        /\ invoice'[p].status = IF p = o THEN s ELSE invoice[p].status
  <2>1. \A p \in Orders : invoice'[p].lines = invoice[p].lines
    BY <1>1 DEF IInv, TypeOK
  <2>2. \A p \in Orders : invoice'[p].status = IF p = o THEN s ELSE invoice[p].status
    BY <1>1 DEF IInv, TypeOK
  <2> QED BY <2>1, <2>2
<1>3. TypeOK'
  <2>1. order' \in [Orders -> {"none", "Imported", "PI Draft", "PI Sent",
                               "Approved", "Cancelled"}]
    BY DEF MarkProformaInvoiceSent, CancelPurchaseOrder, IInv, TypeOK
  <2> QED BY <1>0, <1>1, <2>1, InvoiceStatus DEF IInv, TypeOK
<1>4. ApprovedQuotes' = ApprovedQuotes
  BY SameApproved DEF MarkProformaInvoiceSent, CancelPurchaseOrder, IsOpen,
                      IInv, TypeOK, StatusesAgree
<1>5. StatusesAgree'
  <2>1. /\ ordered' = {<<CodeOf[q], ItemOf[q]>> : q \in ApprovedQuotes'}
        /\ converted' = UNION {TreeOf[q] : q \in ApprovedQuotes'}
    BY <1>0, <1>4 DEF IInv, StatusesAgree
  <2>2. CASE MarkProformaInvoiceSent(o)
    <3>1. order' = [order EXCEPT ![o] = "PI Sent"] /\ s = "Sent" /\ o \in issued
      BY <1>2, <2>2 DEF MarkProformaInvoiceSent, IInv, TypeOK
    <3> QED BY <1>0, <1>2, <2>1, <3>1 DEF IInv, TypeOK, StatusesAgree
  <2>3. CASE CancelPurchaseOrder(o)
    <3>1. /\ order' = [order EXCEPT ![o] = "Cancelled"]
          /\ order[o] # "Approved"
          /\ s = IF invoice[o].status \in {"Draft", "Sent"} THEN "Cancelled"
                 ELSE invoice[o].status
      BY <1>2, <2>3 DEF CancelPurchaseOrder, IsOpen, IInv, TypeOK
    <3>2. s \in {"none", "Cancelled"}
      BY <3>1 DEF IInv, TypeOK, StatusesAgree
    <3> QED BY <1>0, <1>2, <2>1, <3>1, <3>2 DEF IInv, TypeOK, StatusesAgree
  <2> QED BY <2>2, <2>3
<1>6. PricedAsQuoted' /\ ActivePrices'
  BY <1>0, <1>2, SamePrices
<1> QED BY <1>3, <1>5, <1>6 DEF IInv

\* For each code that the invoice names, the quote of its last line wins.
LEMMA AcceptedPrices ==
    ASSUME IInv, NEW o \in Orders
    PROVE  /\ InvoicedQuotes(o) \subseteq Quotes
           /\ Accepted(o) \subseteq InvoicedQuotes(o)
           /\ \A q \in Accepted(o), r \in Accepted(o) : CodeOf[q] = CodeOf[r] => q = r
           /\ \A q \in InvoicedQuotes(o) : \E r \in Accepted(o) : CodeOf[r] = CodeOf[q]
<1> DEFINE named == invoice[o].lines
<1>0. named \in UNION {[S -> InvoiceLine] : S \in SUBSET Lines}
  BY DEF IInv, TypeOK
<1>1. PICK S \in SUBSET Lines : named \in [S -> InvoiceLine]
  BY <1>0
<1>2. DOMAIN named = S /\ \A l \in S : named[l].quote \in Quotes
  BY <1>1 DEF InvoiceLine
<1>3. InvoicedQuotes(o) \subseteq Quotes /\ Accepted(o) \subseteq InvoicedQuotes(o)
  BY <1>2 DEF InvoicedQuotes, Accepted
<1>4. ASSUME NEW q \in Accepted(o), NEW r \in Accepted(o), CodeOf[q] = CodeOf[r]
      PROVE  q = r
  <2>1. PICK l \in S : /\ named[l].quote = q
                       /\ \A k \in S : CodeOf[named[k].quote] = CodeOf[q] => k <= l
    BY <1>2 DEF Accepted
  <2>2. PICK m \in S : /\ named[m].quote = r
                       /\ \A k \in S : CodeOf[named[k].quote] = CodeOf[r] => k <= m
    BY <1>2 DEF Accepted
  <2>3. l <= m /\ m <= l /\ l \in Int /\ m \in Int
    BY <1>4, <2>1, <2>2, ConstantsAssumption
  <2> QED BY <2>1, <2>2, <2>3
<1>5. ASSUME NEW q \in InvoicedQuotes(o)
      PROVE  \E r \in Accepted(o) : CodeOf[r] = CodeOf[q]
  <2> DEFINE T == {l \in S : CodeOf[named[l].quote] = CodeOf[q]}
  <2>1. T # {} /\ T \in SUBSET Lines
    BY <1>2 DEF InvoicedQuotes
  <2>2. PICK last \in T : \A l \in T : l <= last
    BY <2>1, ConstantsAssumption
  <2>3. named[last].quote \in Accepted(o)
    BY <1>2, <2>2 DEF Accepted, InvoicedQuotes
  <2> QED BY <2>2, <2>3
<1> QED BY <1>3, <1>4, <1>5

\* The approved order's products become P, and its prices the active ones.
LEMMA ApproveStep ==
    ASSUME IInv, NEW o \in Orders, ApproveProformaInvoice(o)
    PROVE  IInv'
<1>0. /\ invoice[o].status = "Sent"
      /\ UNCHANGED line /\ UNCHANGED request /\ UNCHANGED issued
      /\ UNCHANGED resolving
      /\ order' = [order EXCEPT ![o] = "Approved"]
      /\ invoice' = [invoice EXCEPT ![o].status = "Approved"]
  BY DEF ApproveProformaInvoice
<1>1. /\ InvoicedQuotes(o) \subseteq Quotes
      /\ Accepted(o) \subseteq InvoicedQuotes(o)
      /\ OtherPrices(o) \subseteq Quotes
      /\ OtherPrices(o) \intersect Accepted(o) = {}
  BY AcceptedPrices DEF OtherPrices, Repriced, IInv, TypeOK
<1>2. \A p \in Orders : invoice'[p].lines = invoice[p].lines
  BY <1>0 DEF IInv, TypeOK
<1>3. \A q \in Quotes : quote'[q] = IF q \in Accepted(o) THEN "Accepted"
                                    ELSE IF q \in OtherPrices(o) THEN "Superseded"
                                    ELSE quote[q]
  BY DEF ApproveProformaInvoice
<1>4. TypeOK'
  <2>1. /\ order' \in [Orders -> {"none", "Imported", "PI Draft", "PI Sent",
                                  "Approved", "Cancelled"}]
        /\ invoice' \in [Orders ->
              [status : {"none", "Draft", "Sent", "Approved", "Cancelled"},
               lines : UNION {[S -> InvoiceLine] : S \in SUBSET Lines}]]
    BY <1>0, InvoiceStatus DEF IInv, TypeOK
  <2>2. quote' \in [Quotes -> {"Ready", "Sent", "Accepted", "Superseded"}]
    BY DEF ApproveProformaInvoice, IInv, TypeOK
  <2>3. active' \subseteq Quotes
    BY <1>1 DEF ApproveProformaInvoice, IInv, TypeOK
  <2>4. ordered' \subseteq Codes \X Items /\ converted' \subseteq Items
    <3>1. \A q \in InvoicedQuotes(o) : /\ <<CodeOf[q], ItemOf[q]>> \in Codes \X Items
                                        /\ TreeOf[q] \subseteq Items
      BY <1>1, ConstantsAssumption
    <3>2. /\ ordered' = ordered \union {<<CodeOf[q], ItemOf[q]>> : q \in InvoicedQuotes(o)}
          /\ converted' = converted \union UNION {TreeOf[q] : q \in InvoicedQuotes(o)}
          /\ ordered \subseteq Codes \X Items /\ converted \subseteq Items
      BY DEF ApproveProformaInvoice, IInv, TypeOK
    <3> QED BY <3>1, <3>2
  <2> QED BY <1>0, <2>1, <2>2, <2>3, <2>4 DEF IInv, TypeOK
<1>5. ApprovedQuotes' = ApprovedQuotes \union InvoicedQuotes(o)
  <2>1. \A p \in Orders : InvoicedQuotes(p)' = InvoicedQuotes(p)
    BY <1>2 DEF InvoicedQuotes
  <2>2. \A p \in Orders : order'[p] = "Approved" <=> p = o \/ order[p] = "Approved"
    BY <1>0 DEF IInv, TypeOK
  <2> QED BY <2>1, <2>2 DEF ApprovedQuotes
<1>6. StatusesAgree'
  <2>1. /\ ordered' = {<<CodeOf[q], ItemOf[q]>> : q \in ApprovedQuotes'}
        /\ converted' = UNION {TreeOf[q] : q \in ApprovedQuotes'}
    BY <1>5 DEF ApproveProformaInvoice, IInv, StatusesAgree
  <2> QED BY <1>0, <2>1 DEF IInv, TypeOK, StatusesAgree
<1>7. PricedAsQuoted'
  <2>1. \A q \in Quotes : quote[q] # "Ready" => quote'[q] # "Ready"
    BY <1>3
  <2>2. Present' = Present
    BY <1>0 DEF Present
  <2>3. ASSUME NEW l \in Lines, l \in Present PROVE LinePriced(l)'
    <3>1. line[l] \in Line /\ LinePriced(l)
      BY <2>3 DEF IInv, TypeOK, Present, PricedAsQuoted
    <3>2. line[l].quote \in Quotes \union {NoQuote}
      BY <3>1 DEF Line
    <3>3. line[l].quote # NoQuote => quote'[line[l].quote] # "Ready"
      BY <2>1, <3>1, <3>2 DEF LinePriced
    <3> QED BY <1>0, <3>1, <3>3 DEF LinePriced
  <2>4. \A p \in Orders : InvoicePriced(p)'
    BY <1>2, <2>1, SameInvoice
  <2>5. \A l \in Lines \ Present : request'[l] = NoRequest
    BY <1>0 DEF IInv, PricedAsQuoted
  <2> QED BY <2>2, <2>3, <2>4, <2>5 DEF PricedAsQuoted, Present
<1>8. ActivePrices'
  <2>0. active' = (active \ OtherPrices(o)) \union Accepted(o)
    BY DEF ApproveProformaInvoice
  <2>1. active' = {q \in Quotes : quote'[q] \in Sendable}
    BY <1>1, <1>3, <2>0 DEF IInv, ActivePrices, Sendable
  <2>2. ASSUME NEW q \in active', NEW r \in active', CodeOf[q] = CodeOf[r]
        PROVE  q = r
    <3>1. CASE q \in Accepted(o) /\ r \in Accepted(o)
      BY <2>2, <3>1, AcceptedPrices
    <3>2. CASE q \in Accepted(o) /\ r \notin Accepted(o)
      BY <1>1, <2>0, <2>2, <3>2 DEF OtherPrices, Repriced
    <3>3. CASE q \notin Accepted(o) /\ r \in Accepted(o)
      BY <1>1, <2>0, <2>2, <3>3 DEF OtherPrices, Repriced
    <3>4. CASE q \notin Accepted(o) /\ r \notin Accepted(o)
      BY <2>0, <2>2, <3>4 DEF IInv, ActivePrices
    <3> QED BY <3>1, <3>2, <3>3, <3>4
  <2>3. ASSUME NEW q \in Quotes, quote'[q] # "Ready"
        PROVE  \E r \in active' : CodeOf[r] = CodeOf[q]
    <3>1. CASE \E s \in InvoicedQuotes(o) : CodeOf[s] = CodeOf[q]
      BY <2>0, <3>1, AcceptedPrices
    <3>2. CASE ~ \E s \in InvoicedQuotes(o) : CodeOf[s] = CodeOf[q]
      <4>1. q \notin Accepted(o) /\ q \notin OtherPrices(o)
        BY <1>1, <3>2 DEF OtherPrices, Repriced
      <4>2. PICK r \in active : CodeOf[r] = CodeOf[q]
        BY <1>3, <2>3, <4>1 DEF IInv, ActivePrices
      <4>3. r \notin OtherPrices(o)
        BY <3>2, <4>2 DEF OtherPrices, Repriced
      <4> QED BY <2>0, <4>2, <4>3
    <3> QED BY <3>1, <3>2
  <2> QED BY <2>1, <2>2, <2>3 DEF ActivePrices
<1> QED BY <1>4, <1>6, <1>7, <1>8 DEF IInv

------------------------------------------------------------------------------
(* Prices.                                                                *)

\* Sending a quote takes the place of the code's active price.
LEMMA SendStep ==
    ASSUME IInv, NEW q \in Quotes, SendQuote(q)
    PROVE  IInv'
<1> DEFINE others == {r \in active \ {q} : CodeOf[r] = CodeOf[q]}
<1>0. /\ UNCHANGED line /\ UNCHANGED request /\ UNCHANGED issued
      /\ UNCHANGED resolving /\ UNCHANGED order /\ UNCHANGED invoice
      /\ UNCHANGED ordered /\ UNCHANGED converted
      /\ quote' = [r \in Quotes |-> IF r = q THEN "Sent"
                                    ELSE IF r \in others THEN "Superseded"
                                    ELSE quote[r]]
      /\ active' = (active \ others) \union {q}
  BY DEF SendQuote
<1>1. TypeOK'
  BY <1>0 DEF IInv, TypeOK
<1>2. \A r \in Quotes : quote[r] # "Ready" => quote'[r] # "Ready"
  BY <1>0
<1>3. StatusesAgree' /\ PricedAsQuoted'
  BY <1>0, <1>2, LaterQuotes
<1>4. ActivePrices'
  <2>1. active' = {r \in Quotes : quote'[r] \in Sendable}
    BY <1>0 DEF IInv, ActivePrices, Sendable
  <2>2. \A r \in active', t \in active' : CodeOf[r] = CodeOf[t] => r = t
    BY <1>0 DEF IInv, ActivePrices
  <2>3. \A r \in Quotes : quote'[r] # "Ready" => \E t \in active' : CodeOf[t] = CodeOf[r]
    BY <1>0 DEF IInv, ActivePrices
  <2> QED BY <2>1, <2>2, <2>3 DEF ActivePrices
<1> QED BY <1>1, <1>3, <1>4 DEF IInv

\* A revision takes the place of the price it revises.
LEMMA ReviseStep ==
    ASSUME IInv, NEW prior \in Quotes, NEW q \in Quotes, ReviseQuote(prior, q)
    PROVE  IInv'
<1>0. /\ UNCHANGED line /\ UNCHANGED request /\ UNCHANGED issued
      /\ UNCHANGED resolving /\ UNCHANGED order /\ UNCHANGED invoice
      /\ UNCHANGED ordered /\ UNCHANGED converted
      /\ quote[q] = "Ready" /\ quote[prior] # "Ready"
      /\ CodeOf[q] = CodeOf[prior]
      /\ \A r \in active : CodeOf[r] = CodeOf[q] => r = prior
      /\ quote' = [quote EXCEPT ![prior] = "Superseded", ![q] = "Sent"]
      /\ active' = (active \ {prior}) \union {q}
  BY DEF ReviseQuote
<1>1. TypeOK'
  BY <1>0 DEF IInv, TypeOK
<1>2. \A r \in Quotes : quote[r] # "Ready" => quote'[r] # "Ready"
  BY <1>0 DEF IInv, TypeOK
<1>3. StatusesAgree' /\ PricedAsQuoted'
  BY <1>0, <1>2, LaterQuotes
<1>4. ActivePrices'
  <2>0. \A r \in Quotes : quote'[r] = IF r = q THEN "Sent"
                                     ELSE IF r = prior THEN "Superseded"
                                     ELSE quote[r]
    BY <1>0 DEF IInv, TypeOK
  <2>1. active' = {r \in Quotes : quote'[r] \in Sendable}
    <3>1. q # prior /\ active \subseteq Quotes
      BY <1>0 DEF IInv, TypeOK
    <3>2. \A r \in Quotes : r \in active <=> quote[r] \in Sendable
      BY DEF IInv, ActivePrices
    <3>3. ASSUME NEW r \in Quotes
          PROVE  r \in active' <=> quote'[r] \in Sendable
      <4>1. CASE r = q
        BY <1>0, <2>0, <4>1 DEF Sendable
      <4>2. CASE r = prior
        <5>1. r \notin active' /\ quote'[r] = "Superseded"
          BY <1>0, <2>0, <3>1, <4>2
        <5> QED BY <5>1 DEF Sendable
      <4>3. CASE r # q /\ r # prior
        <5>1. quote'[r] = quote[r] /\ (r \in active' <=> r \in active)
          BY <1>0, <2>0, <4>3
        <5> QED BY <5>1, <3>2
      <4> QED BY <4>1, <4>2, <4>3
    <3> QED BY <1>0, <3>1, <3>3
  <2>2. \A r \in active', t \in active' : CodeOf[r] = CodeOf[t] => r = t
    BY <1>0 DEF IInv, ActivePrices
  <2>3. \A r \in Quotes : quote'[r] # "Ready" => \E t \in active' : CodeOf[t] = CodeOf[r]
    BY <1>0 DEF IInv, TypeOK, ActivePrices
  <2> QED BY <2>1, <2>2, <2>3 DEF ActivePrices
<1> QED BY <1>1, <1>3, <1>4 DEF IInv

\* The list of a server action is no part of the invariant.
LEMMA ListStep ==
    ASSUME IInv, NEW q \in Quotes, ListResolvable(q) \/ AbandonList(q)
    PROVE  IInv'
<1>0. /\ UNCHANGED line /\ UNCHANGED request /\ UNCHANGED issued
      /\ UNCHANGED order /\ UNCHANGED invoice /\ UNCHANGED quote
      /\ UNCHANGED active /\ UNCHANGED ordered /\ UNCHANGED converted
  BY DEF ListResolvable, AbandonList, prices
<1>1. TypeOK'
  BY <1>0 DEF IInv, TypeOK, ListResolvable, AbandonList
<1>2. ApprovedQuotes' = ApprovedQuotes
  BY <1>0, SameApproved
<1>3. StatusesAgree'
  BY <1>0, <1>2 DEF IInv, StatusesAgree
<1>4. PricedAsQuoted' /\ ActivePrices'
  BY <1>0, SamePrices
<1> QED BY <1>1, <1>3, <1>4 DEF IInv

------------------------------------------------------------------------------
\* Every step preserves the inductive invariant.
LEMMA NextIInv == IInv /\ [Next]_vars => IInv'
<1> SUFFICES ASSUME IInv, [Next]_vars PROVE IInv'
  OBVIOUS
<1>1. ASSUME NEW o \in Orders,
             \/ CreatePurchaseOrder(o)
             \/ \E added \in SUBSET Lines : ImportLines(o, added)
             \/ GenerateProformaInvoice(o) \/ StoreIssuedSet(o)
             \/ MarkProformaInvoiceSent(o) \/ ApproveProformaInvoice(o)
             \/ CancelPurchaseOrder(o)
      PROVE  IInv'
  BY <1>1, CreateStep, ImportStep, GenerateStep, StoreStep, StatusStep, ApproveStep
<1>2. ASSUME NEW l \in Lines, AcceptPOPrice(l) \/ KeepOurPrice(l) \/ RequestQuote(l)
      PROVE  IInv'
  BY <1>2, AcceptStep, KeepStep, RequestStep
<1>3. ASSUME NEW q \in Quotes,
             \/ SendQuote(q) \/ ListResolvable(q) \/ AbandonList(q)
             \/ \E prior \in Quotes : ReviseQuote(prior, q)
             \/ \E l \in Lines : ResolveRequest(q, l)
      PROVE  IInv'
  BY <1>3, SendStep, ListStep, ReviseStep, ResolveStep
<1>4. CASE UNCHANGED vars
  <2>0. /\ UNCHANGED line /\ UNCHANGED request /\ UNCHANGED issued
        /\ UNCHANGED order /\ UNCHANGED invoice /\ UNCHANGED quote
        /\ UNCHANGED active /\ UNCHANGED ordered /\ UNCHANGED converted
        /\ UNCHANGED resolving
    BY <1>4 DEF vars
  <2>1. ApprovedQuotes' = ApprovedQuotes
    BY <2>0, SameApproved
  <2>2. PricedAsQuoted' /\ ActivePrices'
    BY <2>0, SamePrices
  <2> QED BY <2>0, <2>1, <2>2 DEF IInv, TypeOK, StatusesAgree
<1> QED BY <1>1, <1>2, <1>3, <1>4 DEF Next

\* The inductive invariant holds in every reachable state.
THEOREM Invariance == Spec => []IInv
BY InitIInv, NextIInv, PTL DEF Spec

\* commercial-orders.ts keeps orders, lines, requests and invoices well-typed.
THEOREM TypeCorrect == Spec => []TypeOK
<1>1. IInv => TypeOK
  BY DEF IInv
<1> QED BY <1>1, Invariance, PTL

\* markProformaInvoiceSent, approveProformaInvoice and cancelPurchaseOrder keep
\* every order, its invoice, its stored documents and the Q/P mapping together.
THEOREM OrdersAgree == Spec => []StatusesAgree
<1>1. IInv => StatusesAgree
  BY DEF IInv
<1> QED BY <1>1, Invariance, PTL

\* decidePurchaseOrderLinePrice, resolveQuoteRevisionRequest and
\* generateProformaInvoice never bill a price that no sent quote names.
THEOREM NothingUnquoted == Spec => []PricedAsQuoted
<1>1. IInv => PricedAsQuoted
  BY DEF IInv
<1> QED BY <1>1, Invariance, PTL

\* Sending, revising and approving leave each quoted code one active price.
THEOREM OneActivePrice == Spec => []ActivePrices
<1>1. IInv => ActivePrices
  BY DEF IInv
<1> QED BY <1>1, Invariance, PTL
=============================================================================
