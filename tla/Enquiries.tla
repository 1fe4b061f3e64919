------------------------------ MODULE Enquiries ------------------------------
(***************************************************************************)
(* One customer enquiry from its lines to the quotation Sales sends, and   *)
(* the revisions of a quotation that was sent or is ready.  It models      *)
(* packages/db/src/commercial-workflow.ts (lines, technical review,        *)
(* clarifications, design), commercial-costing.ts (product and customer    *)
(* costing, sending), enquiry-revisions.ts, quotation-versions.ts and the  *)
(* ECN steps of commercial-revisions.ts.                                   *)
(*                                                                         *)
(* Every operation is one transaction under the lock of the line, the      *)
(* enquiry or the ECN: one action.  What makes them hard is that six       *)
(* fields, written by six departments, are the state of one line.          *)
(*                                                                         *)
(* A price is the version of the pricing terms and the design revision it  *)
(* was computed from.  Statuses are written without their blanks; the      *)
(* review "Duplicate / Existing Product" is Feasible and "Cannot Quote"    *)
(* NotFeasible, the design status "Drawings Pending" is InProgress.  Each  *)
(* line has a product of its own and one it may be matched with.  The      *)
(* enquiry has no purchase order yet: from there, and for revisions of     *)
(* active prices, see PurchaseOrders.                                      *)
(* Names Name_Variant are plausible bugs in the code that Name models and  *)
(* no part of the specification.                                           *)
(***************************************************************************)
EXTENDS Naturals, Sequences, FiniteSetsExt

CONSTANTS Lines,   \* sales.enquiry_items that may be added
          Starts   \* [ready, left]: lines whose product is costed at the
                   \* start, and how many steps back the behaviour may hold

ASSUME EnquiriesAssumption == Starts \subseteq [ready : SUBSET Lines, left : Nat]

VARIABLES line,     \* sales.enquiry_items with design_tasks and open
                    \* clarification_tasks
          quotes,   \* root sales.quote_items of each line, oldest first
          ecn,      \* engineering_change_notes of the line's last revision
          handed,   \* technical_handover_status = Handed Over
          request,  \* kind of the open enquiry_revision_requests
          draft,    \* the newest quotation_versions is a draft
          terms,    \* version of Incoterms, Packaging and Currency
          missed,   \* history: quoted lines that were NotFeasible when the
                    \* terms changed and were not costed again since
          left      \* steps back that may follow

vars == <<line, quotes, ecn, handed, request, draft, terms, missed, left>>

Absent == [review |-> "none"]

\* No design task: design "none".
Fresh == [review |-> "PendingReview", design |-> "none",
          next |-> "NotStarted", started |-> FALSE, product |-> "none",
          made |-> FALSE, asked |-> {}, stage |-> "none", recost |-> FALSE,
          rev |-> 0, was |-> 0]

Line ==
    [review : {"PendingReview", "Feasible", "NeedClarification",
               "NotFeasible"},
     design : {"none", "PendingDesign", "InProgress", "ChangesRequired",
               "NeedClarification", "DesignComplete", "NotRequired"},
     next : {"NotStarted", "ProductCosting", "ProductCostingComplete",
             "Started", "Quoted", "ChangesRequired"},
     started : BOOLEAN,                  \* audit event design.started
     product : {"none", "own", "match"}, \* quoted_part_uid, matched_product_id
     made : BOOLEAN,                     \* its own part is in the catalogue
     asked : SUBSET {"Sales", "Technical", "Design"},
     stage : {"none", "Sales", "Design", "ProductCosting",
              "CustomerCosting", "ReadyToSend"},
     recost : BOOLEAN,                   \* customer_recost_required
     rev : Nat,                          \* released design revisions
     was : Nat]                          \* quotes when the revision began

Quote == [status : {"Draft", "Ready", "Sent", "Superseded"},
          product : {"own", "match"}, terms : Nat, rev : Nat]

Present == {l \in Lines : line[l] # Absent}

TypeOK ==
    /\ \A l \in Present : line[l] \in Line
    /\ quotes \in [Lines -> Seq(Quote)]
    /\ ecn \in [Lines -> [status : {"none", "PendingDesign",
                                    "PendingDesignApproval",
                                    "PendingProductCosting",
                                    "PendingCustomerCosting", "Completed"},
                          others : BOOLEAN]]
    /\ handed \in BOOLEAN
    /\ request \in {"none", "Terms", "Pricing", "Technical"}
    /\ draft \in BOOLEAN
    /\ terms \in Nat
    /\ missed \subseteq Lines
    /\ left \in Nat

\* Lines that are not absent have been through design and product costing.
Costed == [Fresh EXCEPT !.review = "Feasible", !.design = "DesignComplete",
                        !.next = "ProductCostingComplete",
                        !.started = TRUE, !.product = "own", !.made = TRUE]

Init ==
    /\ \E start \in Starts :
         /\ line = [l \in Lines |-> IF l \in start.ready THEN Costed ELSE Absent]
         /\ handed = (start.ready # {})
         /\ left = start.left
    /\ quotes = [l \in Lines |-> <<>>]
    /\ ecn = [l \in Lines |-> [status |-> "none", others |-> FALSE]]
    /\ request = "none"
    /\ draft = FALSE
    /\ terms = 0
    /\ missed = {}

-------------------------------------------------------------------------------
\* A step back, or out of turn.
Back == left > 0 /\ left' = left - 1

\* The newest quote of the line with such a status; 0 if there is none.
Newest(l, statuses) ==
    Max({0} \union {i \in DOMAIN quotes[l] : quotes[l][i].status \in statuses})

Current == {"Draft", "Ready", "Sent"}

Feasible == {l \in Present : line[l].review # "NotFeasible"}

Revised == {l \in Present : line[l].stage # "none"}

\* salesIntakeLockedSql; lines under revision have quotes.
Locked(l) ==
    \/ line[l].design \notin {"none", "PendingDesign", "NotRequired"}
    \/ line[l].next \in {"ProductCosting", "ChangesRequired", "Started",
                         "Quoted"}
    \/ line[l].started
    \/ quotes[l] # <<>>

-------------------------------------------------------------------------------
(* Sales: lines and their handover. *)

\* addEnquiryItem is open whatever has become of the other lines.
AddItem(l) ==
    /\ line[l] = Absent
    /\ line' = [line EXCEPT ![l] = Fresh]
    /\ UNCHANGED <<quotes, ecn, handed, request, draft, terms, missed, left>>

\* The task Sales had is resolved; those of other departments stay open.
Answered_All(asked) == {}
Answered(asked) == asked \ {"Sales"}

\* updateEnquiryItem: back to Technical Review without a design task.
UpdateItem(l) ==
    /\ Back
    /\ l \in Present /\ ~Locked(l)
    /\ line' = [line EXCEPT ![l] =
         [Fresh EXCEPT !.asked = Answered(line[l].asked),
                       !.recost = line[l].recost]]
    /\ UNCHANGED <<quotes, ecn, handed, request, draft, terms, missed>>

\* deleteEnquiryItems; deleteEnquiry deletes all of them on this condition.
DeleteItem(l) ==
    /\ Back
    /\ l \in Present /\ ~Locked(l)
    /\ line' = [line EXCEPT ![l] = Absent]
    /\ handed' = (handed /\ Present # {l})
    /\ UNCHANGED <<quotes, ecn, request, draft, terms, missed>>

HandOverToTechnicalReview ==
    /\ ~handed
    /\ Present # {}
    /\ handed' = TRUE
    /\ UNCHANGED <<line, quotes, ecn, request, draft, terms, missed, left>>

-------------------------------------------------------------------------------
(* Technical review and clarifications. *)

\* updateTechnicalReview, at any time after the handover.
UpdateTechnicalReview(l, status) ==
    /\ handed /\ l \in Present
    /\ IF status = "Feasible" THEN UNCHANGED left ELSE Back
    /\ line' = [line EXCEPT ![l].review = status,
         ![l].asked = CASE status = "NeedClarification" -> @ \union {"Sales"}
                        [] status = "Feasible" -> @ \ {"Technical"}
                        [] OTHER -> @,
         ![l].design = IF status = "Feasible" /\ @ = "NeedClarification"
                       THEN "PendingDesign" ELSE @]
    /\ UNCHANGED <<quotes, ecn, handed, request, draft, terms, missed>>

\* completeSalesClarification: once work has started, no more than a reply.
\* Before, the line goes back to review, or takes the product of a quote
\* this customer has had.
CompleteSalesClarification(l, matched) ==
    LET answered == [line[l] EXCEPT !.asked = Answered(@)]
    IN  /\ l \in Present /\ "Sales" \in line[l].asked
        /\ Locked(l) => ~matched
        /\ line' = [line EXCEPT ![l] =
             CASE Locked(l) -> answered
               [] matched -> [answered EXCEPT !.review = "Feasible",
                                !.product = "match", !.design = "NotRequired",
                                !.next = "ProductCostingComplete"]
               [] OTHER -> [answered EXCEPT !.review = "PendingReview"]]
        /\ UNCHANGED <<quotes, ecn, handed, request, draft, terms, missed, left>>

\* requestDesignClarification, Design to Technical.
AskTechnical(l) ==
    /\ Back
    /\ l \in Present
    /\ line' = [line EXCEPT ![l].review = "NeedClarification",
         ![l].asked = @ \union {"Technical"},
         ![l].design = IF @ = "none" THEN @ ELSE "NeedClarification"]
    /\ UNCHANGED <<quotes, ecn, handed, request, draft, terms, missed>>

\* requestDesignClarification, Product Costing to Design.
AskDesign(l) ==
    /\ Back
    /\ l \in Present /\ line[l].design # "none"
    /\ line[l].next \notin {"Started", "Quoted"}
    /\ line' = [line EXCEPT ![l].design = "ChangesRequired",
                            ![l].next = "ChangesRequired",
                            ![l].asked = @ \union {"Design"}]
    /\ UNCHANGED <<quotes, ecn, handed, request, draft, terms, missed>>

-------------------------------------------------------------------------------
(* Design and product costing. *)

StartDesignWork(l) ==
    /\ l \in Present /\ line[l].review = "Feasible"
    /\ line[l].design \in {"none", "PendingDesign", "InProgress",
                           "ChangesRequired"}
    /\ line' = [line EXCEPT ![l].started = TRUE,
         ![l].design = IF @ \in {"none", "PendingDesign"} THEN "InProgress"
                       ELSE @]
    /\ UNCHANGED <<quotes, ecn, handed, request, draft, terms, missed, left>>

Done == {"DesignComplete", "NotRequired"}

\* designTaskIsEditable
Editable(l) == \/ line[l].design \notin Done
               \/ line[l].next \in {"NotStarted", "ChangesRequired"}

\* deriveDesignTaskState: matched with the portfolio, complete, or not yet.
Designed(rec, design) ==
    [rec EXCEPT !.design = design,
                !.product = IF design = "NotRequired" THEN "match" ELSE "own",
                !.next = IF design = "NotRequired"
                         THEN "ProductCostingComplete" ELSE @,
                !.asked = IF design \in Done THEN @ \ {"Design"} ELSE @]

SaveDesign(l, design) ==
    /\ l \in Present /\ line[l].review = "Feasible" /\ Editable(l)
    /\ line' = [line EXCEPT ![l] = Designed(@, design)]
    /\ UNCHANGED <<quotes, ecn, handed, request, draft, terms, missed, left>>

\* prepareCostingFromDesign puts a new part into the catalogue.
PrepareCosting(l) ==
    /\ l \in Present /\ line[l].design \in Done
    /\ line[l].next \in {"NotStarted", "ChangesRequired"}
    /\ line' = [line EXCEPT
         ![l].next = IF line[l].product = "match"
                     THEN "ProductCostingComplete" ELSE "ProductCosting",
         ![l].made = @ \/ line[l].product = "own"]
    /\ UNCHANGED <<quotes, ecn, handed, request, draft, terms, missed, left>>

InCatalogue(l) ==
    line[l].product = "match" \/ (line[l].product = "own" /\ line[l].made)

\* updateProductCostParameters asks for nothing but the product.
UpdateProductCost(l, complete) ==
    /\ l \in Present /\ InCatalogue(l)
    /\ IF line[l].next = "ProductCosting" /\ complete
       THEN UNCHANGED left ELSE Back
    /\ line' = [line EXCEPT ![l].next =
         IF complete THEN "ProductCostingComplete" ELSE "ProductCosting"]
    /\ UNCHANGED <<quotes, ecn, handed, request, draft, terms, missed>>

-------------------------------------------------------------------------------
(* Customer costing. *)

\* The quote persistQuote finds: the newest of the line for its product.
Latest(l) ==
    Max({0} \union {i \in DOMAIN quotes[l] :
                      /\ quotes[l][i].status \in Current
                      /\ quotes[l][i].product = line[l].product})

IsDraft(l, i) == i # 0 /\ quotes[l][i].status = "Draft"

Priced(l, status) == [status |-> status, product |-> line[l].product,
                      terms |-> terms, rev |-> line[l].rev]

\* The other ready quotes of the product are superseded when a line that
\* had to be costed again is complete.
Saved(l, status) ==
    LET i == IF IsDraft(l, Latest(l)) THEN Latest(l) ELSE Len(quotes[l]) + 1
    IN  [j \in 1 .. Max({i, Len(quotes[l])}) |->
           IF j = i THEN Priced(l, status)
           ELSE IF /\ line[l].recost /\ status = "Ready"
                   /\ quotes[l][j].status = "Ready"
                   /\ quotes[l][j].product = line[l].product
           THEN [quotes[l][j] EXCEPT !.status = "Superseded"]
           ELSE quotes[l][j]]

\* saveQuote looks neither at the review nor at the design of the line.
SaveQuote(l, status) ==
    LET complete == status = "Ready"
    IN  /\ l \in Present /\ InCatalogue(l)
        /\ line[l].stage \notin {"Sales", "Design", "ProductCosting"}
        /\ \/ line[l].product = "match"
           \/ line[l].next \in {"ProductCostingComplete", "Started", "Quoted"}
        /\ Latest(l) = 0 \/ IsDraft(l, Latest(l)) \/ line[l].recost
        /\ quotes' = [quotes EXCEPT ![l] = Saved(l, status)]
        /\ line' = [line EXCEPT
             ![l].next = IF complete THEN "Quoted" ELSE "Started",
             ![l].recost = @ /\ ~complete,
             ![l].stage = IF complete /\ @ # "none" THEN "ReadyToSend" ELSE @]
        /\ ecn' = IF /\ complete
                     /\ ecn[l] = [status |-> "PendingCustomerCosting",
                                  others |-> FALSE]
                  THEN [ecn EXCEPT ![l].status = "Completed"] ELSE ecn
        /\ missed' = IF complete THEN missed \ {l} ELSE missed
        /\ UNCHANGED <<handed, request, draft, terms, left>>

\* sendQuoteBackToProductCosting
SendBack(l) ==
    /\ Back
    /\ l \in Present /\ InCatalogue(l) /\ line[l].design # "none"
    /\ Latest(l) = 0 \/ IsDraft(l, Latest(l))
    /\ line' = [line EXCEPT ![l].next = "ProductCosting"]
    /\ UNCHANGED <<quotes, ecn, handed, request, draft, terms, missed>>

\* reverseDesignCostingHandoff
ReverseHandoff(l) ==
    /\ Back
    /\ l \in Present /\ line[l].design \in Done /\ line[l].next = "Started"
    /\ line' = [line EXCEPT ![l].next = "NotStarted"]
    /\ UNCHANGED <<quotes, ecn, handed, request, draft, terms, missed>>

-------------------------------------------------------------------------------
(* Revisions of the enquiry. *)

\* The line has been quoted, and nothing waits to be costed.
Revisable(l) == Newest(l, {"Ready", "Sent"}) # 0 /\ ~line[l].recost

RevisedLine(rec, kind, count) ==
    [rec EXCEPT !.was = count,
       !.stage = CASE kind = "Terms" -> "Sales"
                   [] kind = "Pricing" -> "CustomerCosting"
                   [] kind = "Technical" -> "Design",
       !.recost = kind # "Terms",
       !.next = CASE kind = "Pricing" -> "ProductCostingComplete"
                  [] kind = "Technical" -> "Quoted"
                  [] OTHER -> @]

\* requestEnquiryRevision; a Terms revision takes every line.
RequestRevision(kind, ls) ==
    /\ Back
    /\ request = "none"
    /\ ls # {} /\ ls \subseteq Feasible
    /\ kind = "Terms" => ls = Feasible
    /\ \A l \in ls :
         /\ Revisable(l)
         /\ kind = "Pricing" =>
              line[l].next \in {"ProductCostingComplete", "Started", "Quoted"}
         /\ kind = "Technical" => ecn[l].status \in {"none", "Completed"}
    /\ request' = kind
    /\ draft' = TRUE
    /\ line' = [l \in Lines |->
         IF l \in ls THEN RevisedLine(line[l], kind, Len(quotes[l])) ELSE line[l]]
    /\ ecn' = [l \in Lines |->
         IF l \in ls /\ kind = "Technical"
         THEN [status |-> "PendingDesign", others |-> FALSE] ELSE ecn[l]]
    /\ UNCHANGED <<quotes, handed, terms, missed>>

\* updateEnquiry with other terms than those the price depends on:
\* prepareTermsRevision copies the quotes a Terms revision began with.
SaveTerms ==
    LET ls == {l \in Present : line[l].stage = "Sales"}
        previous(l) == Max({i \in 1 .. line[l].was :
                              quotes[l][i].status \in {"Ready", "Sent"}})
    IN  /\ request = "Terms" /\ ls # {}
        /\ quotes' = [l \in Lines |->
             IF l \in ls
             THEN Append(quotes[l],
                         [quotes[l][previous(l)] EXCEPT !.status = "Ready"])
             ELSE quotes[l]]
        /\ line' = [l \in Lines |->
             IF l \in ls THEN [line[l] EXCEPT !.stage = "ReadyToSend"]
             ELSE line[l]]
        /\ UNCHANGED <<ecn, handed, request, draft, terms, missed, left>>

\* Costing of the open revision has begun.
PricingStarted_Drafted(l) ==
    \E i \in DOMAIN quotes[l] :
        i > line[l].was /\ quotes[l][i].status = "Draft"
PricingStarted(l) ==
    \/ line[l].stage = "ReadyToSend"
    \/ \E i \in DOMAIN quotes[l] :
         i > line[l].was /\ quotes[l][i].status = "Draft"

\* The lines whose price new terms call into question: those in reach, and
\* those marked earlier, whose tasks are found by the mark.
Marked == {l \in Present : line[l].recost}

Recosted_OwnLines == (Feasible \intersect Revised) \union Marked
Recosted == Feasible \union Marked

\* updateEnquiry with new Incoterms, Packaging or Currency, once there are
\* quotes; without them nothing here depends on the terms.
UpdateTerms ==
    /\ Back
    /\ \E l \in Lines : quotes[l] # <<>>
    /\ request \in {"Pricing", "Technical"}
    /\ \A l \in Revised : ~PricingStarted(l)
    /\ terms' = terms + 1
    /\ line' = [l \in Lines |->
         IF l \in Recosted
         THEN [line[l] EXCEPT !.recost = TRUE,
                 !.next = IF @ = "Quoted" THEN "ProductCostingComplete"
                          ELSE @]
         ELSE line[l]]
    /\ missed' = missed \union {l \in Present \ (Feasible \union Marked) :
                                 quotes[l] # <<>>}
    /\ UNCHANGED <<quotes, ecn, handed, request, draft>>

-------------------------------------------------------------------------------
(* The ECN of a technical revision. *)

\* completeEngineeringChangeDesign
SubmitDesign(l) ==
    /\ ecn[l].status = "PendingDesign"
    /\ ecn' = [ecn EXCEPT ![l].status = "PendingDesignApproval"]
    /\ UNCHANGED <<line, quotes, handed, request, draft, terms, missed, left>>

\* applyEngineeringChangeDesignReview: the new design revision is released.
ApproveDesign(l) ==
    /\ ecn[l].status = "PendingDesignApproval"
    /\ ecn' = [ecn EXCEPT ![l].status = "PendingProductCosting"]
    /\ line' = [line EXCEPT ![l].rev = @ + 1,
         ![l].stage = IF @ = "Design" THEN "ProductCosting" ELSE @]
    /\ UNCHANGED <<quotes, handed, request, draft, terms, missed, left>>

RejectDesign(l) ==
    /\ Back
    /\ ecn[l].status = "PendingDesignApproval"
    /\ ecn' = [ecn EXCEPT ![l].status = "PendingDesign"]
    /\ UNCHANGED <<line, quotes, handed, request, draft, terms, missed>>

\* completeEngineeringChangeProductCosting; "others": active prices of other
\* enquiries contain the product and wait for decisions of their own.
CompleteProductCosting(l, others) ==
    /\ ecn[l].status = "PendingProductCosting"
    /\ LET requested == line[l].stage = "ProductCosting"
       IN  /\ ecn' = [ecn EXCEPT ![l] =
                [status |-> IF requested \/ others
                            THEN "PendingCustomerCosting" ELSE "Completed",
                 others |-> others]]
           /\ line' = IF requested
                      THEN [line EXCEPT ![l].stage = "CustomerCosting",
                                        ![l].next = "ProductCostingComplete"]
                      ELSE line
    /\ UNCHANGED <<quotes, handed, request, draft, terms, missed, left>>

\* applyEngineeringChangeDecision on the last of the other prices.
DecideOthers(l) ==
    /\ ecn[l] = [status |-> "PendingCustomerCosting", others |-> TRUE]
    /\ ecn' = [ecn EXCEPT ![l].status = "Completed"]
    /\ UNCHANGED <<line, quotes, handed, request, draft, terms, missed, left>>

-------------------------------------------------------------------------------
(* Sending. *)

\* assertRevisionCanSend, customer_recost_required and pendingQuoteLines.
Sendable ==
    /\ \A l \in Present : /\ ~line[l].recost
                          /\ line[l].stage \in {"none", "ReadyToSend"}
    /\ \A l \in Feasible :
         Newest(l, Current) # 0 /\ ~IsDraft(l, Newest(l, Current))

\* The ready quotes of all feasible lines, and the one that was asked for.
Batch(l, chosen) ==
    {i \in DOMAIN quotes[l] :
       \/ /\ l \in Feasible
          /\ i = Newest(l, Current)
          /\ quotes[l][i].status = "Ready"
       \/ chosen = <<l, i>>}

\* transitionQuoteToSent: each quote of the batch becomes the active price of
\* its line; of two on one line, the one the loop comes to last.
Send(chosen) ==
    LET sent == {l \in Lines : Batch(l, chosen) # {}}
    IN  /\ quotes[chosen[1]][chosen[2]].status = "Ready"
        /\ Sendable
        /\ \E active \in [sent -> UNION {DOMAIN quotes[l] : l \in sent}] :
             /\ \A l \in sent : active[l] \in Batch(l, chosen)
             /\ quotes' = [l \in Lines |-> [i \in DOMAIN quotes[l] |->
                  CASE l \in sent /\ active[l] = i ->
                         [quotes[l][i] EXCEPT !.status = "Sent"]
                    [] /\ l \in sent /\ active[l] # i
                       /\ \/ i \in Batch(l, chosen)
                          \/ quotes[l][i].status = "Sent" ->
                         [quotes[l][i] EXCEPT !.status = "Superseded"]
                    [] OTHER -> quotes[l][i]]]
        /\ line' = [l \in Lines |->
             IF l \in Present
             THEN [line[l] EXCEPT !.stage = "none", !.was = 0,
                                  !.next = IF l \in sent THEN "Quoted" ELSE @]
             ELSE Absent]
        /\ request' = "none"
        /\ draft' = FALSE
        /\ UNCHANGED <<ecn, handed, terms, missed, left>>

-------------------------------------------------------------------------------
Next ==
    \/ HandOverToTechnicalReview
    \/ SaveTerms
    \/ UpdateTerms
    \/ \E kind \in {"Terms", "Pricing", "Technical"}, ls \in SUBSET Lines :
         RequestRevision(kind, ls)
    \/ \E l \in Lines :
         \/ AddItem(l)
         \/ UpdateItem(l)
         \/ DeleteItem(l)
         \/ \E status \in {"Feasible", "NeedClarification", "NotFeasible"} :
              UpdateTechnicalReview(l, status)
         \/ \E matched \in BOOLEAN : CompleteSalesClarification(l, matched)
         \/ AskTechnical(l)
         \/ AskDesign(l)
         \/ StartDesignWork(l)
         \/ \E design \in {"InProgress"} \union Done : SaveDesign(l, design)
         \/ PrepareCosting(l)
         \/ \E complete \in BOOLEAN : UpdateProductCost(l, complete)
         \/ \E status \in {"Draft", "Ready"} : SaveQuote(l, status)
         \/ SendBack(l)
         \/ ReverseHandoff(l)
         \/ SubmitDesign(l)
         \/ ApproveDesign(l)
         \/ RejectDesign(l)
         \/ \E others \in BOOLEAN : CompleteProductCosting(l, others)
         \/ DecideOthers(l)
         \/ \E i \in DOMAIN quotes[l] : Send(<<l, i>>)

Spec == Init /\ [][Next]_vars

-------------------------------------------------------------------------------
(* Properties. *)

IsSent(l, i) == i \in DOMAIN quotes[l] /\ quotes[l][i].status = "Sent"

\* All quotes of the line are for the product it has now.  Nothing withdraws
\* those of another product when the design is reopened and matched anew.
OneProduct(l) ==
    \A i \in DOMAIN quotes[l] : quotes[l][i].product = line[l].product

\* Whenever a quotation goes out, every line that is not Cannot Quote has an
\* active price, computed from the present Incoterms, Packaging and Currency
\* and the design revision released last, whichever revision changed them and
\* whichever lines it was requested for (updateEnquiry, saveQuote,
\* transitionQuoteToSent).
SentAtCurrentTerms ==
    [][(\E l \in Lines : \E i \in DOMAIN quotes[l] :
          IsSent(l, i)' /\ ~IsSent(l, i))
       => \A l \in Feasible \ missed : OneProduct(l) =>
            \E i \in DOMAIN quotes[l] :
                /\ IsSent(l, i)'
                /\ quotes[l][i].terms = terms
                /\ quotes[l][i].rev = line[l].rev]_vars

\* The stage of a line, its ECN, the open request, the quotation version and
\* the recosting flag, which five operations write, agree: each stage has the
\* work that ends it, and work that was asked for has its stage
\* (requestEnquiryRevision, updateEnquiry, saveQuote, the ECN steps).
RevisionStages ==
    /\ draft <=> request # "none"
    /\ Revised = {} <=> request = "none"
    /\ \A l \in Present :
         /\ line[l].stage = "Sales" => request = "Terms" /\ ~line[l].recost
         /\ line[l].stage = "Design" <=>
              ecn[l].status \in {"PendingDesign", "PendingDesignApproval"}
         /\ line[l].stage = "ProductCosting" <=>
              ecn[l].status = "PendingProductCosting"
         /\ line[l].stage \in {"Design", "ProductCosting"} =>
              request = "Technical" /\ line[l].recost
         /\ line[l].stage = "CustomerCosting" => line[l].recost
         /\ line[l].stage = "ReadyToSend" =>
              /\ ~line[l].recost
              /\ OneProduct(l) => Newest(l, {"Ready"}) = Newest(l, Current)
         /\ line[l].recost => request # "none"

\* A design that waits for an answer has the task that will give it
\* (requestDesignClarification, updateTechnicalReview, saveDesign).
WaitersAreAsked ==
    \A l \in Present :
        /\ line[l].design = "NeedClarification" =>
             "Technical" \in line[l].asked /\ line[l].review # "Feasible"
        /\ line[l].design = "ChangesRequired" => "Design" \in line[l].asked
===============================================================================
