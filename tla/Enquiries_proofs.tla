--------------------------- MODULE Enquiries_proofs ---------------------------
(***************************************************************************)
(* One enquiry of any lines, quoted and revised any number of times.  The  *)
(* six fields of a line, its quotes and its ECN are related line by line   *)
(* (LineOK), and the open request to all lines together (RequestOK).       *)
(***************************************************************************)
EXTENDS Enquiries, WellFoundedInduction, SequenceTheorems, TLAPS

EcnRow == [status : {"none", "PendingDesign", "PendingDesignApproval",
                     "PendingProductCosting", "PendingCustomerCosting", "Completed"},
           others : BOOLEAN]

------------------------------------------------------------------------------
(* The quotes of one line, q, oldest first.                               *)

\* All of them are for one product.
Uniform(q) == \A i, j \in DOMAIN q : q[i].product = q[j].product

\* No later quote is current.
NoneAfter(q, i) == \A j \in DOMAIN q : j > i => q[j].status \notin Current

\* A draft is the newest of the current quotes.
DraftLast(q) == \A i \in DOMAIN q : q[i].status = "Draft" => NoneAfter(q, i)

\* A draft was begun before anything was ready.
DraftAlone(q) ==
    \A i, j \in DOMAIN q : q[i].status = "Draft" => q[j].status \notin {"Ready", "Sent"}

\* What may be sent, and what was sent last, is at terms t and revision r.
AtTerms(q, t, r) ==
    \A i \in DOMAIN q :
        \/ q[i].status = "Ready"
        \/ q[i].status = "Sent" /\ NoneAfter(q, i)
        => q[i].terms = t /\ q[i].rev = r

\* The newest of the current quotes is ready.
NewestReady(q) == \E i \in DOMAIN q : q[i].status = "Ready" /\ NoneAfter(q, i)

\* The quotes of a line, if they are for one product: t are the terms, and out
\* says that the line missed a change of them.
QuotesOK(q, rec, t, out) ==
    Uniform(q) =>
        /\ DraftLast(q)
        /\ ~rec.recost => DraftAlone(q)
        /\ ~rec.recost /\ ~out => AtTerms(q, t, rec.rev)
        /\ rec.stage = "ReadyToSend" => NewestReady(q)

------------------------------------------------------------------------------
(* The state of one line.                                                 *)

DesignSteps == {"PendingDesign", "PendingDesignApproval"}

\* What the stage of a line says of its record, its quotes, its ECN and the
\* open request.
StageOK(rec, q, e, asked) ==
    /\ rec.stage # "none" => q # <<>> /\ asked # "none"
    /\ rec.stage = "Sales" =>
         /\ asked = "Terms" /\ ~rec.recost
         /\ rec.was = Len(q)
         /\ \E i \in DOMAIN q : q[i].status \in {"Ready", "Sent"}
    /\ rec.stage = "Design" <=> e.status \in DesignSteps
    /\ rec.stage = "ProductCosting" <=> e.status = "PendingProductCosting"
    /\ rec.stage \in {"Design", "ProductCosting"} => asked = "Technical" /\ rec.recost
    /\ rec.stage = "CustomerCosting" => rec.recost
    /\ rec.stage = "ReadyToSend" => ~rec.recost
    /\ rec.recost => asked # "none"

\* A design that waits for an answer has the task that will give it.
WaitsOK(rec) ==
    /\ rec.design = "NeedClarification" =>
         "Technical" \in rec.asked /\ rec.review # "Feasible"
    /\ rec.design = "ChangesRequired" => "Design" \in rec.asked

\* Only lines that are there have quotes, and only quoted lines were revised.
RootOK(rec, q, e) ==
    /\ q # <<>> => rec # Absent
    /\ e.status # "none" => q # <<>>

LineOK(l) ==
    /\ RootOK(line[l], quotes[l], ecn[l])
    /\ line[l] # Absent =>
         /\ StageOK(line[l], quotes[l], ecn[l], request)
         /\ WaitsOK(line[l])
         /\ QuotesOK(quotes[l], line[l], terms, l \in missed)

\* The open request, its quotation version and the lines it revises.
RequestOK ==
    /\ draft <=> request # "none"
    /\ Revised = {} <=> request = "none"

IInv ==
    /\ TypeOK
    /\ line \in [Lines -> Line \union {Absent}]
    /\ \A l \in Lines : LineOK(l)
    /\ RequestOK

------------------------------------------------------------------------------
(* The operators.                                                         *)

\* A bounded set of numbers has a maximum: the least of its upper bounds.
LEMMA Greatest ==
    ASSUME NEW S \in SUBSET Nat, S # {}, NEW n \in Nat, \A m \in S : m <= n
    PROVE  \E u \in S : \A m \in S : m <= u
<1> DEFINE B == {b \in Nat : \A m \in S : m <= b}
           R == OpToRel(<, Nat)
<1>1. B # {} /\ B \subseteq Nat
  OBVIOUS
<1>2. PICK u \in B : \A v \in B : <<v, u>> \notin R
  <2>1. IsWellFoundedOn(R, Nat)
    BY NatLessThanWellFounded
  <2> HIDE DEF B, R
  <2> QED BY <1>1, <2>1, WFMin
<1>3. \A v \in B : ~(v < u)
  BY <1>2 DEF OpToRel
<1>4. u \in S
  <2> SUFFICES ASSUME u \notin S PROVE FALSE
    OBVIOUS
  <2>1. PICK m \in S : m < u
    <3>1. PICK m \in S : TRUE
      OBVIOUS
    <3>2. m \in Nat /\ u \in Nat /\ m <= u /\ m # u
      BY <3>1
    <3> QED BY <3>2
  <2>2. u - 1 \in Nat /\ u - 1 < u
    BY <2>1
  <2>3. \A l \in S : l <= u - 1
    <3> TAKE l \in S
    <3>1. l \in Nat /\ u \in Nat /\ l <= u /\ l # u
      OBVIOUS
    <3> QED BY <3>1
  <2>4. u - 1 \in B
    BY <2>2, <2>3
  <2> QED BY <1>3, <2>2, <2>4
<1> QED BY <1>4

\* The maximum of positions in a sequence of length n, or 0.
LEMMA MaxIs ==
    ASSUME NEW n \in Nat, NEW S \in SUBSET (1 .. n)
    PROVE  LET m == Max({0} \union S)
           IN  /\ m \in {0} \union S /\ m \in Nat
               /\ \A x \in S : x <= m
               /\ m = 0 <=> S = {}
<1> DEFINE T == {0} \union S
<1>1. T \in SUBSET Nat /\ T # {} /\ \A x \in T : x <= n
  OBVIOUS
<1>2. \E u \in T : \A x \in T : x <= u
  BY <1>1, Greatest
<1>3. \E u \in T : \A x \in T : u >= x
  BY <1>1, <1>2
<1> HIDE DEF T
<1>4. Max(T) \in T /\ \A x \in T : Max(T) >= x
  BY <1>3 DEF Max
<1>5. Max(T) \in Nat /\ \A x \in T : x <= Max(T)
  BY <1>1, <1>4
<1> QED BY <1>4, <1>5 DEF T

\* The quotes of a line as a function.
LEMMA QuoteRows ==
    ASSUME TypeOK, NEW l \in Lines
    PROVE  /\ quotes[l] \in Seq(Quote) /\ Len(quotes[l]) \in Nat
           /\ DOMAIN quotes[l] = 1 .. Len(quotes[l])
           /\ \A i \in DOMAIN quotes[l] : quotes[l][i] \in Quote
           /\ quotes[l] = <<>> <=> DOMAIN quotes[l] = {}
<1>1. quotes[l] \in Seq(Quote)
  BY DEF TypeOK
<1>2. /\ Len(quotes[l]) \in Nat /\ DOMAIN quotes[l] = 1 .. Len(quotes[l])
      /\ \A i \in DOMAIN quotes[l] : quotes[l][i] \in Quote
  BY <1>1, LenProperties, ElementOfSeq
<1>3. quotes[l] = <<>> <=> Len(quotes[l]) = 0
  BY <1>1, EmptySeq
<1> QED BY <1>1, <1>2, <1>3

\* The newest quote of the line with such a status.
LEMMA NewestIs ==
    ASSUME TypeOK, NEW l \in Lines, NEW statuses
    PROVE  LET m == Newest(l, statuses)
           IN  /\ m \in Nat
               /\ m = 0 <=> \A i \in DOMAIN quotes[l] : quotes[l][i].status \notin statuses
               /\ m # 0 => /\ m \in DOMAIN quotes[l] /\ quotes[l][m].status \in statuses
               /\ \A i \in DOMAIN quotes[l] : quotes[l][i].status \in statuses => i <= m
<1> DEFINE S == {i \in DOMAIN quotes[l] : quotes[l][i].status \in statuses}
           M == Newest(l, statuses)
<1>1. S \in SUBSET (1 .. Len(quotes[l])) /\ Len(quotes[l]) \in Nat
  BY QuoteRows
<1>2. Newest(l, statuses) = Max({0} \union S)
  BY DEF Newest
<1>3. \A i \in S : i # 0
  BY <1>1
<1> HIDE DEF S
<1>4. LET m == Max({0} \union S)
      IN  /\ m \in {0} \union S /\ m \in Nat
          /\ \A i \in S : i <= m
          /\ m = 0 <=> S = {}
  BY <1>1, MaxIs
<1>5. M \in Nat /\ (M = 0 <=> S = {}) /\ (M # 0 => M \in S) /\ \A i \in S : i <= M
  BY <1>2, <1>4
<1> QED BY <1>5 DEF S, M

\* The newest quote of the line for the product it has.
LEMMA LatestIs ==
    ASSUME TypeOK, NEW l \in Lines
    PROVE  LET m == Latest(l)
               mine == {i \in DOMAIN quotes[l] : /\ quotes[l][i].status \in Current
                                                 /\ quotes[l][i].product = line[l].product}
           IN  /\ m \in Nat
               /\ m = 0 <=> mine = {}
               /\ m # 0 => m \in mine
               /\ \A i \in mine : i <= m
<1> DEFINE S == {i \in DOMAIN quotes[l] : /\ quotes[l][i].status \in Current
                                          /\ quotes[l][i].product = line[l].product}
           M == Latest(l)
<1>1. S \in SUBSET (1 .. Len(quotes[l])) /\ Len(quotes[l]) \in Nat
  BY QuoteRows
<1>2. Latest(l) = Max({0} \union S)
  BY DEF Latest
<1>3. \A i \in S : i # 0
  BY <1>1
<1> HIDE DEF S
<1>4. LET m == Max({0} \union S)
      IN  /\ m \in {0} \union S /\ m \in Nat
          /\ \A i \in S : i <= m
          /\ m = 0 <=> S = {}
  BY <1>1, MaxIs
<1>5. M \in Nat /\ (M = 0 <=> S = {}) /\ (M # 0 => M \in S) /\ \A i \in S : i <= M
  BY <1>2, <1>4
<1> QED BY <1>5 DEF S, M

------------------------------------------------------------------------------
(* What a step must keep.                                                 *)

\* No record of a line is the one of an absent line.
LEMMA AbsentIsNoLine ==
    /\ Absent \notin Line
    /\ \A l \in Lines : line \in [Lines -> Line \union {Absent}]
          => (l \in Present <=> line[l] \in Line) /\ (l \in Present <=> line[l] # Absent)
<1>1. Absent.review = "none"
  BY DEF Absent
<1>2. \A rec \in Line : rec.review # "none"
  BY DEF Line
<1>3. Absent \notin Line
  BY <1>1, <1>2
<1> QED BY <1>3 DEF Present

\* A line that was revised, or was not.
Staged(rec) == rec # Absent /\ rec.stage # "none"

\* Quotes and ECN of other lines, and the request, stay as they are.
LEMMA ChangedLine ==
    ASSUME IInv, NEW l \in Lines,
           NEW rec \in Line \union {Absent}, NEW q \in Seq(Quote), NEW e \in EcnRow,
           line' = [line EXCEPT ![l] = rec],
           quotes' = [quotes EXCEPT ![l] = q],
           ecn' = [ecn EXCEPT ![l] = e],
           UNCHANGED <<request, draft, terms>>,
           handed' \in BOOLEAN, left' \in Nat,
           missed' \subseteq Lines, \A o \in Lines \ {l} : o \in missed' <=> o \in missed,
           Staged(rec) <=> Staged(line[l]),
           RootOK(rec, q, e),
           rec # Absent => /\ StageOK(rec, q, e, request)
                           /\ WaitsOK(rec)
                           /\ QuotesOK(q, rec, terms, l \in missed')
    PROVE  IInv'
<1>1. /\ line \in [Lines -> Line \union {Absent}] /\ quotes \in [Lines -> Seq(Quote)]
      /\ ecn \in [Lines -> EcnRow] /\ TypeOK
  BY DEF IInv, TypeOK, EcnRow
<1>2. /\ line' \in [Lines -> Line \union {Absent}] /\ quotes' \in [Lines -> Seq(Quote)]
      /\ ecn' \in [Lines -> EcnRow]
  BY <1>1
<1>3. \A o \in Lines : /\ line'[o] = IF o = l THEN rec ELSE line[o]
                       /\ quotes'[o] = IF o = l THEN q ELSE quotes[o]
                       /\ ecn'[o] = IF o = l THEN e ELSE ecn[o]
  BY <1>1
<1>4. TypeOK'
  <2>1. \A o \in Present' : line'[o] \in Line
    BY <1>2 DEF Present
  <2> QED BY <1>1, <1>2, <2>1 DEF TypeOK, EcnRow
<1>5. ASSUME NEW o \in Lines PROVE LineOK(o)'
  <2>1. CASE o = l
    BY <1>3, <2>1 DEF LineOK
  <2>2. CASE o # l
    <3>1. line'[o] = line[o] /\ quotes'[o] = quotes[o] /\ ecn'[o] = ecn[o]
      BY <1>3, <2>2
    <3>2. LineOK(o) /\ (o \in missed' <=> o \in missed)
      BY <2>2 DEF IInv
    <3> QED BY <3>1, <3>2 DEF LineOK, QuotesOK
  <2> QED BY <2>1, <2>2
<1>6. Revised' = Revised
  <2>1. \A o \in Lines : Staged(line'[o]) <=> Staged(line[o])
    BY <1>3
  <2> QED BY <2>1 DEF Revised, Present, Staged
<1>7. RequestOK'
  BY <1>6 DEF RequestOK, IInv
<1> QED BY <1>2, <1>4, <1>5, <1>7 DEF IInv

\* A step of the departments before a revision: it leaves the quotes, the ECN
\* and what they are read with.
LEMMA ChangedRecord ==
    ASSUME IInv, NEW l \in Present, NEW rec \in Line,
           line' = [line EXCEPT ![l] = rec],
           UNCHANGED <<quotes, ecn, request, draft, terms, missed>>,
           handed' \in BOOLEAN, left' \in Nat,
           rec.stage = line[l].stage, rec.recost = line[l].recost,
           rec.rev = line[l].rev, rec.was = line[l].was,
           WaitsOK(rec)
    PROVE  IInv'
<1>1. l \in Lines /\ line[l] # Absent /\ rec # Absent
  BY AbsentIsNoLine DEF Present
<1>2. /\ quotes \in [Lines -> Seq(Quote)] /\ ecn \in [Lines -> EcnRow]
      /\ missed \subseteq Lines
  BY DEF IInv, TypeOK, EcnRow
<1>3. quotes' = [quotes EXCEPT ![l] = quotes[l]] /\ ecn' = [ecn EXCEPT ![l] = ecn[l]]
  BY <1>1, <1>2
<1>4. /\ RootOK(line[l], quotes[l], ecn[l])
      /\ StageOK(line[l], quotes[l], ecn[l], request)
      /\ QuotesOK(quotes[l], line[l], terms, l \in missed)
  BY <1>1 DEF IInv, LineOK
<1>5. RootOK(rec, quotes[l], ecn[l])
  BY <1>1, <1>4 DEF RootOK
<1>6. StageOK(rec, quotes[l], ecn[l], request)
  BY <1>4 DEF StageOK
<1>7. QuotesOK(quotes[l], rec, terms, l \in missed)
  BY <1>4 DEF QuotesOK
<1>8. Staged(rec) <=> Staged(line[l])
  BY <1>1 DEF Staged
<1>9. quotes[l] \in Seq(Quote) /\ ecn[l] \in EcnRow /\ rec \in Line \union {Absent}
  BY <1>1, <1>2
<1> QED BY <1>1, <1>2, <1>3, <1>5, <1>6, <1>7, <1>8, <1>9, ChangedLine

\* A step back counts down.
LEMMA StepBack == ASSUME left \in Nat, Back PROVE left' \in Nat
BY DEF Back

\* Two positions.
LEMMA Positions ==
    \A a, b \in Nat : (a > b <=> ~(a <= b)) /\ (a > b => a # b) /\ (a <= b /\ a # b => b > a)
OBVIOUS

\* A function on the first n positions.
LEMMA FunctionIsSeq ==
    ASSUME NEW S, NEW n \in Nat, NEW s \in [1 .. n -> S]
    PROVE  s \in Seq(S) /\ Len(s) = n
<1>1. s \in Seq(S)
  BY SeqDef
<1>2. DOMAIN s = 1 .. Len(s) /\ Len(s) \in Nat
  BY <1>1, LenProperties
<1>3. DOMAIN s = 1 .. n
  OBVIOUS
<1> QED BY <1>2, <1>3

Stages == {"none", "Sales", "Design", "ProductCosting", "CustomerCosting", "ReadyToSend"}

Nexts == {"NotStarted", "ProductCosting", "ProductCostingComplete",
          "Started", "Quoted", "ChangesRequired"}

\* The record of a line in a revision.
Revise(rec, next, recost, stage, was) ==
    [rec EXCEPT !.next = next, !.recost = recost, !.stage = stage, !.was = was]

\* What such a record says.
LEMMA LineWith ==
    ASSUME NEW rec \in Line, NEW next \in Nexts, NEW recost \in BOOLEAN,
           NEW stage \in Stages, NEW was \in Nat,
           NEW new, new = Revise(rec, next, recost, stage, was)
    PROVE  /\ new \in Line
           /\ new.next = next /\ new.recost = recost /\ new.stage = stage
           /\ new.was = was /\ new.rev = rec.rev
           /\ new.asked = rec.asked /\ new.review = rec.review
           /\ new.design = rec.design /\ new.product = rec.product
<1> DEFINE a == [rec EXCEPT !.next = next]
           b == [a EXCEPT !.recost = recost]
           c == [b EXCEPT !.stage = stage]
           d == [c EXCEPT !.was = was]
<1>1. /\ a \in Line /\ a.next = next /\ a.rev = rec.rev
      /\ a.asked = rec.asked /\ a.review = rec.review
      /\ a.design = rec.design /\ a.product = rec.product
  BY DEF Line, Nexts
<1> HIDE DEF a
<1>2. /\ b \in Line /\ b.next = a.next /\ b.recost = recost /\ b.rev = a.rev
      /\ b.asked = a.asked /\ b.review = a.review
      /\ b.design = a.design /\ b.product = a.product
  BY <1>1 DEF Line
<1> HIDE DEF b
<1>3. /\ c \in Line /\ c.next = b.next /\ c.recost = b.recost /\ c.stage = stage
      /\ c.rev = b.rev /\ c.asked = b.asked /\ c.review = b.review
      /\ c.design = b.design /\ c.product = b.product
  <2>1. stage \in {"none", "Sales", "Design", "ProductCosting",
                   "CustomerCosting", "ReadyToSend"}
    BY DEF Stages
  <2>2. c \in Line
    BY <1>2, <2>1 DEF Line
  <2>3. /\ c.next = b.next /\ c.recost = b.recost /\ c.stage = stage
        /\ c.rev = b.rev /\ c.asked = b.asked /\ c.review = b.review
        /\ c.design = b.design /\ c.product = b.product
    BY <1>2 DEF Line
  <2> QED BY <2>2, <2>3
<1> HIDE DEF c
<1>4. /\ d \in Line /\ d.next = c.next /\ d.recost = c.recost
      /\ d.stage = c.stage /\ d.was = was
      /\ d.rev = c.rev /\ d.asked = c.asked /\ d.review = c.review
      /\ d.design = c.design /\ d.product = c.product
  BY <1>3 DEF Line
<1>5. new = d
  BY DEF a, b, c, Revise
<1> HIDE DEF d
<1> QED BY <1>1, <1>2, <1>3, <1>4, <1>5

Designs == {"none", "PendingDesign", "InProgress", "ChangesRequired",
            "NeedClarification", "DesignComplete", "NotRequired"}

Reviews == {"PendingReview", "Feasible", "NeedClarification", "NotFeasible"}

Tasks == SUBSET {"Sales", "Technical", "Design"}

\* The record of a line that a department answers for.
Answer(rec, review, asked, design, product, next) ==
    [rec EXCEPT !.review = review, !.asked = asked, !.design = design,
                !.product = product, !.next = next]

\* What such a record says; the revision is as it was.
LEMMA AnsweredLine ==
    ASSUME NEW rec \in Line, NEW review \in Reviews,
           NEW asked \in Tasks, NEW design \in Designs,
           NEW product \in {"none", "own", "match"}, NEW next \in Nexts,
           NEW new, new = Answer(rec, review, asked, design, product, next)
    PROVE  /\ new \in Line
           /\ new.review = review /\ new.asked = asked /\ new.design = design
           /\ new.stage = rec.stage /\ new.recost = rec.recost
           /\ new.rev = rec.rev /\ new.was = rec.was
<1> DEFINE a == [rec EXCEPT !.review = review, !.asked = asked]
           b == [a EXCEPT !.design = design]
           c == [b EXCEPT !.product = product]
           d == [c EXCEPT !.next = next]
<1>1. /\ a \in Line /\ a.review = review /\ a.asked = asked
      /\ a.stage = rec.stage /\ a.recost = rec.recost
      /\ a.rev = rec.rev /\ a.was = rec.was
  BY DEF Line, Reviews, Tasks
<1> HIDE DEF a
<1>2. /\ b \in Line /\ b.review = a.review /\ b.asked = a.asked /\ b.design = design
      /\ b.stage = a.stage /\ b.recost = a.recost /\ b.rev = a.rev /\ b.was = a.was
  BY <1>1 DEF Line, Designs
<1> HIDE DEF b
<1>3. /\ c \in Line /\ c.review = b.review /\ c.asked = b.asked /\ c.design = b.design
      /\ c.stage = b.stage /\ c.recost = b.recost /\ c.rev = b.rev /\ c.was = b.was
  BY <1>2 DEF Line
<1> HIDE DEF c
<1>4. /\ d \in Line /\ d.review = c.review /\ d.asked = c.asked /\ d.design = c.design
      /\ d.stage = c.stage /\ d.recost = c.recost /\ d.rev = c.rev /\ d.was = c.was
  BY <1>3 DEF Line, Nexts
<1>5. new = d
  BY DEF a, b, c, Answer
<1> HIDE DEF d
<1> QED BY <1>1, <1>2, <1>3, <1>4, <1>5

------------------------------------------------------------------------------
(* Sales: lines and their handover.                                       *)

\* A line without quotes is in no revision, whatever its record says.
LEMMA Unquoted ==
    ASSUME NEW rec \in Line, NEW e \in EcnRow, rec.stage = "none", e.status = "none",
           rec.recost => request # "none", NEW out
    PROVE  /\ RootOK(rec, <<>>, e)
           /\ StageOK(rec, <<>>, e, request)
           /\ QuotesOK(<<>>, rec, terms, out)
<1>1. DOMAIN <<>> = {}
  OBVIOUS
<1>2. RootOK(rec, <<>>, e)
  BY DEF RootOK
<1>3. StageOK(rec, <<>>, e, request)
  BY DEF StageOK, DesignSteps
<1>4. QuotesOK(<<>>, rec, terms, out)
  BY <1>1 DEF QuotesOK, Uniform, DraftLast, DraftAlone, AtTerms
<1> QED BY <1>2, <1>3, <1>4

\* What the invariant says of one line that is there.
LEMMA PresentLine ==
    ASSUME IInv, NEW l \in Present
    PROVE  /\ l \in Lines /\ line[l] \in Line /\ line[l] # Absent
           /\ TypeOK /\ line \in [Lines -> Line \union {Absent}]
           /\ ecn[l] \in EcnRow
           /\ RootOK(line[l], quotes[l], ecn[l])
           /\ StageOK(line[l], quotes[l], ecn[l], request)
           /\ WaitsOK(line[l])
           /\ QuotesOK(quotes[l], line[l], terms, l \in missed)
           /\ left \in Nat
<1>1. l \in Lines /\ line[l] # Absent /\ line[l] \in Line
  BY DEF Present, IInv
<1> QED BY <1>1 DEF IInv, LineOK, TypeOK, EcnRow

\* The quotes and the ECN of a line that has no quotes yet.
LEMMA UnquotedRows ==
    ASSUME IInv, NEW l \in Lines, quotes[l] = <<>>
    PROVE  /\ ecn[l].status = "none" /\ ecn[l] \in EcnRow
           /\ quotes = [quotes EXCEPT ![l] = <<>>] /\ <<>> \in Seq(Quote)
           /\ ecn = [ecn EXCEPT ![l] = ecn[l]]
           /\ line[l] # Absent => line[l].stage = "none"
<1>1. /\ quotes \in [Lines -> Seq(Quote)] /\ ecn \in [Lines -> EcnRow]
  BY DEF IInv, TypeOK, EcnRow
<1>2. LineOK(l)
  BY DEF IInv
<1> QED BY <1>1, <1>2 DEF LineOK, RootOK, StageOK

\* addEnquiryItem
LEMMA AddStep == ASSUME IInv, NEW l \in Lines, AddItem(l) PROVE IInv'
<1>1. line[l] = Absent /\ line' = [line EXCEPT ![l] = Fresh]
  BY DEF AddItem
<1>2. UNCHANGED <<quotes, ecn, handed, request, draft, terms, missed, left>>
  BY DEF AddItem
<1>3. quotes[l] = <<>>
  BY <1>1 DEF IInv, LineOK, RootOK
<1>4. Fresh \in Line /\ Fresh.stage = "none" /\ Fresh.recost = FALSE /\ WaitsOK(Fresh)
  BY DEF Fresh, Line, WaitsOK
<1>5. handed' \in BOOLEAN /\ left' \in Nat /\ missed' \subseteq Lines
  BY <1>2 DEF IInv, TypeOK
<1>6. ~Staged(Fresh) /\ ~Staged(line[l])
  BY <1>1, <1>4 DEF Staged
<1>7. RootOK(Fresh, <<>>, ecn[l]) /\ StageOK(Fresh, <<>>, ecn[l], request)
      /\ QuotesOK(<<>>, Fresh, terms, l \in missed')
  BY <1>3, <1>4, Unquoted, UnquotedRows
<1>8. quotes' = [quotes EXCEPT ![l] = <<>>] /\ ecn' = [ecn EXCEPT ![l] = ecn[l]]
      /\ ecn[l] \in EcnRow /\ <<>> \in Seq(Quote)
  BY <1>2, <1>3, UnquotedRows
<1>9. \A o \in Lines \ {l} : o \in missed' <=> o \in missed
  BY <1>2
<1> QED BY <1>1, <1>2, <1>4, <1>5, <1>6, <1>7, <1>8, <1>9, ChangedLine

\* updateEnquiryItem
LEMMA UpdateItemStep == ASSUME IInv, NEW l \in Lines, UpdateItem(l) PROVE IInv'
<1> DEFINE rec == [Fresh EXCEPT !.asked = Answered(line[l].asked),
                                !.recost = line[l].recost]
<1>1. /\ l \in Present /\ ~Locked(l) /\ left > 0 /\ left' = left - 1
      /\ line' = [line EXCEPT ![l] = rec]
      /\ UNCHANGED <<quotes, ecn, handed, request, draft, terms, missed>>
  BY DEF UpdateItem, Back
<1>2. line[l] \in Line /\ line[l] # Absent /\ StageOK(line[l], quotes[l], ecn[l], request)
  BY <1>1, PresentLine
<1>3. quotes[l] = <<>>
  BY <1>1 DEF Locked
<1>4. /\ rec \in Line /\ rec.stage = "none" /\ rec.recost = line[l].recost
      /\ rec.design = "none"
  BY <1>2 DEF Fresh, Line, Answered
<1> HIDE DEF rec
<1>5. WaitsOK(rec) /\ rec # Absent /\ (rec.recost => request # "none")
  BY <1>2, <1>4, AbsentIsNoLine DEF WaitsOK, StageOK
<1>6. handed' \in BOOLEAN /\ left' \in Nat /\ missed' \subseteq Lines
  <2>1. handed' \in BOOLEAN /\ missed' \subseteq Lines
    BY <1>1 DEF IInv, TypeOK
  <2>2. left' \in Nat
    BY <1>1, PresentLine
  <2> QED BY <2>1, <2>2
<1>7. ~Staged(rec) /\ ~Staged(line[l])
  BY <1>3, <1>4, UnquotedRows DEF Staged
<1>8. RootOK(rec, <<>>, ecn[l]) /\ StageOK(rec, <<>>, ecn[l], request)
      /\ QuotesOK(<<>>, rec, terms, l \in missed')
  BY <1>3, <1>4, <1>5, Unquoted, UnquotedRows
<1>9. quotes' = [quotes EXCEPT ![l] = <<>>] /\ ecn' = [ecn EXCEPT ![l] = ecn[l]]
      /\ ecn[l] \in EcnRow /\ <<>> \in Seq(Quote)
  BY <1>1, <1>3, UnquotedRows
<1>10. \A o \in Lines \ {l} : o \in missed' <=> o \in missed
  BY <1>1
<1> QED BY <1>1, <1>4, <1>5, <1>6, <1>7, <1>8, <1>9, <1>10, ChangedLine

\* deleteEnquiryItems
LEMMA DeleteStep == ASSUME IInv, NEW l \in Lines, DeleteItem(l) PROVE IInv'
<1>1. /\ l \in Present /\ ~Locked(l) /\ left > 0 /\ left' = left - 1
      /\ line' = [line EXCEPT ![l] = Absent]
      /\ handed' \in BOOLEAN
      /\ UNCHANGED <<quotes, ecn, request, draft, terms, missed>>
  BY DEF DeleteItem, Back
<1>2. quotes[l] = <<>>
  BY <1>1 DEF Locked
<1>3. left' \in Nat /\ missed' \subseteq Lines
  <2>1. missed' \subseteq Lines
    BY <1>1 DEF IInv, TypeOK
  <2>2. left' \in Nat
    BY <1>1, PresentLine
  <2> QED BY <2>1, <2>2
<1>4. ~Staged(Absent) /\ ~Staged(line[l])
  BY <1>2, UnquotedRows DEF Staged
<1>5. RootOK(Absent, <<>>, ecn[l])
  BY <1>2, UnquotedRows DEF RootOK
<1>6. quotes' = [quotes EXCEPT ![l] = <<>>] /\ ecn' = [ecn EXCEPT ![l] = ecn[l]]
      /\ ecn[l] \in EcnRow /\ <<>> \in Seq(Quote)
  BY <1>1, <1>2, UnquotedRows
<1>7. \A o \in Lines \ {l} : o \in missed' <=> o \in missed
  BY <1>1
<1> QED BY <1>1, <1>3, <1>4, <1>5, <1>6, <1>7, ChangedLine

------------------------------------------------------------------------------
(* Technical review, clarifications, design and product costing.          *)

\* updateTechnicalReview
LEMMA ReviewStep ==
    ASSUME IInv, NEW l \in Lines, NEW status \in {"Feasible", "NeedClarification", "NotFeasible"},
           UpdateTechnicalReview(l, status)
    PROVE  IInv'
<1> DEFINE asks == CASE status = "NeedClarification" -> line[l].asked \union {"Sales"}
                     [] status = "Feasible" -> line[l].asked \ {"Technical"}
                     [] OTHER -> line[l].asked
           design == IF status = "Feasible" /\ line[l].design = "NeedClarification"
                     THEN "PendingDesign" ELSE line[l].design
           rec == [line[l] EXCEPT !.review = status, !.asked = asks, !.design = design]
<1>1. l \in Present
  BY DEF UpdateTechnicalReview
<1>2. line' = [line EXCEPT ![l].review = status, ![l].asked = asks, ![l].design = design]
  BY DEF UpdateTechnicalReview
<1>3. /\ handed' = handed /\ left' \in Nat
      /\ UNCHANGED <<quotes, ecn, request, draft, terms, missed>>
  <2>1. /\ IF status = "Feasible" THEN UNCHANGED left ELSE Back
        /\ UNCHANGED <<quotes, ecn, handed, request, draft, terms, missed>>
    BY DEF UpdateTechnicalReview
  <2>2. left \in Nat
    BY <1>1, PresentLine
  <2>3. left' \in Nat
    <3>1. CASE status = "Feasible"
      BY <2>1, <2>2, <3>1
    <3>2. CASE status # "Feasible"
      <4>1. Back
        BY <2>1, <3>2, Zenon
      <4> QED BY <2>2, <4>1, StepBack, Zenon
    <3> QED BY <3>1, <3>2
  <2> QED BY <2>1, <2>3
<1>4. line[l] \in Line /\ WaitsOK(line[l]) /\ line \in [Lines -> Line \union {Absent}]
  BY <1>1, PresentLine
<1>5. /\ asks \in SUBSET {"Sales", "Technical", "Design"}
      /\ status # "Feasible" /\ "Technical" \in line[l].asked => "Technical" \in asks
      /\ "Design" \in line[l].asked => "Design" \in asks
  BY <1>4 DEF Line
<1> HIDE DEF asks
<1>6. /\ design = "NeedClarification" =>
             line[l].design = "NeedClarification" /\ status # "Feasible"
      /\ design = "ChangesRequired" => line[l].design = "ChangesRequired"
      /\ design \in {"none", "PendingDesign", "InProgress", "ChangesRequired",
                     "NeedClarification", "DesignComplete", "NotRequired"}
  BY <1>4 DEF Line
<1> HIDE DEF design
<1>7. line' = [line EXCEPT ![l] = rec]
  BY <1>1, <1>2, <1>4 DEF Present
<1>8. /\ rec \in Line /\ rec.review = status /\ rec.asked = asks /\ rec.design = design
      /\ rec.stage = line[l].stage /\ rec.recost = line[l].recost
      /\ rec.rev = line[l].rev /\ rec.was = line[l].was
  <2>1. /\ line[l].product \in {"none", "own", "match"} /\ line[l].next \in Nexts
        /\ status \in Reviews /\ design \in Designs /\ asks \in Tasks
    BY <1>4, <1>5, <1>6 DEF Line, Nexts, Reviews, Designs, Tasks
  <2>2. rec = Answer(line[l], status, asks, design, line[l].product, line[l].next)
    BY <1>4 DEF Answer, Line
  <2> HIDE DEF rec
  <2> QED BY <1>4, <2>1, <2>2, AnsweredLine
<1> HIDE DEF rec
<1>9. WaitsOK(rec)
  BY <1>4, <1>5, <1>6, <1>8 DEF WaitsOK
<1>10. handed' \in BOOLEAN
  BY <1>3 DEF IInv, TypeOK
<1> QED BY <1>1, <1>3, <1>7, <1>8, <1>9, <1>10, ChangedRecord

\* completeSalesClarification
LEMMA ClarificationStep ==
    ASSUME IInv, NEW l \in Lines, NEW matched \in BOOLEAN,
           CompleteSalesClarification(l, matched)
    PROVE  IInv'
<1> DEFINE answered == [line[l] EXCEPT !.asked = Answered(@)]
           match == [answered EXCEPT !.review = "Feasible",
                                     !.product = "match", !.design = "NotRequired",
                                     !.next = "ProductCostingComplete"]
           back == [answered EXCEPT !.review = "PendingReview"]
           rec == CASE Locked(l) -> answered
                    [] matched -> match
                    [] OTHER -> back
<1>1. /\ l \in Present /\ (Locked(l) => ~matched)
      /\ line' = [line EXCEPT ![l] = rec]
      /\ UNCHANGED <<quotes, ecn, handed, request, draft, terms, missed, left>>
  BY DEF CompleteSalesClarification
<1>2. line[l] \in Line /\ WaitsOK(line[l])
  BY <1>1, PresentLine
<1>3. /\ answered \in Line /\ answered.stage = line[l].stage
      /\ answered.recost = line[l].recost /\ answered.rev = line[l].rev
      /\ answered.was = line[l].was /\ answered.design = line[l].design
      /\ answered.review = line[l].review /\ answered.asked = line[l].asked \ {"Sales"}
  BY <1>2 DEF Line, Answered
<1> HIDE DEF answered
<1>4. /\ match \in Line /\ match.stage = line[l].stage
      /\ match.recost = line[l].recost /\ match.rev = line[l].rev
      /\ match.was = line[l].was /\ match.design = "NotRequired"
  <2>1. /\ answered.asked \in Tasks /\ "Feasible" \in Reviews
        /\ "NotRequired" \in Designs /\ "ProductCostingComplete" \in Nexts
    BY <1>3 DEF Line, Reviews, Designs, Nexts, Tasks
  <2>2. match = Answer(answered, "Feasible", answered.asked, "NotRequired", "match",
                       "ProductCostingComplete")
    BY <1>3 DEF Answer, Line
  <2> HIDE DEF match
  <2> QED BY <1>3, <2>1, <2>2, AnsweredLine
<1>5. /\ back \in Line /\ back.stage = line[l].stage
      /\ back.recost = line[l].recost /\ back.rev = line[l].rev
      /\ back.was = line[l].was /\ back.design = line[l].design
      /\ back.asked = answered.asked
  BY <1>3 DEF Line
<1> HIDE DEF match, back
<1>6. /\ Locked(l) => rec = answered
      /\ ~Locked(l) /\ matched => rec = match
      /\ ~Locked(l) /\ ~matched => rec = back
  BY <1>1
<1> HIDE DEF rec
<1>7. ~Locked(l) => line[l].design \notin {"NeedClarification", "ChangesRequired"}
  BY DEF Locked
<1>8. /\ rec \in Line /\ rec.stage = line[l].stage /\ rec.recost = line[l].recost
      /\ rec.rev = line[l].rev /\ rec.was = line[l].was
  BY <1>3, <1>4, <1>5, <1>6
<1>9. WaitsOK(rec)
  <2>1. CASE Locked(l)
    BY <1>2, <1>3, <1>6, <2>1 DEF WaitsOK
  <2>2. CASE ~Locked(l)
    BY <1>4, <1>5, <1>6, <1>7, <2>2 DEF WaitsOK
  <2> QED BY <2>1, <2>2
<1>10. handed' \in BOOLEAN /\ left' \in Nat
  BY <1>1 DEF IInv, TypeOK
<1> QED BY <1>1, <1>8, <1>9, <1>10, ChangedRecord

\* requestDesignClarification, Design to Technical
LEMMA AskTechnicalStep == ASSUME IInv, NEW l \in Lines, AskTechnical(l) PROVE IInv'
<1> DEFINE design == IF line[l].design = "none" THEN "none" ELSE "NeedClarification"
           rec == [line[l] EXCEPT !.review = "NeedClarification",
                                  !.asked = line[l].asked \union {"Technical"},
                                  !.design = design]
<1>1. /\ l \in Present /\ Back
      /\ line' = [line EXCEPT ![l].review = "NeedClarification",
           ![l].asked = line[l].asked \union {"Technical"},
           ![l].design = IF line[l].design = "none" THEN line[l].design
                         ELSE "NeedClarification"]
      /\ UNCHANGED <<quotes, ecn, handed, request, draft, terms, missed>>
  BY DEF AskTechnical
<1>2. /\ line[l] \in Line /\ line \in [Lines -> Line \union {Absent}]
      /\ left \in Nat
  BY <1>1, PresentLine
<1>3. line' = [line EXCEPT ![l] = rec]
  BY <1>1, <1>2
<1>4. /\ rec \in Line /\ rec.stage = line[l].stage /\ rec.recost = line[l].recost
      /\ rec.rev = line[l].rev /\ rec.was = line[l].was
      /\ rec.review = "NeedClarification" /\ "Technical" \in rec.asked
      /\ rec.design \in {"none", "NeedClarification"}
  BY <1>2 DEF Line
<1> HIDE DEF rec
<1>5. WaitsOK(rec)
  BY <1>4 DEF WaitsOK
<1>6. handed' \in BOOLEAN
  BY <1>1 DEF IInv, TypeOK
<1>7. left' \in Nat
  BY <1>1, <1>2, StepBack
<1> QED BY <1>1, <1>3, <1>4, <1>5, <1>6, <1>7, ChangedRecord

\* requestDesignClarification, Product Costing to Design
LEMMA AskDesignStep == ASSUME IInv, NEW l \in Lines, AskDesign(l) PROVE IInv'
<1> DEFINE rec == [line[l] EXCEPT !.design = "ChangesRequired",
                                  !.next = "ChangesRequired",
                                  !.asked = line[l].asked \union {"Design"}]
<1>1. /\ l \in Present /\ Back
      /\ line' = [line EXCEPT ![l].design = "ChangesRequired",
                              ![l].next = "ChangesRequired",
                              ![l].asked = line[l].asked \union {"Design"}]
      /\ UNCHANGED <<quotes, ecn, handed, request, draft, terms, missed>>
  BY DEF AskDesign
<1>2. /\ line[l] \in Line /\ line \in [Lines -> Line \union {Absent}]
      /\ left \in Nat
  BY <1>1, PresentLine
<1>3. line' = [line EXCEPT ![l] = rec]
  BY <1>1, <1>2
<1>4. /\ rec \in Line /\ rec.stage = line[l].stage /\ rec.recost = line[l].recost
      /\ rec.rev = line[l].rev /\ rec.was = line[l].was
      /\ "Design" \in rec.asked /\ rec.design = "ChangesRequired"
  BY <1>2 DEF Line
<1> HIDE DEF rec
<1>5. WaitsOK(rec)
  BY <1>4 DEF WaitsOK
<1>6. handed' \in BOOLEAN
  BY <1>1 DEF IInv, TypeOK
<1>7. left' \in Nat
  BY <1>1, <1>2, StepBack
<1> QED BY <1>1, <1>3, <1>4, <1>5, <1>6, <1>7, ChangedRecord

\* startDesignWork
LEMMA StartDesignStep == ASSUME IInv, NEW l \in Lines, StartDesignWork(l) PROVE IInv'
<1> DEFINE design == IF line[l].design \in {"none", "PendingDesign"} THEN "InProgress"
                     ELSE line[l].design
           rec == [line[l] EXCEPT !.started = TRUE, !.design = design]
<1>1. /\ l \in Present
      /\ line' = [line EXCEPT ![l].started = TRUE, ![l].design = design]
      /\ UNCHANGED <<quotes, ecn, handed, request, draft, terms, missed, left>>
  BY DEF StartDesignWork
<1>2. /\ line[l] \in Line /\ line \in [Lines -> Line \union {Absent}]
      /\ left \in Nat /\ WaitsOK(line[l])
  BY <1>1, PresentLine
<1>3. line' = [line EXCEPT ![l] = rec]
  BY <1>1, <1>2
<1>4. /\ design \in {"InProgress", line[l].design}
      /\ design \in {"none", "PendingDesign", "InProgress", "ChangesRequired",
                     "NeedClarification", "DesignComplete", "NotRequired"}
  BY <1>2 DEF Line
<1> HIDE DEF design
<1>5. /\ rec \in Line /\ rec.stage = line[l].stage /\ rec.recost = line[l].recost
      /\ rec.rev = line[l].rev /\ rec.was = line[l].was
      /\ rec.asked = line[l].asked /\ rec.review = line[l].review /\ rec.design = design
  BY <1>2, <1>4 DEF Line
<1> HIDE DEF rec
<1>6. WaitsOK(rec)
  BY <1>2, <1>4, <1>5 DEF WaitsOK
<1>7. handed' \in BOOLEAN /\ left' \in Nat
  BY <1>1 DEF IInv, TypeOK
<1> QED BY <1>1, <1>3, <1>5, <1>6, <1>7, ChangedRecord

\* saveDesign
LEMMA SaveDesignStep ==
    ASSUME IInv, NEW l \in Lines, NEW design \in {"InProgress"} \union Done,
           SaveDesign(l, design)
    PROVE  IInv'
<1> DEFINE rec == Designed(line[l], design)
<1>1. /\ l \in Present
      /\ line' = [line EXCEPT ![l] = rec]
      /\ UNCHANGED <<quotes, ecn, handed, request, draft, terms, missed, left>>
  BY DEF SaveDesign
<1>2. line[l] \in Line
  BY <1>1, PresentLine
<1>3. design \in {"InProgress", "DesignComplete", "NotRequired"}
  BY DEF Done
<1> DEFINE asked == IF design \in Done THEN line[l].asked \ {"Design"} ELSE line[l].asked
           next == IF design = "NotRequired" THEN "ProductCostingComplete" ELSE line[l].next
           product == IF design = "NotRequired" THEN "match" ELSE "own"
<1>4. rec = Answer(line[l], line[l].review, asked, design, product, next)
  BY <1>2 DEF Answer, Line, Designed
<1>5. /\ rec \in Line /\ rec.design = design
      /\ rec.stage = line[l].stage /\ rec.recost = line[l].recost
      /\ rec.rev = line[l].rev /\ rec.was = line[l].was
  <2>1. asked \in Tasks /\ line[l].review \in Reviews
    BY <1>2 DEF Line, Reviews, Tasks
  <2>2. next \in Nexts
    BY <1>2 DEF Line, Nexts
  <2>3. product \in {"none", "own", "match"}
    OBVIOUS
  <2>4. design \in Designs
    BY <1>3 DEF Designs
  <2> HIDE DEF rec, asked, next, product
  <2> QED BY <1>2, <1>4, <2>1, <2>2, <2>3, <2>4, AnsweredLine
<1> HIDE DEF rec
<1>6. WaitsOK(rec)
  BY <1>3, <1>5 DEF WaitsOK
<1>7. handed' \in BOOLEAN /\ left' \in Nat
  BY <1>1 DEF IInv, TypeOK
<1> QED BY <1>1, <1>5, <1>6, <1>7, ChangedRecord

\* The steps that move a line between the departments touch no more than the
\* field that says where it is, and whether its part is in the catalogue.
LEMMA MovedLine ==
    ASSUME IInv, NEW l \in Present,
           NEW next \in {"NotStarted", "ProductCosting", "ProductCostingComplete",
                         "Started", "Quoted", "ChangesRequired"},
           NEW made \in BOOLEAN,
           line' = [line EXCEPT ![l].next = next, ![l].made = made],
           UNCHANGED <<quotes, ecn, handed, request, draft, terms, missed>>,
           left' \in Nat
    PROVE  IInv'
<1> DEFINE rec == [line[l] EXCEPT !.next = next, !.made = made]
<1>1. /\ line[l] \in Line /\ line \in [Lines -> Line \union {Absent}] /\ WaitsOK(line[l])
  BY PresentLine
<1>2. line' = [line EXCEPT ![l] = rec]
  BY <1>1
<1>3. /\ rec \in Line /\ rec.stage = line[l].stage /\ rec.recost = line[l].recost
      /\ rec.rev = line[l].rev /\ rec.was = line[l].was
      /\ rec.asked = line[l].asked /\ rec.review = line[l].review
      /\ rec.design = line[l].design
  BY <1>1 DEF Line
<1> HIDE DEF rec
<1>4. WaitsOK(rec)
  BY <1>1, <1>3 DEF WaitsOK
<1>5. handed' \in BOOLEAN
  BY DEF IInv, TypeOK
<1> QED BY <1>2, <1>3, <1>4, <1>5, ChangedRecord

\* The same step when nothing becomes of the catalogue.
LEMMA MovedOn ==
    ASSUME IInv, NEW l \in Present,
           NEW next \in {"NotStarted", "ProductCosting", "ProductCostingComplete",
                         "Started", "Quoted", "ChangesRequired"},
           line' = [line EXCEPT ![l].next = next],
           UNCHANGED <<quotes, ecn, handed, request, draft, terms, missed>>,
           left' \in Nat
    PROVE  IInv'
<1> DEFINE made == line[l].made
<1>1. line[l] \in Line /\ line \in [Lines -> Line \union {Absent}]
  BY PresentLine
<1>2. made \in BOOLEAN
  BY <1>1 DEF Line
<1>3. [line[l] EXCEPT !.next = next] = [line[l] EXCEPT !.next = next, !.made = made]
  BY <1>1 DEF Line
<1>4. line' = [line EXCEPT ![l].next = next, ![l].made = made]
  BY <1>1, <1>3
<1> HIDE DEF made
<1> QED BY <1>2, <1>4, MovedLine

\* prepareCostingFromDesign
LEMMA PrepareStep == ASSUME IInv, NEW l \in Lines, PrepareCosting(l) PROVE IInv'
<1> DEFINE next == IF line[l].product = "match"
                   THEN "ProductCostingComplete" ELSE "ProductCosting"
           made == line[l].made \/ line[l].product = "own"
<1>1. /\ l \in Present
      /\ line' = [line EXCEPT ![l].next = next, ![l].made = made]
      /\ UNCHANGED <<quotes, ecn, handed, request, draft, terms, missed, left>>
  BY DEF PrepareCosting
<1>2. next \in {"ProductCostingComplete", "ProductCosting"} /\ made \in BOOLEAN
  OBVIOUS
<1>3. left' \in Nat
  BY <1>1, PresentLine
<1> HIDE DEF next, made
<1> QED BY <1>1, <1>2, <1>3, MovedLine

\* updateProductCostParameters
LEMMA ProductCostStep ==
    ASSUME IInv, NEW l \in Lines, NEW complete \in BOOLEAN, UpdateProductCost(l, complete)
    PROVE  IInv'
<1> DEFINE next == IF complete THEN "ProductCostingComplete" ELSE "ProductCosting"
<1>1. /\ l \in Present
      /\ line' = [line EXCEPT ![l].next = next]
      /\ UNCHANGED <<quotes, ecn, handed, request, draft, terms, missed>>
      /\ UNCHANGED left \/ Back
  BY DEF UpdateProductCost
<1>2. next \in {"ProductCostingComplete", "ProductCosting"}
  OBVIOUS
<1>3. left' \in Nat
  BY <1>1, PresentLine, StepBack
<1> HIDE DEF next
<1> QED BY <1>1, <1>2, <1>3, MovedOn

\* sendQuoteBackToProductCosting
LEMMA SendBackStep == ASSUME IInv, NEW l \in Lines, SendBack(l) PROVE IInv'
<1>1. /\ l \in Present
      /\ line' = [line EXCEPT ![l].next = "ProductCosting"]
      /\ UNCHANGED <<quotes, ecn, handed, request, draft, terms, missed>>
      /\ Back
  BY DEF SendBack
<1>2. left' \in Nat
  BY <1>1, PresentLine, StepBack
<1> QED BY <1>1, <1>2, MovedOn

\* reverseDesignCostingHandoff
LEMMA ReverseStep == ASSUME IInv, NEW l \in Lines, ReverseHandoff(l) PROVE IInv'
<1>1. /\ l \in Present
      /\ line' = [line EXCEPT ![l].next = "NotStarted"]
      /\ UNCHANGED <<quotes, ecn, handed, request, draft, terms, missed>>
      /\ Back
  BY DEF ReverseHandoff
<1>2. left' \in Nat
  BY <1>1, PresentLine, StepBack
<1> QED BY <1>1, <1>2, MovedOn

\* handOverToTechnicalReview
LEMMA HandOverStep == ASSUME IInv, HandOverToTechnicalReview PROVE IInv'
<1>1. /\ handed' = TRUE
      /\ UNCHANGED <<line, quotes, ecn, request, draft, terms, missed, left>>
  BY DEF HandOverToTechnicalReview
<1>2. TypeOK'
  BY <1>1 DEF IInv, TypeOK, Present
<1>3. \A l \in Lines : LineOK(l)'
  <2> TAKE l \in Lines
  <2>1. LineOK(l)
    BY DEF IInv
  <2> QED BY <1>1, <2>1 DEF LineOK, QuotesOK
<1>4. RequestOK'
  BY <1>1 DEF IInv, RequestOK, Revised, Present
<1> QED BY <1>1, <1>2, <1>3, <1>4 DEF IInv

------------------------------------------------------------------------------
(* The ECN of a technical revision.                                       *)

\* Only a quoted line has an ECN.
LEMMA NotedLine ==
    ASSUME IInv, NEW l \in Lines, ecn[l].status # "none"
    PROVE  l \in Present /\ quotes[l] # <<>>
<1>1. RootOK(line[l], quotes[l], ecn[l])
  BY DEF IInv, LineOK
<1> QED BY <1>1 DEF RootOK, Present

\* A step of the ECN leaves the quotes of its line.
LEMMA ChangedEcn ==
    ASSUME IInv, NEW l \in Present, NEW rec \in Line, NEW e \in EcnRow,
           line' = [line EXCEPT ![l] = rec],
           ecn' = [ecn EXCEPT ![l] = e],
           UNCHANGED <<quotes, handed, request, draft, terms, missed>>,
           left' \in Nat,
           ecn[l].status # "none",
           rec.stage # "none" <=> line[l].stage # "none",
           StageOK(rec, quotes[l], e, request),
           WaitsOK(rec),
           QuotesOK(quotes[l], rec, terms, l \in missed)
    PROVE  IInv'
<1>1. l \in Lines /\ line[l] # Absent /\ rec # Absent
  BY AbsentIsNoLine DEF Present
<1>2. quotes \in [Lines -> Seq(Quote)] /\ missed \subseteq Lines /\ handed \in BOOLEAN
  BY DEF IInv, TypeOK
<1>3. quotes' = [quotes EXCEPT ![l] = quotes[l]] /\ quotes[l] \in Seq(Quote)
  BY <1>1, <1>2
<1>4. RootOK(rec, quotes[l], e)
  BY <1>1, NotedLine DEF RootOK
<1>5. Staged(rec) <=> Staged(line[l])
  BY <1>1 DEF Staged
<1>6. \A o \in Lines \ {l} : o \in missed' <=> o \in missed
  OBVIOUS
<1>7. rec \in Line \union {Absent} /\ missed' \subseteq Lines /\ handed' \in BOOLEAN
  BY <1>2
<1>8. QuotesOK(quotes[l], rec, terms, l \in missed')
  OBVIOUS
<1> QED BY <1>1, <1>3, <1>4, <1>5, <1>6, <1>7, <1>8, ChangedLine

\* completeEngineeringChangeDesign and its rejection move the ECN between the
\* two steps of the design.
LEMMA DesignStep ==
    ASSUME IInv, NEW l \in Lines, NEW status \in DesignSteps, ecn[l].status \in DesignSteps,
           ecn' = [ecn EXCEPT ![l].status = status],
           UNCHANGED <<line, quotes, handed, request, draft, terms, missed>>,
           left' \in Nat
    PROVE  IInv'
<1> DEFINE e == [ecn[l] EXCEPT !.status = status]
<1>1. l \in Present /\ ecn[l].status # "none"
  BY NotedLine DEF DesignSteps
<1>2. /\ line[l] \in Line /\ line \in [Lines -> Line \union {Absent}]
      /\ StageOK(line[l], quotes[l], ecn[l], request) /\ WaitsOK(line[l])
      /\ QuotesOK(quotes[l], line[l], terms, l \in missed)
      /\ ecn[l] \in EcnRow
  BY <1>1, PresentLine
<1>3. ecn \in [Lines -> EcnRow]
  BY DEF IInv, TypeOK, EcnRow
<1>4. line' = [line EXCEPT ![l] = line[l]] /\ ecn' = [ecn EXCEPT ![l] = e]
  BY <1>2, <1>3
<1>5. e \in EcnRow /\ e.status = status
  BY <1>2 DEF EcnRow, DesignSteps
<1> HIDE DEF e
<1>6. StageOK(line[l], quotes[l], e, request)
  BY <1>2, <1>5 DEF StageOK, DesignSteps
<1> QED BY <1>1, <1>2, <1>4, <1>5, <1>6, ChangedEcn

\* completeEngineeringChangeDesign
LEMMA SubmitStep == ASSUME IInv, NEW l \in Lines, SubmitDesign(l) PROVE IInv'
<1>1. /\ ecn[l].status = "PendingDesign"
      /\ ecn' = [ecn EXCEPT ![l].status = "PendingDesignApproval"]
      /\ UNCHANGED <<line, quotes, handed, request, draft, terms, missed, left>>
  BY DEF SubmitDesign
<1>2. left' \in Nat
  BY <1>1 DEF IInv, TypeOK
<1> QED BY <1>1, <1>2, DesignStep DEF DesignSteps

\* applyEngineeringChangeDesignReview: the design is rejected.
LEMMA RejectStep == ASSUME IInv, NEW l \in Lines, RejectDesign(l) PROVE IInv'
<1>1. /\ ecn[l].status = "PendingDesignApproval" /\ Back
      /\ ecn' = [ecn EXCEPT ![l].status = "PendingDesign"]
      /\ UNCHANGED <<line, quotes, handed, request, draft, terms, missed>>
  BY DEF RejectDesign
<1>2. left \in Nat
  BY DEF IInv, TypeOK
<1>3. left' \in Nat
  BY <1>1, <1>2, StepBack
<1> QED BY <1>1, <1>3, DesignStep DEF DesignSteps

\* applyEngineeringChangeDesignReview: the design is approved.
LEMMA ApproveStep == ASSUME IInv, NEW l \in Lines, ApproveDesign(l) PROVE IInv'
<1> DEFINE e == [ecn[l] EXCEPT !.status = "PendingProductCosting"]
           rec == [line[l] EXCEPT !.rev = line[l].rev + 1, !.stage = "ProductCosting"]
<1>1. /\ ecn[l].status = "PendingDesignApproval"
      /\ ecn' = [ecn EXCEPT ![l].status = "PendingProductCosting"]
      /\ line' = [line EXCEPT ![l].rev = line[l].rev + 1,
           ![l].stage = IF line[l].stage = "Design" THEN "ProductCosting" ELSE line[l].stage]
      /\ UNCHANGED <<quotes, handed, request, draft, terms, missed, left>>
  BY DEF ApproveDesign
<1>2. l \in Present /\ ecn[l].status # "none" /\ quotes[l] # <<>>
  BY <1>1, NotedLine
<1>3. /\ line[l] \in Line /\ line \in [Lines -> Line \union {Absent}]
      /\ StageOK(line[l], quotes[l], ecn[l], request) /\ WaitsOK(line[l])
      /\ QuotesOK(quotes[l], line[l], terms, l \in missed)
      /\ ecn[l] \in EcnRow /\ left \in Nat
  BY <1>2, PresentLine
<1>4. line[l].stage = "Design" /\ line[l].recost /\ request = "Technical"
  BY <1>1, <1>3 DEF StageOK, DesignSteps
<1>5. ecn \in [Lines -> EcnRow]
  BY DEF IInv, TypeOK, EcnRow
<1>6. line' = [line EXCEPT ![l] = rec] /\ ecn' = [ecn EXCEPT ![l] = e]
  BY <1>1, <1>3, <1>4, <1>5
<1>7. e \in EcnRow /\ e.status = "PendingProductCosting"
  BY <1>3 DEF EcnRow
<1>8. /\ rec \in Line /\ rec.stage = "ProductCosting" /\ rec.recost
      /\ rec.asked = line[l].asked /\ rec.review = line[l].review
      /\ rec.design = line[l].design
  <2>1. line[l].rev + 1 \in Nat
    <3>1. line[l].rev \in Nat
      BY <1>3 DEF Line
    <3> QED BY <3>1
  <2> DEFINE rev == line[l].rev + 1
  <2>2. rev \in Nat
    BY <2>1
  <2> HIDE DEF rev
  <2>3. rec = [line[l] EXCEPT !.rev = rev, !.stage = "ProductCosting"]
    BY DEF rev
  <2> HIDE DEF rec
  <2> QED BY <1>3, <1>4, <2>2, <2>3 DEF Line
<1> HIDE DEF e, rec
<1>9. StageOK(rec, quotes[l], e, request)
  BY <1>2, <1>4, <1>7, <1>8 DEF StageOK, DesignSteps
<1>10. WaitsOK(rec)
  BY <1>3, <1>8 DEF WaitsOK
<1>11. QuotesOK(quotes[l], rec, terms, l \in missed)
  BY <1>3, <1>4, <1>8 DEF QuotesOK
<1>12. left' \in Nat
  BY <1>1, <1>3
<1> QED BY <1>1, <1>2, <1>4, <1>6, <1>7, <1>8, <1>9, <1>10, <1>11, <1>12, ChangedEcn

\* completeEngineeringChangeProductCosting
LEMMA ProductCostedStep ==
    ASSUME IInv, NEW l \in Lines, NEW others \in BOOLEAN, CompleteProductCosting(l, others)
    PROVE  IInv'
<1> DEFINE e == [status |-> "PendingCustomerCosting", others |-> others]
           rec == [line[l] EXCEPT !.stage = "CustomerCosting",
                                  !.next = "ProductCostingComplete"]
<1>1. /\ ecn[l].status = "PendingProductCosting"
      /\ line[l].stage = "ProductCosting" =>
           /\ ecn' = [ecn EXCEPT ![l] = e]
           /\ line' = [line EXCEPT ![l].stage = "CustomerCosting",
                                   ![l].next = "ProductCostingComplete"]
      /\ UNCHANGED <<quotes, handed, request, draft, terms, missed, left>>
  BY DEF CompleteProductCosting
<1>2. l \in Present /\ ecn[l].status # "none" /\ quotes[l] # <<>>
  BY <1>1, NotedLine
<1>3. /\ line[l] \in Line /\ line \in [Lines -> Line \union {Absent}]
      /\ StageOK(line[l], quotes[l], ecn[l], request) /\ WaitsOK(line[l])
      /\ QuotesOK(quotes[l], line[l], terms, l \in missed)
      /\ left \in Nat
  BY <1>2, PresentLine
<1>4. line[l].stage = "ProductCosting" /\ line[l].recost /\ request = "Technical"
  BY <1>1, <1>3 DEF StageOK
<1>5. line' = [line EXCEPT ![l] = rec] /\ ecn' = [ecn EXCEPT ![l] = e]
  BY <1>1, <1>3, <1>4
<1>6. e \in EcnRow /\ e.status = "PendingCustomerCosting"
  BY DEF EcnRow
<1>7. /\ rec \in Line /\ rec.stage = "CustomerCosting" /\ rec.recost
      /\ rec.asked = line[l].asked /\ rec.review = line[l].review
      /\ rec.design = line[l].design
  BY <1>3, <1>4 DEF Line
<1> HIDE DEF e, rec
<1>8. StageOK(rec, quotes[l], e, request)
  BY <1>2, <1>4, <1>6, <1>7 DEF StageOK, DesignSteps
<1>9. WaitsOK(rec)
  BY <1>3, <1>7 DEF WaitsOK
<1>10. QuotesOK(quotes[l], rec, terms, l \in missed)
  BY <1>3, <1>4, <1>7 DEF QuotesOK
<1>11. left' \in Nat
  BY <1>1, <1>3
<1> QED BY <1>1, <1>2, <1>4, <1>5, <1>6, <1>7, <1>8, <1>9, <1>10, <1>11, ChangedEcn

\* applyEngineeringChangeDecision
LEMMA DecideStep == ASSUME IInv, NEW l \in Lines, DecideOthers(l) PROVE IInv'
<1> DEFINE e == [ecn[l] EXCEPT !.status = "Completed"]
<1>1. /\ ecn[l].status = "PendingCustomerCosting"
      /\ ecn' = [ecn EXCEPT ![l].status = "Completed"]
      /\ UNCHANGED <<line, quotes, handed, request, draft, terms, missed, left>>
  <2>1. /\ ecn[l] = [status |-> "PendingCustomerCosting", others |-> TRUE]
        /\ ecn' = [ecn EXCEPT ![l].status = "Completed"]
        /\ UNCHANGED <<line, quotes, handed, request, draft, terms, missed, left>>
    BY DEF DecideOthers
  <2> DEFINE r == [status |-> "PendingCustomerCosting", others |-> TRUE]
  <2>2. r.status = "PendingCustomerCosting"
    OBVIOUS
  <2>3. ecn[l] = r
    BY <2>1
  <2> HIDE DEF r
  <2> QED BY <2>1, <2>2, <2>3
<1>2. l \in Present /\ ecn[l].status # "none"
  BY <1>1, NotedLine
<1>3. /\ line[l] \in Line /\ line \in [Lines -> Line \union {Absent}]
      /\ StageOK(line[l], quotes[l], ecn[l], request) /\ WaitsOK(line[l])
      /\ QuotesOK(quotes[l], line[l], terms, l \in missed)
      /\ ecn[l] \in EcnRow /\ left \in Nat
  BY <1>2, PresentLine
<1>4. ecn \in [Lines -> EcnRow]
  BY DEF IInv, TypeOK, EcnRow
<1>5. line' = [line EXCEPT ![l] = line[l]] /\ ecn' = [ecn EXCEPT ![l] = e]
  BY <1>1, <1>3, <1>4
<1>6. e \in EcnRow /\ e.status = "Completed"
  BY <1>3 DEF EcnRow
<1> HIDE DEF e
<1>7. StageOK(line[l], quotes[l], e, request)
  BY <1>1, <1>3, <1>6 DEF StageOK, DesignSteps
<1>8. left' \in Nat
  BY <1>1, <1>3
<1> QED BY <1>1, <1>2, <1>3, <1>5, <1>6, <1>7, <1>8, ChangedEcn

------------------------------------------------------------------------------
(* Customer costing.                                                      *)

\* The larger of two numbers.
LEMMA MaxOfTwo ==
    ASSUME NEW a \in Nat, NEW b \in Nat
    PROVE  Max({a, b}) = IF a >= b THEN a ELSE b
<1> DEFINE S == {a, b}
<1>1. \E x \in S : \A y \in S : x >= y
  <2>1. CASE a >= b
    BY <2>1
  <2>2. CASE ~(a >= b)
    <3>1. b >= a /\ b >= b
      BY <2>2
    <3> QED BY <3>1
  <2> QED BY <2>1, <2>2
<1> HIDE DEF S
<1>2. Max(S) \in S /\ \A y \in S : Max(S) >= y
  BY <1>1 DEF Max
<1> QED BY <1>2 DEF S

\* What saveQuote makes of the quotes of a line: the quote at position i.
LEMMA SavedIs ==
    ASSUME IInv, NEW l \in Present, NEW status \in {"Draft", "Ready"}, InCatalogue(l)
    PROVE  LET q == quotes[l]
               s == Saved(l, status)
               product == line[l].product
           IN  /\ s \in Seq(Quote) /\ s # <<>>
               /\ \E i \in DOMAIN s :
                    /\ i = IF IsDraft(l, Latest(l)) THEN Latest(l) ELSE Len(q) + 1
                    /\ s[i] = Priced(l, status)
                    /\ DOMAIN q \subseteq DOMAIN s
                    /\ \A j \in DOMAIN s \ {i} :
                         /\ j \in DOMAIN q
                         /\ s[j] = IF /\ line[l].recost /\ status = "Ready"
                                      /\ q[j].status = "Ready"
                                      /\ q[j].product = product
                                   THEN [q[j] EXCEPT !.status = "Superseded"]
                                   ELSE q[j]
<1> DEFINE q == quotes[l]
           n == Len(q)
           i == IF IsDraft(l, Latest(l)) THEN Latest(l) ELSE n + 1
           m == Max({i, n})
           row(j) == IF j = i THEN Priced(l, status)
                     ELSE IF /\ line[l].recost /\ status = "Ready"
                             /\ q[j].status = "Ready"
                             /\ q[j].product = line[l].product
                     THEN [q[j] EXCEPT !.status = "Superseded"]
                     ELSE q[j]
<1>1. /\ l \in Lines /\ line[l] \in Line /\ TypeOK
  BY PresentLine
<1>2. /\ n \in Nat /\ DOMAIN q = 1 .. n /\ \A j \in DOMAIN q : q[j] \in Quote
  BY <1>1, QuoteRows
<1>3. i \in 1 .. n \/ i = n + 1
  <2>1. CASE IsDraft(l, Latest(l))
    BY <1>1, <1>2, <2>1, LatestIs DEF IsDraft
  <2>2. CASE ~IsDraft(l, Latest(l))
    BY <2>2
  <2> QED BY <2>1, <2>2
<1> HIDE DEF i
<1>4. m \in Nat /\ i \in 1 .. m /\ 1 .. n \subseteq 1 .. m /\ \A j \in 1 .. m : j # i => j \in 1 .. n
  <2>0. i \in Nat
    BY <1>2, <1>3
  <2>1. m = IF i >= n THEN i ELSE n
    BY <1>2, <2>0, MaxOfTwo
  <2> HIDE DEF m
  <2>2. CASE i \in 1 .. n
    <3>1. m = n
      BY <1>2, <2>1, <2>2
    <3> QED BY <1>2, <2>2, <3>1
  <2>3. CASE i = n + 1
    <3>1. m = n + 1
      BY <1>2, <2>1, <2>3
    <3> QED BY <1>2, <2>3, <3>1
  <2> QED BY <1>3, <2>2, <2>3
<1>5. Saved(l, status) = [j \in 1 .. m |-> row(j)]
  BY DEF Saved, i
<1>6. Priced(l, status) \in Quote
  <2>1. line[l].product \in {"own", "match"} /\ line[l].rev \in Nat /\ terms \in Nat
    BY <1>1 DEF Line, InCatalogue, TypeOK
  <2> QED BY <2>1 DEF Priced, Quote
<1>7. \A j \in 1 .. m : row(j) \in Quote
  <2> TAKE j \in 1 .. m
  <2>1. CASE j = i
    BY <1>6, <2>1
  <2>2. CASE j # i
    <3>1. q[j] \in Quote
      BY <1>2, <1>4, <2>2
    <3>2. [q[j] EXCEPT !.status = "Superseded"] \in Quote
      BY <3>1 DEF Quote
    <3> QED BY <2>2, <3>1, <3>2
  <2> QED BY <2>1, <2>2
<1>8. /\ DOMAIN Saved(l, status) = 1 .. m
      /\ \A j \in 1 .. m : Saved(l, status)[j] = row(j)
      /\ Saved(l, status) \in [1 .. m -> Quote]
  BY <1>5, <1>7
<1>9. Saved(l, status) \in Seq(Quote)
  <2> DEFINE s == Saved(l, status)
  <2>1. s \in [1 .. m -> Quote] /\ m \in Nat
    BY <1>4, <1>8
  <2> HIDE DEF s, m
  <2>2. s \in Seq(Quote)
    BY <2>1, FunctionIsSeq
  <2> QED BY <2>2 DEF s
<1>10. Saved(l, status) # <<>>
  BY <1>4, <1>8, <1>9, EmptySeq, LenProperties
<1>11. /\ i = IF IsDraft(l, Latest(l)) THEN Latest(l) ELSE Len(q) + 1
  BY DEF i
<1> HIDE DEF m
<1> QED BY <1>2, <1>4, <1>8, <1>9, <1>10, <1>11

\* The quotes of the line after it, s, those before being q and its record rec:
\* i was the draft of the product, or is new, and no other quote of the product
\* is newer; new is the record after it.
SaveOf(q, s, i, status, rec, new, t, out, out2) ==
    /\ i \in DOMAIN s /\ DOMAIN s \subseteq Nat /\ DOMAIN q \subseteq DOMAIN s
    /\ new.recost = (rec.recost /\ status # "Ready") /\ new.rev = rec.rev
    /\ new.stage = "ReadyToSend" =>
         status = "Ready" \/ (rec.stage = "ReadyToSend" /\ ~rec.recost)
    /\ ~out2 => ~out \/ status = "Ready"
    /\ s[i].status = status /\ s[i].product = rec.product
    /\ s[i].terms = t /\ s[i].rev = rec.rev
    /\ \A j \in DOMAIN s \ {i} :
         /\ j \in DOMAIN q
         /\ s[j].product = q[j].product
         /\ IF /\ rec.recost /\ status = "Ready" /\ q[j].status = "Ready"
               /\ q[j].product = rec.product
            THEN s[j].status = "Superseded"
            ELSE s[j] = q[j]
    /\ i \in DOMAIN q => q[i].status = "Draft" /\ q[i].product = rec.product
    /\ Uniform(q) /\ (\A j \in DOMAIN q : q[j].product = rec.product) =>
         /\ \A j \in DOMAIN q : q[j].status \in Current => j <= i
         /\ \A j \in DOMAIN q \ {i} : q[j].status # "Draft"
         /\ ~rec.recost => \A j \in DOMAIN q \ {i} : q[j].status \notin Current

\* The invariant of a line that is quoted again.
LEMMA SavedQuotes ==
    ASSUME NEW q, NEW s, NEW i, NEW status \in {"Draft", "Ready"},
           NEW rec, NEW new, NEW t, NEW out, NEW out2,
           rec.recost \in BOOLEAN,
           SaveOf(q, s, i, status, rec, new, t, out, out2),
           QuotesOK(q, rec, t, out)
    PROVE  QuotesOK(s, new, t, out2)
<1> USE DEF SaveOf
<1> SUFFICES ASSUME Uniform(s)
             PROVE  /\ DraftLast(s)
                    /\ ~new.recost => DraftAlone(s)
                    /\ ~new.recost /\ ~out2 => AtTerms(s, t, new.rev)
                    /\ new.stage = "ReadyToSend" => NewestReady(s)
  BY DEF QuotesOK
<1>1. \A j \in DOMAIN s : s[j].product = rec.product
  BY DEF Uniform
<1>2. \A j \in DOMAIN q : q[j].product = rec.product
  BY <1>1
<1>3. Uniform(q)
  BY <1>2 DEF Uniform
<1>4. /\ \A j \in DOMAIN q : q[j].status \in Current => j <= i
      /\ \A j \in DOMAIN q \ {i} : q[j].status # "Draft"
      /\ ~rec.recost => \A j \in DOMAIN q \ {i} : q[j].status \notin Current
  BY <1>2, <1>3
<1>5. \A j \in DOMAIN s \ {i} : /\ j \in DOMAIN q
                                /\ s[j].status = q[j].status \/ s[j].status = "Superseded"
                                /\ rec.recost /\ status = "Ready" => s[j].status # "Ready"
  BY <1>2
<1>6. \A j \in DOMAIN s \ {i} : /\ s[j].status # "Draft"
                                /\ s[j].status \in Current => j <= i
                                /\ ~rec.recost => s[j].status \notin Current
  BY <1>4, <1>5 DEF Current
<1>7. NoneAfter(s, i)
  <2> SUFFICES ASSUME NEW j \in DOMAIN s, j > i PROVE s[j].status \notin Current
    BY DEF NoneAfter
  <2>0. i \in Nat /\ j \in Nat
    BY Zenon
  <2>1. j # i /\ ~(j <= i)
    BY <2>0, Positions, Zenon
  <2> QED BY <1>6, <2>1
<1>8. DraftLast(s)
  BY <1>6, <1>7 DEF DraftLast
<1>9. ~new.recost => DraftAlone(s)
  BY <1>6 DEF DraftAlone, Current
<1>10. ASSUME ~new.recost, ~out2 PROVE AtTerms(s, t, new.rev)
  <2> SUFFICES ASSUME NEW j \in DOMAIN s,
                      s[j].status = "Ready" \/ (s[j].status = "Sent" /\ NoneAfter(s, j))
               PROVE  j = i
    BY DEF AtTerms
  <2> SUFFICES ASSUME j # i PROVE FALSE
    OBVIOUS
  <2>1. rec.recost /\ status = "Ready"
    BY <1>6, <1>10 DEF Current
  <2>2. s[j].status = "Sent" /\ NoneAfter(s, j)
    BY <1>5, <2>1
  <2>3. j <= i
    BY <1>6, <2>2 DEF Current
  <2>4. i > j
    <3>1. i \in Nat /\ j \in Nat
      BY Zenon
    <3> QED BY <2>3, <3>1, Positions, Zenon
  <2> QED BY <2>1, <2>2, <2>4 DEF NoneAfter, Current
<1>11. ASSUME new.stage = "ReadyToSend" PROVE NewestReady(s)
  <2>1. CASE status = "Ready"
    BY <1>7, <2>1 DEF NewestReady
  <2>2. CASE status # "Ready"
    <3>1. rec.stage = "ReadyToSend" /\ ~rec.recost
      BY <1>11, <2>2
    <3>2. NewestReady(q)
      BY <1>3, <3>1 DEF QuotesOK
    <3> QED BY <1>4, <3>1, <3>2 DEF NewestReady, Current
  <2> QED BY <2>1, <2>2
<1> QED BY <1>8, <1>9, <1>10, <1>11

\* The quote that is saved is the newest of its line, if they are for one
\* product, and no other is a draft.
LEMMA SavedIsNewest ==
    ASSUME IInv, NEW l \in Present, NEW i,
           i = IF IsDraft(l, Latest(l)) THEN Latest(l) ELSE Len(quotes[l]) + 1,
           Latest(l) = 0 \/ IsDraft(l, Latest(l)) \/ line[l].recost,
           Uniform(quotes[l]),
           \A j \in DOMAIN quotes[l] : quotes[l][j].product = line[l].product
    PROVE  /\ \A j \in DOMAIN quotes[l] : quotes[l][j].status \in Current => j <= i
           /\ \A j \in DOMAIN quotes[l] \ {i} : quotes[l][j].status # "Draft"
           /\ ~line[l].recost =>
                \A j \in DOMAIN quotes[l] \ {i} : quotes[l][j].status \notin Current
<1> DEFINE q == quotes[l]
           n == Len(q)
           m == Latest(l)
<1>1. /\ l \in Lines /\ TypeOK /\ QuotesOK(q, line[l], terms, l \in missed)
  BY PresentLine
<1>2. /\ n \in Nat /\ DOMAIN q = 1 .. n
  BY <1>1, QuoteRows
<1>3. /\ m \in Nat
      /\ m = 0 <=> \A j \in DOMAIN q : q[j].status \notin Current
      /\ m # 0 => m \in DOMAIN q /\ q[m].status \in Current
      /\ \A j \in DOMAIN q : q[j].status \in Current => j <= m
  BY <1>1, LatestIs
<1>4. DraftLast(q) /\ (~line[l].recost => DraftAlone(q))
  BY <1>1 DEF QuotesOK
<1>5. IsDraft(l, m) <=> m # 0 /\ q[m].status = "Draft"
  BY DEF IsDraft
<1>6. /\ IsDraft(l, m) => i = m
      /\ ~IsDraft(l, m) => i = n + 1
  OBVIOUS
<1> HIDE DEF q, n, m
<1>7. \A j \in DOMAIN q : q[j].status \in Current => j <= i
  <2>1. CASE IsDraft(l, m)
    BY <1>3, <1>6, <2>1
  <2>2. CASE ~IsDraft(l, m)
    <3>1. \A j \in 1 .. n : j <= n + 1
      BY <1>2
    <3> QED BY <1>2, <1>6, <2>2, <3>1
  <2> QED BY <2>1, <2>2
<1>8. ASSUME NEW j \in DOMAIN q, q[j].status = "Draft" PROVE j = i
  <2>1. j <= m /\ m # 0 /\ j \in Nat
    BY <1>2, <1>3, <1>8 DEF Current
  <2>2. NoneAfter(q, j)
    BY <1>4, <1>8 DEF DraftLast
  <2>3. m \in DOMAIN q /\ q[m].status \in Current
    BY <1>3, <2>1
  <2>4. ~(m > j)
    BY <2>2, <2>3 DEF NoneAfter
  <2>5. j = m
    BY <1>3, <2>1, <2>4, Positions
  <2> QED BY <1>5, <1>6, <1>8, <2>1, <2>5
<1>9. ASSUME ~line[l].recost, NEW j \in DOMAIN q \ {i} PROVE q[j].status \notin Current
  <2>1. CASE m = 0
    BY <1>3, <2>1
  <2>2. CASE IsDraft(l, m)
    <3>1. m \in DOMAIN q /\ q[m].status = "Draft" /\ DraftAlone(q)
      BY <1>3, <1>4, <1>5, <1>9, <2>2
    <3>2. q[j].status \notin {"Ready", "Sent"} /\ q[j].status # "Draft"
      BY <1>8, <3>1 DEF DraftAlone
    <3> QED BY <3>2 DEF Current
  <2> QED BY <1>9, <2>1, <2>2 DEF m
<1> QED BY <1>7, <1>8, <1>9 DEF q

\* saveQuote
LEMMA SaveQuoteStep ==
    ASSUME IInv, NEW l \in Lines, NEW status \in {"Draft", "Ready"}, SaveQuote(l, status)
    PROVE  IInv'
<1> DEFINE q == quotes[l]
           s == Saved(l, status)
           next == IF status = "Ready" THEN "Quoted" ELSE "Started"
           recost == line[l].recost /\ ~(status = "Ready")
           stage == IF status = "Ready" /\ line[l].stage # "none" THEN "ReadyToSend"
                    ELSE line[l].stage
           rec == [line[l] EXCEPT !.next = next, !.recost = recost, !.stage = stage]
           e == IF status = "Ready"
                   /\ ecn[l] = [status |-> "PendingCustomerCosting", others |-> FALSE]
                THEN [ecn[l] EXCEPT !.status = "Completed"] ELSE ecn[l]
           out2 == l \in missed'
<1>1. /\ l \in Present /\ InCatalogue(l)
      /\ line[l].stage \notin {"Sales", "Design", "ProductCosting"}
      /\ Latest(l) = 0 \/ IsDraft(l, Latest(l)) \/ line[l].recost
      /\ quotes' = [quotes EXCEPT ![l] = s]
      /\ line' = [line EXCEPT ![l].next = next, ![l].recost = recost, ![l].stage = stage]
      /\ ecn' = IF status = "Ready"
                   /\ ecn[l] = [status |-> "PendingCustomerCosting", others |-> FALSE]
                THEN [ecn EXCEPT ![l].status = "Completed"] ELSE ecn
      /\ missed' = IF status = "Ready" THEN missed \ {l} ELSE missed
      /\ UNCHANGED <<handed, request, draft, terms, left>>
  BY DEF SaveQuote
<1>2. /\ line[l] \in Line /\ line[l] # Absent /\ line \in [Lines -> Line \union {Absent}]
      /\ StageOK(line[l], q, ecn[l], request) /\ WaitsOK(line[l])
      /\ QuotesOK(q, line[l], terms, l \in missed)
      /\ ecn[l] \in EcnRow /\ TypeOK
  BY <1>1, PresentLine
<1>3. /\ ecn \in [Lines -> EcnRow] /\ missed \subseteq Lines
      /\ handed \in BOOLEAN /\ left \in Nat
  BY <1>2 DEF TypeOK, EcnRow
<1>4. line' = [line EXCEPT ![l] = rec]
  BY <1>1, <1>2
<1>5. ecn' = [ecn EXCEPT ![l] = e]
  BY <1>1, <1>3
<1>6. /\ e \in EcnRow
      /\ e.status = ecn[l].status
         \/ (e.status = "Completed" /\ ecn[l].status = "PendingCustomerCosting")
  <2> DEFINE r == [status |-> "PendingCustomerCosting", others |-> FALSE]
             d == [ecn[l] EXCEPT !.status = "Completed"]
  <2>1. r.status = "PendingCustomerCosting"
    OBVIOUS
  <2>2. d \in EcnRow /\ d.status = "Completed"
    BY <1>2 DEF EcnRow
  <2>3. (e = d /\ ecn[l] = r) \/ e = ecn[l]
    OBVIOUS
  <2> HIDE DEF r, d, e
  <2> QED BY <1>2, <2>1, <2>2, <2>3
<1>7. /\ rec \in Line
      /\ rec.recost = recost /\ rec.stage = stage /\ rec.rev = line[l].rev
      /\ rec.asked = line[l].asked /\ rec.review = line[l].review
      /\ rec.design = line[l].design
  <2>1. next \in {"Quoted", "Started"} /\ recost \in BOOLEAN
        /\ stage \in {"none", "Sales", "Design", "ProductCosting",
                      "CustomerCosting", "ReadyToSend"}
    BY <1>2 DEF Line
  <2> HIDE DEF next, recost, stage
  <2>2. rec \in Line
    <3>1. line[l].was \in Nat /\ line[l].stage \in Stages
      BY <1>2 DEF Line, Stages
    <3> DEFINE new == Revise(line[l], next, recost, stage, line[l].was)
    <3>2. rec = new
      BY <1>2 DEF Line, Revise
    <3>3. next \in Nexts /\ stage \in Stages
      BY <2>1 DEF Nexts, Stages
    <3>4. new \in Line
      BY <1>2, <2>1, <3>1, <3>3, LineWith
    <3> HIDE DEF new, rec
    <3> QED BY <3>2, <3>4
  <2>3. /\ rec.recost = recost /\ rec.stage = stage /\ rec.rev = line[l].rev
        /\ rec.asked = line[l].asked /\ rec.review = line[l].review
        /\ rec.design = line[l].design
    BY <1>2 DEF Line
  <2> QED BY <2>2, <2>3
<1>8. /\ recost => line[l].recost /\ status # "Ready"
      /\ stage = "none" <=> line[l].stage = "none"
      /\ stage \in {"none", "CustomerCosting", "ReadyToSend"}
      /\ stage = "CustomerCosting" => line[l].stage = "CustomerCosting" /\ status # "Ready"
      /\ stage = "ReadyToSend" => status = "Ready" \/ line[l].stage = "ReadyToSend"
      /\ recost = (line[l].recost /\ status # "Ready")
  BY <1>1, <1>2 DEF Line
<1> HIDE DEF e, rec, recost, stage, next
<1>9. s \in Seq(Quote) /\ s # <<>>
  BY <1>1, SavedIs
<1>10. rec # Absent
  BY <1>7, AbsentIsNoLine
<1>11. RootOK(rec, s, e)
  BY <1>9, <1>10 DEF RootOK
<1>12. StageOK(rec, s, e, request)
  <2>1. line[l].stage \notin {"Sales", "Design", "ProductCosting"}
    BY <1>1
  <2>2. ecn[l].status \notin DesignSteps /\ ecn[l].status # "PendingProductCosting"
    BY <1>2, <2>1 DEF StageOK
  <2>3. e.status \notin DesignSteps /\ e.status # "PendingProductCosting"
    BY <1>6, <2>2 DEF DesignSteps
  <2>4. rec.stage # "none" => request # "none"
    BY <1>2, <1>7, <1>8 DEF StageOK
  <2>5. rec.stage = "CustomerCosting" => rec.recost
    BY <1>2, <1>7, <1>8 DEF StageOK
  <2>6. rec.stage = "ReadyToSend" => ~rec.recost
    BY <1>2, <1>7, <1>8 DEF StageOK
  <2>7. rec.recost => request # "none"
    BY <1>2, <1>7, <1>8 DEF StageOK
  <2> QED BY <1>7, <1>8, <1>9, <2>3, <2>4, <2>5, <2>6, <2>7 DEF StageOK
<1>13. WaitsOK(rec)
  BY <1>2, <1>7 DEF WaitsOK
<1>14. QuotesOK(s, rec, terms, out2)
  <2>1. PICK i \in DOMAIN s :
            /\ i = IF IsDraft(l, Latest(l)) THEN Latest(l) ELSE Len(q) + 1
            /\ s[i] = Priced(l, status)
            /\ DOMAIN q \subseteq DOMAIN s
            /\ \A j \in DOMAIN s \ {i} :
                 /\ j \in DOMAIN q
                 /\ s[j] = IF /\ line[l].recost /\ status = "Ready"
                              /\ q[j].status = "Ready"
                              /\ q[j].product = line[l].product
                           THEN [q[j] EXCEPT !.status = "Superseded"]
                           ELSE q[j]
    BY <1>1, SavedIs
  <2>2. /\ s[i].status = status /\ s[i].product = line[l].product
        /\ s[i].terms = terms /\ s[i].rev = line[l].rev
    BY <2>1 DEF Priced
  <2>3. \A j \in DOMAIN q : q[j] \in Quote
    BY <1>1, <1>2, QuoteRows DEF Present
  <2>4. DOMAIN s \subseteq Nat
    <3>1. DOMAIN s = 1 .. Len(s) /\ Len(s) \in Nat
      BY <1>9, LenProperties
    <3> QED BY <3>1
  <2>5. ASSUME NEW j \in DOMAIN s \ {i}
        PROVE  /\ j \in DOMAIN q
               /\ s[j].product = q[j].product
               /\ IF /\ line[l].recost /\ status = "Ready" /\ q[j].status = "Ready"
                     /\ q[j].product = line[l].product
                  THEN s[j].status = "Superseded"
                  ELSE s[j] = q[j]
    <3>1. j \in DOMAIN q /\ q[j] \in Quote
      BY <2>1, <2>3
    <3>2. /\ [q[j] EXCEPT !.status = "Superseded"].product = q[j].product
          /\ [q[j] EXCEPT !.status = "Superseded"].status = "Superseded"
      BY <3>1 DEF Quote
    <3> HIDE DEF s, q
    <3> QED BY <2>1, <3>1, <3>2
  <2>6. i \in DOMAIN q => q[i].status = "Draft" /\ q[i].product = line[l].product
    <3>1. l \in Lines /\ DOMAIN q = 1 .. Len(q) /\ Len(q) \in Nat
      BY <1>1, <1>2, QuoteRows DEF Present
    <3>2. CASE IsDraft(l, Latest(l))
      <4>1. i = Latest(l) /\ i # 0 /\ q[i].status = "Draft"
        BY <2>1, <3>2 DEF IsDraft
      <4>2. q[i].product = line[l].product
        BY <1>2, <4>1, LatestIs
      <4> QED BY <4>1, <4>2
    <3>3. CASE ~IsDraft(l, Latest(l))
      BY <2>1, <3>1, <3>3
    <3> QED BY <3>2, <3>3
  <2>7. Uniform(q) /\ (\A j \in DOMAIN q : q[j].product = line[l].product) =>
             /\ \A j \in DOMAIN q : q[j].status \in Current => j <= i
             /\ \A j \in DOMAIN q \ {i} : q[j].status # "Draft"
             /\ ~line[l].recost => \A j \in DOMAIN q \ {i} : q[j].status \notin Current
    BY <1>1, <2>1, SavedIsNewest
  <2>8. rec.stage = "ReadyToSend" =>
          status = "Ready" \/ (line[l].stage = "ReadyToSend" /\ ~line[l].recost)
    BY <1>2, <1>7, <1>8 DEF StageOK
  <2>9. ~out2 => ~(l \in missed) \/ status = "Ready"
    BY <1>1
  <2>10. line[l].recost \in BOOLEAN
    BY <1>2 DEF Line
  <2>11. rec.recost = (line[l].recost /\ status # "Ready") /\ rec.rev = line[l].rev
    BY <1>7, <1>8
  <2>12. QuotesOK(q, line[l], terms, l \in missed)
    BY <1>2
  <2>13. DOMAIN q \subseteq DOMAIN s
    BY <2>1
  <2> HIDE DEF s, q, out2
  <2>14. SaveOf(q, s, i, status, line[l], rec, terms, l \in missed, out2)
    BY <2>2, <2>4, <2>5, <2>6, <2>7, <2>8, <2>9, <2>11, <2>13 DEF SaveOf
  <2> QED BY <2>10, <2>12, <2>14, SavedQuotes
<1>15. Staged(rec) <=> Staged(line[l])
  BY <1>2, <1>7, <1>8, <1>10 DEF Staged
<1>16. /\ handed' \in BOOLEAN /\ left' \in Nat
       /\ missed' \subseteq Lines /\ \A o \in Lines \ {l} : o \in missed' <=> o \in missed
  BY <1>1, <1>3
<1>17. UNCHANGED <<request, draft, terms>> /\ quotes' = [quotes EXCEPT ![l] = s]
  BY <1>1
<1>18. rec \in Line \union {Absent}
  BY <1>7
<1> HIDE DEF s
<1> QED BY <1>4, <1>5, <1>6, <1>9, <1>11, <1>12, <1>13, <1>14, <1>15, <1>16, <1>17, <1>18, ChangedLine

------------------------------------------------------------------------------
(* Revisions of the enquiry.                                              *)

\* What a step that takes many lines must keep.
LEMMA AllLines ==
    ASSUME line' \in [Lines -> Line \union {Absent}], quotes' \in [Lines -> Seq(Quote)],
           ecn' \in [Lines -> EcnRow], handed' \in BOOLEAN,
           request' \in {"none", "Terms", "Pricing", "Technical"}, draft' \in BOOLEAN,
           terms' \in Nat, missed' \subseteq Lines, left' \in Nat,
           \A l \in Lines : LineOK(l)',
           RequestOK'
    PROVE  IInv'
<1>1. \A o \in Present' : line'[o] \in Line
  BY DEF Present
<1>2. TypeOK'
  BY <1>1 DEF TypeOK, EcnRow
<1> QED BY <1>2 DEF IInv

\* The types of the variables.
LEMMA Typed ==
    ASSUME IInv
    PROVE  /\ line \in [Lines -> Line \union {Absent}] /\ quotes \in [Lines -> Seq(Quote)]
           /\ ecn \in [Lines -> EcnRow] /\ handed \in BOOLEAN
           /\ request \in {"none", "Terms", "Pricing", "Technical"} /\ draft \in BOOLEAN
           /\ terms \in Nat /\ missed \subseteq Lines /\ left \in Nat
           /\ TypeOK
BY DEF IInv, TypeOK, EcnRow

\* The record of a line that a revision takes.
LEMMA RevisedRecord ==
    ASSUME NEW rec \in Line, NEW kind \in {"Terms", "Pricing", "Technical"}, NEW count \in Nat,
           NEW new, new = RevisedLine(rec, kind, count)
    PROVE  /\ new \in Line
           /\ new.stage = CASE kind = "Terms" -> "Sales"
                            [] kind = "Pricing" -> "CustomerCosting"
                            [] kind = "Technical" -> "Design"
           /\ new.recost = (kind # "Terms") /\ new.was = count
           /\ new.rev = rec.rev /\ new.asked = rec.asked
           /\ new.review = rec.review /\ new.design = rec.design
<1> DEFINE stage == CASE kind = "Terms" -> "Sales"
                      [] kind = "Pricing" -> "CustomerCosting"
                      [] kind = "Technical" -> "Design"
           next == CASE kind = "Pricing" -> "ProductCostingComplete"
                     [] kind = "Technical" -> "Quoted"
                     [] OTHER -> rec.next
           recost == kind # "Terms"
<1>1. stage \in Stages
  BY DEF Stages
<1>2. next \in Nexts
  BY DEF Line, Nexts
<1>3. recost \in BOOLEAN
  OBVIOUS
<1>4. new = [rec EXCEPT !.was = count, !.stage = stage, !.recost = recost, !.next = next]
  BY DEF RevisedLine
<1> HIDE DEF stage, next, recost
<1>5. new = Revise(rec, next, recost, stage, count)
  BY <1>4 DEF Revise, Line
<1>6. /\ new \in Line /\ new.recost = recost /\ new.stage = stage
      /\ new.was = count /\ new.rev = rec.rev
      /\ new.asked = rec.asked /\ new.review = rec.review /\ new.design = rec.design
  BY <1>1, <1>2, <1>3, <1>5, LineWith
<1> QED BY <1>6 DEF recost, stage

\* Without a revision no line has a stage or is to be costed again.
LEMMA NoRevision ==
    ASSUME IInv, request = "none", NEW l \in Present
    PROVE  /\ line[l].stage = "none" /\ ~line[l].recost
           /\ ecn[l].status \notin DesignSteps
           /\ ecn[l].status # "PendingProductCosting"
<1>1. StageOK(line[l], quotes[l], ecn[l], request)
  BY PresentLine
<1>2. line[l].stage = "none"
  BY DEF IInv, RequestOK, Revised
<1> QED BY <1>1, <1>2 DEF StageOK

\* requestEnquiryRevision
LEMMA RequestStep ==
    ASSUME IInv, NEW kind \in {"Terms", "Pricing", "Technical"}, NEW ls \in SUBSET Lines,
           RequestRevision(kind, ls)
    PROVE  IInv'
<1> DEFINE noted == [status |-> "PendingDesign", others |-> FALSE]
<1>1. /\ Back /\ request = "none"
      /\ ls # {} /\ ls \subseteq Feasible
      /\ \A l \in ls : Revisable(l)
      /\ request' = kind /\ draft' = TRUE
      /\ line' = [l \in Lines |->
           IF l \in ls THEN RevisedLine(line[l], kind, Len(quotes[l])) ELSE line[l]]
      /\ ecn' = [l \in Lines |-> IF l \in ls /\ kind = "Technical" THEN noted ELSE ecn[l]]
      /\ UNCHANGED <<quotes, handed, terms, missed>>
  BY DEF RequestRevision
<1>2. /\ line \in [Lines -> Line \union {Absent}] /\ quotes \in [Lines -> Seq(Quote)]
      /\ ecn \in [Lines -> EcnRow] /\ handed \in BOOLEAN
      /\ terms \in Nat /\ missed \subseteq Lines /\ left \in Nat /\ TypeOK
  BY Typed
<1>3. noted \in EcnRow /\ noted.status = "PendingDesign"
  BY DEF EcnRow
<1> HIDE DEF noted
<1>4. \A l \in Lines :
        /\ line'[l] = IF l \in ls THEN RevisedLine(line[l], kind, Len(quotes[l])) ELSE line[l]
        /\ ecn'[l] = IF l \in ls /\ kind = "Technical" THEN noted ELSE ecn[l]
  BY <1>1
<1>5. ASSUME NEW l \in ls
      PROVE  /\ l \in Present /\ l \in Lines
             /\ Len(quotes[l]) \in Nat
             /\ quotes[l] # <<>>
             /\ \E i \in DOMAIN quotes[l] : quotes[l][i].status \in {"Ready", "Sent"}
             /\ line'[l] = RevisedLine(line[l], kind, Len(quotes[l]))
             /\ line[l] \in Line
  <2>1. l \in Present /\ l \in Lines
    BY <1>1 DEF Feasible
  <2>2. Newest(l, {"Ready", "Sent"}) # 0
    BY <1>1 DEF Revisable
  <2>3. \E i \in DOMAIN quotes[l] : quotes[l][i].status \in {"Ready", "Sent"}
    BY <1>2, <2>1, <2>2, NewestIs
  <2>4. Len(quotes[l]) \in Nat /\ (quotes[l] = <<>> <=> DOMAIN quotes[l] = {})
    BY <1>2, <2>1, QuoteRows
  <2>5. line[l] \in Line
    BY <2>1, PresentLine
  <2> QED BY <1>4, <2>1, <2>3, <2>4, <2>5
<1>6. ASSUME NEW l \in ls
      PROVE  /\ line'[l] \in Line
             /\ line'[l].stage = CASE kind = "Terms" -> "Sales"
                                   [] kind = "Pricing" -> "CustomerCosting"
                                   [] kind = "Technical" -> "Design"
             /\ line'[l].recost = (kind # "Terms")
             /\ line'[l].was = Len(quotes[l])
             /\ line'[l].rev = line[l].rev /\ line'[l].asked = line[l].asked
             /\ line'[l].review = line[l].review /\ line'[l].design = line[l].design
  <2> DEFINE new == line'[l]
             old == line[l]
             count == Len(quotes[l])
  <2>1. old \in Line /\ count \in Nat /\ new = RevisedLine(old, kind, count)
    BY <1>5
  <2> HIDE DEF new, old, count
  <2>2. /\ new \in Line
        /\ new.stage = CASE kind = "Terms" -> "Sales"
                         [] kind = "Pricing" -> "CustomerCosting"
                         [] kind = "Technical" -> "Design"
        /\ new.recost = (kind # "Terms") /\ new.was = count
        /\ new.rev = old.rev /\ new.asked = old.asked
        /\ new.review = old.review /\ new.design = old.design
    BY <2>1, RevisedRecord
  <2> QED BY <2>2 DEF new, old, count
<1>7. line' \in [Lines -> Line \union {Absent}]
  <2>1. \A l \in Lines : line'[l] \in Line \union {Absent}
    BY <1>2, <1>4, <1>6
  <2>2. line' = [l \in Lines |-> line'[l]]
    BY <1>1
  <2> QED BY <2>1, <2>2
<1>8. ecn' \in [Lines -> EcnRow]
  BY <1>1, <1>2, <1>3
<1>9. ASSUME NEW l \in ls PROVE LineOK(l)'
  <2>1. /\ l \in Present /\ l \in Lines /\ quotes[l] # <<>>
        /\ \E i \in DOMAIN quotes[l] : quotes[l][i].status \in {"Ready", "Sent"}
    BY <1>5
  <2>2. /\ line[l].stage = "none" /\ ~line[l].recost
        /\ ecn[l].status \notin DesignSteps /\ ecn[l].status # "PendingProductCosting"
    BY <1>1, <2>1, NoRevision
  <2>3. WaitsOK(line[l]) /\ QuotesOK(quotes[l], line[l], terms, l \in missed)
    BY <2>1, PresentLine
  <2>4. line'[l] # Absent
    BY <1>6, AbsentIsNoLine
  <2>5. RootOK(line'[l], quotes[l], ecn'[l])
    BY <2>1, <2>4 DEF RootOK
  <2>6. StageOK(line'[l], quotes[l], ecn'[l], kind)
    <3> DEFINE rec == line'[l]
    <3>1. /\ rec.recost = (kind # "Terms") /\ rec.was = Len(quotes[l])
          /\ kind = "Terms" => rec.stage = "Sales"
          /\ kind = "Pricing" => rec.stage = "CustomerCosting"
          /\ kind = "Technical" => rec.stage = "Design"
      BY <1>6
    <3>2. /\ kind = "Technical" => ecn'[l].status = "PendingDesign"
          /\ kind # "Technical" => ecn'[l] = ecn[l]
      BY <1>3, <1>4, <2>1
    <3> HIDE DEF rec
    <3>3. StageOK(rec, quotes[l], ecn'[l], kind)
      <4>1. CASE kind = "Terms"
        BY <2>1, <2>2, <3>1, <3>2, <4>1 DEF StageOK
      <4>2. CASE kind = "Pricing"
        BY <2>1, <2>2, <3>1, <3>2, <4>2 DEF StageOK
      <4>3. CASE kind = "Technical"
        BY <2>1, <3>1, <3>2, <4>3 DEF StageOK, DesignSteps
      <4> QED BY <4>1, <4>2, <4>3
    <3> QED BY <3>3 DEF rec
  <2>7. WaitsOK(line'[l])
    BY <1>6, <2>3 DEF WaitsOK
  <2>8. QuotesOK(quotes[l], line'[l], terms, l \in missed)
    <3>1. line'[l].stage # "ReadyToSend" /\ line'[l].rev = line[l].rev
      BY <1>6
    <3> QED BY <2>2, <2>3, <3>1 DEF QuotesOK
  <2> QED BY <1>1, <2>5, <2>6, <2>7, <2>8 DEF LineOK
<1>10. ASSUME NEW l \in Lines, l \notin ls PROVE LineOK(l)'
  <2>1. line'[l] = line[l] /\ ecn'[l] = ecn[l] /\ LineOK(l)
    BY <1>4, <1>10 DEF IInv
  <2>2. CASE line[l] = Absent
    BY <1>1, <2>1, <2>2 DEF LineOK
  <2>3. CASE line[l] # Absent
    <3>1. line[l].stage = "none" /\ ~line[l].recost
      BY <1>1, <2>3, NoRevision DEF Present
    <3>2. StageOK(line[l], quotes[l], ecn[l], kind)
      BY <2>1, <2>3, <3>1 DEF LineOK, StageOK
    <3> QED BY <1>1, <2>1, <3>2 DEF LineOK
  <2> QED BY <2>2, <2>3
<1>11. RequestOK'
  <2>1. PICK l \in ls : TRUE
    BY <1>1
  <2>2. l \in Lines /\ line'[l] \in Line /\ line'[l].stage # "none"
    BY <1>5, <1>6
  <2>3. l \in Revised'
    BY <2>2, AbsentIsNoLine DEF Revised, Present
  <2> QED BY <1>1, <2>3 DEF RequestOK
<1>12. left' \in Nat
  BY <1>1, <1>2, StepBack
<1>13. /\ quotes' \in [Lines -> Seq(Quote)] /\ handed' \in BOOLEAN
       /\ request' \in {"none", "Terms", "Pricing", "Technical"} /\ draft' \in BOOLEAN
       /\ terms' \in Nat /\ missed' \subseteq Lines
  BY <1>1, <1>2
<1>14. \A l \in Lines : LineOK(l)'
  BY <1>9, <1>10
<1> QED BY <1>7, <1>8, <1>11, <1>12, <1>13, <1>14, AllLines

\* The maximum of some positions in a sequence of length n.
LEMMA MaxIn ==
    ASSUME NEW n \in Nat, NEW S \in SUBSET (1 .. n), S # {}
    PROVE  Max(S) \in S /\ \A x \in S : x <= Max(S)
<1>1. S \in SUBSET Nat /\ \A x \in S : x <= n
  OBVIOUS
<1>2. \E u \in S : \A x \in S : x <= u
  BY <1>1, Greatest
<1>3. \E u \in S : \A x \in S : u >= x
  BY <1>1, <1>2
<1>4. Max(S) \in S /\ \A x \in S : Max(S) >= x
  BY <1>3 DEF Max
<1> QED BY <1>1, <1>4

\* The quotes of a line to which updateEnquiry adds a copy of an earlier one.
LEMMA CopiedQuotes ==
    ASSUME NEW q \in Seq(Quote), NEW rec, NEW new, NEW t, NEW out,
           ~rec.recost, ~new.recost, new.rev = rec.rev,
           QuotesOK(q, rec, t, out),
           NEW p \in DOMAIN q,
           q[p].status \in {"Ready", "Sent"},
           \A i \in DOMAIN q : q[i].status \in {"Ready", "Sent"} => i <= p
    PROVE  LET s == Append(q, [q[p] EXCEPT !.status = "Ready"])
           IN  s \in Seq(Quote) /\ s # <<>> /\ QuotesOK(s, new, t, out)
<1> DEFINE c == [q[p] EXCEPT !.status = "Ready"]
           s == Append(q, c)
           n == Len(q)
<1>1. n \in Nat /\ DOMAIN q = 1 .. n /\ \A i \in DOMAIN q : q[i] \in Quote
  BY LenProperties, ElementOfSeq
<1>2. c \in Quote /\ c.status = "Ready" /\ c.terms = q[p].terms /\ c.rev = q[p].rev
      /\ c.product = q[p].product
  BY <1>1 DEF Quote
<1> HIDE DEF c
<1>3. /\ s \in Seq(Quote) /\ Len(s) = n + 1
      /\ \A i \in 1 .. n : s[i] = q[i]
      /\ s[n + 1] = c
  BY <1>2, AppendProperties
<1>4. s # <<>> /\ DOMAIN s = 1 .. (n + 1)
  <2>1. DOMAIN s = 1 .. (n + 1)
    BY <1>3, LenProperties
  <2>2. Len(s) # 0
    BY <1>1, <1>3
  <2> QED BY <2>1, <2>2, EmptySeq
<1> HIDE DEF s, n
<1>5. \A i \in DOMAIN s : i \in Nat /\ (i = n + 1 \/ (i \in DOMAIN q /\ s[i] = q[i] /\ i < n + 1))
  BY <1>1, <1>3, <1>4
<1>6. n + 1 \in DOMAIN s /\ DOMAIN q \subseteq DOMAIN s
  BY <1>1, <1>4
<1>7. ASSUME Uniform(s)
      PROVE  /\ DraftLast(s) /\ DraftAlone(s)
             /\ ~out => AtTerms(s, t, new.rev)
             /\ NewestReady(s)
  <2>1. Uniform(q)
    <3>1. \A i \in DOMAIN q : i \in DOMAIN s /\ s[i] = q[i]
      BY <1>1, <1>3, <1>6
    <3> QED BY <1>7, <3>1 DEF Uniform
  <2>2. DraftAlone(q) /\ (~out => AtTerms(q, t, rec.rev))
    BY <2>1 DEF QuotesOK
  <2>3. \A i \in DOMAIN q : q[i].status # "Draft"
    BY <2>2 DEF DraftAlone
  <2>4. \A i \in DOMAIN s : s[i].status # "Draft"
    BY <1>2, <1>3, <1>5, <2>3
  <2>5. DraftLast(s) /\ DraftAlone(s)
    BY <2>4 DEF DraftLast, DraftAlone
  <2>6. NoneAfter(s, n + 1)
    <3>1. \A i \in DOMAIN s : ~(i > n + 1)
      BY <1>1, <1>4
    <3> QED BY <3>1 DEF NoneAfter
  <2>7. NewestReady(s)
    BY <1>2, <1>3, <1>6, <2>6 DEF NewestReady
  <2>8. NoneAfter(q, p)
    <3> SUFFICES ASSUME NEW i \in DOMAIN q, i > p PROVE q[i].status \notin Current
      BY DEF NoneAfter
    <3>1. ~(i <= p)
      BY <1>1
    <3> QED BY <2>3, <3>1 DEF Current
  <2>9. ASSUME ~out PROVE AtTerms(s, t, new.rev)
    <3>1. c.terms = t /\ c.rev = new.rev
      BY <1>2, <2>2, <2>8, <2>9 DEF AtTerms
    <3> SUFFICES ASSUME NEW i \in DOMAIN s,
                        s[i].status = "Ready" \/ (s[i].status = "Sent" /\ NoneAfter(s, i))
                 PROVE  s[i].terms = t /\ s[i].rev = new.rev
      BY DEF AtTerms
    <3>2. CASE i = n + 1
      BY <1>3, <3>1, <3>2
    <3>3. CASE i # n + 1
      <4>1. i \in DOMAIN q /\ s[i] = q[i] /\ n + 1 > i
        BY <1>1, <1>5, <3>3
      <4>2. ~NoneAfter(s, i)
        BY <1>2, <1>3, <1>6, <4>1 DEF NoneAfter, Current
      <4> QED BY <2>2, <2>9, <4>1, <4>2 DEF AtTerms
    <3> QED BY <3>2, <3>3
  <2> QED BY <2>5, <2>7, <2>9
<1>8. QuotesOK(s, new, t, out)
  BY <1>7 DEF QuotesOK
<1> QED BY <1>3, <1>4, <1>8 DEF s, c

\* updateEnquiry: the terms of a Terms revision
LEMMA SaveTermsStep == ASSUME IInv, SaveTerms PROVE IInv'
<1> DEFINE ls == {l \in Present : line[l].stage = "Sales"}
           set(l) == {i \in 1 .. line[l].was : quotes[l][i].status \in {"Ready", "Sent"}}
           previous(l) == Max(set(l))
           copied(l) == Append(quotes[l], [quotes[l][previous(l)] EXCEPT !.status = "Ready"])
           staged(l) == [line[l] EXCEPT !.stage = "ReadyToSend"]
<1>1. /\ request = "Terms" /\ ls # {}
      /\ quotes' = [l \in Lines |-> IF l \in ls THEN copied(l) ELSE quotes[l]]
      /\ line' = [l \in Lines |-> IF l \in ls THEN staged(l) ELSE line[l]]
      /\ UNCHANGED <<ecn, handed, request, draft, terms, missed, left>>
  BY DEF SaveTerms
<1>2. /\ line \in [Lines -> Line \union {Absent}] /\ quotes \in [Lines -> Seq(Quote)]
      /\ ecn \in [Lines -> EcnRow] /\ handed \in BOOLEAN
      /\ request \in {"none", "Terms", "Pricing", "Technical"} /\ draft \in BOOLEAN
      /\ terms \in Nat /\ missed \subseteq Lines /\ left \in Nat /\ TypeOK
  BY Typed
<1>3. ASSUME NEW l \in ls
      PROVE  /\ l \in Lines /\ l \in Present /\ line[l].stage = "Sales"
             /\ staged(l) \in Line /\ staged(l).stage = "ReadyToSend"
             /\ staged(l).recost = line[l].recost /\ staged(l).rev = line[l].rev
             /\ staged(l).asked = line[l].asked /\ staged(l).review = line[l].review
             /\ staged(l).design = line[l].design
             /\ StageOK(line[l], quotes[l], ecn[l], request) /\ ~line[l].recost
  <2>1. l \in Present /\ line[l].stage = "Sales"
    OBVIOUS
  <2>2. l \in Lines /\ line[l] \in Line /\ StageOK(line[l], quotes[l], ecn[l], request)
    BY <2>1, PresentLine
  <2>3. ~line[l].recost
    BY <2>1, <2>2 DEF StageOK
  <2>4. /\ staged(l) \in Line /\ staged(l).stage = "ReadyToSend"
        /\ staged(l).recost = line[l].recost /\ staged(l).rev = line[l].rev
        /\ staged(l).asked = line[l].asked /\ staged(l).review = line[l].review
        /\ staged(l).design = line[l].design
    BY <2>2 DEF Line
  <2> QED BY <2>1, <2>2, <2>3, <2>4
<1>4. ASSUME NEW l \in ls
      PROVE  /\ copied(l) \in Seq(Quote) /\ copied(l) # <<>>
             /\ QuotesOK(copied(l), staged(l), terms, l \in missed)
  <2>1. /\ l \in Lines /\ l \in Present /\ line[l].was = Len(quotes[l])
        /\ \E i \in DOMAIN quotes[l] : quotes[l][i].status \in {"Ready", "Sent"}
    BY <1>3 DEF StageOK
  <2>2. /\ quotes[l] \in Seq(Quote) /\ Len(quotes[l]) \in Nat
        /\ DOMAIN quotes[l] = 1 .. Len(quotes[l])
    BY <1>2, <2>1, QuoteRows
  <2>3. set(l) = {i \in DOMAIN quotes[l] : quotes[l][i].status \in {"Ready", "Sent"}}
    BY <2>1, <2>2
  <2> HIDE DEF set
  <2>4. previous(l) \in set(l) /\ \A i \in set(l) : i <= previous(l)
    <3>1. set(l) \in SUBSET (1 .. Len(quotes[l])) /\ set(l) # {}
      BY <2>1, <2>2, <2>3
    <3> QED BY <2>2, <3>1, MaxIn
  <2>5. QuotesOK(quotes[l], line[l], terms, l \in missed)
    BY <2>1, PresentLine
  <2> HIDE DEF previous
  <2>6. /\ previous(l) \in DOMAIN quotes[l]
        /\ quotes[l][previous(l)].status \in {"Ready", "Sent"}
        /\ \A i \in DOMAIN quotes[l] :
             quotes[l][i].status \in {"Ready", "Sent"} => i <= previous(l)
    BY <2>3, <2>4
  <2>7. ~line[l].recost /\ ~staged(l).recost /\ staged(l).rev = line[l].rev
    BY <1>3
  <2> HIDE DEF staged
  <2> QED BY <2>2, <2>5, <2>6, <2>7, CopiedQuotes
<1> HIDE DEF copied, staged
<1>5. \A l \in Lines : /\ line'[l] = IF l \in ls THEN staged(l) ELSE line[l]
                       /\ quotes'[l] = IF l \in ls THEN copied(l) ELSE quotes[l]
  BY <1>1
<1>6. line' \in [Lines -> Line \union {Absent}] /\ quotes' \in [Lines -> Seq(Quote)]
  BY <1>1, <1>2, <1>3, <1>4
<1>7. ASSUME NEW l \in ls PROVE LineOK(l)'
  <2>1. line'[l] = staged(l) /\ quotes'[l] = copied(l) /\ ecn'[l] = ecn[l]
    BY <1>1, <1>3, <1>5
  <2>2. staged(l) # Absent
    BY <1>3, AbsentIsNoLine
  <2>3. RootOK(staged(l), copied(l), ecn[l])
    BY <1>4, <2>2 DEF RootOK
  <2>4. StageOK(staged(l), copied(l), ecn[l], request)
    <3>1. staged(l).stage = "ReadyToSend" /\ ~staged(l).recost /\ request = "Terms"
          /\ copied(l) # <<>>
      BY <1>1, <1>3, <1>4
    <3>2. ecn[l].status \notin DesignSteps /\ ecn[l].status # "PendingProductCosting"
      BY <1>3 DEF StageOK
    <3> QED BY <3>1, <3>2 DEF StageOK
  <2>5. WaitsOK(staged(l))
    <3>1. WaitsOK(line[l])
      BY <1>3, PresentLine
    <3> QED BY <1>3, <3>1 DEF WaitsOK
  <2>6. QuotesOK(copied(l), staged(l), terms, l \in missed)
    BY <1>4
  <2> QED BY <1>1, <2>1, <2>3, <2>4, <2>5, <2>6 DEF LineOK
<1>8. ASSUME NEW l \in Lines, l \notin ls PROVE LineOK(l)'
  <2>1. line'[l] = line[l] /\ quotes'[l] = quotes[l] /\ ecn'[l] = ecn[l] /\ LineOK(l)
    BY <1>1, <1>5, <1>8 DEF IInv
  <2> QED BY <1>1, <2>1 DEF LineOK
<1>9. RequestOK'
  <2>1. PICK l \in ls : TRUE
    BY <1>1
  <2>2. line'[l] = staged(l) /\ l \in Lines /\ staged(l).stage # "none" /\ staged(l) # Absent
    BY <1>3, <1>5, AbsentIsNoLine
  <2>3. l \in Revised'
    BY <2>2 DEF Revised, Present
  <2>4. draft <=> request # "none"
    BY DEF IInv, RequestOK
  <2> QED BY <1>1, <2>3, <2>4 DEF RequestOK
<1>10. \A l \in Lines : LineOK(l)'
  BY <1>7, <1>8
<1>11. /\ ecn' \in [Lines -> EcnRow] /\ handed' \in BOOLEAN
       /\ request' \in {"none", "Terms", "Pricing", "Technical"} /\ draft' \in BOOLEAN
       /\ terms' \in Nat /\ missed' \subseteq Lines /\ left' \in Nat
  BY <1>1, <1>2
<1> QED BY <1>6, <1>9, <1>10, <1>11, AllLines

\* updateEnquiry with new Incoterms, Packaging or Currency
LEMMA UpdateTermsStep == ASSUME IInv, UpdateTerms PROVE IInv'
<1> DEFINE next(l) == IF line[l].next = "Quoted" THEN "ProductCostingComplete"
                      ELSE line[l].next
           again(l) == [line[l] EXCEPT !.recost = TRUE, !.next = next(l)]
<1>1. /\ Back /\ request \in {"Pricing", "Technical"}
      /\ \A l \in Revised : ~PricingStarted(l)
      /\ terms' = terms + 1
      /\ line' = [l \in Lines |-> IF l \in Recosted THEN again(l) ELSE line[l]]
      /\ missed' = missed \union {l \in Present \ Recosted : quotes[l] # <<>>}
      /\ UNCHANGED <<quotes, ecn, handed, request, draft>>
  BY DEF UpdateTerms, Recosted
<1>2. /\ line \in [Lines -> Line \union {Absent}] /\ quotes \in [Lines -> Seq(Quote)]
      /\ ecn \in [Lines -> EcnRow] /\ handed \in BOOLEAN
      /\ request \in {"none", "Terms", "Pricing", "Technical"} /\ draft \in BOOLEAN
      /\ terms \in Nat /\ missed \subseteq Lines /\ left \in Nat /\ TypeOK
  BY Typed
<1>3. ASSUME NEW l \in Recosted
      PROVE  /\ l \in Present /\ l \in Lines
             /\ again(l) \in Line /\ again(l).recost = TRUE /\ again(l).stage = line[l].stage
             /\ again(l).rev = line[l].rev /\ again(l).was = line[l].was
             /\ again(l).asked = line[l].asked /\ again(l).review = line[l].review
             /\ again(l).design = line[l].design
  <2>1. l \in Present /\ l \in Lines /\ line[l] \in Line
    BY PresentLine DEF Recosted, Feasible, Marked
  <2>2. next(l) \in Nexts
    BY <2>1 DEF Line, Nexts
  <2>3. line[l].stage \in Stages /\ line[l].was \in Nat
    BY <2>1 DEF Line, Stages
  <2>4. again(l) = Revise(line[l], next(l), TRUE, line[l].stage, line[l].was)
    BY <2>1 DEF Revise, Line
  <2> DEFINE rec == again(l)
             recost == TRUE
  <2> HIDE DEF again, next
  <2>5. rec = Revise(line[l], next(l), recost, line[l].stage, line[l].was)
    BY <2>4
  <2>6. recost \in BOOLEAN
    OBVIOUS
  <2> HIDE DEF rec, recost
  <2>7. /\ rec \in Line /\ rec.recost = recost /\ rec.stage = line[l].stage
        /\ rec.rev = line[l].rev /\ rec.was = line[l].was
        /\ rec.asked = line[l].asked /\ rec.review = line[l].review
        /\ rec.design = line[l].design
    BY <2>1, <2>2, <2>3, <2>5, <2>6, LineWith
  <2> QED BY <2>1, <2>7 DEF rec, recost
<1> HIDE DEF again
<1>4. \A l \in Lines : line'[l] = IF l \in Recosted THEN again(l) ELSE line[l]
  BY <1>1
<1>5. line' \in [Lines -> Line \union {Absent}]
  BY <1>1, <1>2, <1>3
<1>6. \A l \in Present : line[l].stage \notin {"Sales", "ReadyToSend"}
  <2> TAKE l \in Present
  <2>1. StageOK(line[l], quotes[l], ecn[l], request)
    BY PresentLine
  <2>2. line[l].stage # "Sales"
    BY <1>1, <2>1 DEF StageOK
  <2>3. line[l].stage # "ReadyToSend"
    BY <1>1 DEF Revised, PricingStarted
  <2> QED BY <2>2, <2>3
<1>7. ASSUME NEW l \in Recosted PROVE LineOK(l)'
  <2>1. /\ line'[l] = again(l) /\ l \in Present /\ l \in Lines
        /\ quotes'[l] = quotes[l] /\ ecn'[l] = ecn[l]
    BY <1>1, <1>3, <1>4
  <2>2. /\ line[l] \in Line /\ line[l] # Absent
        /\ RootOK(line[l], quotes[l], ecn[l])
        /\ StageOK(line[l], quotes[l], ecn[l], request) /\ WaitsOK(line[l])
        /\ QuotesOK(quotes[l], line[l], terms, l \in missed)
    BY <2>1, PresentLine
  <2>3. again(l) # Absent
    BY <1>3, AbsentIsNoLine
  <2>4. RootOK(again(l), quotes[l], ecn[l])
    BY <2>2, <2>3 DEF RootOK
  <2>5. StageOK(again(l), quotes[l], ecn[l], request)
    <3>1. line[l].stage \notin {"Sales", "ReadyToSend"}
      BY <1>6, <2>1
    <3>2. request # "none"
      BY <1>1
    <3>3. again(l).stage = line[l].stage /\ again(l).recost
      BY <1>3
    <3> QED BY <2>2, <3>1, <3>2, <3>3 DEF StageOK
  <2>6. WaitsOK(again(l))
    BY <1>3, <2>2 DEF WaitsOK
  <2>7. QuotesOK(quotes[l], again(l), terms', l \in missed')
    <3>1. again(l).recost /\ again(l).stage # "ReadyToSend"
      BY <1>3, <1>6
    <3> QED BY <2>2, <3>1 DEF QuotesOK
  <2> QED BY <1>1, <2>1, <2>4, <2>5, <2>6, <2>7 DEF LineOK
<1>8. ASSUME NEW l \in Lines, l \notin Recosted PROVE LineOK(l)'
  <2>1. line'[l] = line[l] /\ quotes'[l] = quotes[l] /\ ecn'[l] = ecn[l] /\ LineOK(l)
    BY <1>1, <1>4, <1>8 DEF IInv
  <2>2. CASE line[l] = Absent
    BY <2>1, <2>2 DEF LineOK
  <2>3. CASE line[l] # Absent
    <3>1. l \in Present
      BY <2>3 DEF Present
    <3>2. QuotesOK(quotes[l], line[l], terms', l \in missed')
      <4>1. line[l].stage # "ReadyToSend"
        BY <1>6, <3>1
      <4>2. CASE quotes[l] = <<>>
        <5>1. DOMAIN quotes[l] = {}
          BY <1>2, <4>2, QuoteRows
        <5> QED BY <4>1, <5>1 DEF QuotesOK, DraftLast, DraftAlone, AtTerms
      <4>3. CASE quotes[l] # <<>>
        <5>1. l \in missed'
          BY <1>1, <1>8, <3>1, <4>3
        <5> QED BY <2>1, <2>3, <4>1, <5>1 DEF LineOK, QuotesOK
      <4> QED BY <4>2, <4>3
    <3> QED BY <1>1, <2>1, <2>3, <3>2 DEF LineOK
  <2> QED BY <2>2, <2>3
<1>9. \A l \in Lines : Staged(line'[l]) <=> Staged(line[l])
  <2> TAKE l \in Lines
  <2>1. CASE l \in Recosted
    BY <1>3, <1>4, <2>1, PresentLine, AbsentIsNoLine DEF Staged
  <2>2. CASE l \notin Recosted
    BY <1>4, <2>2
  <2> QED BY <2>1, <2>2
<1>10. Revised' = Revised
  BY <1>9 DEF Revised, Present, Staged
<1>11. RequestOK'
  BY <1>1, <1>10 DEF RequestOK, IInv
<1>12. left' \in Nat
  BY <1>1, <1>2, StepBack
<1>13. terms' \in Nat
  BY <1>1, <1>2
<1>14. missed' \subseteq Lines
  BY <1>1, <1>2 DEF Present
<1>15. \A l \in Lines : LineOK(l)'
  BY <1>7, <1>8
<1>16. /\ quotes' \in [Lines -> Seq(Quote)] /\ ecn' \in [Lines -> EcnRow]
       /\ handed' \in BOOLEAN /\ draft' \in BOOLEAN
       /\ request' \in {"none", "Terms", "Pricing", "Technical"}
  BY <1>1, <1>2
<1> QED BY <1>5, <1>11, <1>12, <1>13, <1>14, <1>15, <1>16, AllLines

------------------------------------------------------------------------------
(* Sending.                                                               *)

\* The quotes of a line of which a became the active price.
SentRow(q, s, a) ==
    /\ a \in DOMAIN q /\ q[a].status = "Ready" /\ s[a].status = "Sent"
    /\ \A i \in DOMAIN q \ {a} :
         /\ q[i].status = "Sent" => s[i].status = "Superseded"
         /\ s[i].status \in {q[i].status, "Superseded"}

\* What a quotation that goes out makes of the quotes of each line.
LEMMA SendRows ==
    ASSUME IInv, NEW m \in Lines, NEW k \in DOMAIN quotes[m], Send(<<m, k>>)
    PROVE  /\ quotes' \in [Lines -> Seq(Quote)]
           /\ \A l \in Lines :
                /\ DOMAIN quotes'[l] = DOMAIN quotes[l]
                /\ \A i \in DOMAIN quotes[l] :
                     /\ quotes'[l][i].product = quotes[l][i].product
                     /\ quotes'[l][i].terms = quotes[l][i].terms
                     /\ quotes'[l][i].rev = quotes[l][i].rev
                /\ \/ /\ quotes'[l] = quotes[l]
                      /\ l \in Feasible /\ Newest(l, Current) # 0
                           => quotes[l][Newest(l, Current)].status # "Ready"
                   \/ \E a \in DOMAIN quotes[l] : SentRow(quotes[l], quotes'[l], a)
<1> DEFINE sent == {l \in Lines : Batch(l, <<m, k>>) # {}}
<1>1. /\ quotes[m][k].status = "Ready"
      /\ \E active \in [sent -> UNION {DOMAIN quotes[l] : l \in sent}] :
             /\ \A l \in sent : active[l] \in Batch(l, <<m, k>>)
             /\ quotes' = [l \in Lines |-> [i \in DOMAIN quotes[l] |->
                  CASE l \in sent /\ active[l] = i ->
                         [quotes[l][i] EXCEPT !.status = "Sent"]
                    [] /\ l \in sent /\ active[l] # i
                       /\ \/ i \in Batch(l, <<m, k>>)
                          \/ quotes[l][i].status = "Sent" ->
                         [quotes[l][i] EXCEPT !.status = "Superseded"]
                    [] OTHER -> quotes[l][i]]]
  BY DEF Send
<1>2. TypeOK /\ quotes \in [Lines -> Seq(Quote)]
  BY Typed
<1>3. ASSUME NEW l \in Lines, NEW i \in Batch(l, <<m, k>>)
      PROVE  i \in DOMAIN quotes[l] /\ quotes[l][i].status = "Ready"
  BY <1>1 DEF Batch
<1> HIDE DEF sent
<1>4. PICK active \in [sent -> UNION {DOMAIN quotes[l] : l \in sent}] :
             /\ \A l \in sent : active[l] \in Batch(l, <<m, k>>)
             /\ quotes' = [l \in Lines |-> [i \in DOMAIN quotes[l] |->
                  CASE l \in sent /\ active[l] = i ->
                         [quotes[l][i] EXCEPT !.status = "Sent"]
                    [] /\ l \in sent /\ active[l] # i
                       /\ \/ i \in Batch(l, <<m, k>>)
                          \/ quotes[l][i].status = "Sent" ->
                         [quotes[l][i] EXCEPT !.status = "Superseded"]
                    [] OTHER -> quotes[l][i]]]
  BY <1>1
<1> DEFINE row(l, i) == CASE l \in sent /\ active[l] = i ->
                               [quotes[l][i] EXCEPT !.status = "Sent"]
                          [] /\ l \in sent /\ active[l] # i
                             /\ \/ i \in Batch(l, <<m, k>>)
                                \/ quotes[l][i].status = "Sent" ->
                               [quotes[l][i] EXCEPT !.status = "Superseded"]
                          [] OTHER -> quotes[l][i]
<1>5. quotes' = [l \in Lines |-> [i \in DOMAIN quotes[l] |-> row(l, i)]]
  BY <1>4
<1>6. ASSUME NEW l \in Lines, NEW i \in DOMAIN quotes[l]
      PROVE  /\ row(l, i) \in Quote
             /\ row(l, i).product = quotes[l][i].product
             /\ row(l, i).terms = quotes[l][i].terms
             /\ row(l, i).rev = quotes[l][i].rev
             /\ l \notin sent => row(l, i) = quotes[l][i]
             /\ l \in sent /\ active[l] = i => row(l, i).status = "Sent"
             /\ l \in sent /\ active[l] # i =>
                  /\ quotes[l][i].status = "Sent" => row(l, i).status = "Superseded"
                  /\ row(l, i).status \in {quotes[l][i].status, "Superseded"}
  <2> DEFINE q == quotes[l][i]
             s == [q EXCEPT !.status = "Sent"]
             u == [q EXCEPT !.status = "Superseded"]
  <2>1. q \in Quote
    BY <1>2, QuoteRows
  <2>2. /\ s \in Quote /\ s.status = "Sent" /\ s.product = q.product
        /\ s.terms = q.terms /\ s.rev = q.rev
    BY <2>1 DEF Quote
  <2>3. /\ u \in Quote /\ u.status = "Superseded" /\ u.product = q.product
        /\ u.terms = q.terms /\ u.rev = q.rev
    BY <2>1 DEF Quote
  <2>4. /\ l \in sent /\ active[l] = i => row(l, i) = s
        /\ l \in sent /\ active[l] # i /\ (i \in Batch(l, <<m, k>>) \/ q.status = "Sent")
             => row(l, i) = u
        /\ l \in sent /\ active[l] # i /\ ~(i \in Batch(l, <<m, k>>) \/ q.status = "Sent")
             => row(l, i) = q
        /\ l \notin sent => row(l, i) = q
    OBVIOUS
  <2> HIDE DEF q, s, u, row
  <2>5. /\ row(l, i) \in Quote /\ row(l, i).product = q.product
        /\ row(l, i).terms = q.terms /\ row(l, i).rev = q.rev
    BY <2>1, <2>2, <2>3, <2>4
  <2>6. /\ l \notin sent => row(l, i) = q
        /\ l \in sent /\ active[l] = i => row(l, i).status = "Sent"
        /\ l \in sent /\ active[l] # i =>
                  /\ q.status = "Sent" => row(l, i).status = "Superseded"
                  /\ row(l, i).status \in {q.status, "Superseded"}
    BY <2>2, <2>3, <2>4
  <2> QED BY <2>5, <2>6 DEF q
<1> HIDE DEF row
<1>7. ASSUME NEW l \in Lines
      PROVE  /\ quotes'[l] \in Seq(Quote)
             /\ DOMAIN quotes'[l] = DOMAIN quotes[l]
             /\ \A i \in DOMAIN quotes[l] : quotes'[l][i] = row(l, i)
  <2>1. quotes'[l] = [i \in DOMAIN quotes[l] |-> row(l, i)]
    BY <1>5
  <2>2. DOMAIN quotes[l] = 1 .. Len(quotes[l]) /\ Len(quotes[l]) \in Nat
    BY <1>2, QuoteRows
  <2>3. quotes'[l] \in [1 .. Len(quotes[l]) -> Quote]
    BY <1>6, <2>1, <2>2
  <2> QED BY <2>1, <2>2, <2>3, FunctionIsSeq
<1>8. quotes' \in [Lines -> Seq(Quote)]
  <2>1. quotes' = [l \in Lines |-> quotes'[l]]
    BY <1>5
  <2> QED BY <1>7, <2>1
<1>9. ASSUME NEW l \in Lines, l \notin sent
      PROVE  /\ quotes'[l] = quotes[l]
             /\ l \in Feasible /\ Newest(l, Current) # 0
                  => quotes[l][Newest(l, Current)].status # "Ready"
  <2>1. quotes'[l] = quotes[l]
    <3>1. quotes[l] \in Seq(Quote) /\ quotes'[l] \in Seq(Quote)
      BY <1>2, <1>7, QuoteRows
    <3>2. \A i \in DOMAIN quotes[l] : quotes'[l][i] = quotes[l][i]
      BY <1>6, <1>7, <1>9
    <3>3. /\ DOMAIN quotes[l] = 1 .. Len(quotes[l]) /\ Len(quotes[l]) \in Nat
          /\ DOMAIN quotes'[l] = 1 .. Len(quotes'[l]) /\ Len(quotes'[l]) \in Nat
      BY <3>1, LenProperties
    <3>4. Len(quotes'[l]) = Len(quotes[l])
      BY <1>7, <3>3
    <3> QED BY <3>1, <3>2, <3>3, <3>4, SeqEqual
  <2>2. Batch(l, <<m, k>>) = {}
    BY <1>9 DEF sent
  <2>3. l \in Feasible /\ Newest(l, Current) # 0 => Newest(l, Current) \in DOMAIN quotes[l]
    BY <1>2, NewestIs
  <2> QED BY <2>1, <2>2, <2>3 DEF Batch
<1>10. ASSUME NEW l \in Lines, l \in sent
       PROVE  \E a \in DOMAIN quotes[l] : SentRow(quotes[l], quotes'[l], a)
  <2>1. active[l] \in DOMAIN quotes[l] /\ quotes[l][active[l]].status = "Ready"
    BY <1>3, <1>4, <1>10
  <2>2. quotes'[l][active[l]].status = "Sent"
    BY <1>6, <1>7, <1>10, <2>1
  <2>3. \A i \in DOMAIN quotes[l] \ {active[l]} :
             /\ quotes[l][i].status = "Sent" => quotes'[l][i].status = "Superseded"
             /\ quotes'[l][i].status \in {quotes[l][i].status, "Superseded"}
    BY <1>6, <1>7, <1>10
  <2>4. SentRow(quotes[l], quotes'[l], active[l])
    BY <2>1, <2>2, <2>3 DEF SentRow
  <2> QED BY <2>1, <2>4
<1> QED BY <1>6, <1>7, <1>8, <1>9, <1>10

\* Nothing becomes a draft or ready when a quotation goes out, and the active
\* price is the only quote of its line that is then sent.
LEMMA SentQuotes ==
    ASSUME NEW q, NEW s, NEW rec, NEW new, NEW t, NEW out,
           DOMAIN s = DOMAIN q,
           \A i \in DOMAIN q : /\ s[i].product = q[i].product
                               /\ s[i].terms = q[i].terms /\ s[i].rev = q[i].rev,
           s = q \/ \E a \in DOMAIN q : SentRow(q, s, a),
           ~rec.recost, new.rev = rec.rev, new.stage # "ReadyToSend",
           QuotesOK(q, rec, t, out)
    PROVE  QuotesOK(s, new, t, out)
<1> SUFFICES ASSUME Uniform(s)
             PROVE  /\ DraftLast(s) /\ DraftAlone(s)
                    /\ ~out => AtTerms(s, t, new.rev)
  BY DEF QuotesOK
<1>1. Uniform(q)
  BY DEF Uniform
<1>2. DraftLast(q) /\ DraftAlone(q) /\ (~out => AtTerms(q, t, rec.rev))
  BY <1>1 DEF QuotesOK
<1>3. CASE s = q
  BY <1>2, <1>3
<1>4. CASE \E a \in DOMAIN q : SentRow(q, s, a)
  <2>1. PICK a \in DOMAIN q : SentRow(q, s, a)
    BY <1>4
  <2>2. \A i \in DOMAIN q : /\ s[i].status = "Ready" => q[i].status = "Ready"
                            /\ s[i].status = "Sent" => i = a
                            /\ s[i].status = "Draft" => q[i].status = "Draft"
                            /\ s[i].status \in Current => q[i].status \in Current
    BY <2>1 DEF SentRow, Current
  <2>3. q[a].status = "Ready"
    BY <2>1 DEF SentRow
  <2>4. \A i \in DOMAIN q : q[i].status # "Draft"
    BY <1>2, <2>3 DEF DraftAlone
  <2>5. \A i \in DOMAIN s : s[i].status # "Draft"
    BY <2>2, <2>4
  <2>6. DraftLast(s) /\ DraftAlone(s)
    BY <2>5 DEF DraftLast, DraftAlone
  <2>7. ASSUME ~out PROVE AtTerms(s, t, new.rev)
    BY <1>2, <2>2, <2>3, <2>7 DEF AtTerms
  <2> QED BY <2>6, <2>7
<1> QED BY <1>3, <1>4

\* transitionQuoteToSent
LEMMA SendStep ==
    ASSUME IInv, NEW m \in Lines, NEW k \in DOMAIN quotes[m], Send(<<m, k>>)
    PROVE  IInv'
<1> DEFINE sent == {l \in Lines : Batch(l, <<m, k>>) # {}}
           next(l) == IF l \in sent THEN "Quoted" ELSE line[l].next
           done(l) == [line[l] EXCEPT !.stage = "none", !.was = 0, !.next = next(l)]
<1>1. /\ Sendable
      /\ line' = [l \in Lines |-> IF l \in Present THEN done(l) ELSE Absent]
      /\ request' = "none" /\ draft' = FALSE
      /\ UNCHANGED <<ecn, handed, terms, missed, left>>
  BY DEF Send
<1> HIDE DEF sent
<1>2. /\ line \in [Lines -> Line \union {Absent}] /\ quotes \in [Lines -> Seq(Quote)]
      /\ ecn \in [Lines -> EcnRow] /\ handed \in BOOLEAN
      /\ terms \in Nat /\ missed \subseteq Lines /\ left \in Nat /\ TypeOK
  BY Typed
<1>3. ASSUME NEW l \in Present
      PROVE  /\ done(l) \in Line /\ done(l).recost = line[l].recost /\ done(l).stage = "none"
             /\ done(l).rev = line[l].rev
             /\ done(l).asked = line[l].asked /\ done(l).review = line[l].review
             /\ done(l).design = line[l].design
  <2>1. line[l] \in Line
    BY PresentLine
  <2>2. next(l) \in Nexts
    BY <2>1 DEF Line, Nexts
  <2>3. line[l].recost \in BOOLEAN /\ "none" \in Stages
    BY <2>1 DEF Line, Stages
  <2> DEFINE rec == done(l)
             recost == line[l].recost
  <2>4. rec = Revise(line[l], next(l), recost, "none", 0)
    BY <2>1 DEF Revise, Line
  <2> HIDE DEF rec, recost, next
  <2>5. /\ rec \in Line /\ rec.recost = recost /\ rec.stage = "none"
        /\ rec.rev = line[l].rev
        /\ rec.asked = line[l].asked /\ rec.review = line[l].review
        /\ rec.design = line[l].design
    <3>1. recost \in BOOLEAN
      BY <2>3 DEF recost
    <3> QED BY <2>1, <2>2, <2>3, <2>4, <3>1, LineWith
  <2> QED BY <2>5 DEF rec, recost
<1> HIDE DEF done
<1>4. \A l \in Lines : line'[l] = IF l \in Present THEN done(l) ELSE Absent
  BY <1>1
<1>5. line' \in [Lines -> Line \union {Absent}]
  BY <1>1, <1>3
<1>6. quotes' \in [Lines -> Seq(Quote)]
  BY SendRows
<1>7. ASSUME NEW l \in Present PROVE LineOK(l)'
  <2>1. /\ l \in Lines /\ RootOK(line[l], quotes[l], ecn[l])
        /\ StageOK(line[l], quotes[l], ecn[l], request) /\ WaitsOK(line[l])
        /\ QuotesOK(quotes[l], line[l], terms, l \in missed)
    BY PresentLine
  <2>2. line'[l] = done(l) /\ done(l) # Absent /\ ecn'[l] = ecn[l]
    BY <1>1, <1>3, <1>4, <2>1, AbsentIsNoLine
  <2>3. ~line[l].recost /\ line[l].stage \in {"none", "ReadyToSend"}
    BY <1>1 DEF Sendable
  <2>4. /\ DOMAIN quotes'[l] = DOMAIN quotes[l]
        /\ \A i \in DOMAIN quotes[l] :
             /\ quotes'[l][i].product = quotes[l][i].product
             /\ quotes'[l][i].terms = quotes[l][i].terms
             /\ quotes'[l][i].rev = quotes[l][i].rev
        /\ \/ quotes'[l] = quotes[l]
           \/ \E a \in DOMAIN quotes[l] : SentRow(quotes[l], quotes'[l], a)
    BY <2>1, SendRows
  <2>5. quotes[l] # <<>> => quotes'[l] # <<>>
    <3>1. quotes[l] = <<>> <=> DOMAIN quotes[l] = {}
      BY <1>2, <2>1, QuoteRows
    <3>2. DOMAIN <<>> = {}
      OBVIOUS
    <3> QED BY <2>4, <3>1, <3>2
  <2>6. RootOK(done(l), quotes'[l], ecn[l])
    BY <2>1, <2>2, <2>5 DEF RootOK
  <2>7. StageOK(done(l), quotes'[l], ecn[l], "none")
    <3>1. ecn[l].status \notin DesignSteps /\ ecn[l].status # "PendingProductCosting"
      BY <2>1, <2>3 DEF StageOK
    <3>2. done(l).stage = "none" /\ ~done(l).recost
      BY <1>3, <2>3
    <3> QED BY <3>1, <3>2 DEF StageOK
  <2>8. WaitsOK(done(l))
    BY <1>3, <2>1 DEF WaitsOK
  <2>9. QuotesOK(quotes'[l], done(l), terms, l \in missed)
    <3>1. done(l).rev = line[l].rev /\ done(l).stage # "ReadyToSend"
      BY <1>3
    <3> DEFINE q == quotes[l]
               s == quotes'[l]
    <3>2. /\ DOMAIN s = DOMAIN q
          /\ \A i \in DOMAIN q : /\ s[i].product = q[i].product
                                 /\ s[i].terms = q[i].terms /\ s[i].rev = q[i].rev
          /\ s = q \/ \E a \in DOMAIN q : SentRow(q, s, a)
          /\ QuotesOK(q, line[l], terms, l \in missed)
      BY <2>1, <2>4
    <3> HIDE DEF q, s
    <3>3. QuotesOK(s, done(l), terms, l \in missed)
      BY <2>3, <3>1, <3>2, SentQuotes
    <3> QED BY <3>3 DEF s
  <2> QED BY <1>1, <2>2, <2>6, <2>7, <2>8, <2>9 DEF LineOK
<1>8. ASSUME NEW l \in Lines, l \notin Present PROVE LineOK(l)'
  <2>1. line'[l] = Absent /\ ecn'[l] = ecn[l] /\ line[l] = Absent
    BY <1>1, <1>4, <1>8 DEF Present
  <2>2. quotes[l] = <<>> /\ ecn[l].status = "none"
    BY <2>1 DEF IInv, LineOK, RootOK
  <2>3. quotes'[l] = <<>>
    <3>1. DOMAIN quotes[l] = {}
      BY <2>2
    <3>2. quotes'[l] = quotes[l]
      BY <3>1, SendRows
    <3> QED BY <2>2, <3>2
  <2> QED BY <2>1, <2>2, <2>3 DEF LineOK, RootOK
<1>9. Revised' = {}
  <2>1. \A l \in Lines : line'[l] # Absent => line'[l].stage = "none"
    BY <1>3, <1>4
  <2> QED BY <2>1 DEF Revised, Present
<1>10. RequestOK'
  BY <1>1, <1>9 DEF RequestOK
<1>11. \A l \in Lines : LineOK(l)'
  BY <1>7, <1>8
<1>12. /\ ecn' \in [Lines -> EcnRow] /\ handed' \in BOOLEAN
       /\ request' \in {"none", "Terms", "Pricing", "Technical"} /\ draft' \in BOOLEAN
       /\ terms' \in Nat /\ missed' \subseteq Lines /\ left' \in Nat
  BY <1>1, <1>2
<1> QED BY <1>5, <1>6, <1>10, <1>11, <1>12, AllLines

------------------------------------------------------------------------------
(* The invariant.                                                         *)

\* New lines and lines that are costed already have no quotes.
LEMMA InitIInv == Init => IInv
<1> SUFFICES ASSUME Init PROVE IInv
  OBVIOUS
<1>1. PICK start \in Starts :
         /\ line = [l \in Lines |-> IF l \in start.ready THEN Costed ELSE Absent]
         /\ handed = (start.ready # {})
         /\ left = start.left
  BY DEF Init
<1>2. /\ quotes = [l \in Lines |-> <<>>]
      /\ ecn = [l \in Lines |-> [status |-> "none", others |-> FALSE]]
      /\ request = "none" /\ draft = FALSE /\ terms = 0 /\ missed = {}
  BY DEF Init
<1>3. left \in Nat
  <2>1. start \in [ready : SUBSET Lines, left : Nat]
    BY EnquiriesAssumption
  <2> QED BY <1>1, <2>1
<1>4. /\ Costed \in Line /\ Costed.stage = "none" /\ Costed.recost = FALSE
      /\ Costed.design = "DesignComplete"
  BY DEF Costed, Fresh, Line
<1>5. line \in [Lines -> Line \union {Absent}] /\ \A l \in Lines : line[l] \in {Costed, Absent}
  BY <1>1, <1>4
<1>6. quotes \in [Lines -> Seq(Quote)]
  BY <1>2, EmptySeq
<1> DEFINE e == [status |-> "none", others |-> FALSE]
<1>7. e \in EcnRow /\ e.status = "none" /\ ecn = [l \in Lines |-> e]
  BY <1>2 DEF EcnRow
<1> HIDE DEF e
<1>8. ecn \in [Lines -> EcnRow] /\ \A l \in Lines : ecn[l] = e
  BY <1>7
<1>9. TypeOK
  <2>1. \A l \in Present : line[l] \in Line
    BY <1>5 DEF Present
  <2> QED BY <1>1, <1>2, <1>3, <1>6, <1>8, <2>1 DEF TypeOK, EcnRow
<1>10. ASSUME NEW l \in Lines PROVE LineOK(l)
  <2>1. quotes[l] = <<>> /\ ecn[l] = e
    BY <1>2, <1>8
  <2>2. line[l] # Absent => line[l] = Costed
    BY <1>5
  <2>3. /\ RootOK(Costed, <<>>, e) /\ StageOK(Costed, <<>>, e, request)
        /\ QuotesOK(<<>>, Costed, terms, l \in missed)
    BY <1>4, <1>7, Unquoted
  <2>4. WaitsOK(Costed)
    BY <1>4 DEF WaitsOK
  <2>5. RootOK(line[l], <<>>, e)
    BY <1>7 DEF RootOK
  <2> QED BY <2>1, <2>2, <2>3, <2>4, <2>5 DEF LineOK
<1>11. RequestOK
  <2>1. \A l \in Present : line[l].stage = "none"
    BY <1>4, <1>5 DEF Present
  <2> QED BY <1>2, <2>1 DEF RequestOK, Revised
<1> QED BY <1>5, <1>9, <1>10, <1>11 DEF IInv

\* Every operation keeps the invariant.
LEMMA NextIInv == IInv /\ [Next]_vars => IInv'
<1> SUFFICES ASSUME IInv, [Next]_vars PROVE IInv'
  OBVIOUS
<1>1. CASE HandOverToTechnicalReview
  BY <1>1, HandOverStep
<1>2. CASE SaveTerms
  BY <1>2, SaveTermsStep
<1>3. CASE UpdateTerms
  BY <1>3, UpdateTermsStep
<1>4. ASSUME NEW kind \in {"Terms", "Pricing", "Technical"}, NEW ls \in SUBSET Lines,
             RequestRevision(kind, ls)
      PROVE  IInv'
  BY <1>4, RequestStep
<1>5. ASSUME NEW l \in Lines, AddItem(l) \/ UpdateItem(l) \/ DeleteItem(l) PROVE IInv'
  BY <1>5, AddStep, UpdateItemStep, DeleteStep
<1>6. ASSUME NEW l \in Lines,
             NEW status \in {"Feasible", "NeedClarification", "NotFeasible"},
             UpdateTechnicalReview(l, status)
      PROVE  IInv'
  BY <1>6, ReviewStep
<1>7. ASSUME NEW l \in Lines, NEW matched \in BOOLEAN, CompleteSalesClarification(l, matched)
      PROVE  IInv'
  BY <1>7, ClarificationStep
<1>8. ASSUME NEW l \in Lines, AskTechnical(l) \/ AskDesign(l) \/ StartDesignWork(l) PROVE IInv'
  BY <1>8, AskTechnicalStep, AskDesignStep, StartDesignStep
<1>9. ASSUME NEW l \in Lines, NEW design \in {"InProgress"} \union Done, SaveDesign(l, design)
      PROVE  IInv'
  BY <1>9, SaveDesignStep
<1>10. ASSUME NEW l \in Lines, PrepareCosting(l) \/ SendBack(l) \/ ReverseHandoff(l) PROVE IInv'
  BY <1>10, PrepareStep, SendBackStep, ReverseStep
<1>11. ASSUME NEW l \in Lines, NEW complete \in BOOLEAN, UpdateProductCost(l, complete)
       PROVE  IInv'
  BY <1>11, ProductCostStep
<1>12. ASSUME NEW l \in Lines, NEW status \in {"Draft", "Ready"}, SaveQuote(l, status)
       PROVE  IInv'
  BY <1>12, SaveQuoteStep
<1>13. ASSUME NEW l \in Lines,
              SubmitDesign(l) \/ ApproveDesign(l) \/ RejectDesign(l) \/ DecideOthers(l)
       PROVE  IInv'
  BY <1>13, SubmitStep, ApproveStep, RejectStep, DecideStep
<1>14. ASSUME NEW l \in Lines, NEW others \in BOOLEAN, CompleteProductCosting(l, others)
       PROVE  IInv'
  BY <1>14, ProductCostedStep
<1>15. ASSUME NEW l \in Lines, NEW i \in DOMAIN quotes[l], Send(<<l, i>>) PROVE IInv'
  BY <1>15, SendStep
<1>16. CASE UNCHANGED vars
  <2>1. UNCHANGED <<line, quotes, ecn, handed, request, draft, terms, missed, left>>
    BY <1>16 DEF vars
  <2>2. \A l \in Lines : LineOK(l)'
    <3> TAKE l \in Lines
    <3>1. LineOK(l)
      BY DEF IInv
    <3> QED BY <2>1, <3>1 DEF LineOK
  <2>3. RequestOK'
    BY <2>1 DEF IInv, RequestOK, Revised, Present
  <2> QED BY <2>1, <2>2, <2>3, Typed, AllLines
<1> QED
  BY <1>1, <1>2, <1>3, <1>4, <1>5, <1>6, <1>7, <1>8, <1>9, <1>10, <1>11, <1>12, <1>13,
     <1>14, <1>15, <1>16 DEF Next

\* The invariant holds throughout, however many lines an enquiry has and
\* however often its quotations are revised.
THEOREM Invariance == Spec => []IInv
<1>1. Init => IInv
  BY InitIInv
<1>2. IInv /\ [Next]_vars => IInv'
  BY NextIInv
<1> QED BY <1>1, <1>2, PTL DEF Spec

\* Whatever the departments do, the records of lines, quotes and ECNs are
\* those the columns allow.
THEOREM TypeCorrect == Spec => []TypeOK
<1>1. IInv => TypeOK
  BY DEF IInv
<1> QED BY <1>1, Invariance, PTL

\* Among quotes for one product, the newest that is ready is the newest that
\* is current once the line is ready to send.
LEMMA ReadyIsNewest ==
    ASSUME IInv, NEW l \in Present, line[l].stage = "ReadyToSend", OneProduct(l)
    PROVE  Newest(l, {"Ready"}) = Newest(l, Current)
<1> DEFINE q == quotes[l]
           r == Newest(l, {"Ready"})
           n == Newest(l, Current)
<1>1. l \in Lines /\ TypeOK /\ QuotesOK(q, line[l], terms, l \in missed)
  BY PresentLine
<1>2. Uniform(q)
  BY DEF OneProduct, Uniform
<1>3. PICK i \in DOMAIN q : q[i].status = "Ready" /\ NoneAfter(q, i)
  BY <1>1, <1>2 DEF QuotesOK, NewestReady
<1>4. DOMAIN q \subseteq Nat
  BY <1>1, QuoteRows
<1>5. /\ r \in Nat /\ (r # 0 => r \in DOMAIN q /\ q[r].status = "Ready")
      /\ \A j \in DOMAIN q : q[j].status = "Ready" => j <= r
      /\ r = 0 <=> \A j \in DOMAIN q : q[j].status # "Ready"
  BY <1>1, NewestIs
<1>6. /\ n \in Nat /\ (n # 0 => n \in DOMAIN q /\ q[n].status \in Current)
      /\ \A j \in DOMAIN q : q[j].status \in Current => j <= n
      /\ n = 0 <=> \A j \in DOMAIN q : q[j].status \notin Current
  BY <1>1, NewestIs
<1> HIDE DEF q, r, n
<1>7. i <= r /\ i <= n /\ r # 0 /\ n # 0
  BY <1>3, <1>5, <1>6 DEF Current
<1>8. ~(r > i) /\ ~(n > i)
  BY <1>3, <1>5, <1>6, <1>7 DEF NoneAfter, Current
<1>9. r = i /\ n = i
  BY <1>4, <1>5, <1>6, <1>7, <1>8
<1> QED BY <1>9 DEF r, n

\* The stage of a line, its ECN, the open request, the quotation version and
\* the recosting flag agree through every interleaving of the five operations
\* that write them (requestEnquiryRevision, updateEnquiry, saveQuote, the ECN
\* steps), for any number of lines.
THEOREM StagesAgree == Spec => []RevisionStages
<1>1. IInv => RevisionStages
  <2> SUFFICES ASSUME IInv PROVE RevisionStages
    OBVIOUS
  <2>1. (draft <=> request # "none") /\ (Revised = {} <=> request = "none")
    BY DEF IInv, RequestOK
  <2>2. ASSUME NEW l \in Present
        PROVE  /\ line[l].stage = "Sales" => request = "Terms" /\ ~line[l].recost
               /\ line[l].stage = "Design" <=>
                    ecn[l].status \in {"PendingDesign", "PendingDesignApproval"}
               /\ line[l].stage = "ProductCosting" <=>
                    ecn[l].status = "PendingProductCosting"
               /\ line[l].stage \in {"Design", "ProductCosting"} =>
                    request = "Technical" /\ line[l].recost
               /\ line[l].stage = "CustomerCosting" => line[l].recost
               /\ line[l].stage = "ReadyToSend" =>
                    /\ ~line[l].recost
                    /\ OneProduct(l) => Newest(l, {"Ready"}) = Newest(l, Current)
               /\ line[l].recost => request # "none"
    <3>1. StageOK(line[l], quotes[l], ecn[l], request)
      BY PresentLine
    <3> QED BY <3>1, ReadyIsNewest DEF StageOK, DesignSteps
  <2> QED BY <2>1, <2>2 DEF RevisionStages
<1> QED BY <1>1, Invariance, PTL

\* A design that waits for an answer has the task that will give it
\* (requestDesignClarification, updateTechnicalReview, saveDesign), whatever
\* the other departments do to the line meanwhile.
THEOREM WaitersAsked == Spec => []WaitersAreAsked
<1>1. IInv => WaitersAreAsked
  <2> SUFFICES ASSUME IInv, NEW l \in Present PROVE WaitsOK(line[l])
    BY DEF WaitersAreAsked, WaitsOK
  <2> QED BY PresentLine
<1> QED BY <1>1, Invariance, PTL

\* A quote becomes the active price.
NewlySent == \E l \in Lines : \E i \in DOMAIN quotes[l] : IsSent(l, i)' /\ ~IsSent(l, i)

\* Only sending makes a quote the active price.
LEMMA OnlySending ==
    ASSUME IInv, [Next]_vars, NewlySent
    PROVE  \E l \in Lines : \E i \in DOMAIN quotes[l] : Send(<<l, i>>)
<1> SUFFICES ASSUME \A l \in Lines : \A i \in DOMAIN quotes[l] : ~Send(<<l, i>>) PROVE FALSE
  OBVIOUS
<1>0. PICK l \in Lines : \E i \in DOMAIN quotes[l] : IsSent(l, i)' /\ ~IsSent(l, i)
  BY DEF NewlySent
<1>1. PICK i \in DOMAIN quotes[l] : IsSent(l, i)' /\ ~IsSent(l, i)
  BY <1>0
<1>2. i \in DOMAIN quotes'[l] /\ quotes'[l][i].status = "Sent" /\ quotes[l][i].status # "Sent"
  BY <1>1 DEF IsSent
<1>3. CASE UNCHANGED quotes
  BY <1>2, <1>3
<1>4. CASE SaveTerms
  <2> DEFINE previous == Max({j \in 1 .. line[l].was : quotes[l][j].status \in {"Ready", "Sent"}})
             c == [quotes[l][previous] EXCEPT !.status = "Ready"]
  <2>1. quotes'[l] \in {quotes[l], Append(quotes[l], c)}
    BY <1>4 DEF SaveTerms
  <2>2. quotes[l] \in Seq(Quote) /\ i \in 1 .. Len(quotes[l])
    BY Typed, QuoteRows
  <2> HIDE DEF c
  <2>3. Append(quotes[l], c)[i] = quotes[l][i]
    <3>1. Len(quotes[l]) \in Nat
      BY <2>2, LenProperties
    <3> QED BY <2>2, <3>1
  <2> QED BY <1>2, <2>1, <2>3
<1>5. ASSUME NEW m \in Lines, NEW status \in {"Draft", "Ready"}, SaveQuote(m, status)
      PROVE  FALSE
  <2>1. m \in Present /\ InCatalogue(m) /\ quotes' = [quotes EXCEPT ![m] = Saved(m, status)]
    BY <1>5 DEF SaveQuote
  <2>2. quotes \in [Lines -> Seq(Quote)] /\ TypeOK
    BY Typed
  <2>3. l = m /\ quotes'[l] = Saved(m, status)
    BY <1>2, <2>1, <2>2
  <2> DEFINE s == Saved(m, status)
             q == quotes[m]
  <2>4. PICK j \in DOMAIN s :
               /\ s[j] = Priced(m, status)
               /\ \A o \in DOMAIN s \ {j} :
                    /\ o \in DOMAIN q
                    /\ s[o] = IF /\ line[m].recost /\ status = "Ready"
                                 /\ q[o].status = "Ready"
                                 /\ q[o].product = line[m].product
                              THEN [q[o] EXCEPT !.status = "Superseded"]
                              ELSE q[o]
    BY <2>1, SavedIs
  <2>5. s[j].status # "Sent"
    BY <2>4 DEF Priced
  <2>6. ASSUME NEW o \in DOMAIN s \ {j} PROVE s[o].status = "Sent" => q[o].status = "Sent"
    <3>1. o \in DOMAIN q /\ q[o] \in Quote
      BY <2>2, <2>3, <2>4, QuoteRows
    <3>2. [q[o] EXCEPT !.status = "Superseded"].status = "Superseded"
      BY <3>1 DEF Quote
    <3>3. s[o] \in {q[o], [q[o] EXCEPT !.status = "Superseded"]}
      BY <2>4
    <3> HIDE DEF s, q
    <3> QED BY <3>2, <3>3
  <2> HIDE DEF s
  <2>7. i \in DOMAIN s /\ s[i].status = "Sent" /\ q[i].status # "Sent"
    BY <1>2, <2>3 DEF s
  <2> QED BY <2>5, <2>6, <2>7
<1>6. CASE UNCHANGED vars
  BY <1>3, <1>6 DEF vars
<1> QED
  <2>1. CASE HandOverToTechnicalReview \/ UpdateTerms
    BY <1>3, <2>1 DEF HandOverToTechnicalReview, UpdateTerms
  <2>2. ASSUME NEW kind \in {"Terms", "Pricing", "Technical"}, NEW ls \in SUBSET Lines,
               RequestRevision(kind, ls)
        PROVE  FALSE
    BY <1>3, <2>2 DEF RequestRevision
  <2>3. ASSUME NEW m \in Lines,
               \/ AddItem(m) \/ UpdateItem(m) \/ DeleteItem(m)
               \/ AskTechnical(m) \/ AskDesign(m) \/ StartDesignWork(m) \/ PrepareCosting(m)
               \/ SendBack(m) \/ ReverseHandoff(m)
        PROVE  FALSE
    BY <1>3, <2>3 DEF AddItem, UpdateItem, DeleteItem, AskTechnical, AskDesign,
         StartDesignWork, PrepareCosting, SendBack, ReverseHandoff
  <2>4. ASSUME NEW m \in Lines,
               SubmitDesign(m) \/ ApproveDesign(m) \/ RejectDesign(m) \/ DecideOthers(m)
        PROVE  FALSE
    BY <1>3, <2>4 DEF SubmitDesign, ApproveDesign, RejectDesign, DecideOthers
  <2>5. ASSUME NEW m \in Lines,
               \/ \E status \in {"Feasible", "NeedClarification", "NotFeasible"} :
                    UpdateTechnicalReview(m, status)
               \/ \E matched \in BOOLEAN : CompleteSalesClarification(m, matched)
               \/ \E design \in {"InProgress"} \union Done : SaveDesign(m, design)
               \/ \E complete \in BOOLEAN : UpdateProductCost(m, complete)
               \/ \E others \in BOOLEAN : CompleteProductCosting(m, others)
        PROVE  FALSE
    BY <1>3, <2>5 DEF UpdateTechnicalReview, CompleteSalesClarification, SaveDesign,
         UpdateProductCost, CompleteProductCosting
  <2> QED BY <1>4, <1>5, <1>6, <2>1, <2>2, <2>3, <2>4, <2>5 DEF Next

\* Whenever a quotation goes out, every line that is not Cannot Quote, and
\* missed no change of the terms, has an active price computed from the present
\* Incoterms, Packaging and Currency and the design revision released last,
\* whichever revision changed them and for whichever lines it was requested
\* (updateEnquiry, saveQuote, transitionQuoteToSent).
THEOREM PricedAtTerms == Spec => SentAtCurrentTerms
<1>1. ASSUME IInv, [Next]_vars, NewlySent, NEW l \in Feasible \ missed, OneProduct(l)
      PROVE  \E i \in DOMAIN quotes[l] : /\ IsSent(l, i)'
                                         /\ quotes[l][i].terms = terms
                                         /\ quotes[l][i].rev = line[l].rev
  <2> DEFINE q == quotes[l]
             s == quotes'[l]
             n == Newest(l, Current)
  <2>0. PICK m \in Lines : \E k \in DOMAIN quotes[m] : Send(<<m, k>>)
    BY <1>1, OnlySending
  <2>1. PICK k \in DOMAIN quotes[m] : Send(<<m, k>>)
    BY <2>0
  <2>2. l \in Present /\ l \in Lines /\ l \notin missed
    BY <1>1, PresentLine DEF Feasible
  <2>3. QuotesOK(q, line[l], terms, l \in missed) /\ TypeOK
    BY <1>1, <2>2, PresentLine
  <2>4. ~line[l].recost /\ n # 0 /\ ~IsDraft(l, n)
    BY <1>1, <2>1, <2>2 DEF Send, Sendable
  <2>5. Uniform(q)
    BY <1>1 DEF OneProduct, Uniform
  <2>6. AtTerms(q, terms, line[l].rev)
    BY <2>2, <2>3, <2>4, <2>5 DEF QuotesOK
  <2>7. /\ n \in Nat /\ n \in DOMAIN q /\ q[n].status \in Current
        /\ \A i \in DOMAIN q : q[i].status \in Current => i <= n
    BY <2>2, <2>3, <2>4, NewestIs
  <2>8. q[n].status \in {"Ready", "Sent"}
    BY <2>4, <2>7 DEF IsDraft, Current
  <2>9. NoneAfter(q, n)
    <3>1. DOMAIN q \subseteq Nat
      BY <2>2, <2>3, QuoteRows
    <3>2. \A i \in DOMAIN q : i > n => ~(i <= n)
      BY <2>7, <3>1
    <3> QED BY <2>7, <3>2 DEF NoneAfter
  <2>10. /\ DOMAIN s = DOMAIN q
         /\ \/ s = q /\ (l \in Feasible /\ n # 0 => q[n].status # "Ready")
            \/ \E a \in DOMAIN q : SentRow(q, s, a)
    BY <1>1, <2>1, <2>2, SendRows
  <2>11. CASE s = q /\ (l \in Feasible /\ n # 0 => q[n].status # "Ready")
    <3>1. q[n].status = "Sent"
      BY <1>1, <2>4, <2>8, <2>11
    <3>2. q[n].terms = terms /\ q[n].rev = line[l].rev
      BY <2>6, <2>7, <2>9, <3>1 DEF AtTerms
    <3>3. PICK i \in DOMAIN q : i = n
      BY <2>7
    <3>4. IsSent(l, i)'
      BY <2>11, <3>1, <3>3 DEF IsSent
    <3> QED BY <3>2, <3>3, <3>4
  <2>12. CASE \E a \in DOMAIN q : SentRow(q, s, a)
    <3>1. PICK a \in DOMAIN q : SentRow(q, s, a)
      BY <2>12
    <3>2. q[a].terms = terms /\ q[a].rev = line[l].rev
      BY <2>6, <3>1 DEF AtTerms, SentRow
    <3>3. IsSent(l, a)'
      BY <2>10, <3>1 DEF IsSent, SentRow
    <3> QED BY <3>2, <3>3
  <2> QED BY <2>10, <2>11, <2>12
<1>2. IInv /\ [Next]_vars =>
        [(\E l \in Lines : \E i \in DOMAIN quotes[l] : IsSent(l, i)' /\ ~IsSent(l, i))
         => \A l \in Feasible \ missed : OneProduct(l) =>
              \E i \in DOMAIN quotes[l] : /\ IsSent(l, i)'
                                          /\ quotes[l][i].terms = terms
                                          /\ quotes[l][i].rev = line[l].rev]_vars
  BY <1>1 DEF NewlySent
<1> QED BY <1>2, Invariance, PTL DEF Spec, SentAtCurrentTerms
===============================================================================
