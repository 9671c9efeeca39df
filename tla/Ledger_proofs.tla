---------------------------- MODULE Ledger_proofs ----------------------------
(* Theorems about SlipLedger, for every set of slips, guests, casts and      *)
(* amounts; and about CheckoutRpc, for every number of terminals, operations *)
(* and repeated requests: the calls are steps of the ledger, an operation    *)
(* takes effect once, everything kept is typed, and the revision decides     *)
(* (ViewsInv, below).                                                        *)
EXTENDS CheckoutRpc, FiniteSetTheorems, TLAPS

(* The head count is a natural number: a slip seats finitely many guests. *)
LEMMA HeadCountType ==
    ASSUME NEW gs PROVE Cardinality(ActiveGuests(gs)) \in Nat
<1>1. ActiveGuests(gs) \subseteq Guest
    BY DEF ActiveGuests
<1>2. IsFiniteSet(ActiveGuests(gs))
    BY <1>1, FS_Subset, LedgerAssumption
<1> QED BY <1>2, FS_CardinalityType

(* A statement made from typed rows is a typed statement. *)
LEMMA StatementType ==
    ASSUME NEW ls \in SUBSET Line, NEW ps \in SUBSET PricingLine, NEW cs \in SUBSET Charge
    PROVE  StatementOf(ls, ps, cs) \in Statement
BY DEF StatementOf, Statement

(* Type correctness of the ledger: every reachable row has the columns and   *)
(* status values of its table.                                               *)
LEMMA TypeInit == Init => TypeOK
BY LedgerAssumption, FS_EmptySet DEF Init, TypeOK, SlipStatus, GuestStatus

LEMMA TypeNext == TypeOK /\ [Next]_vars => TypeOK'
<1> SUFFICES ASSUME TypeOK, [Next]_vars PROVE TypeOK'
    OBVIOUS
<1> USE LedgerAssumption
<1>1. CASE UNCHANGED vars
    BY <1>1 DEF TypeOK, vars, rows, documents
<1>2. ASSUME NEW s \in Slip, NEW seated \in SUBSET Guest, NEW nominated \in SUBSET Cast,
             NEW fee \in Price, CreateSlip(s, seated, nominated, fee)
      PROVE  TypeOK'
  <2>1. IsFiniteSet(seated)
      BY FS_Subset
  <2>2. Cardinality(seated) \in Nat
      BY <2>1, FS_CardinalityType
  <2>3. slips' \in [Slip -> [status : SlipStatus, count : Nat]]
      BY <1>2, <2>2 DEF CreateSlip, TypeOK, SlipStatus
  <2>4. guests' \in [Slip -> [Guest -> GuestStatus]]
      BY <1>2 DEF CreateSlip, TypeOK, GuestStatus
  <2>5. casts' \in [Slip -> SUBSET Nomination]
      BY <1>2 DEF CreateSlip, TypeOK, Nomination
  <2>6. lines' \in [Slip -> SUBSET Line]
      BY <1>2 DEF CreateSlip, TypeOK, Line, LineSource
  <2>7. no' \in [Slip -> Nat]
      BY <1>2 DEF CreateSlip, TypeOK, UsesNumber
  <2> QED BY <1>2, <2>3, <2>4, <2>5, <2>6, <2>7 DEF CreateSlip, TypeOK, documents
<1>3. ASSUME NEW s \in Slip, NEW g \in Guest, AddCustomer(s, g) \/ LeaveCustomer(s, g)
      PROVE  TypeOK'
  <2>1. guests' \in [Slip -> [Guest -> GuestStatus]]
    <3>1. PICK v \in GuestStatus : guests' = [guests EXCEPT ![s] = [guests[s] EXCEPT ![g] = v]]
        BY <1>3 DEF AddCustomer, LeaveCustomer, GuestStatus
    <3>2. [guests[s] EXCEPT ![g] = v] \in [Guest -> GuestStatus]
        BY DEF TypeOK
    <3> QED BY <3>1, <3>2 DEF TypeOK
  <2>2. Cardinality(ActiveGuests(guests'[s])) \in Nat
      BY HeadCountType
  <2>3. slips' \in [Slip -> [status : SlipStatus, count : Nat]]
      BY <1>3, <2>2 DEF AddCustomer, LeaveCustomer, Recount, TypeOK, SlipStatus
  <2> QED BY <1>3, <2>1, <2>3 DEF AddCustomer, LeaveCustomer, TypeOK, rows, documents
<1>4. ASSUME NEW s \in Slip, NEW c \in Cast, NEW dup \in BOOLEAN, NEW fee \in Price,
             AddNomination(s, c, dup, fee)
      PROVE  TypeOK'
  <2>1. casts' \in [Slip -> SUBSET Nomination]
      BY <1>4 DEF AddNomination, TypeOK, Nomination
  <2>2. lines' \in [Slip -> SUBSET Line]
      BY <1>4 DEF AddNomination, TypeOK, Line, LineSource
  <2>3. no' \in [Slip -> Nat]
      BY <1>4 DEF AddNomination, TypeOK, UsesNumber
  <2> QED BY <1>4, <2>1, <2>2, <2>3 DEF AddNomination, TypeOK, documents
<1>5. ASSUME NEW s \in Slip, NEW n \in casts[s], CancelNomination(s, n)
      PROVE  TypeOK'
  <2>1. casts' \in [Slip -> SUBSET Nomination]
      BY <1>5 DEF CancelNomination, TypeOK
  <2>2. lines' \in [Slip -> SUBSET Line]
      BY <1>5 DEF CancelNomination, TypeOK
  <2> QED BY <1>5, <2>1, <2>2 DEF CancelNomination, TypeOK, documents
<1>6. ASSUME NEW s \in Slip, NEW amount \in Price, AddOrder(s, amount)
      PROVE  TypeOK'
  <2>1. lines' \in [Slip -> SUBSET Line]
      BY <1>6 DEF AddOrder, TypeOK, Line, LineSource
  <2>2. no' \in [Slip -> Nat]
      BY <1>6 DEF AddOrder, TypeOK, UsesNumber
  <2> QED BY <1>6, <2>1, <2>2 DEF AddOrder, TypeOK, documents
<1>7. ASSUME NEW s \in Slip, NEW l \in lines[s], VoidOrder(s, l)
      PROVE  TypeOK'
  <2>1. lines' \in [Slip -> SUBSET Line]
      BY <1>7 DEF VoidOrder, TypeOK
  <2> QED BY <1>7, <2>1 DEF VoidOrder, TypeOK, documents
<1>8. ASSUME NEW s \in Slip, NEW amount \in Price \cup {0}, SaveKaraoke(s, amount)
      PROVE  TypeOK'
  <2> DEFINE karaoke == {l \in lines[s] : l.src = "karaoke"}
             line(k) == [no |-> k, src |-> "karaoke", cast |-> NoCast, amount |-> amount]
  <2>1. \A k \in Nat : line(k) \in Line
      BY DEF Line, LineSource
  <2>2. CASE amount = 0
    <3>1. lines' = [lines EXCEPT ![s] = lines[s] \ karaoke] /\ no' = no
        BY <1>8, <2>2 DEF SaveKaraoke
    <3> QED BY <1>8, <3>1 DEF SaveKaraoke, TypeOK, documents
  <2>3. ASSUME NEW first \in karaoke, no' = no,
               lines' = [lines EXCEPT ![s] = (lines[s] \ karaoke) \cup {line(first.no)}]
        PROVE  TypeOK'
    <3>1. first.no \in Nat
        BY DEF TypeOK, Line
    <3>2. line(first.no) \in Line
        BY <2>1, <3>1
    <3> HIDE DEF line
    <3>3. lines' \in [Slip -> SUBSET Line]
        BY <2>3, <3>2 DEF TypeOK
    <3> QED BY <1>8, <2>3, <3>3 DEF SaveKaraoke, TypeOK, documents
  <2>4. CASE amount > 0 /\ karaoke = {}
    <3>1. /\ lines' = [lines EXCEPT ![s] = (lines[s] \ karaoke) \cup {line(no[s])}]
          /\ no' = [no EXCEPT ![s] = @ + 1]
        BY <1>8, <2>4 DEF SaveKaraoke, UsesNumber
    <3>2. no[s] \in Nat
        BY DEF TypeOK
    <3>3. line(no[s]) \in Line
        BY <2>1, <3>2
    <3> HIDE DEF line
    <3>4. lines' \in [Slip -> SUBSET Line] /\ no' \in [Slip -> Nat]
        BY <3>1, <3>2, <3>3 DEF TypeOK
    <3> QED BY <1>8, <3>4 DEF SaveKaraoke, TypeOK, documents
  <2> QED BY <1>8, <2>2, <2>3, <2>4 DEF SaveKaraoke
<1>9. ASSUME NEW s \in Slip, NEW amount \in Adjustment, AddAdjustment(s, amount)
      PROVE  TypeOK'
  <2>1. charges' \in [Slip -> SUBSET Charge]
      BY <1>9 DEF AddAdjustment, TypeOK, Charge
  <2>2. no' \in [Slip -> Nat]
      BY <1>9 DEF AddAdjustment, TypeOK, UsesNumber
  <2> QED BY <1>9, <2>1, <2>2 DEF AddAdjustment, TypeOK, documents
<1>10. ASSUME NEW s \in Slip, NEW c \in charges[s], VoidAdjustment(s, c)
       PROVE  TypeOK'
  <2>1. charges' \in [Slip -> SUBSET Charge]
      BY <1>10 DEF VoidAdjustment, TypeOK
  <2> QED BY <1>10, <2>1 DEF VoidAdjustment, TypeOK, documents
<1>11. ASSUME NEW s \in Slip, NEW quote \in Quote, IssueStatement(s, quote)
       PROVE  TypeOK'
  <2> DEFINE priced == IF quote = 0 THEN {} ELSE {[no |-> no[s], amount |-> quote]}
             automatic == {[no |-> p.no, src |-> "automatic_pricing", cast |-> NoCast, amount |-> p.amount] : p \in priced}
             billed == Entered(lines[s]) \cup automatic
             printed == StatementOf(billed, priced, charges[s])
  <2>1. priced \in SUBSET PricingLine
      BY DEF TypeOK, PricingLine
  <2>2. automatic \in SUBSET Line
      BY <2>1 DEF Line, LineSource, PricingLine
  <2>3. billed \in SUBSET Line
      BY <2>2 DEF Entered, TypeOK
  <2>4. printed \in Statement
      BY <2>1, <2>3, StatementType DEF TypeOK
  <2> HIDE DEF printed, automatic, priced
  <2>5. lines' \in [Slip -> SUBSET Line] /\ pricing' \in [Slip -> SUBSET PricingLine]
      BY <1>11, <2>1, <2>3 DEF IssueStatement, TypeOK, priced, automatic
  <2>6. bills' \in [Slip -> SUBSET Bill]
    <3>1. bills' = [bills EXCEPT ![s] = {[version |-> issued[s] + 1, statement |-> printed]}]
        BY <1>11 DEF IssueStatement, printed, automatic, priced
    <3> QED BY <2>4, <3>1 DEF TypeOK, Bill
  <2>7. checkouts' \in [Slip -> SUBSET Checkout]
    <3>1. checkouts' = [checkouts EXCEPT ![s] = {[id |-> issued[s] + 1, status |-> "draft", statement |-> printed]}]
        BY <1>11 DEF IssueStatement, printed, automatic, priced
    <3> QED BY <2>4, <3>1 DEF TypeOK, Checkout
  <2>8. slips' \in [Slip -> [status : SlipStatus, count : Nat]]
      BY <1>11 DEF IssueStatement, TypeOK, SlipStatus
  <2>9. guests' \in [Slip -> [Guest -> GuestStatus]]
      BY <1>11 DEF IssueStatement, TypeOK, GuestStatus
  <2>10. no' \in [Slip -> Nat] /\ issued' \in [Slip -> Nat]
      BY <1>11 DEF IssueStatement, TypeOK, UsesNumber
  <2> QED BY <1>11, <2>5, <2>6, <2>7, <2>8, <2>9, <2>10 DEF IssueStatement, TypeOK
<1>12. ASSUME NEW s \in Slip, Reopen(s)
       PROVE  /\ slips' \in [Slip -> [status : SlipStatus, count : Nat]]
              /\ guests' \in [Slip -> [Guest -> GuestStatus]]
              /\ lines' \in [Slip -> SUBSET Line]
              /\ pricing' \in [Slip -> SUBSET PricingLine]
              /\ bills' \in [Slip -> SUBSET Bill]
              /\ UNCHANGED <<casts, charges, no, issued>>
  <2>1. Cardinality(ActiveGuests(guests'[s])) \in Nat
      BY HeadCountType
  <2>2. slips' \in [Slip -> [status : SlipStatus, count : Nat]]
      BY <1>12, <2>1 DEF Reopen, Recount, TypeOK, SlipStatus
  <2>3. guests' \in [Slip -> [Guest -> GuestStatus]]
      BY <1>12 DEF Reopen, TypeOK, GuestStatus
  <2>4. lines' \in [Slip -> SUBSET Line] /\ pricing' \in [Slip -> SUBSET PricingLine]
      BY <1>12 DEF Reopen, TypeOK, Entered
  <2> QED BY <1>12, <2>2, <2>3, <2>4 DEF Reopen, TypeOK
<1>13. ASSUME NEW s \in Slip, ReleaseStatement(s)
       PROVE  TypeOK'
    BY <1>12, <1>13 DEF ReleaseStatement, TypeOK
<1>14. ASSUME NEW s \in Slip, NEW cash \in Tender, NEW card \in Tender, ConfirmCheckout(s, cash, card)
       PROVE  TypeOK'
  <2>1. PICK bill \in bills[s], draft \in checkouts[s] :
            /\ checkouts' = [checkouts EXCEPT ![s] = (@ \ {draft}) \cup
                   {[id |-> draft.id, status |-> "confirmed", statement |-> bill.statement]}]
            /\ payments' = [payments EXCEPT ![s] = @ \cup
                   {[checkout |-> draft.id, cash |-> cash, card |-> card]}]
      BY <1>14 DEF ConfirmCheckout
  <2>2. draft.id \in Nat /\ bill.statement \in Statement
      BY DEF TypeOK, Checkout, Bill
  <2>3. checkouts' \in [Slip -> SUBSET Checkout]
      BY <2>1, <2>2 DEF TypeOK, Checkout
  <2>4. payments' \in [Slip -> SUBSET Payment]
      BY <2>1, <2>2 DEF TypeOK, Payment
  <2>5. slips' \in [Slip -> [status : SlipStatus, count : Nat]]
      BY <1>14 DEF ConfirmCheckout, TypeOK, SlipStatus
  <2> QED BY <1>14, <2>3, <2>4, <2>5 DEF ConfirmCheckout, TypeOK, rows
<1>15. ASSUME NEW s \in Slip, CancelCheckout(s)
       PROVE  TypeOK'
    BY <1>12, <1>15 DEF CancelCheckout, TypeOK
<1>16. ASSUME NEW s \in Slip, SaveCastSales(s)
       PROVE  TypeOK'
  <2>1. PICK confirmed \in checkouts[s] :
            sales' = [sales EXCEPT ![s] =
                {[cast |-> n, checkout |-> confirmed.id, base |-> confirmed.statement] : n \in casts[s]}]
      BY <1>16 DEF SaveCastSales
  <2>2. confirmed.id \in Nat /\ confirmed.statement \in Statement
      BY DEF TypeOK, Checkout
  <2>4. sales' \in [Slip -> SUBSET CastSales]
      BY <2>1, <2>2 DEF TypeOK, CastSales
  <2> QED BY <1>16, <2>4 DEF SaveCastSales, TypeOK, rows
<1> QED
    BY <1>1, <1>2, <1>3, <1>4, <1>5, <1>6, <1>7, <1>8, <1>9, <1>10, <1>11, <1>13, <1>14, <1>15, <1>16
    DEF Next, Edit, Account

THEOREM TypeCorrect == Spec => []TypeOK
<1>1. Init => TypeOK
    BY TypeInit
<1>2. TypeOK /\ [Next]_vars => TypeOK'
    BY TypeNext
<1> QED BY <1>1, <1>2, PTL DEF Spec

-----------------------------------------------------------------------------
(* What a step at slip s leaves alone. *)

OthersStay(s) ==
    \A x \in Slip \ {s} :
        /\ slips'[x] = slips[x] /\ guests'[x] = guests[x]
        /\ casts'[x] = casts[x] /\ lines'[x] = lines[x]
        /\ pricing'[x] = pricing[x] /\ charges'[x] = charges[x]
        /\ bills'[x] = bills[x] /\ checkouts'[x] = checkouts[x]
        /\ payments'[x] = payments[x] /\ sales'[x] = sales[x]

EditLeaves(s) ==
    /\ slips[s].status \in {"absent", "open"}
    /\ slips'[s].status = "open"
    /\ Automatic(lines'[s]) \subseteq Automatic(lines[s])
    /\ pricing' = pricing /\ bills' = bills /\ checkouts' = checkouts
    /\ payments' = payments /\ sales' = sales

AccountLeaves(s) ==
    /\ slips[s].status # "absent"
    /\ Entered(lines'[s]) = Entered(lines[s])
    /\ casts' = casts /\ charges' = charges

(* The editing operations work on an open slip, or open it, and touch no    *)
(* document, no automatic charge and no other slip.                          *)
LEMMA EditFrame ==
    ASSUME TypeOK, NEW s \in Slip, Edit(s)
    PROVE  EditLeaves(s) /\ OthersStay(s)
<1> USE DEF EditLeaves, OthersStay, Automatic, documents, rows, IsOpen
<1>1. ASSUME NEW seated \in SUBSET Guest, NEW nominated \in SUBSET Cast, NEW fee \in Price,
             CreateSlip(s, seated, nominated, fee)
      PROVE  EditLeaves(s) /\ OthersStay(s)
    BY <1>1 DEF CreateSlip, TypeOK
<1>2. ASSUME NEW g \in Guest, AddCustomer(s, g) \/ LeaveCustomer(s, g)
      PROVE  EditLeaves(s) /\ OthersStay(s)
    BY <1>2 DEF AddCustomer, LeaveCustomer, Recount, TypeOK
<1>3. ASSUME NEW c \in Cast, NEW dup \in BOOLEAN, NEW fee \in Price, AddNomination(s, c, dup, fee)
      PROVE  EditLeaves(s) /\ OthersStay(s)
    BY <1>3 DEF AddNomination, TypeOK
<1>4. ASSUME NEW n \in casts[s], CancelNomination(s, n)
      PROVE  EditLeaves(s) /\ OthersStay(s)
    BY <1>4 DEF CancelNomination, TypeOK
<1>5. ASSUME NEW amount \in Price, AddOrder(s, amount)
      PROVE  EditLeaves(s) /\ OthersStay(s)
    BY <1>5 DEF AddOrder, TypeOK
<1>6. ASSUME NEW l \in lines[s], VoidOrder(s, l)
      PROVE  EditLeaves(s) /\ OthersStay(s)
    BY <1>6 DEF VoidOrder, TypeOK
<1>7. ASSUME NEW amount \in Price \cup {0}, SaveKaraoke(s, amount)
      PROVE  EditLeaves(s) /\ OthersStay(s)
    BY <1>7 DEF SaveKaraoke, TypeOK
<1>8. ASSUME NEW amount \in Adjustment, AddAdjustment(s, amount)
      PROVE  EditLeaves(s) /\ OthersStay(s)
    BY <1>8 DEF AddAdjustment, TypeOK
<1>9. ASSUME NEW c \in charges[s], VoidAdjustment(s, c)
      PROVE  EditLeaves(s) /\ OthersStay(s)
    BY <1>9 DEF VoidAdjustment, TypeOK
<1> QED BY <1>1, <1>2, <1>3, <1>4, <1>5, <1>6, <1>7, <1>8, <1>9 DEF Edit

(* The account steps keep what the staff entered, and every other slip. *)
LEMMA AccountFrame ==
    ASSUME TypeOK, NEW s \in Slip, Account(s)
    PROVE  AccountLeaves(s) /\ OthersStay(s)
<1> USE DEF AccountLeaves, OthersStay, Automatic, Entered, documents, rows, IsOpen
<1>1. ASSUME NEW quote \in Quote, IssueStatement(s, quote)
      PROVE  AccountLeaves(s) /\ OthersStay(s)
    BY <1>1 DEF IssueStatement, TypeOK
<1>2. CASE ReleaseStatement(s)
    BY <1>2 DEF ReleaseStatement, Reopen, Recount, TypeOK
<1>3. ASSUME NEW cash \in Tender, NEW card \in Tender, ConfirmCheckout(s, cash, card)
      PROVE  AccountLeaves(s) /\ OthersStay(s)
    BY <1>3 DEF ConfirmCheckout, TypeOK
<1>4. CASE CancelCheckout(s)
    BY <1>4 DEF CancelCheckout, Reopen, Recount, TypeOK
<1>5. CASE SaveCastSales(s)
    BY <1>5 DEF SaveCastSales, TypeOK
<1> QED BY <1>1, <1>2, <1>3, <1>4, <1>5 DEF Account

-----------------------------------------------------------------------------
(* The inductive invariant.  PaidAt and SalesAt are needed for DocumentsAt: *)
(* a cancellation removes the payments and sales of the checkout it         *)
(* cancels, and these are all there are only because every payment and      *)
(* every sale belongs to the one live checkout.                             *)
LedgerAt(s) == DocumentsAt(s) /\ StatementAt(s) /\ PaidAt(s) /\ SalesAt(s)

LedgerInv == TypeOK /\ \A s \in Slip : LedgerAt(s)

LEMMA LedgerElsewhere ==
    ASSUME NEW s \in Slip, OthersStay(s), NEW x \in Slip \ {s}, LedgerAt(x)
    PROVE  LedgerAt(x)'
<1>1. /\ slips'[x] = slips[x] /\ casts'[x] = casts[x] /\ lines'[x] = lines[x]
      /\ pricing'[x] = pricing[x] /\ charges'[x] = charges[x]
      /\ bills'[x] = bills[x] /\ checkouts'[x] = checkouts[x]
      /\ payments'[x] = payments[x] /\ sales'[x] = sales[x]
    BY DEF OthersStay
<1>2. DocumentsAt(x)'
    BY <1>1 DEF LedgerAt, DocumentsAt
<1>3. StatementAt(x)'
    BY <1>1 DEF LedgerAt, StatementAt
<1>4. PaidAt(x)'
    BY <1>1 DEF LedgerAt, PaidAt
<1>5. SalesAt(x)'
    BY <1>1 DEF LedgerAt, SalesAt
<1> QED BY <1>2, <1>3, <1>4, <1>5 DEF LedgerAt

LEMMA EditKeepsLedger ==
    ASSUME TypeOK, NEW s \in Slip, LedgerAt(s), EditLeaves(s)
    PROVE  LedgerAt(s)'
<1>1. bills[s] = {} /\ checkouts[s] = {} /\ payments[s] = {} /\ sales[s] = {}
      /\ pricing[s] = {} /\ Automatic(lines[s]) = {}
    BY DEF LedgerAt, DocumentsAt, EditLeaves
<1>2. DocumentsAt(s)'
    BY <1>1 DEF DocumentsAt, EditLeaves
<1>3. StatementAt(s)' /\ PaidAt(s)' /\ SalesAt(s)'
    BY <1>1 DEF StatementAt, PaidAt, SalesAt, EditLeaves
<1> QED BY <1>2, <1>3 DEF LedgerAt

LEMMA IssueKeepsLedger ==
    ASSUME TypeOK, NEW s \in Slip, LedgerAt(s), NEW quote \in Quote, IssueStatement(s, quote)
    PROVE  LedgerAt(s)'
<1> DEFINE printed == StatementOf(lines'[s], pricing'[s], charges[s])
           bill == [version |-> issued[s] + 1, statement |-> printed]
           draft == [id |-> issued[s] + 1, status |-> "draft", statement |-> printed]
<1>1. /\ bills'[s] = {bill} /\ checkouts'[s] = {draft}
      /\ slips'[s].status = "checkout_ready" /\ payments'[s] = {} /\ sales'[s] = {}
      /\ charges' = charges
    BY DEF IssueStatement, TypeOK, LedgerAt, DocumentsAt, IsOpen
<1>2. StatementAt(s)'
    BY <1>1 DEF StatementAt
<1> HIDE DEF printed
<1>3. DocumentsAt(s)'
    BY <1>1 DEF DocumentsAt
<1>4. PaidAt(s)' /\ SalesAt(s)'
    BY <1>1 DEF PaidAt, SalesAt
<1> QED BY <1>2, <1>3, <1>4 DEF LedgerAt

(* Release and cancellation leave no document of the slip behind. *)
LEMMA ReopenKeepsLedger ==
    ASSUME TypeOK, NEW s \in Slip, Reopen(s),
           checkouts'[s] = {}, payments'[s] = {}, sales'[s] = {}
    PROVE  LedgerAt(s)'
<1>1. /\ slips'[s].status = "open" /\ bills'[s] = {}
      /\ pricing'[s] = {} /\ Automatic(lines'[s]) = {}
    BY DEF Reopen, Recount, TypeOK, Automatic, Entered
<1>2. DocumentsAt(s)'
    BY <1>1 DEF DocumentsAt
<1>3. StatementAt(s)' /\ PaidAt(s)' /\ SalesAt(s)'
    BY <1>1 DEF StatementAt, PaidAt, SalesAt
<1> QED BY <1>2, <1>3 DEF LedgerAt

LEMMA ConfirmKeepsLedger ==
    ASSUME TypeOK, NEW s \in Slip, LedgerAt(s), NEW cash \in Tender, NEW card \in Tender,
           ConfirmCheckout(s, cash, card)
    PROVE  LedgerAt(s)'
<1>1. PICK bill \in bills[s], draft \in checkouts[s] :
          /\ cash + card = Total(bill.statement)
          /\ checkouts' = [checkouts EXCEPT ![s] = (@ \ {draft}) \cup
                 {[id |-> draft.id, status |-> "confirmed", statement |-> bill.statement]}]
          /\ payments' = [payments EXCEPT ![s] = @ \cup
                 {[checkout |-> draft.id, cash |-> cash, card |-> card]}]
    BY DEF ConfirmCheckout
<1>2. /\ bills[s] = {bill} /\ checkouts[s] = {draft} /\ draft.id = bill.version
      /\ payments[s] = {} /\ sales[s] = {}
    BY DEF ConfirmCheckout, LedgerAt, DocumentsAt
<1> DEFINE paid == [checkout |-> draft.id, cash |-> cash, card |-> card]
           confirmed == [id |-> draft.id, status |-> "confirmed", statement |-> bill.statement]
<1>3. /\ checkouts'[s] = {confirmed} /\ payments'[s] = {paid} /\ bills'[s] = {bill}
      /\ sales'[s] = {} /\ slips'[s].status = "checked_out"
      /\ lines'[s] = lines[s] /\ pricing'[s] = pricing[s] /\ charges'[s] = charges[s]
    BY <1>1, <1>2 DEF ConfirmCheckout, TypeOK, rows
<1>4. DocumentsAt(s)'
    BY <1>2, <1>3 DEF DocumentsAt
<1>5. StatementAt(s)'
    BY <1>2, <1>3 DEF LedgerAt, StatementAt
<1>6. PaidAt(s)'
  <2>1. paid.checkout = bill.version /\ paid.cash + paid.card = Total(bill.statement)
      BY <1>1, <1>2
  <2> HIDE DEF paid
  <2> QED BY <1>3, <2>1 DEF PaidAt
<1>7. SalesAt(s)'
    BY <1>3 DEF SalesAt
<1> QED BY <1>4, <1>5, <1>6, <1>7 DEF LedgerAt

LEMMA CancelEmpties ==
    ASSUME TypeOK, NEW s \in Slip, LedgerAt(s), CancelCheckout(s)
    PROVE  checkouts'[s] = {} /\ payments'[s] = {} /\ sales'[s] = {}
<1>1. PICK confirmed \in checkouts[s] :
          /\ checkouts' = [checkouts EXCEPT ![s] = @ \ {confirmed}]
          /\ payments' = [payments EXCEPT ![s] = {p \in @ : p.checkout # confirmed.id}]
          /\ sales' = [sales EXCEPT ![s] = {a \in @ : a.checkout # confirmed.id}]
    BY DEF CancelCheckout
<1>2. PICK b \in bills[s] :
          bills[s] = {b} /\ checkouts[s] = {confirmed} /\ confirmed.id = b.version
    BY DEF CancelCheckout, LedgerAt, DocumentsAt
<1>3. \A p \in payments[s] : p.checkout = confirmed.id
    BY <1>2 DEF LedgerAt, PaidAt
<1>4. \A a \in sales[s] : a.checkout = confirmed.id
    BY <1>2 DEF LedgerAt, SalesAt
<1> QED BY <1>1, <1>2, <1>3, <1>4 DEF TypeOK

LEMMA SalesKeepLedger ==
    ASSUME TypeOK, NEW s \in Slip, LedgerAt(s), SaveCastSales(s)
    PROVE  LedgerAt(s)'
<1>1. PICK confirmed \in checkouts[s] :
          /\ confirmed.status = "confirmed"
          /\ sales' = [sales EXCEPT ![s] =
                {[cast |-> n, checkout |-> confirmed.id, base |-> confirmed.statement] : n \in casts[s]}]
    BY DEF SaveCastSales
<1> DEFINE credit(n) == [cast |-> n, checkout |-> confirmed.id, base |-> confirmed.statement]
<1>2. /\ sales'[s] = {credit(n) : n \in casts[s]}
      /\ slips[s].status = "checked_out"
      /\ UNCHANGED <<slips, casts, lines, pricing, charges, bills, checkouts, payments>>
    BY <1>1 DEF SaveCastSales, TypeOK, rows
<1>3. DocumentsAt(s)'
    BY <1>2 DEF LedgerAt, DocumentsAt
<1>4. StatementAt(s)' /\ PaidAt(s)'
    BY <1>2 DEF LedgerAt, StatementAt, PaidAt
<1>5. \A n : credit(n).cast = n /\ credit(n).checkout = confirmed.id
             /\ credit(n).base = confirmed.statement
    OBVIOUS
<1> HIDE DEF credit
<1>6. {a.cast : a \in sales'[s]} = casts'[s]
    BY <1>2, <1>5
<1>7. SalesAt(s)'
    BY <1>1, <1>2, <1>5, <1>6 DEF SalesAt
<1> QED BY <1>3, <1>4, <1>7 DEF LedgerAt

LEMMA LedgerNext == LedgerInv /\ [Next]_vars => LedgerInv'
<1> SUFFICES ASSUME LedgerInv, [Next]_vars PROVE LedgerInv'
    OBVIOUS
<1> USE DEF LedgerInv
<1>1. TypeOK'
    BY TypeNext
<1>2. CASE UNCHANGED vars
  <2>1. UNCHANGED <<slips, casts, lines, pricing, charges, bills, checkouts, payments, sales>>
      BY <1>2 DEF vars, rows, documents
  <2>2. ASSUME NEW x \in Slip PROVE LedgerAt(x)'
    <3>1. DocumentsAt(x)' /\ StatementAt(x)'
        BY <2>1 DEF LedgerAt, DocumentsAt, StatementAt
    <3>2. PaidAt(x)' /\ SalesAt(x)'
        BY <2>1 DEF LedgerAt, PaidAt, SalesAt
    <3> QED BY <3>1, <3>2 DEF LedgerAt
  <2> QED BY <1>1, <2>2
<1>3. ASSUME NEW s \in Slip, Edit(s)
      PROVE  LedgerInv'
  <2>1. EditLeaves(s) /\ OthersStay(s)
      BY <1>3, EditFrame
  <2>2. LedgerAt(s)'
      BY <2>1, EditKeepsLedger
  <2> QED BY <1>1, <2>1, <2>2, LedgerElsewhere
<1>4. ASSUME NEW s \in Slip, Account(s)
      PROVE  LedgerInv'
  <2>1. OthersStay(s)
      BY <1>4, AccountFrame
  <2>2. ASSUME NEW quote \in Quote, IssueStatement(s, quote)
        PROVE  LedgerAt(s)'
      BY <2>2, IssueKeepsLedger
  <2>3. ASSUME ReleaseStatement(s)
        PROVE  LedgerAt(s)'
    <3>1. checkouts'[s] = {} /\ payments'[s] = {} /\ sales'[s] = {}
        BY <2>3 DEF ReleaseStatement, LedgerAt, TypeOK, DocumentsAt
    <3> QED BY <2>3, <3>1, ReopenKeepsLedger DEF ReleaseStatement
  <2>4. ASSUME NEW cash \in Tender, NEW card \in Tender, ConfirmCheckout(s, cash, card)
        PROVE  LedgerAt(s)'
      BY <2>4, ConfirmKeepsLedger
  <2>5. ASSUME CancelCheckout(s)
        PROVE  LedgerAt(s)'
      BY <2>5, CancelEmpties, ReopenKeepsLedger DEF CancelCheckout
  <2>6. ASSUME SaveCastSales(s)
        PROVE  LedgerAt(s)'
      BY <2>6, SalesKeepLedger
  <2>7. LedgerAt(s)'
      BY <1>4, <2>2, <2>3, <2>4, <2>5, <2>6 DEF Account
  <2> QED BY <1>1, <2>1, <2>7, LedgerElsewhere
<1> QED BY <1>2, <1>3, <1>4 DEF Next

LEMMA LedgerInitially == Init => LedgerInv
<1> SUFFICES ASSUME Init PROVE LedgerInv
    OBVIOUS
<1>1. ASSUME NEW s \in Slip PROVE LedgerAt(s)
    BY DEF Init, LedgerAt, DocumentsAt, StatementAt, PaidAt, SalesAt, Automatic
<1> QED BY <1>1, TypeInit DEF LedgerInv

LEMMA LedgerInvariant == Spec => []LedgerInv
<1>1. Init => LedgerInv
    BY LedgerInitially
<1>2. LedgerInv /\ [Next]_vars => LedgerInv'
    BY LedgerNext
<1> QED BY <1>1, <1>2, PTL DEF Spec

(* The status of a slip and its accounting documents always agree. *)
THEOREM DocumentsCorrect == Spec => []DocumentsFollowStatus
<1>1. LedgerInv => DocumentsFollowStatus
    BY DEF LedgerInv, LedgerAt, DocumentsFollowStatus
<1> QED BY <1>1, LedgerInvariant, PTL

(* The customer is never shown a statement the slip has grown away from. *)
THEOREM StatementCorrect == Spec => []StatementMatchesRows
<1>1. LedgerInv => StatementMatchesRows
    BY DEF LedgerInv, LedgerAt, StatementMatchesRows
<1> QED BY <1>1, LedgerInvariant, PTL

(* What was received is what the statement asked for, once. *)
THEOREM PaymentCorrect == Spec => []PaidInFull
<1>1. LedgerInv => PaidInFull
    BY DEF LedgerInv, LedgerAt, PaidInFull
<1> QED BY <1>1, LedgerInvariant, PTL

(* Cast sales are complete and belong to the live checkout. *)
THEOREM SalesCorrect == Spec => []SalesForLiveCheckout
<1>1. LedgerInv => SalesForLiveCheckout
    BY DEF LedgerInv, LedgerAt, SalesForLiveCheckout
<1> QED BY <1>1, LedgerInvariant, PTL

-----------------------------------------------------------------------------
(* Nothing that was entered changes between the statement and the next time *)
(* the slip is open.                                                         *)
THEOREM WorkStaysFrozen == Spec => WorkFrozen
<1> DEFINE Frozen == \A s \in Slip :
        slips[s].status \in {"checkout_ready", "checked_out"} =>
            /\ Entered(lines'[s]) = Entered(lines[s])
            /\ casts'[s] = casts[s]
            /\ charges'[s] = charges[s]
<1>1. TypeOK /\ [Next]_vars => [Frozen]_vars
  <2> SUFFICES ASSUME TypeOK, NEW s \in Slip, Edit(s) \/ Account(s) PROVE Frozen
      BY DEF Next
  <2>1. CASE Edit(s)
      BY <2>1, EditFrame DEF EditLeaves, OthersStay
  <2>2. CASE Account(s)
      BY <2>2, AccountFrame DEF AccountLeaves, OthersStay
  <2> QED BY <2>1, <2>2
<1> QED BY <1>1, TypeCorrect, PTL DEF Spec, WorkFrozen

-----------------------------------------------------------------------------
(* Refinement: every ledger step is a step of the lifecycle or leaves the   *)
(* lifecycle where it is.                                                    *)
LEMMA EditRefines ==
    ASSUME TypeOK, NEW s \in Slip, Edit(s)
    PROVE  Lifecycle!Next
<1>1. EditLeaves(s) /\ OthersStay(s)
    BY EditFrame
<1>2. \A x \in Slip \ {s} : WorkOf(x)' = WorkOf(x)
    BY <1>1 DEF OthersStay, WorkOf
<1>3. \A x \in Slip : BillOf(x)' = BillOf(x) /\ PaidOf(x)' = PaidOf(x)
    BY <1>1 DEF EditLeaves, BillOf, PaidOf
<1>4. CASE slips[s].status = "absent"
  <2>1. Lifecycle!Create(s)
      BY <1>1, <1>2, <1>3, <1>4 DEF EditLeaves, OthersStay, Lifecycle!Create, Lifecycle!Moves, Lifecycle!OnlyAt
  <2> QED BY <2>1 DEF Lifecycle!Next
<1>5. CASE slips[s].status = "open"
  <2>1. Lifecycle!Edit(s)
      BY <1>1, <1>2, <1>3, <1>5 DEF EditLeaves, OthersStay, Lifecycle!Edit, Lifecycle!OnlyAt
  <2> QED BY <2>1 DEF Lifecycle!Next
<1> QED BY <1>1, <1>4, <1>5 DEF EditLeaves

(* What a step of the lifecycle needs of the mapped variables elsewhere. *)
LEMMA MappedElsewhere ==
    ASSUME NEW s \in Slip, OthersStay(s), NEW x \in Slip \ {s}
    PROVE  slips'[x] = slips[x] /\ BillOf(x)' = BillOf(x) /\ PaidOf(x)' = PaidOf(x)
BY DEF OthersStay, BillOf, PaidOf

LEMMA AccountRefines ==
    ASSUME TypeOK, NEW s \in Slip, LedgerAt(s), LedgerAt(s)', TypeOK', Account(s)
    PROVE  [Lifecycle!Next]_(Lifecycle!vars)
<1>1. AccountLeaves(s) /\ OthersStay(s)
    BY AccountFrame
<1>2. \A x \in Slip : WorkOf(x)' = WorkOf(x)
    BY <1>1 DEF AccountLeaves, OthersStay, WorkOf
<1>3. \A x \in Slip \ {s} :
          slips'[x] = slips[x] /\ BillOf(x)' = BillOf(x) /\ PaidOf(x)' = PaidOf(x)
    BY <1>1, MappedElsewhere
<1>4. ASSUME NEW quote \in Quote, IssueStatement(s, quote)
      PROVE  Lifecycle!Next
  <2>1. slips[s].status = "open" /\ slips'[s].status = "checkout_ready"
      BY <1>4 DEF IssueStatement, IsOpen, TypeOK
  <2>2. PICK b \in bills'[s] : TRUE
      BY <1>4, <2>1 DEF LedgerAt, DocumentsAt
  <2>3. BillOf(s)' # {}
      BY <2>2 DEF BillOf
  <2>4. PaidOf(s)' = PaidOf(s)
      BY <1>4 DEF IssueStatement, PaidOf
  <2>5. Lifecycle!Issue(s)
      BY <1>2, <1>3, <2>1, <2>3, <2>4 DEF Lifecycle!Issue, Lifecycle!Moves, Lifecycle!OnlyAt
  <2> QED BY <2>5 DEF Lifecycle!Next
<1>5. ASSUME ReleaseStatement(s)
      PROVE  Lifecycle!Next
  <2>1. slips[s].status = "checkout_ready" /\ slips'[s].status = "open"
      BY <1>5 DEF ReleaseStatement, Reopen, Recount, TypeOK
  <2>2. BillOf(s)' = {}
      BY <1>5 DEF ReleaseStatement, Reopen, BillOf, TypeOK
  <2>3. PaidOf(s)' = PaidOf(s)
      BY <1>5 DEF ReleaseStatement, PaidOf
  <2>4. Lifecycle!Release(s)
      BY <1>2, <1>3, <2>1, <2>2, <2>3 DEF Lifecycle!Release, Lifecycle!Moves
  <2> QED BY <2>4 DEF Lifecycle!Next
<1>6. ASSUME NEW cash \in Tender, NEW card \in Tender, ConfirmCheckout(s, cash, card)
      PROVE  Lifecycle!Next
  <2>1. slips[s].status = "checkout_ready" /\ slips'[s].status = "checked_out"
      BY <1>6 DEF ConfirmCheckout, TypeOK
  <2>2. BillOf(s)' = BillOf(s)
      BY <1>6 DEF ConfirmCheckout, BillOf
  <2>3. PICK b \in bills'[s] : bills'[s] = {b}
      BY <2>1 DEF LedgerAt, DocumentsAt
  <2>4. PICK p \in payments'[s] : payments'[s] = {p}
      BY <2>1 DEF LedgerAt, PaidAt
  <2>5. p.cash + p.card = Total(b.statement)
      BY <2>3, <2>4 DEF LedgerAt, PaidAt
  <2>6. BillOf(s)' = {b.statement} /\ PaidOf(s)' = {p.cash + p.card}
      BY <2>3, <2>4 DEF BillOf, PaidOf
  <2>7. PaidOf(s)' = DueFor(BillOf(s))
      BY <2>2, <2>5, <2>6 DEF DueFor
  <2>8. Lifecycle!Confirm(s)
      BY <1>2, <1>3, <2>1, <2>2, <2>7 DEF Lifecycle!Confirm, Lifecycle!Moves
  <2> QED BY <2>8 DEF Lifecycle!Next
<1>7. ASSUME CancelCheckout(s)
      PROVE  Lifecycle!Next
  <2>1. slips[s].status = "checked_out" /\ slips'[s].status = "open"
      BY <1>7 DEF CancelCheckout, Reopen, Recount, TypeOK
  <2>2. BillOf(s)' = {}
      BY <1>7 DEF CancelCheckout, Reopen, BillOf, TypeOK
  <2>3. PaidOf(s)' = {}
      BY <1>7, CancelEmpties DEF PaidOf
  <2>4. Lifecycle!Cancel(s)
      BY <1>2, <1>3, <2>1, <2>2, <2>3 DEF Lifecycle!Cancel, Lifecycle!Moves
  <2> QED BY <2>4 DEF Lifecycle!Next
<1>8. ASSUME SaveCastSales(s)
      PROVE  UNCHANGED Lifecycle!vars
    BY <1>2, <1>8 DEF SaveCastSales, BillOf, PaidOf, Lifecycle!vars
<1> QED BY <1>4, <1>5, <1>6, <1>7, <1>8 DEF Account

(* The detailed ledger does only what SlipLifecycle allows. *)
THEOREM LedgerImplementsLifecycle == Spec => ImplementsLifecycle
<1>1. Init => Lifecycle!Init
    BY DEF Init, Lifecycle!Init, BillOf, PaidOf
<1>2. LedgerInv /\ LedgerInv' /\ [Next]_vars => [Lifecycle!Next]_(Lifecycle!vars)
  <2> SUFFICES ASSUME LedgerInv, LedgerInv', [Next]_vars
               PROVE  [Lifecycle!Next]_(Lifecycle!vars)
      OBVIOUS
  <2>1. CASE UNCHANGED vars
      BY <2>1 DEF vars, rows, documents, WorkOf, BillOf, PaidOf, Lifecycle!vars
  <2>2. ASSUME NEW s \in Slip, Edit(s)
        PROVE  Lifecycle!Next
      BY <2>2, EditRefines DEF LedgerInv
  <2>3. ASSUME NEW s \in Slip, Account(s)
        PROVE  [Lifecycle!Next]_(Lifecycle!vars)
    <3>1. LedgerAt(s) /\ LedgerAt(s)'
        BY DEF LedgerInv
    <3> QED BY <2>3, <3>1, AccountRefines DEF LedgerInv
  <2> QED BY <2>1, <2>2, <2>3 DEF Next
<1> QED BY <1>1, <1>2, LedgerInvariant, PTL DEF Spec, ImplementsLifecycle, Lifecycle!Spec

-----------------------------------------------------------------------------
(* Rows that are kept in step with others.  Of the seats it has to be known *)
(* also that a slip which does not exist yet has none.                      *)

SeatsAt(s) ==
    /\ slips[s].count = Cardinality(ActiveGuests(guests[s]))
    /\ ~ IsOpen(s) => ActiveGuests(guests[s]) = {}
    /\ slips[s].status \in {"absent", "open"} => \A g \in Guest : guests[s][g] # "billed"
    /\ slips[s].status = "absent" => \A g \in Guest : guests[s][g] = "none"

AutomaticAt(s) == {[no |-> l.no, amount |-> l.amount] : l \in Automatic(lines[s])} = pricing[s]

Fees(ls) == {l \in ls : l.src = "nomination_fee"}
Karaoke(ls) == {l \in ls : l.src = "karaoke"}

FeesAt(s) == {[cast |-> l.cast, no |-> l.no] : l \in Fees(lines[s])} = casts[s]

KaraokeAt(s) == \A k, l \in Karaoke(lines[s]) : k = l

RowsAt(s) == SeatsAt(s) /\ AutomaticAt(s) /\ FeesAt(s) /\ KaraokeAt(s)

RowsInv == LedgerInv /\ \A s \in Slip : RowsAt(s)

(* What LeftStaysLeft says of a step at one slip. *)
SeatsKept(s) ==
    \A g \in Guest :
        /\ guests[s][g] = "left" => guests'[s][g] = "left"
        /\ slips[s].status \in {"checkout_ready", "checked_out"} /\ slips'[s].status = "open" =>
              (guests'[s][g] = "active" <=> guests[s][g] = "billed")

LEMMA SeatsStay ==
    ASSUME NEW s \in Slip, SeatsAt(s), slips'[s] = slips[s], guests'[s] = guests[s]
    PROVE  SeatsAt(s)' /\ SeatsKept(s)
BY DEF SeatsAt, SeatsKept, IsOpen, ActiveGuests

LEMMA EditSeats ==
    ASSUME TypeOK, NEW s \in Slip, SeatsAt(s), Edit(s)
    PROVE  SeatsAt(s)' /\ SeatsKept(s)
<1>1. CASE slips' = slips /\ guests' = guests
  BY <1>1, SeatsStay
<1>2. ASSUME NEW seated \in SUBSET Guest, NEW nominated \in SUBSET Cast, NEW fee \in Price,
             CreateSlip(s, seated, nominated, fee)
      PROVE  SeatsAt(s)' /\ SeatsKept(s)
  <2>1. /\ slips[s].status = "absent" /\ slips'[s] = [status |-> "open", count |-> Cardinality(seated)]
        /\ guests'[s] = [g \in Guest |-> IF g \in seated THEN "active" ELSE "none"]
    BY <1>2 DEF CreateSlip, TypeOK
  <2>2. ActiveGuests(guests'[s]) = seated
    BY <2>1 DEF ActiveGuests
  <2> QED
    BY <2>1, <2>2 DEF SeatsAt, SeatsKept, IsOpen
<1>3. ASSUME NEW g \in Guest, AddCustomer(s, g) \/ LeaveCustomer(s, g)
      PROVE  SeatsAt(s)' /\ SeatsKept(s)
  <2>1. /\ slips[s].status = "open"
        /\ slips'[s] = [status |-> "open", count |-> Cardinality(ActiveGuests(guests'[s]))]
    BY <1>3 DEF AddCustomer, LeaveCustomer, Recount, IsOpen, TypeOK
  <2>2. \A h \in Guest : guests'[s][h] = guests[s][h] \/ (guests[s][h] # "left" /\ guests'[s][h] \in {"active", "left"})
    BY <1>3 DEF AddCustomer, LeaveCustomer, TypeOK
  <2> QED
    BY <2>1, <2>2 DEF SeatsAt, SeatsKept, IsOpen
<1> QED
  BY <1>1, <1>2, <1>3 DEF Edit, AddNomination, CancelNomination, AddOrder, VoidOrder, SaveKaraoke,
     AddAdjustment, VoidAdjustment

LEMMA ReopenSeats ==
    ASSUME TypeOK, NEW s \in Slip, SeatsAt(s), Reopen(s),
           slips[s].status \in {"checkout_ready", "checked_out"}
    PROVE  SeatsAt(s)' /\ SeatsKept(s)
<1>1. /\ guests'[s] = [g \in Guest |-> IF guests[s][g] = "billed" THEN "active" ELSE guests[s][g]]
      /\ slips'[s] = [status |-> "open", count |-> Cardinality(ActiveGuests(guests'[s]))]
  BY DEF Reopen, Recount, TypeOK
<1>2. \A g \in Guest : guests[s][g] # "active"
  BY DEF SeatsAt, IsOpen, ActiveGuests
<1> QED
  BY <1>1, <1>2 DEF SeatsAt, SeatsKept, IsOpen

LEMMA AccountSeats ==
    ASSUME TypeOK, NEW s \in Slip, SeatsAt(s), Account(s)
    PROVE  SeatsAt(s)' /\ SeatsKept(s)
<1>1. ASSUME NEW quote \in Quote, IssueStatement(s, quote)
      PROVE  SeatsAt(s)' /\ SeatsKept(s)
  <2>1. /\ slips[s].status = "open" /\ slips'[s] = [status |-> "checkout_ready", count |-> 0]
        /\ guests'[s] = [g \in Guest |-> IF guests[s][g] = "active" THEN "billed" ELSE guests[s][g]]
    BY <1>1 DEF IssueStatement, IsOpen, TypeOK
  <2>2. ActiveGuests(guests'[s]) = {}
    BY <2>1 DEF ActiveGuests
  <2>3. Cardinality(ActiveGuests(guests'[s])) = 0
    BY <2>2, FS_EmptySet
  <2> QED
    BY <2>1, <2>2, <2>3 DEF SeatsAt, SeatsKept, IsOpen
<1>2. CASE ReleaseStatement(s)
  BY <1>2, ReopenSeats DEF ReleaseStatement
<1>3. CASE CancelCheckout(s)
  BY <1>3, ReopenSeats DEF CancelCheckout
<1>4. ASSUME NEW cash \in Tender, NEW card \in Tender, ConfirmCheckout(s, cash, card)
      PROVE  SeatsAt(s)' /\ SeatsKept(s)
  <2>1. /\ slips[s].status = "checkout_ready" /\ guests' = guests
        /\ slips'[s] = [status |-> "checked_out", count |-> 0]
    BY <1>4 DEF ConfirmCheckout, TypeOK
  <2>2. ActiveGuests(guests'[s]) = {}
    BY <2>1 DEF SeatsAt, IsOpen
  <2>3. Cardinality(ActiveGuests(guests'[s])) = 0
    BY <2>2, FS_EmptySet
  <2> QED
    BY <2>1, <2>2, <2>3 DEF SeatsAt, SeatsKept, IsOpen
<1>5. CASE SaveCastSales(s)
  BY <1>5, SeatsStay DEF SaveCastSales
<1> QED
  BY <1>1, <1>2, <1>3, <1>4, <1>5 DEF Account

(* The pricing lines and the order lines that stand for them. *)
LEMMA AutomaticKept ==
    ASSUME TypeOK, NEW s \in Slip, LedgerAt(s), AutomaticAt(s), Edit(s) \/ Account(s)
    PROVE  AutomaticAt(s)'
<1>1. CASE Edit(s)
  <2>1. pricing[s] = {} /\ Automatic(lines[s]) = {} /\ pricing'[s] = pricing[s]
        /\ Automatic(lines'[s]) \subseteq Automatic(lines[s])
    BY <1>1, EditFrame DEF EditLeaves, LedgerAt, DocumentsAt
  <2> QED
    BY <2>1 DEF AutomaticAt
<1>2. ASSUME NEW quote \in Quote, IssueStatement(s, quote)
      PROVE  AutomaticAt(s)'
  <2> DEFINE priced == IF quote = 0 THEN {} ELSE {[no |-> no[s], amount |-> quote]}
             line(p) == [no |-> p.no, src |-> "automatic_pricing", cast |-> NoCast, amount |-> p.amount]
  <2>1. lines'[s] = Entered(lines[s]) \cup {line(p) : p \in priced} /\ pricing'[s] = priced
    BY <1>2 DEF IssueStatement, TypeOK
  <2>2. \A p : line(p).src = "automatic_pricing" /\ line(p).no = p.no /\ line(p).amount = p.amount
    OBVIOUS
  <2>3. \A p \in priced : [no |-> p.no, amount |-> p.amount] = p
    OBVIOUS
  <2> HIDE DEF line, priced
  <2>4. Automatic(lines'[s]) = {line(p) : p \in priced}
    BY <2>1, <2>2 DEF Automatic, Entered
  <2>5. {[no |-> l.no, amount |-> l.amount] : l \in {line(p) : p \in priced}} = priced
    BY <2>2, <2>3
  <2> QED
    BY <2>1, <2>4, <2>5 DEF AutomaticAt
<1>3. CASE Reopen(s)
  BY <1>3 DEF Reopen, AutomaticAt, Automatic, Entered, TypeOK
<1>4. CASE lines' = lines /\ pricing' = pricing
  BY <1>4 DEF AutomaticAt, Automatic
<1> QED
  BY <1>1, <1>2, <1>3, <1>4 DEF Account, ReleaseStatement, CancelCheckout, ConfirmCheckout, SaveCastSales, rows

(* Fee lines and the karaoke line are entered; only editing changes them. *)
LEMMA EnteredKept ==
    ASSUME NEW s \in Slip, FeesAt(s), KaraokeAt(s), casts'[s] = casts[s],
           Fees(lines'[s]) = Fees(lines[s]), Karaoke(lines'[s]) \subseteq Karaoke(lines[s])
    PROVE  FeesAt(s)' /\ KaraokeAt(s)'
BY DEF FeesAt, KaraokeAt, Fees, Karaoke

LEMMA EditLines ==
    ASSUME TypeOK, NEW s \in Slip, FeesAt(s), KaraokeAt(s), Edit(s)
    PROVE  FeesAt(s)' /\ KaraokeAt(s)'
<1> DEFINE fee(c, amount) == [no |-> no[s], src |-> "nomination_fee", cast |-> c, amount |-> amount]
           other(k, src, amount) == [no |-> k, src |-> src, cast |-> NoCast, amount |-> amount]
<1>1. ASSUME NEW seated \in SUBSET Guest, NEW nominated \in SUBSET Cast, NEW amount \in Price,
             CreateSlip(s, seated, nominated, amount)
      PROVE  FeesAt(s)' /\ KaraokeAt(s)'
  <2>1. /\ lines'[s] = {fee(c, amount) : c \in nominated}
        /\ casts'[s] = {[cast |-> c, no |-> no[s]] : c \in nominated}
    BY <1>1 DEF CreateSlip, TypeOK
  <2>2. \A c : fee(c, amount).src = "nomination_fee" /\ fee(c, amount).cast = c /\ fee(c, amount).no = no[s]
    OBVIOUS
  <2> HIDE DEF fee
  <2>3. Fees(lines'[s]) = lines'[s] /\ Karaoke(lines'[s]) = {}
    BY <2>1, <2>2 DEF Fees, Karaoke
  <2>4. {[cast |-> l.cast, no |-> l.no] : l \in lines'[s]} = casts'[s]
    BY <2>1, <2>2
  <2> QED
    BY <2>3, <2>4 DEF FeesAt, KaraokeAt
<1>2. ASSUME NEW c \in Cast, NEW dup \in BOOLEAN, NEW amount \in Price, AddNomination(s, c, dup, amount)
      PROVE  FeesAt(s)' /\ KaraokeAt(s)'
  <2>1. /\ lines'[s] = lines[s] \cup {fee(c, amount)}
        /\ casts'[s] = casts[s] \cup {[cast |-> c, no |-> no[s]]}
    BY <1>2 DEF AddNomination, TypeOK
  <2>2. fee(c, amount).src = "nomination_fee" /\ fee(c, amount).cast = c /\ fee(c, amount).no = no[s]
    OBVIOUS
  <2> HIDE DEF fee
  <2>3. Fees(lines'[s]) = Fees(lines[s]) \cup {fee(c, amount)} /\ Karaoke(lines'[s]) = Karaoke(lines[s])
    BY <2>1, <2>2 DEF Fees, Karaoke
  <2> QED
    BY <2>1, <2>2, <2>3 DEF FeesAt, KaraokeAt
<1>3. ASSUME NEW n \in casts[s], CancelNomination(s, n)
      PROVE  FeesAt(s)' /\ KaraokeAt(s)'
  <2>1. /\ lines'[s] = {l \in lines[s] : ~ (l.src = "nomination_fee" /\ l.no = n.no /\ l.cast = n.cast)}
        /\ casts'[s] = casts[s] \ {n} /\ n \in Nomination
    BY <1>3 DEF CancelNomination, TypeOK
  <2>2. /\ Fees(lines'[s]) = {l \in Fees(lines[s]) : ~ (l.no = n.no /\ l.cast = n.cast)}
        /\ Karaoke(lines'[s]) = Karaoke(lines[s])
    BY <2>1 DEF Fees, Karaoke
  <2>3. \A l : [cast |-> l.cast, no |-> l.no] = n <=> l.no = n.no /\ l.cast = n.cast
    BY <2>1 DEF Nomination
  <2>4. {[cast |-> l.cast, no |-> l.no] : l \in Fees(lines'[s])}
          = {[cast |-> l.cast, no |-> l.no] : l \in Fees(lines[s])} \ {n}
    BY <2>2, <2>3
  <2> QED
    BY <2>1, <2>2, <2>4 DEF FeesAt, KaraokeAt
<1>4. ASSUME NEW amount \in Price, AddOrder(s, amount)
      PROVE  FeesAt(s)' /\ KaraokeAt(s)'
  <2>1. lines'[s] = lines[s] \cup {other(no[s], "standard", amount)} /\ casts' = casts
    BY <1>4 DEF AddOrder, TypeOK
  <2>2. other(no[s], "standard", amount).src = "standard"
    OBVIOUS
  <2> HIDE DEF other
  <2>3. Fees(lines'[s]) = Fees(lines[s]) /\ Karaoke(lines'[s]) = Karaoke(lines[s])
    BY <2>1, <2>2 DEF Fees, Karaoke
  <2> QED
    BY <2>1, <2>3, EnteredKept
<1>5. ASSUME NEW l \in lines[s], VoidOrder(s, l)
      PROVE  FeesAt(s)' /\ KaraokeAt(s)'
  <2>1. lines'[s] = lines[s] \ {l} /\ l.src = "standard" /\ casts' = casts
    BY <1>5 DEF VoidOrder, TypeOK
  <2>2. Fees(lines'[s]) = Fees(lines[s]) /\ Karaoke(lines'[s]) = Karaoke(lines[s])
    BY <2>1 DEF Fees, Karaoke
  <2> QED
    BY <2>1, <2>2, EnteredKept
<1>6. ASSUME NEW amount \in Price \cup {0}, SaveKaraoke(s, amount)
      PROVE  FeesAt(s)' /\ KaraokeAt(s)'
  <2>1. /\ casts' = casts
        /\ \/ lines'[s] = lines[s] \ Karaoke(lines[s])
           \/ \E k : lines'[s] = (lines[s] \ Karaoke(lines[s])) \cup {other(k, "karaoke", amount)}
    BY <1>6 DEF SaveKaraoke, TypeOK, Karaoke
  <2>2. \A k : other(k, "karaoke", amount).src = "karaoke"
    OBVIOUS
  <2> HIDE DEF other
  <2>3. Fees(lines'[s]) = Fees(lines[s])
    BY <2>1, <2>2 DEF Fees, Karaoke
  <2>4. \A k, l \in Karaoke(lines'[s]) : k = l
    BY <2>1, <2>2 DEF Karaoke
  <2> QED
    BY <2>1, <2>3, <2>4 DEF FeesAt, KaraokeAt
<1>7. CASE lines' = lines /\ casts' = casts
  BY <1>7, EnteredKept
<1> QED
  BY <1>1, <1>2, <1>3, <1>4, <1>5, <1>6, <1>7 DEF Edit, AddCustomer, LeaveCustomer, AddAdjustment,
     VoidAdjustment, rows

LEMMA AccountLines ==
    ASSUME TypeOK, NEW s \in Slip, FeesAt(s), KaraokeAt(s), Account(s)
    PROVE  FeesAt(s)' /\ KaraokeAt(s)'
<1>1. Entered(lines'[s]) = Entered(lines[s]) /\ casts'[s] = casts[s]
  BY AccountFrame DEF AccountLeaves
<1>2. \A ls : Fees(ls) = Fees(Entered(ls)) /\ Karaoke(ls) = Karaoke(Entered(ls))
  BY DEF Fees, Karaoke, Entered, Automatic
<1>3. Fees(lines'[s]) = Fees(lines[s]) /\ Karaoke(lines'[s]) = Karaoke(lines[s])
  BY <1>1, <1>2
<1> QED
  BY <1>1, <1>3, EnteredKept

LEMMA RowsElsewhere ==
    ASSUME NEW s \in Slip, OthersStay(s), NEW x \in Slip \ {s}, RowsAt(x)
    PROVE  RowsAt(x)' /\ SeatsKept(x)
<1>1. slips'[x] = slips[x] /\ guests'[x] = guests[x] /\ lines'[x] = lines[x]
      /\ pricing'[x] = pricing[x] /\ casts'[x] = casts[x]
  BY DEF OthersStay
<1>2. SeatsAt(x)' /\ SeatsKept(x)
  BY <1>1, SeatsStay DEF RowsAt
<1>3. AutomaticAt(x)'
  BY <1>1 DEF RowsAt, AutomaticAt, Automatic
<1>4. FeesAt(x)' /\ KaraokeAt(x)'
  BY <1>1, EnteredKept DEF RowsAt
<1> QED
  BY <1>2, <1>3, <1>4 DEF RowsAt

LEMMA RowsNext == RowsInv /\ [Next]_vars => RowsInv' /\ \A s \in Slip : SeatsKept(s)
<1> SUFFICES ASSUME RowsInv, [Next]_vars PROVE RowsInv' /\ \A s \in Slip : SeatsKept(s)
  OBVIOUS
<1>1. LedgerInv'
  BY LedgerNext DEF RowsInv
<1>2. CASE UNCHANGED vars
  <2>1. UNCHANGED <<slips, guests, casts, lines, pricing>>
    BY <1>2 DEF vars, rows
  <2>2. ASSUME NEW x \in Slip PROVE RowsAt(x)' /\ SeatsKept(x)
    <3>1. SeatsAt(x)' /\ SeatsKept(x)
      BY <2>1, SeatsStay DEF RowsInv, RowsAt
    <3>2. AutomaticAt(x)'
      BY <2>1 DEF RowsInv, RowsAt, AutomaticAt, Automatic
    <3>3. FeesAt(x)' /\ KaraokeAt(x)'
      BY <2>1, EnteredKept DEF RowsInv, RowsAt
    <3> QED
      BY <3>1, <3>2, <3>3 DEF RowsAt
  <2> QED
    BY <1>1, <2>2 DEF RowsInv
<1>3. ASSUME NEW s \in Slip, Edit(s) \/ Account(s)
      PROVE  RowsInv' /\ \A x \in Slip : SeatsKept(x)
  <2>1. TypeOK /\ LedgerAt(s) /\ RowsAt(s)
    BY DEF RowsInv, LedgerInv
  <2>2. OthersStay(s)
    BY <1>3, <2>1, EditFrame, AccountFrame
  <2>3. SeatsAt(s)' /\ SeatsKept(s)
    BY <1>3, <2>1, EditSeats, AccountSeats DEF RowsAt
  <2>4. AutomaticAt(s)'
    BY <1>3, <2>1, AutomaticKept DEF RowsAt
  <2>5. FeesAt(s)' /\ KaraokeAt(s)'
    BY <1>3, <2>1, EditLines, AccountLines DEF RowsAt
  <2>6. RowsAt(s)'
    BY <2>3, <2>4, <2>5 DEF RowsAt
  <2>7. \A x \in Slip : RowsAt(x)' /\ SeatsKept(x)
    BY <2>2, <2>3, <2>6, RowsElsewhere DEF RowsInv
  <2> QED
    BY <1>1, <2>7 DEF RowsInv
<1> QED
  BY <1>2, <1>3 DEF Next

LEMMA RowsInitially == Init => RowsInv
<1> SUFFICES ASSUME Init PROVE RowsInv
  OBVIOUS
<1>1. LedgerInv
  BY LedgerInitially
<1>2. ASSUME NEW s \in Slip PROVE RowsAt(s)
  <2>1. /\ slips[s] = [status |-> "absent", count |-> 0] /\ guests[s] = [g \in Guest |-> "none"]
        /\ casts[s] = {} /\ lines[s] = {} /\ pricing[s] = {}
    BY DEF Init
  <2>2. ActiveGuests(guests[s]) = {}
    BY <2>1 DEF ActiveGuests
  <2>3. Cardinality(ActiveGuests(guests[s])) = 0
    BY <2>2, FS_EmptySet
  <2> QED
    BY <2>1, <2>2, <2>3 DEF RowsAt, SeatsAt, AutomaticAt, FeesAt, KaraokeAt, Fees, Karaoke, Automatic
<1> QED
  BY <1>1, <1>2 DEF RowsInv

(* The head count, the automatic charges, the nomination fees and the       *)
(* karaoke line always agree with the rows they stand for, and a release or *)
(* a cancellation seats again exactly whom the statement had sent home.     *)
THEOREM RowsCorrect == Spec => RowsAgree
<1>1. RowsInv => HeadCount /\ AutomaticChargedOnce /\ FeePerNomination /\ OneKaraokeLine
  BY DEF RowsInv, RowsAt, HeadCount, SeatsAt, AutomaticChargedOnce, AutomaticAt, FeePerNomination, FeesAt,
     Fees, OneKaraokeLine, KaraokeAt, Karaoke
<1>2. RowsInv /\ [Next]_vars => RowsInv'
  BY RowsNext
<1> DEFINE Kept == \A s \in Slip, g \in Guest :
          /\ guests[s][g] = "left" => guests'[s][g] = "left"
          /\ slips[s].status \in {"checkout_ready", "checked_out"} /\ slips'[s].status = "open" =>
                (guests'[s][g] = "active" <=> guests[s][g] = "billed")
<1>3. RowsInv /\ [Next]_vars => [Kept]_vars
  BY RowsNext DEF SeatsKept
<1> HIDE DEF Kept
<1>4. Spec => []RowsInv
  BY <1>2, RowsInitially, PTL DEF Spec
<1>5. Spec => [][Kept]_vars
  BY <1>3, <1>4, PTL DEF Spec
<1>6. Spec => LeftStaysLeft
  BY <1>5 DEF LeftStaysLeft, Kept
<1>7. Spec => [](HeadCount /\ AutomaticChargedOnce /\ FeePerNomination /\ OneKaraokeLine)
  BY <1>1, <1>4, PTL
<1> QED
  BY <1>6, <1>7, PTL DEF RowsAgree

-----------------------------------------------------------------------------
(* The procedures over the ledger (CheckoutRpc).                             *)


(* What is on its way, or kept to be sent again, was made with a proper     *)
(* operation id, slip and payments.                                          *)
SoundCommand(cmd) ==
    cmd.op \in 1..MaxOp /\ cmd.slip \in Slip /\ cmd.cash \in Tender /\ cmd.card \in Tender

CommandsInv ==
    /\ nextOp \in Nat /\ nextOp >= 1
    /\ \A call \in requests : SoundCommand(call.command)
    /\ pending = [t \in Terminal |-> pending[t]]
    /\ \A t \in Terminal : \A p \in pending[t] : SoundCommand(p.command)

LEMMA CommandsNext == CommandsInv /\ [RpcNext]_rpcVars => CommandsInv'
<1> SUFFICES ASSUME CommandsInv, [RpcNext]_rpcVars PROVE CommandsInv'
    OBVIOUS
<1> USE LedgerAssumption, RpcAssumption
<1>1. CASE UNCHANGED <<nextOp, requests, pending>>
    BY <1>1 DEF CommandsInv
<1>2. ASSUME NEW call \in requests, Serve(call)
      PROVE  CommandsInv'
    BY <1>2 DEF CommandsInv, Serve
<1>3. ASSUME NEW t \in Terminal, NEW action, NEW s \in Slip, NEW timely, NEW cash \in Tender, NEW card \in Tender,
             Begin(t, action, s, timely, cash, card)
      PROVE  CommandsInv'
  <2> DEFINE cmd == [op |-> nextOp, terminal |-> t, action |-> action, slip |-> s, rev |-> seen[t].rev,
                     timely |-> timely, cash |-> cash, card |-> card, basis |-> seen[t].work[s]]
  <2>1. /\ nextOp <= MaxOp /\ nextOp' = nextOp + 1
        /\ pending' = [pending EXCEPT ![t] = @ \cup {[command |-> cmd, tries |-> 1]}]
        /\ requests' = requests \cup {[command |-> cmd, try |-> 1]}
      BY <1>3 DEF Begin, Sends
  <2>2. SoundCommand(cmd)
      BY <2>1 DEF SoundCommand, CommandsInv
  <2> HIDE DEF cmd
  <2>3. \A x \in requests' : SoundCommand(x.command)
      BY <2>1, <2>2 DEF CommandsInv
  <2>4. pending' = [u \in Terminal |-> pending'[u]]
      BY <2>1 DEF CommandsInv
  <2>5. \A u \in Terminal : \A p \in pending'[u] : SoundCommand(p.command)
      BY <2>1, <2>2 DEF CommandsInv
  <2> QED BY <2>1, <2>3, <2>4, <2>5 DEF CommandsInv
<1>4. ASSUME NEW t \in Terminal, NEW p \in pending[t], Resend(t, p)
      PROVE  CommandsInv'
  <2> DEFINE again == [p EXCEPT !.tries = @ + 1]
             call == [command |-> p.command, try |-> p.tries + 1]
  <2>1. /\ nextOp' = nextOp
        /\ pending' = [pending EXCEPT ![t] = (@ \ {p}) \cup {again}]
        /\ requests' = requests \cup {call}
      BY <1>4 DEF Resend, Sends
  <2>2. SoundCommand(p.command)
      BY DEF CommandsInv
  <2>3. again.command = p.command /\ call.command = p.command
      OBVIOUS
  <2> HIDE DEF again, call
  <2>4. \A u \in Terminal : \A x \in pending'[u] : SoundCommand(x.command)
      BY <2>1, <2>2, <2>3 DEF CommandsInv
  <2>5. \A x \in requests' : SoundCommand(x.command)
      BY <2>1, <2>2, <2>3 DEF CommandsInv
  <2>6. pending' = [u \in Terminal |-> pending'[u]]
      BY <2>1 DEF CommandsInv
  <2> QED BY <2>1, <2>4, <2>5, <2>6 DEF CommandsInv
<1>5. ASSUME NEW t \in Terminal, Receive(t) \/ Deny(t)
      PROVE  CommandsInv'
  <2>1. /\ nextOp' = nextOp /\ requests' \subseteq requests
        /\ \E cmd : Forget(t, cmd)
      BY <1>5 DEF Receive, Deny
  <2> QED BY <2>1 DEF CommandsInv, Forget
<1>6. ASSUME NEW t \in Terminal, NEW s \in Slip, Ask(t, s)
      PROVE  CommandsInv'
    BY <1>3, <1>6 DEF Ask
<1> QED BY <1>1, <1>2, <1>4, <1>5, <1>6
    DEF RpcNext, Browse, OtherStaff, Poll, OpenModal, ReadStatement, ProceedPayment, CloseModal,
        GiveUp, Reload, PrintReceipt, rpcVars

LEMMA CommandsInvariant == RpcSpec => []CommandsInv
<1>1. RpcInit => CommandsInv
    BY DEF RpcInit, CommandsInv
<1>2. CommandsInv /\ [RpcNext]_rpcVars => CommandsInv'
    BY CommandsNext
<1> QED BY <1>1, <1>2, PTL DEF RpcSpec

(* However requests are lost, delayed and repeated, every change of the     *)
(* ledger is one step of SlipLedger.                                         *)
THEOREM RpcServesLedger == RpcSpec => ServesLedger
<1>1. RpcInit => Init
    BY DEF RpcInit
<1>2. CommandsInv /\ [RpcNext]_rpcVars => [Next]_vars
  <2> SUFFICES ASSUME CommandsInv, [RpcNext]_rpcVars PROVE [Next]_vars
      OBVIOUS
  <2>1. CASE UNCHANGED vars
      BY <2>1
  <2>2. CASE OtherStaff
      BY <2>2 DEF OtherStaff, Next
  <2>3. ASSUME NEW call \in requests, Serve(call)
        PROVE  [Next]_vars
    <3> DEFINE cmd == call.command
    <3>1. SoundCommand(cmd)
        BY DEF CommandsInv
    <3>2. CASE Replay(cmd) \/ Refuse(cmd)
        BY <3>2 DEF Replay, Refuse
    <3>3. CASE Apply(cmd)
      <4>1. Effect(cmd)
          BY <3>3 DEF Apply
      <4>2. Account(cmd.slip)
          BY <3>1, <4>1 DEF Effect, Account, SoundCommand
      <4> QED BY <3>1, <4>2 DEF Next, SoundCommand
    <3> QED BY <2>3, <3>2, <3>3 DEF Serve
  <2>4. ASSUME NEW t \in Terminal, Browse(t)
        PROVE  UNCHANGED vars
      BY <2>4 DEF Browse, Poll, OpenModal, ReadStatement, ProceedPayment, CloseModal, Receive, GiveUp,
          Deny, Reload, PrintReceipt, Resend, Ask, Begin, Sends
  <2> QED BY <2>1, <2>2, <2>3, <2>4 DEF RpcNext, rpcVars
<1> QED BY <1>1, <1>2, CommandsInvariant, PTL DEF RpcSpec, ServesLedger, Spec

(* An operation takes effect at most once, and exactly when its answer says *)
(* that it did: the answer is stored in the step that has the effect.        *)
THEOREM RpcAppliedOnce == RpcSpec => []AnsweredAsApplied
<1> DEFINE Confirmed(op) == \E r \in results[op] : r.status = "confirmed"
           OnceInv == /\ results = [op \in 1..MaxOp |-> results[op]]
                      /\ applied = [op \in 1..MaxOp |-> applied[op]]
                      /\ AnsweredAsApplied
<1>1. RpcInit => OnceInv
    BY DEF RpcInit, AnsweredAsApplied
<1>2. CommandsInv /\ OnceInv /\ [RpcNext]_rpcVars => OnceInv'
  <2> SUFFICES ASSUME CommandsInv, OnceInv, [RpcNext]_rpcVars PROVE OnceInv'
      OBVIOUS
  <2>1. CASE UNCHANGED <<results, applied>>
      BY <2>1 DEF AnsweredAsApplied
  <2>2. ASSUME NEW call \in requests, Serve(call)
        PROVE  OnceInv'
    <3> DEFINE cmd == call.command
    <3>1. cmd.op \in 1..MaxOp
        BY DEF CommandsInv, SoundCommand
    <3>2. CASE Replay(cmd)
        BY <3>2, <2>1 DEF Replay, server
    <3>3. CASE Refuse(cmd)
      <4>1. PICK r : results' = [results EXCEPT ![cmd.op] = {r}] /\ r.status \in {"conflict", "validation_error"}
        <5>1. Refusal(cmd) \in {"conflict", "validation_error"}
            BY <3>3 DEF Refuse, Refusal
        <5> DEFINE r == [command |-> cmd, status |-> Refusal(cmd), papers |-> {}, view |-> Snapshot]
        <5>2. results' = [results EXCEPT ![cmd.op] = {r}]
            BY <3>3 DEF Refuse, Remember
        <5>3. r.status = Refusal(cmd)
            OBVIOUS
        <5> HIDE DEF r
        <5> QED BY <5>1, <5>2, <5>3
      <4>2. results[cmd.op] = {} /\ applied' = applied
          BY <3>3 DEF Refuse
      <4>3. applied[cmd.op] = 0
          BY <3>1, <4>2 DEF AnsweredAsApplied
      <4> QED BY <3>1, <4>1, <4>2, <4>3 DEF AnsweredAsApplied
    <3>4. CASE Apply(cmd)
      <4>1. PICK r : results' = [results EXCEPT ![cmd.op] = {r}] /\ r.status = "confirmed"
        <5> DEFINE r == [command |-> cmd, status |-> "confirmed", papers |-> Papers(cmd)', view |-> Snapshot']
        <5>1. results' = [results EXCEPT ![cmd.op] = {r}]
            BY <3>4 DEF Apply, Remember
        <5>2. r.status = "confirmed"
            OBVIOUS
        <5> HIDE DEF r
        <5> QED BY <5>1, <5>2
      <4>2. results[cmd.op] = {} /\ applied' = [applied EXCEPT ![cmd.op] = @ + 1]
          BY <3>4 DEF Apply
      <4>3. applied[cmd.op] = 0
          BY <3>1, <4>2 DEF AnsweredAsApplied
      <4>4. \A op \in 1..MaxOp \ {cmd.op} : results'[op] = results[op] /\ applied'[op] = applied[op]
          BY <4>1, <4>2
      <4>5. results'[cmd.op] = {r} /\ applied'[cmd.op] = 1
          BY <3>1, <4>1, <4>2, <4>3
      <4> QED BY <3>1, <4>1, <4>2, <4>4, <4>5 DEF AnsweredAsApplied
    <3> QED BY <2>2, <3>2, <3>3, <3>4 DEF Serve
  <2>3. CASE OtherStaff
      BY <2>1, <2>3 DEF OtherStaff
  <2>4. ASSUME NEW t \in Terminal, Browse(t)
        PROVE  UNCHANGED <<results, applied>>
      BY <2>4 DEF Browse, Poll, OpenModal, ReadStatement, ProceedPayment, CloseModal, Receive, GiveUp,
          Deny, Reload, PrintReceipt, Resend, Ask, Begin, Sends, server
  <2> QED BY <2>1, <2>2, <2>3, <2>4 DEF RpcNext, rpcVars, server
<1>3. OnceInv => AnsweredAsApplied
    OBVIOUS
<1> QED BY <1>1, <1>2, <1>3, CommandsInvariant, PTL DEF RpcSpec

(* What was received is what the fixed statement asked for, once, also when *)
(* confirmations are lost and sent again.                                    *)
THEOREM RpcPaymentCorrect == RpcSpec => []PaidInFull
BY RpcServesLedger, PaymentCorrect, PTL DEF ServesLedger

-----------------------------------------------------------------------------
(* Type correctness.  The rows of the ledger are typed by TypeCorrect, so   *)
(* what the calls read from them is: snapshots, statements and receipts.    *)

LEMMA SnapshotTyped == TypeOK /\ revision \in Nat => Snapshot \in View
<1> SUFFICES ASSUME TypeOK, revision \in Nat PROVE Snapshot \in View
  OBVIOUS
<1>1. \A s \in Slip : WorkOf(s) \in [lines : SUBSET Line, casts : SUBSET Nomination, charges : SUBSET Charge]
  BY DEF TypeOK, WorkOf, Entered
<1> HIDE DEF WorkOf
<1> QED
  BY <1>1 DEF Snapshot, View, TypeOK

LEMMA SnapshotTypedNext == (TypeOK /\ revision \in Nat => Snapshot \in View)'
BY SnapshotTyped, PTL

LEMMA PapersTyped == TypeOK => \A cmd \in Command : Papers(cmd) \in SUBSET Receipt
<1> SUFFICES ASSUME TypeOK, NEW cmd \in Command PROVE Papers(cmd) \in SUBSET Receipt
  OBVIOUS
<1>1. bills[cmd.slip] \in SUBSET Bill
  BY DEF TypeOK, Command
<1> QED
  BY <1>1 DEF Papers, Receipt, Bill

LEMMA PapersTypedNext == (TypeOK => \A cmd \in Command : Papers(cmd) \in SUBSET Receipt)'
BY PapersTyped, PTL

LEMMA RememberTyped ==
    ASSUME results \in [1..MaxOp -> SUBSET Response], NEW cmd \in Command,
           NEW status \in {"confirmed", "conflict", "validation_error"},
           NEW papers \in SUBSET Receipt, NEW view \in View,
           Remember(cmd, status, papers, view)
    PROVE  results' \in [1..MaxOp -> SUBSET Response]
<1>1. cmd.op \in 1..MaxOp
  BY DEF Command
<1>2. [command |-> cmd, status |-> status, papers |-> papers, view |-> view] \in Response
  BY DEF Response
<1> QED
  BY <1>1, <1>2 DEF Remember

LEMMA ServeTyped ==
    ASSUME TypeOK, TypeOK', RpcTypeOK, NEW call \in requests, Serve(call)
    PROVE  RpcTypeOK'
<1> DEFINE cmd == call.command
<1>1. call \in Call /\ cmd \in Command
  BY DEF RpcTypeOK, Call
<1>2. /\ nextOp' = nextOp /\ seen' = seen /\ pending' = pending /\ modal' = modal /\ queue' = queue
      /\ receipts' = receipts /\ requests' = requests \ {call}
      /\ fetch' = [fetch EXCEPT ![cmd.terminal] =
                     {[f EXCEPT !.answered = f.answered \/ f.call = call] : f \in @}]
      /\ Replay(cmd) \/ Refuse(cmd) \/ Apply(cmd)
  BY DEF Serve, screen
<1>3. fetch' \in [Terminal -> SUBSET [call : Call, answered : BOOLEAN]]
  <2> DEFINE told == {[f EXCEPT !.answered = f.answered \/ f.call = call] : f \in fetch[cmd.terminal]}
  <2>1. cmd.terminal \in Terminal
    BY <1>1 DEF Command
  <2>2. \A f \in [call : Call, answered : BOOLEAN] :
           [f EXCEPT !.answered = f.answered \/ f.call = call] \in [call : Call, answered : BOOLEAN]
    OBVIOUS
  <2>3. told \in SUBSET [call : Call, answered : BOOLEAN]
    BY <2>1, <2>2 DEF RpcTypeOK
  <2>4. fetch' = [fetch EXCEPT ![cmd.terminal] = told]
    BY <1>2, <2>1 DEF RpcTypeOK
  <2> HIDE DEF told, cmd
  <2> QED
    BY <2>3, <2>4 DEF RpcTypeOK
<1> HIDE DEF cmd
<1>4. /\ revision' \in Nat
      /\ results' \in [1..MaxOp -> SUBSET Response]
      /\ applied' \in [1..MaxOp -> Nat]
  <2>1. CASE Replay(cmd)
    BY <2>1 DEF Replay, server, RpcTypeOK
  <2>2. CASE Refuse(cmd)
    <3>1. Refusal(cmd) \in {"conflict", "validation_error"}
      BY <2>2 DEF Refuse, Refusal
    <3>2. Snapshot \in View
      BY SnapshotTyped DEF RpcTypeOK
    <3>3. revision' = revision /\ applied' = applied /\ Remember(cmd, Refusal(cmd), {}, Snapshot)
      BY <2>2 DEF Refuse
    <3>4. results' \in [1..MaxOp -> SUBSET Response]
      <4>1. results \in [1..MaxOp -> SUBSET Response]
        BY DEF RpcTypeOK
      <4>2. {} \in SUBSET Receipt /\ Refusal(cmd) \in {"confirmed", "conflict", "validation_error"}
        BY <3>1
      <4> QED
        BY <1>1, <3>2, <3>3, <4>1, <4>2, RememberTyped
    <3> QED
      BY <3>3, <3>4 DEF RpcTypeOK
  <2>3. CASE Apply(cmd)
    <3>1. revision' \in Nat
      BY <2>3 DEF Apply, ChangesDay, RpcTypeOK
    <3>2. Snapshot' \in View
      BY <3>1, SnapshotTypedNext
    <3>3. Papers(cmd)' \in SUBSET Receipt
      BY <1>1, PapersTypedNext
    <3>4. Remember(cmd, "confirmed", Papers(cmd)', Snapshot')
          /\ applied' = [applied EXCEPT ![cmd.op] = @ + 1]
      BY <2>3 DEF Apply
    <3>5. results' \in [1..MaxOp -> SUBSET Response]
      BY <1>1, <3>2, <3>3, <3>4, RememberTyped DEF RpcTypeOK
    <3>6. cmd.op \in 1..MaxOp
      BY <1>1 DEF Command
    <3>7. applied' \in [1..MaxOp -> Nat]
      BY <3>4, <3>6 DEF RpcTypeOK
    <3> QED
      BY <3>1, <3>5, <3>7
  <2> QED
    BY <1>2, <2>1, <2>2, <2>3
<1> QED
  BY <1>2, <1>3, <1>4 DEF RpcTypeOK

LEMMA BeginTyped ==
    ASSUME RpcTypeOK, CommandsInv, NEW t \in Terminal, NEW action \in CheckoutAction, NEW s \in Slip,
           NEW timely \in BOOLEAN, NEW cash \in Tender, NEW card \in Tender,
           Begin(t, action, s, timely, cash, card)
    PROVE  RpcTypeOK'
<1> DEFINE cmd == [op |-> nextOp, terminal |-> t, action |-> action, slip |-> s, rev |-> seen[t].rev,
                   timely |-> timely, cash |-> cash, card |-> card, basis |-> seen[t].work[s]]
<1>1. /\ nextOp <= MaxOp /\ nextOp' = nextOp + 1
      /\ pending' = [pending EXCEPT ![t] = @ \cup {[command |-> cmd, tries |-> 1]}]
      /\ requests' = requests \cup {[command |-> cmd, try |-> 1]}
      /\ fetch' = [fetch EXCEPT ![t] = {[call |-> [command |-> cmd, try |-> 1], answered |-> FALSE]}]
      /\ revision' = revision /\ results' = results /\ applied' = applied
      /\ seen' = seen /\ queue' = queue /\ receipts' = receipts
      /\ modal' = modal \/ modal' = [modal EXCEPT ![t] = {[m EXCEPT !.entered = TRUE] : m \in @}]
  BY DEF Begin, Sends, server
<1>2. cmd \in Command
  <2>1. seen[t] \in View
    BY DEF RpcTypeOK
  <2>2. nextOp \in 1..MaxOp
    BY <1>1, RpcAssumption DEF CommandsInv
  <2> QED
    BY <2>1, <2>2 DEF View, Command
<1> HIDE DEF cmd
<1>3. 1 \in 1..MaxTry
  BY RpcAssumption
<1>4. [command |-> cmd, try |-> 1] \in Call
  BY <1>2, <1>3 DEF Call
<1>5. modal' \in [Terminal -> SUBSET [slip : Slip, status : SlipStatus, paying : BOOLEAN, entered : BOOLEAN]]
  <2>1. \A m \in [slip : Slip, status : SlipStatus, paying : BOOLEAN, entered : BOOLEAN] :
           [m EXCEPT !.entered = TRUE] \in [slip : Slip, status : SlipStatus, paying : BOOLEAN, entered : BOOLEAN]
    OBVIOUS
  <2> QED
    BY <1>1, <2>1 DEF RpcTypeOK
<1>6. pending' \in [Terminal -> SUBSET [command : Command, tries : Nat]]
  BY <1>1, <1>2 DEF RpcTypeOK
<1>7. fetch' \in [Terminal -> SUBSET [call : Call, answered : BOOLEAN]]
  BY <1>1, <1>4 DEF RpcTypeOK
<1> QED
  BY <1>1, <1>4, <1>5, <1>6, <1>7 DEF RpcTypeOK

LEMMA ResendTyped ==
    ASSUME RpcTypeOK, NEW t \in Terminal, NEW p \in pending[t], Resend(t, p)
    PROVE  RpcTypeOK'
<1> DEFINE again == [p EXCEPT !.tries = @ + 1]
           call == [command |-> p.command, try |-> p.tries + 1]
<1>1. /\ p.tries < MaxTry
      /\ pending' = [pending EXCEPT ![t] = (@ \ {p}) \cup {again}]
      /\ requests' = requests \cup {call}
      /\ fetch' = [fetch EXCEPT ![t] = {[call |-> call, answered |-> FALSE]}]
      /\ revision' = revision /\ results' = results /\ applied' = applied /\ nextOp' = nextOp
      /\ seen' = seen /\ queue' = queue /\ receipts' = receipts /\ modal' = modal
  BY DEF Resend, Sends, server
<1>2. p \in [command : Command, tries : Nat]
  BY DEF RpcTypeOK
<1>3. again \in [command : Command, tries : Nat]
  BY <1>2
<1>4. p.tries + 1 \in 1..MaxTry
  BY <1>1, <1>2, RpcAssumption
<1>5. call \in Call
  BY <1>2, <1>4 DEF Call
<1> HIDE DEF again, call
<1> QED
  BY <1>1, <1>3, <1>5 DEF RpcTypeOK

LEMMA ShowTyped ==
    ASSUME RpcTypeOK, NEW t \in Terminal, NEW cmd \in Command, NEW papers \in SUBSET Receipt,
           Show(t, cmd, papers)
    PROVE  /\ modal' \in [Terminal -> SUBSET [slip : Slip, status : SlipStatus, paying : BOOLEAN, entered : BOOLEAN]]
           /\ queue' \in [Terminal -> [Slip -> SUBSET Statement]]
           /\ receipts' \in [Terminal -> [Slip -> SUBSET Receipt]]
<1> DEFINE s == cmd.slip
           here == {m \in modal[t] : m.slip = s}
           Window == [slip : Slip, status : SlipStatus, paying : BOOLEAN, entered : BOOLEAN]
           printed == {r.statement : r \in papers}
<1>1. s \in Slip
  BY DEF Command
<1>2. printed \in SUBSET Statement
  BY DEF Receipt
<1>3. /\ modal \in [Terminal -> SUBSET Window]
      /\ queue \in [Terminal -> [Slip -> SUBSET Statement]]
      /\ receipts \in [Terminal -> [Slip -> SUBSET Receipt]]
  BY DEF RpcTypeOK
<1>4. here \in SUBSET Window /\ modal[t] \ here \in SUBSET Window
      /\ {[m EXCEPT !.status = "checkout_ready"] : m \in here} \in SUBSET Window
  <2>1. \A m \in Window : [m EXCEPT !.status = "checkout_ready"] \in Window
    BY DEF SlipStatus
  <2> QED
    BY <1>3, <2>1
<1>5. \/ modal' = modal
      \/ modal' = [modal EXCEPT ![t] = {[m EXCEPT !.status = "checkout_ready"] : m \in here}]
      \/ modal' = [modal EXCEPT ![t] = modal[t] \ here]
  BY <1>3 DEF Show, screen
<1>6. \/ queue' = queue
      \/ queue' = [queue EXCEPT ![t] = [queue[t] EXCEPT ![s] = printed]]
      \/ queue' = [queue EXCEPT ![t] = [queue[t] EXCEPT ![s] = {}]]
  BY <1>3 DEF Show, screen
<1>7. \/ receipts' = receipts
      \/ receipts' = [receipts EXCEPT ![t] = [receipts[t] EXCEPT ![s] = papers]]
      \/ receipts' = [receipts EXCEPT ![t] = [receipts[t] EXCEPT ![s] = {}]]
  BY <1>3 DEF Show, screen
<1> HIDE DEF s, here, Window, printed
<1>8. modal' \in [Terminal -> SUBSET Window]
  BY <1>3, <1>4, <1>5
<1>9. queue' \in [Terminal -> [Slip -> SUBSET Statement]]
  <2>1. \A q \in SUBSET Statement : [queue[t] EXCEPT ![s] = q] \in [Slip -> SUBSET Statement]
    BY <1>3
  <2> QED
    BY <1>2, <1>3, <1>6, <2>1
<1>10. receipts' \in [Terminal -> [Slip -> SUBSET Receipt]]
  <2>1. \A q \in SUBSET Receipt : [receipts[t] EXCEPT ![s] = q] \in [Slip -> SUBSET Receipt]
    BY <1>3
  <2> QED
    BY <1>3, <1>7, <2>1
<1> QED
  BY <1>8, <1>9, <1>10 DEF Window

LEMMA ForgetTyped ==
    ASSUME RpcTypeOK, NEW t \in Terminal, NEW cmd, Forget(t, cmd)
    PROVE  pending' \in [Terminal -> SUBSET [command : Command, tries : Nat]]
BY DEF Forget, RpcTypeOK

LEMMA ReceiveTyped ==
    ASSUME RpcTypeOK, NEW t \in Terminal, Receive(t)
    PROVE  RpcTypeOK'
<1>1. PICK f \in fetch[t] : \E r \in results[f.call.command.op] :
         /\ fetch' = [fetch EXCEPT ![t] = {}]
         /\ seen' = [seen EXCEPT ![t] = Newer(seen[t], r.view)]
         /\ Forget(t, r.command)
         /\ IF r.status = "confirmed" THEN Show(t, r.command, r.papers) ELSE UNCHANGED screen
         /\ revision' = revision /\ results' = results /\ applied' = applied
         /\ nextOp' = nextOp /\ requests' = requests
  BY DEF Receive, server, RpcTypeOK
<1>2. f.call.command.op \in 1..MaxOp
  BY DEF RpcTypeOK, Call, Command
<1>3. PICK r \in results[f.call.command.op] :
         /\ fetch' = [fetch EXCEPT ![t] = {}]
         /\ seen' = [seen EXCEPT ![t] = Newer(seen[t], r.view)]
         /\ Forget(t, r.command)
         /\ IF r.status = "confirmed" THEN Show(t, r.command, r.papers) ELSE UNCHANGED screen
         /\ revision' = revision /\ results' = results /\ applied' = applied
         /\ nextOp' = nextOp /\ requests' = requests
  BY <1>1
<1>4. r \in Response
  BY <1>2 DEF RpcTypeOK
<1>5. r.command \in Command /\ r.papers \in SUBSET Receipt /\ r.view \in View
  BY <1>4 DEF Response
<1>6. seen' \in [Terminal -> View]
  BY <1>3, <1>5 DEF Newer, RpcTypeOK
<1>7. pending' \in [Terminal -> SUBSET [command : Command, tries : Nat]]
  BY <1>3, ForgetTyped
<1>8. /\ modal' \in [Terminal -> SUBSET [slip : Slip, status : SlipStatus, paying : BOOLEAN, entered : BOOLEAN]]
      /\ queue' \in [Terminal -> [Slip -> SUBSET Statement]]
      /\ receipts' \in [Terminal -> [Slip -> SUBSET Receipt]]
  BY <1>3, <1>5, ShowTyped DEF screen, RpcTypeOK
<1>9. fetch' \in [Terminal -> SUBSET [call : Call, answered : BOOLEAN]]
  BY <1>3 DEF RpcTypeOK
<1> QED
  BY <1>3, <1>6, <1>7, <1>8, <1>9 DEF RpcTypeOK

LEMMA WindowTyped ==
    ASSUME TypeOK, RpcTypeOK, NEW t \in Terminal,
           ProceedPayment(t) \/ CloseModal(t) \/ \E s \in Slip : OpenModal(t, s)
    PROVE  RpcTypeOK'
<1> DEFINE Window == [slip : Slip, status : SlipStatus, paying : BOOLEAN, entered : BOOLEAN]
<1>1. /\ revision' = revision /\ results' = results /\ applied' = applied /\ nextOp' = nextOp
      /\ requests' = requests /\ seen' = seen /\ pending' = pending /\ fetch' = fetch
      /\ queue' = queue /\ receipts' = receipts
  BY DEF ProceedPayment, CloseModal, OpenModal, server
<1>2. modal \in [Terminal -> SUBSET Window]
  BY DEF RpcTypeOK
<1>3. \A m \in Window : [m EXCEPT !.paying = TRUE] \in Window
                     /\ [m EXCEPT !.paying = FALSE, !.entered = FALSE] \in Window
  OBVIOUS
<1>4. \A s \in Slip : [slip |-> s, status |-> seen[t].status[s], paying |-> FALSE, entered |-> FALSE] \in Window
  BY DEF RpcTypeOK, View
<1> HIDE DEF Window
<1>5. \E ws \in SUBSET Window : modal' = [modal EXCEPT ![t] = ws]
  <2>1. CASE ProceedPayment(t)
    <3>1. PICK m \in modal[t] : modal' = [modal EXCEPT ![t] = {[m EXCEPT !.paying = TRUE]}]
      BY <2>1 DEF ProceedPayment
    <3> QED
      BY <1>2, <1>3, <3>1
  <2>2. CASE CloseModal(t)
    <3>1. PICK m \in modal[t] :
             \/ modal' = [modal EXCEPT ![t] = {[m EXCEPT !.paying = FALSE, !.entered = FALSE]}]
             \/ modal' = [modal EXCEPT ![t] = {}]
      BY <2>2 DEF CloseModal
    <3> QED
      BY <1>2, <1>3, <3>1
  <2>3. ASSUME NEW s \in Slip, OpenModal(t, s)
        PROVE  \E ws \in SUBSET Window : modal' = [modal EXCEPT ![t] = ws]
    BY <1>4, <2>3 DEF OpenModal
  <2> QED
    BY <2>1, <2>2, <2>3
<1>6. modal' \in [Terminal -> SUBSET Window]
  BY <1>2, <1>5
<1> QED
  BY <1>1, <1>6 DEF RpcTypeOK, Window

LEMMA PaperTyped ==
    ASSUME TypeOK, RpcTypeOK, NEW t \in Terminal,
           ReadStatement(t) \/ \E s \in Slip : PrintReceipt(t, s)
    PROVE  RpcTypeOK'
<1>1. CASE ReadStatement(t)
  <2>1. PICK m \in modal[t] : \E b \in bills[m.slip] :
           queue' = [queue EXCEPT ![t] = [@ EXCEPT ![m.slip] = {b.statement}]]
    BY <1>1 DEF ReadStatement
  <2>2. m.slip \in Slip
    BY DEF RpcTypeOK
  <2>3. PICK b \in bills[m.slip] : queue' = [queue EXCEPT ![t] = [@ EXCEPT ![m.slip] = {b.statement}]]
    BY <2>1
  <2>4. b \in Bill
    BY <2>2 DEF TypeOK
  <2>5. b.statement \in Statement
    BY <2>4 DEF Bill
  <2> DEFINE st == b.statement
  <2>6. queue' = [queue EXCEPT ![t] = [queue[t] EXCEPT ![m.slip] = {st}]]
    BY <2>3 DEF RpcTypeOK
  <2> HIDE DEF st
  <2>7. [queue[t] EXCEPT ![m.slip] = {st}] \in [Slip -> SUBSET Statement]
    BY <2>5 DEF RpcTypeOK, st
  <2>8. queue' \in [Terminal -> [Slip -> SUBSET Statement]]
    BY <2>6, <2>7 DEF RpcTypeOK
  <2> QED
    BY <1>1, <2>8 DEF ReadStatement, RpcTypeOK, server
<1>2. ASSUME NEW s \in Slip, PrintReceipt(t, s)
      PROVE  RpcTypeOK'
  <2>1. PICK c \in checkouts[s] :
           receipts' = [receipts EXCEPT ![t] = [@ EXCEPT ![s] = {[checkout |-> c.id, statement |-> c.statement]}]]
    BY <1>2 DEF PrintReceipt
  <2>2. [checkout |-> c.id, statement |-> c.statement] \in Receipt
    BY DEF TypeOK, Checkout, Receipt
  <2>3. PICK r \in Receipt : receipts' = [receipts EXCEPT ![t] = [receipts[t] EXCEPT ![s] = {r}]]
    BY <2>1, <2>2 DEF RpcTypeOK
  <2>4. [receipts[t] EXCEPT ![s] = {r}] \in [Slip -> SUBSET Receipt]
    BY DEF RpcTypeOK
  <2>5. receipts' \in [Terminal -> [Slip -> SUBSET Receipt]]
    BY <2>3, <2>4 DEF RpcTypeOK
  <2> QED
    BY <1>2, <2>5 DEF PrintReceipt, RpcTypeOK, server
<1> QED
  BY <1>1, <1>2

LEMMA RpcTypeNext == TypeOK /\ TypeOK' /\ CommandsInv /\ RpcTypeOK /\ [RpcNext]_rpcVars => RpcTypeOK'
<1> SUFFICES ASSUME TypeOK, TypeOK', CommandsInv, RpcTypeOK, [RpcNext]_rpcVars PROVE RpcTypeOK'
  OBVIOUS
<1>1. CASE UNCHANGED rpcVars
  BY <1>1 DEF RpcTypeOK, rpcVars, server, screen
<1>2. CASE OtherStaff
  BY <1>2 DEF OtherStaff, ChangesDay, RpcTypeOK, screen
<1>3. ASSUME NEW call \in requests, Serve(call)
      PROVE  RpcTypeOK'
  BY <1>3, ServeTyped
<1>4. ASSUME NEW t \in Terminal, Browse(t)
      PROVE  RpcTypeOK'
  <2>1. CASE Poll(t) \/ Reload(t)
    <3>1. Snapshot \in View
      BY SnapshotTyped DEF RpcTypeOK
    <3> QED
      BY <2>1, <3>1 DEF Poll, Reload, RpcTypeOK, server, screen
  <2>2. CASE GiveUp(t)
    BY <2>2 DEF GiveUp, RpcTypeOK, server, screen
  <2>3. CASE Deny(t)
    <3>1. \E cmd : Forget(t, cmd)
      BY <2>3 DEF Deny
    <3>2. pending' \in [Terminal -> SUBSET [command : Command, tries : Nat]]
      BY <3>1, ForgetTyped
    <3> QED
      BY <2>3, <3>2 DEF Deny, RpcTypeOK, server, screen
  <2>4. CASE \E s \in Slip : Ask(t, s)
    <3>1. 0 \in Tender /\ TRUE \in BOOLEAN
          /\ "issue" \in CheckoutAction /\ "release" \in CheckoutAction
          /\ "confirm" \in CheckoutAction /\ "cancel" \in CheckoutAction
      BY LedgerAssumption DEF CheckoutAction
    <3> QED
      BY <2>4, <3>1, BeginTyped DEF Ask
  <2>5. CASE \E p \in pending[t] : Resend(t, p)
    BY <2>5, ResendTyped
  <2>6. CASE Receive(t)
    BY <2>6, ReceiveTyped
  <2>7. CASE ProceedPayment(t) \/ CloseModal(t) \/ \E s \in Slip : OpenModal(t, s)
    BY <2>7, WindowTyped
  <2>8. CASE ReadStatement(t) \/ \E s \in Slip : PrintReceipt(t, s)
    BY <2>8, PaperTyped
  <2> QED
    BY <1>4, <2>1, <2>2, <2>3, <2>4, <2>5, <2>6, <2>7, <2>8 DEF Browse
<1> QED
  BY <1>1, <1>2, <1>3, <1>4 DEF RpcNext

(* Everything the terminals and the server keep has its type: snapshots,    *)
(* commands, answers, statements and receipts, in memory and in storage.    *)
THEOREM RpcTypeCorrect == RpcSpec => []RpcTypeOK
<1>1. RpcInit => RpcTypeOK
  <2> SUFFICES ASSUME RpcInit PROVE RpcTypeOK
    OBVIOUS
  <2>1. TypeOK /\ revision = 0
    BY TypeInit DEF RpcInit
  <2>2. Snapshot \in View
    BY <2>1, SnapshotTyped
  <2> QED
    BY <2>1, <2>2 DEF RpcInit, RpcTypeOK
<1>2. TypeOK /\ TypeOK' /\ CommandsInv /\ RpcTypeOK /\ [RpcNext]_rpcVars => RpcTypeOK'
  BY RpcTypeNext
<1>3. RpcSpec => []TypeOK
  BY RpcServesLedger, TypeCorrect, PTL DEF ServesLedger
<1> QED
  BY <1>1, <1>2, <1>3, CommandsInvariant, PTL DEF RpcSpec

-----------------------------------------------------------------------------
(* Views, commands and winners.  A revision is given out once: every        *)
(* snapshot anybody holds was taken at its revision, and a change of the    *)
(* day adds only a snapshot with a revision that is new.  A command carries *)
(* the revision of the snapshot it was made on, so as long as that revision *)
(* is the current one, its slip is what the terminal showed.                *)

(* Every snapshot of the day that somebody holds: the one the server would  *)
(* give now, those on the screens and those in the answers it has kept.     *)
Views ==
    {Snapshot} \cup {seen[t] : t \in Terminal}
        \cup UNION {{r.view : r \in results[op]} : op \in 1..MaxOp}

ViewsAgree ==
    \A v \in Views : v.rev <= revision /\ \A w \in Views : v.rev = w.rev => v = w

(* What may still reach the server. *)
Commands ==
    {call.command : call \in requests}
        \cup UNION {{p.command : p \in pending[t]} : t \in Terminal}

CommandAt(cmd) ==
    cmd.rev <= revision /\ \A v \in Views : v.rev = cmd.rev => v.work[cmd.slip] = cmd.basis

CommandsCurrent == \A cmd \in Commands : CommandAt(cmd)

(* A command that took effect was made on a revision that has passed. *)
Winners ==
    /\ \A op \in 1..MaxOp : \A r \in results[op] : r.status = "confirmed" => r.command.rev < revision
    /\ OneWinnerPerRevision
    /\ NothingFromOldScreen

ViewsInv == ViewsAgree /\ CommandsCurrent /\ Winners

(* What a step of the day does to the snapshots: none is made up, and the   *)
(* day itself stays or moves to a revision nobody has seen.                 *)
DayMoves ==
    /\ Views' \subseteq Views \cup {Snapshot'}
    /\ \/ revision' = revision /\ Snapshot' = Snapshot
       \/ revision' = revision + 1

LEMMA ViewsTyped == TypeOK /\ RpcTypeOK => Views \subseteq View /\ Snapshot \in Views
<1> SUFFICES ASSUME TypeOK, RpcTypeOK PROVE Views \subseteq View /\ Snapshot \in Views
  OBVIOUS
<1>1. Snapshot \in View
  BY SnapshotTyped DEF RpcTypeOK
<1>2. \A op \in 1..MaxOp : \A r \in results[op] : r.view \in View
  BY DEF RpcTypeOK, Response
<1>3. \A t \in Terminal : seen[t] \in View
  BY DEF RpcTypeOK
<1> QED
  BY <1>1, <1>2, <1>3 DEF Views

LEMMA RevisionOfSnapshot == Snapshot.rev = revision
BY DEF Snapshot

LEMMA RevisionOfSnapshotNext == (Snapshot.rev = revision)'
BY RevisionOfSnapshot, PTL

LEMMA ViewsStayAgreed ==
    ASSUME TypeOK, RpcTypeOK, ViewsAgree, DayMoves
    PROVE  ViewsAgree'
<1>1. \A v \in Views : v.rev \in Nat
  BY ViewsTyped DEF View
<1>2. revision \in Nat /\ Snapshot'.rev = revision' /\ Snapshot \in Views
  BY RevisionOfSnapshotNext, ViewsTyped DEF RpcTypeOK
<1>3. \A v \in Views : v.rev <= revision /\ \A w \in Views : v.rev = w.rev => v = w
  BY DEF ViewsAgree
<1>4. CASE revision' = revision /\ Snapshot' = Snapshot
  BY <1>2, <1>3, <1>4 DEF DayMoves, ViewsAgree
<1>5. CASE revision' = revision + 1
  <2>1. \A v \in Views' : v = Snapshot' \/ v \in Views
    BY DEF DayMoves
  <2>2. \A v \in Views' : v.rev <= revision'
    BY <1>1, <1>2, <1>3, <1>5, <2>1
  <2>3. \A v, w \in Views' : v.rev = w.rev => v = w
    BY <1>1, <1>2, <1>3, <1>5, <2>1
  <2> QED
    BY <2>2, <2>3 DEF ViewsAgree
<1> QED
  BY <1>4, <1>5 DEF DayMoves

LEMMA CommandStaysCurrent ==
    ASSUME TypeOK, RpcTypeOK, DayMoves, NEW cmd \in Command, CommandAt(cmd)
    PROVE  CommandAt(cmd)'
<1>1. revision \in Nat /\ Snapshot'.rev = revision' /\ Snapshot \in Views /\ cmd.rev \in Nat
  BY RevisionOfSnapshotNext, ViewsTyped DEF RpcTypeOK, Command
<1>2. cmd.rev <= revision /\ \A v \in Views : v.rev = cmd.rev => v.work[cmd.slip] = cmd.basis
  BY DEF CommandAt
<1>3. cmd.rev <= revision'
  BY <1>1, <1>2 DEF DayMoves
<1>4. \A v \in Views' : v.rev = cmd.rev => v.work[cmd.slip] = cmd.basis
  BY <1>1, <1>2 DEF DayMoves
<1> QED
  BY <1>3, <1>4 DEF CommandAt

LEMMA CommandsTyped == RpcTypeOK => Commands \subseteq Command
BY DEF RpcTypeOK, Commands, Call

LEMMA CommandsStayCurrent ==
    ASSUME TypeOK, RpcTypeOK, DayMoves, CommandsCurrent,
           \A cmd \in Commands' : cmd \in Commands \/ (cmd \in Command /\ CommandAt(cmd))
    PROVE  CommandsCurrent'
<1>1. \A cmd \in Commands' : cmd \in Command /\ CommandAt(cmd)
  BY CommandsTyped DEF CommandsCurrent
<1>2. \A cmd \in Commands' : CommandAt(cmd)'
  BY <1>1, CommandStaysCurrent
<1> QED
  BY <1>2 DEF CommandsCurrent

LEMMA WinnersStand ==
    ASSUME RpcTypeOK, Winners, DayMoves, results' = results
    PROVE  Winners'
<1>1. \A op \in 1..MaxOp : \A r \in results[op] : r.command.rev \in Nat
  BY DEF RpcTypeOK, Response, Command
<1>2. revision \in Nat /\ (revision' = revision \/ revision' = revision + 1)
  BY DEF RpcTypeOK, DayMoves
<1>3. \A op \in 1..MaxOp : \A r \in results[op] : r.status = "confirmed" => r.command.rev < revision'
  BY <1>1, <1>2 DEF Winners
<1> QED
  BY <1>3 DEF Winners, OneWinnerPerRevision, NothingFromOldScreen

(* Steps that change no command but by forgetting it, and take no effect:   *)
(* the screens show a snapshot that was there.                              *)
LEMMA QuietStep ==
    ASSUME TypeOK, RpcTypeOK, ViewsInv, DayMoves, results' = results, Commands' \subseteq Commands
    PROVE  ViewsInv'
BY ViewsStayAgreed, CommandsStayCurrent, WinnersStand DEF ViewsInv

LEMMA SnapshotStays ==
    ASSUME UNCHANGED vars, revision' = revision
    PROVE  Snapshot' = Snapshot
BY DEF Snapshot, WorkOf, Entered, Automatic, vars, rows

LEMMA ViewsFrom ==
    ASSUME \A t \in Terminal : seen'[t] \in Views,
           \A op \in 1..MaxOp : \A r \in results'[op] :
              r \in results[op] \/ r.view \in {Snapshot, Snapshot'}
    PROVE  Views' \subseteq Views \cup {Snapshot'}
BY DEF Views

LEMMA SnapshotWork == \A s \in Slip : Snapshot.work[s] = WorkOf(s)
BY DEF Snapshot

LEMMA SnapshotWorkNext == (\A s \in Slip : Snapshot.work[s] = WorkOf(s))'
BY SnapshotWork, PTL

LEMMA EffectAccounts ==
    ASSUME NEW cmd, SoundCommand(cmd), Effect(cmd)
    PROVE  Account(cmd.slip)
BY DEF Effect, Account, SoundCommand

(* An operation takes effect on the slip its terminal had seen, and leaves  *)
(* what the staff entered there as it was.                                  *)
LEMMA EffectMeetsBasis ==
    ASSUME TypeOK, RpcTypeOK, CommandsInv, NEW cmd \in Command, SoundCommand(cmd), CommandAt(cmd), Apply(cmd)
    PROVE  Snapshot'.work[cmd.slip] = cmd.basis /\ cmd.rev = revision
<1>1. cmd.rev = revision /\ Effect(cmd) /\ cmd.slip \in Slip
  BY DEF Apply, Refusal, SoundCommand
<1>2. Snapshot.work[cmd.slip] = cmd.basis
  BY <1>1, ViewsTyped, RevisionOfSnapshot DEF CommandAt
<1>3. AccountLeaves(cmd.slip)
  BY <1>1, EffectAccounts, AccountFrame
<1>4. WorkOf(cmd.slip)' = WorkOf(cmd.slip)
  BY <1>3 DEF AccountLeaves, WorkOf
<1>5. Snapshot.work[cmd.slip] = WorkOf(cmd.slip) /\ Snapshot'.work[cmd.slip] = WorkOf(cmd.slip)'
  BY <1>1, SnapshotWork, SnapshotWorkNext
<1> QED
  BY <1>1, <1>2, <1>4, <1>5

LEMMA ServeKeepsViews ==
    ASSUME TypeOK, RpcTypeOK, CommandsInv, ViewsInv, NEW call \in requests, Serve(call)
    PROVE  ViewsInv'
<1> DEFINE cmd == call.command
<1>1. cmd \in Commands /\ cmd \in Command /\ SoundCommand(cmd) /\ CommandAt(cmd)
  BY CommandsTyped DEF Commands, CommandsInv, ViewsInv, CommandsCurrent
<1>2. Commands' \subseteq Commands
  BY DEF Commands, Serve
<1>3. seen' = seen /\ \A t \in Terminal : seen[t] \in Views
  BY DEF Serve, Views
<1>4. Replay(cmd) \/ Refuse(cmd) \/ Apply(cmd)
  BY DEF Serve
<1> HIDE DEF cmd
<1>5. cmd.op \in 1..MaxOp
  BY <1>1 DEF SoundCommand
<1>6. CASE Replay(cmd)
  <2>1. Snapshot' = Snapshot /\ revision' = revision /\ results' = results
    BY <1>6, SnapshotStays DEF Replay, server
  <2>2. DayMoves
    BY <1>3, <2>1, ViewsFrom DEF DayMoves
  <2> QED
    BY <1>2, <2>1, <2>2, QuietStep
<1>7. CASE Refuse(cmd)
  <2> DEFINE answer == [command |-> cmd, status |-> Refusal(cmd), papers |-> {}, view |-> Snapshot]
  <2>1. Snapshot' = Snapshot /\ revision' = revision /\ results' = [results EXCEPT ![cmd.op] = {answer}]
    BY <1>7, SnapshotStays DEF Refuse, Remember
  <2>2. answer.view = Snapshot /\ answer.status # "confirmed"
    BY <1>7 DEF Refuse, Refusal
  <2> HIDE DEF answer
  <2>3. \A op \in 1..MaxOp : \A r \in results'[op] : r \in results[op] \/ r = answer
    BY <1>5, <2>1 DEF RpcTypeOK
  <2>4. DayMoves
    BY <1>3, <2>1, <2>2, <2>3, ViewsFrom DEF DayMoves
  <2>5. Winners'
    BY <2>1, <2>2, <2>3 DEF ViewsInv, Winners, OneWinnerPerRevision, NothingFromOldScreen
  <2> QED
    BY <1>2, <2>4, <2>5, ViewsStayAgreed, CommandsStayCurrent DEF ViewsInv
<1>8. CASE Apply(cmd)
  <2> DEFINE answer == [command |-> cmd, status |-> "confirmed", papers |-> Papers(cmd)', view |-> Snapshot']
  <2>1. revision' = revision + 1 /\ results' = [results EXCEPT ![cmd.op] = {answer}]
    BY <1>8 DEF Apply, Remember, ChangesDay
  <2>2. answer.view = Snapshot' /\ answer.command = cmd
    OBVIOUS
  <2>3. Snapshot'.work[cmd.slip] = cmd.basis /\ cmd.rev = revision
    BY <1>1, <1>8, EffectMeetsBasis
  <2> HIDE DEF answer
  <2>4. \A op \in 1..MaxOp : \A r \in results'[op] : r \in results[op] \/ (r = answer /\ op = cmd.op)
    BY <1>5, <2>1 DEF RpcTypeOK
  <2>5. DayMoves
    BY <1>3, <2>1, <2>2, <2>4, ViewsFrom DEF DayMoves
  <2>6. revision \in Nat /\ \A op \in 1..MaxOp : \A r \in results[op] : r.command.rev \in Nat
    BY DEF RpcTypeOK, Response, Command
  <2>7. Winners'
    <3>1. \A op \in 1..MaxOp : \A r \in results[op] : r.status = "confirmed" => r.command.rev < revision
      BY DEF ViewsInv, Winners
    <3>2. \A op \in 1..MaxOp : \A r \in results'[op] : r.status = "confirmed" => r.command.rev < revision'
      BY <2>1, <2>2, <2>3, <2>4, <2>6, <3>1
    <3>3. \A op \in 1..MaxOp : \A r \in results[op] : r.status = "confirmed" => r.command.rev # answer.command.rev
      BY <2>2, <2>3, <2>6, <3>1
    <3>4. OneWinnerPerRevision'
      BY <2>4, <3>3 DEF ViewsInv, Winners, OneWinnerPerRevision
    <3>5. NothingFromOldScreen'
      BY <2>2, <2>3, <2>4 DEF ViewsInv, Winners, NothingFromOldScreen
    <3> QED
      BY <3>2, <3>4, <3>5 DEF Winners
  <2> QED
    BY <1>2, <2>5, <2>7, ViewsStayAgreed, CommandsStayCurrent DEF ViewsInv
<1> QED
  BY <1>4, <1>6, <1>7, <1>8

LEMMA CommandsTypedNext == (RpcTypeOK => Commands \subseteq Command)'
BY CommandsTyped, PTL

LEMMA BeginKeepsViews ==
    ASSUME TypeOK, RpcTypeOK, RpcTypeOK', ViewsInv, NEW t \in Terminal, NEW action, NEW s \in Slip,
           NEW timely, NEW cash, NEW card, Begin(t, action, s, timely, cash, card)
    PROVE  ViewsInv'
<1> DEFINE cmd == [op |-> nextOp, terminal |-> t, action |-> action, slip |-> s, rev |-> seen[t].rev,
                   timely |-> timely, cash |-> cash, card |-> card, basis |-> seen[t].work[s]]
<1>1. /\ pending' = [pending EXCEPT ![t] = @ \cup {[command |-> cmd, tries |-> 1]}]
      /\ requests' = requests \cup {[command |-> cmd, try |-> 1]}
      /\ seen' = seen /\ results' = results /\ revision' = revision /\ UNCHANGED vars
  BY DEF Begin, Sends, server
<1>2. cmd.rev = seen[t].rev /\ cmd.slip = s /\ cmd.basis = seen[t].work[s]
  OBVIOUS
<1> HIDE DEF cmd
<1>3. Commands' \subseteq Commands \cup {cmd}
  BY <1>1 DEF Commands, RpcTypeOK
<1>4. CommandAt(cmd)
  BY <1>2 DEF CommandAt, ViewsInv, ViewsAgree, Views
<1>5. (RpcTypeOK => Commands \subseteq Command)'
  BY CommandsTypedNext
<1>6. DayMoves
  BY <1>1, SnapshotStays, ViewsFrom DEF DayMoves, Views
<1>7. Winners'
  BY <1>1, <1>6, WinnersStand DEF ViewsInv
<1>8. \A x \in Commands' : x \in Commands \/ (x \in Command /\ CommandAt(x))
  BY <1>3, <1>4, <1>5
<1> QED
  BY <1>6, <1>7, <1>8, ViewsStayAgreed, CommandsStayCurrent DEF ViewsInv

LEMMA ReceiveShows ==
    ASSUME RpcTypeOK, NEW t \in Terminal, Receive(t)
    PROVE  \E v \in Views : seen' = [seen EXCEPT ![t] = Newer(seen[t], v)]
<1>1. PICK f \in fetch[t] : \E r \in results[f.call.command.op] :
         seen' = [seen EXCEPT ![t] = Newer(seen[t], r.view)]
  BY DEF Receive, RpcTypeOK
<1>2. f.call.command.op \in 1..MaxOp
  BY DEF RpcTypeOK, Call, Command
<1>3. PICK r \in results[f.call.command.op] : seen' = [seen EXCEPT ![t] = Newer(seen[t], r.view)]
  BY <1>1
<1>4. r.view \in Views
  BY <1>2 DEF Views
<1> QED
  BY <1>3, <1>4

(* What a terminal does leaves the day and the answers alone, forgets or    *)
(* sends again commands that were there, and shows a snapshot somebody      *)
(* held, which is not older than the one it showed.                         *)
LEMMA BrowseQuietly ==
    ASSUME TypeOK, RpcTypeOK, ViewsInv, NEW t \in Terminal, Browse(t), ~ \E s \in Slip : Ask(t, s)
    PROVE  /\ UNCHANGED vars /\ revision' = revision /\ results' = results
           /\ Commands' \subseteq Commands
           /\ \A u \in Terminal : seen'[u] \in Views /\ seen'[u].rev >= seen[u].rev
<1>1. UNCHANGED vars /\ revision' = revision /\ results' = results
  BY DEF Browse, Poll, OpenModal, ReadStatement, ProceedPayment, CloseModal, Receive, GiveUp, Deny, Reload,
     PrintReceipt, Resend, Sends, server
<1>2. Commands' \subseteq Commands
  <2>1. CASE UNCHANGED <<requests, pending>>
    BY <2>1 DEF Commands
  <2>2. CASE requests' \subseteq requests /\ \E cmd : Forget(t, cmd)
    BY <2>2 DEF Commands, Forget, RpcTypeOK
  <2>3. ASSUME NEW p \in pending[t], Resend(t, p)
        PROVE  Commands' \subseteq Commands
    <3> DEFINE again == [p EXCEPT !.tries = @ + 1]
               call == [command |-> p.command, try |-> p.tries + 1]
    <3>1. /\ pending' = [pending EXCEPT ![t] = (@ \ {p}) \cup {again}]
          /\ requests' = requests \cup {call}
      BY <2>3 DEF Resend, Sends
    <3>2. again.command = p.command /\ call.command = p.command
      BY DEF RpcTypeOK
    <3> HIDE DEF again, call
    <3> QED
      BY <3>1, <3>2 DEF Commands, RpcTypeOK
  <2> QED
    BY <2>1, <2>2, <2>3 DEF Browse, Poll, OpenModal, ReadStatement, ProceedPayment, CloseModal, Receive,
       GiveUp, Deny, Reload, PrintReceipt
<1>3. \A u \in Terminal : seen'[u] \in Views /\ seen'[u].rev >= seen[u].rev
  <2>1. \A u \in Terminal : seen[u] \in Views /\ seen[u].rev \in Nat /\ seen[u].rev <= revision
    <3>1. \A u \in Terminal : seen[u] \in Views
      BY DEF Views
    <3>2. \A u \in Terminal : seen[u].rev \in Nat
      BY DEF RpcTypeOK, View
    <3> QED
      BY <3>1, <3>2 DEF ViewsInv, ViewsAgree
  <2>2. Snapshot \in Views /\ Snapshot.rev = revision /\ revision \in Nat
    BY ViewsTyped, RevisionOfSnapshot DEF RpcTypeOK
  <2>3. CASE seen' = seen
    BY <2>1, <2>3
  <2>4. CASE seen' = [seen EXCEPT ![t] = Snapshot]
    BY <2>1, <2>2, <2>4 DEF RpcTypeOK
  <2>5. CASE Receive(t)
    <3>1. PICK v \in Views : seen' = [seen EXCEPT ![t] = Newer(seen[t], v)]
      BY <2>5, ReceiveShows
    <3>2. v.rev \in Nat
      BY ViewsTyped DEF View
    <3>3. Newer(seen[t], v) \in Views /\ Newer(seen[t], v).rev >= seen[t].rev
      BY <2>1, <3>2 DEF Newer
    <3> QED
      BY <2>1, <3>1, <3>3 DEF RpcTypeOK
  <2> QED
    BY <2>3, <2>4, <2>5 DEF Browse, Poll, OpenModal, ReadStatement, ProceedPayment, CloseModal, GiveUp,
       Deny, Reload, PrintReceipt, Resend, Sends
<1> QED
  BY <1>1, <1>2, <1>3

ScreensMoveOn == \A t \in Terminal : seen'[t].rev >= seen[t].rev

LEMMA ViewsNext ==
    TypeOK /\ CommandsInv /\ RpcTypeOK /\ RpcTypeOK' /\ ViewsInv /\ [RpcNext]_rpcVars
    => ViewsInv' /\ ScreensMoveOn
<1> SUFFICES ASSUME TypeOK, CommandsInv, RpcTypeOK, RpcTypeOK', ViewsInv, [RpcNext]_rpcVars
             PROVE  ViewsInv' /\ ScreensMoveOn
  OBVIOUS
<1>1. \A t \in Terminal : seen[t] \in Views /\ seen[t].rev \in Nat
  <2>1. \A t \in Terminal : seen[t] \in Views
    BY DEF Views
  <2>2. \A t \in Terminal : seen[t].rev \in Nat
    BY DEF RpcTypeOK, View
  <2> QED
    BY <2>1, <2>2
<1>2. seen' = seen => ScreensMoveOn
  BY <1>1 DEF ScreensMoveOn
<1>3. CASE UNCHANGED rpcVars
  <2>1. UNCHANGED vars /\ revision' = revision /\ results' = results /\ seen' = seen
        /\ requests' = requests /\ pending' = pending
    BY <1>3 DEF rpcVars, server
  <2>2. DayMoves
    BY <1>1, <2>1, SnapshotStays, ViewsFrom DEF DayMoves
  <2>3. Commands' \subseteq Commands
    BY <2>1 DEF Commands
  <2> QED
    BY <1>2, <2>1, <2>2, <2>3, QuietStep
<1>4. CASE OtherStaff
  <2>1. revision' = revision + 1 /\ results' = results /\ seen' = seen /\ requests' = requests /\ pending' = pending
    BY <1>4 DEF OtherStaff, ChangesDay
  <2>2. DayMoves
    BY <1>1, <2>1, ViewsFrom DEF DayMoves
  <2>3. Commands' \subseteq Commands
    BY <2>1 DEF Commands
  <2> QED
    BY <1>2, <2>1, <2>2, <2>3, QuietStep
<1>5. ASSUME NEW call \in requests, Serve(call)
      PROVE  ViewsInv' /\ ScreensMoveOn
  BY <1>2, <1>5, ServeKeepsViews DEF Serve
<1>6. ASSUME NEW t \in Terminal, NEW s \in Slip, Ask(t, s)
      PROVE  ViewsInv' /\ ScreensMoveOn
  <2>1. ViewsInv'
    BY <1>6, BeginKeepsViews DEF Ask
  <2>2. seen' = seen
    BY <1>6 DEF Ask, Begin, Sends
  <2> QED
    BY <1>2, <2>1, <2>2
<1>7. ASSUME NEW t \in Terminal, Browse(t), ~ \E s \in Slip : Ask(t, s)
      PROVE  ViewsInv' /\ ScreensMoveOn
  <2>1. /\ UNCHANGED vars /\ revision' = revision /\ results' = results
        /\ Commands' \subseteq Commands
        /\ \A u \in Terminal : seen'[u] \in Views /\ seen'[u].rev >= seen[u].rev
    BY <1>7, BrowseQuietly
  <2>2. DayMoves
    BY <2>1, SnapshotStays, ViewsFrom DEF DayMoves
  <2> QED
    BY <2>1, <2>2, QuietStep DEF ScreensMoveOn
<1> QED
  BY <1>3, <1>4, <1>5, <1>6, <1>7 DEF RpcNext

LEMMA ViewsInitially == RpcInit => ViewsInv
<1> SUFFICES ASSUME RpcInit PROVE ViewsInv
  OBVIOUS
<1>1. \A t \in Terminal : seen[t] = Snapshot
  BY DEF RpcInit
<1>2. \A op \in 1..MaxOp : results[op] = {}
  BY DEF RpcInit
<1>3. Views = {Snapshot}
  BY <1>1, <1>2 DEF Views
<1>4. Commands = {}
  BY DEF RpcInit, Commands
<1>5. Snapshot.rev <= revision
  BY RevisionOfSnapshot DEF RpcInit
<1> QED
  BY <1>2, <1>3, <1>4, <1>5 DEF ViewsInv, ViewsAgree, CommandsCurrent, Winners, OneWinnerPerRevision,
     NothingFromOldScreen

LEMMA ViewsInvariant == RpcSpec => []ViewsInv
<1>1. TypeOK /\ CommandsInv /\ RpcTypeOK /\ RpcTypeOK' /\ ViewsInv /\ [RpcNext]_rpcVars => ViewsInv'
  BY ViewsNext
<1>2. RpcSpec => []TypeOK
  BY RpcServesLedger, TypeCorrect, PTL DEF ServesLedger
<1> QED
  BY <1>1, <1>2, ViewsInitially, CommandsInvariant, RpcTypeCorrect, PTL DEF RpcSpec

(* The revision is enough to decide: of the commands made on one state of   *)
(* the day at most one takes effect, and screens with the same revision     *)
(* show the same.                                                           *)
THEOREM RpcRevisionDecides == RpcSpec => []RevisionDecides
<1>1. ViewsInv => RevisionDecides
  BY DEF ViewsInv, Winners, ViewsAgree, Views, RevisionDecides, RevisionTellsContents, Snapshot
<1> QED
  BY <1>1, ViewsInvariant, PTL

(* Nothing takes effect from an old screen, and no late or repeated answer  *)
(* takes a screen back.                                                     *)
THEOREM RpcOldScreensHarmless == RpcSpec => OldScreensHarmless
<1>1. ViewsInv => NothingFromOldScreen
  BY DEF ViewsInv, Winners
<1>2. TypeOK /\ CommandsInv /\ RpcTypeOK /\ RpcTypeOK' /\ ViewsInv /\ [RpcNext]_rpcVars => [ScreensMoveOn]_rpcVars
  BY ViewsNext
<1>3. RpcSpec => []TypeOK
  BY RpcServesLedger, TypeCorrect, PTL DEF ServesLedger
<1>4. RpcSpec => [][ScreensMoveOn]_rpcVars
  BY <1>2, <1>3, CommandsInvariant, RpcTypeCorrect, ViewsInvariant, PTL DEF RpcSpec
<1>5. RpcSpec => ScreenNeverGoesBack
  BY <1>4 DEF ScreenNeverGoesBack, ScreensMoveOn
<1>6. RpcSpec => []NothingFromOldScreen
  BY <1>1, ViewsInvariant, PTL
<1> QED
  BY <1>5, <1>6 DEF OldScreensHarmless
=============================================================================
