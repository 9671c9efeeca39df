----------------------------- MODULE SlipLedger -----------------------------
(***************************************************************************)
(* The rows a slip (the running account of one table of guests) owns in    *)
(* the database, and the SQL functions of Sql/store_rpc that change them:   *)
(* creation, the nine editing operations, karaoke, the accounting          *)
(* statement, its release, payment, cancellation and the sales that are     *)
(* credited to the nominated casts.                                         *)
(*                                                                          *)
(* Every remote procedure that reaches these functions first takes the      *)
(* advisory lock of the store (pg_advisory_xact_lock on                     *)
(* 'store_business_day_state:<department>'), so one call is one atomic      *)
(* step.  The module is about one open business day.  The procedures around *)
(* these functions (operation ids, expected revisions, lost replies) are in *)
(* CheckoutRpc, which takes its effects from here; the business day itself  *)
(* is in BusinessDay.                                                       *)
(*                                                                          *)
(* Rows that the code marks voided, cancelled or released are never read    *)
(* again by the functions modelled here and leave the sets below; `no' and  *)
(* `issued' remember that their numbers were used.                          *)
(***************************************************************************)
EXTENDS Integers, FiniteSets, FiniteSetsExt

CONSTANTS
    Slip,        \* slips of the business day
    Guest,       \* customer rows a slip can hold
    Cast,        \* casts on duty, who can be nominated
    NoCast,      \* the cast of a line that is not a nomination fee
    Price,       \* amounts of an order, karaoke or nomination fee line
    Quote,       \* what calculate_slip_pricing may return, in total
    Adjustment,  \* amounts of a free-form adjustment line (may be negative)
    Tender,      \* amounts that can be paid by one method
    MaxNo,       \* bound: line numbers used by one slip
    MaxIssued    \* bound: statements issued for one slip

ASSUME LedgerAssumption ==
    /\ NoCast \notin Cast
    /\ IsFiniteSet(Guest)
    /\ Price \subseteq Nat
    /\ Quote \subseteq Nat
    /\ Adjustment \subseteq Int
    /\ Tender \subseteq Nat /\ 0 \in Tender
    /\ MaxNo \in Nat /\ MaxIssued \in Nat

VARIABLES
    slips,       \* store_slips: status and customer_count
    guests,      \* store_slip_customers: status, with left_at_source
    casts,       \* store_slip_casts that are active
    lines,       \* store_order_lines that are active
    pricing,     \* store_slip_pricing_lines that are active
    charges,     \* store_slip_charge_lines of type adjustment, active
    bills,       \* store_slip_accounting_snapshots that are active
    checkouts,   \* store_checkouts that are not cancelled
    payments,    \* store_checkout_payments that are confirmed, per checkout
    sales,       \* store_slip_cast_sales_adjustments that are confirmed
    no,          \* next line number of the slip
    issued       \* statements issued for the slip (max snapshot_version)

rows == <<casts, lines, pricing, charges>>
documents == <<bills, checkouts, payments, sales>>
vars == <<slips, guests, rows, documents, no, issued>>

-----------------------------------------------------------------------------
(* The records. *)

SlipStatus == {"absent", "open", "checkout_ready", "checked_out"}

(* "left" is left_at_source 'manual'; "billed" is a customer who was still  *)
(* seated when the statement was issued (left_at_source 'accounting_slip'). *)
GuestStatus == {"none", "active", "left", "billed"}

LineSource == {"standard", "karaoke", "nomination_fee", "automatic_pricing"}

Nomination == [cast : Cast, no : Nat]
Line == [no : Nat, src : LineSource, cast : Cast \cup {NoCast}, amount : Nat]
PricingLine == [no : Nat, amount : Nat]
Charge == [no : Nat, amount : Int]

(* What build_checkout_statement_data prints: the order lines, the pricing  *)
(* lines no order line stands for, and the adjustments.                     *)
Statement == [lines : SUBSET Line, pricing : SUBSET PricingLine,
              charges : SUBSET Charge]

Bill == [version : Nat, statement : Statement]
Checkout == [id : Nat, status : {"draft", "confirmed"}, statement : Statement]
Payment == [checkout : Nat, cash : Nat, card : Nat]
CastSales == [cast : Nomination, checkout : Nat, base : Statement]

-----------------------------------------------------------------------------
(* Amounts. *)

SumAmounts(records) == MapThenSumSet(LAMBDA r : r.amount, records)

Subtotal(st) == SumAmounts(st.lines) + SumAmounts(st.pricing)

(* round(subtotal * 0.2, 0), numeric rounding: half away from zero. *)
ServiceCharge(st) == (2 * Subtotal(st) + 5) \div 10

(* An adjustment below -(subtotal + service) is applied only down to zero. *)
Total(st) ==
    LET gross == Subtotal(st) + ServiceCharge(st)
        adjusted == gross + SumAmounts(st.charges)
    IN  IF adjusted < 0 THEN 0 ELSE adjusted

StatementOf(ls, ps, cs) ==
    [lines   |-> ls,
     pricing |-> {p \in ps : ~ \E l \in ls : l.src = "automatic_pricing" /\ l.no = p.no},
     charges |-> cs]

Automatic(ls) == {l \in ls : l.src = "automatic_pricing"}
Entered(ls) == ls \ Automatic(ls)

ActiveGuests(gs) == {g \in Guest : gs[g] = "active"}

(* Faulty: a slip can still be edited while it waits for payment. *)
IsOpenOrReady(s) == slips[s].status \in {"open", "checkout_ready"}

IsOpen(s) == slips[s].status = "open"

(* Faulty: the count is kept by subtraction. *)
RecountByOne(s, status, gs) ==
    slips' = [slips EXCEPT ![s] = [status |-> status, count |-> @.count - 1]]

(* The customer_count subquery that several functions end with. *)
Recount(s, status, gs) ==
    slips' = [slips EXCEPT ![s] = [status |-> status, count |-> Cardinality(ActiveGuests(gs))]]

UsesNumber(s) ==
    /\ no[s] <= MaxNo
    /\ no' = [no EXCEPT ![s] = @ + 1]

-----------------------------------------------------------------------------
Init ==
    /\ slips = [s \in Slip |-> [status |-> "absent", count |-> 0]]
    /\ guests = [s \in Slip |-> [g \in Guest |-> "none"]]
    /\ casts = [s \in Slip |-> {}]
    /\ lines = [s \in Slip |-> {}]
    /\ pricing = [s \in Slip |-> {}]
    /\ charges = [s \in Slip |-> {}]
    /\ bills = [s \in Slip |-> {}]
    /\ checkouts = [s \in Slip |-> {}]
    /\ payments = [s \in Slip |-> {}]
    /\ sales = [s \in Slip |-> {}]
    /\ no = [s \in Slip |-> 1]
    /\ issued = [s \in Slip |-> 0]

(* create_slip_internal: the customers are seated, and every nomination     *)
(* comes with its fee line.                                                 *)
CreateSlip(s, seated, nominated, fee) ==
    /\ slips[s].status = "absent"
    /\ seated # {}
    /\ slips' = [slips EXCEPT ![s] = [status |-> "open", count |-> Cardinality(seated)]]
    /\ guests' = [guests EXCEPT ![s] = [g \in Guest |-> IF g \in seated THEN "active" ELSE "none"]]
    /\ casts' = [casts EXCEPT ![s] = {[cast |-> c, no |-> no[s]] : c \in nominated}]
    /\ lines' = [lines EXCEPT ![s] =
                    {[no |-> no[s], src |-> "nomination_fee", cast |-> c, amount |-> fee] : c \in nominated}]
    /\ UsesNumber(s)
    /\ UNCHANGED <<pricing, charges, documents, issued>>

(* add_slip_customers *)
AddCustomer(s, g) ==
    /\ IsOpen(s)
    /\ guests[s][g] = "none"
    /\ guests' = [guests EXCEPT ![s][g] = "active"]
    /\ Recount(s, "open", guests'[s])
    /\ UNCHANGED <<rows, documents, no, issued>>

(* leave_slip_customer *)
LeaveCustomer(s, g) ==
    /\ IsOpen(s)
    /\ guests[s][g] = "active"
    /\ guests' = [guests EXCEPT ![s][g] = "left"]
    /\ Recount(s, "open", guests'[s])
    /\ UNCHANGED <<rows, documents, no, issued>>

(* add_slip_nominations: a second nomination of the same cast needs the     *)
(* allow_duplicate flag.                                                    *)
AddNomination(s, c, allowDuplicate, fee) ==
    /\ IsOpen(s)
    /\ allowDuplicate \/ \A n \in casts[s] : n.cast # c
    /\ casts' = [casts EXCEPT ![s] = @ \cup {[cast |-> c, no |-> no[s]]}]
    /\ lines' = [lines EXCEPT ![s] = @ \cup
                    {[no |-> no[s], src |-> "nomination_fee", cast |-> c, amount |-> fee]}]
    /\ UsesNumber(s)
    /\ UNCHANGED <<slips, guests, pricing, charges, documents, issued>>

(* cancel_slip_nomination: the fee line goes with the nomination. *)
CancelNomination(s, n) ==
    /\ IsOpen(s)
    /\ n \in casts[s]
    /\ casts' = [casts EXCEPT ![s] = @ \ {n}]
    /\ lines' = [lines EXCEPT ![s] =
                    {l \in @ : ~ (l.src = "nomination_fee" /\ l.no = n.no /\ l.cast = n.cast)}]
    /\ UNCHANGED <<slips, guests, pricing, charges, documents, no, issued>>

(* add_order_lines_internal *)
AddOrder(s, amount) ==
    /\ IsOpen(s)
    /\ lines' = [lines EXCEPT ![s] = @ \cup
                    {[no |-> no[s], src |-> "standard", cast |-> NoCast, amount |-> amount]}]
    /\ UsesNumber(s)
    /\ UNCHANGED <<slips, guests, casts, pricing, charges, documents, issued>>

(* void_order_line: only lines of standard items can be voided by hand. *)
VoidOrder(s, l) ==
    /\ IsOpen(s)
    /\ l \in lines[s]
    /\ l.src = "standard"
    /\ lines' = [lines EXCEPT ![s] = @ \ {l}]
    /\ UNCHANGED <<slips, guests, casts, pricing, charges, documents, no, issued>>

(* save_karaoke_lines for one slip: the first karaoke line takes the new    *)
(* quantity, a quantity of zero voids it, any other karaoke line is voided. *)
SaveKaraoke(s, amount) ==
    LET karaoke == {l \in lines[s] : l.src = "karaoke"}
        others == lines[s] \ karaoke
        line(k) == [no |-> k, src |-> "karaoke", cast |-> NoCast, amount |-> amount]
    IN  /\ IsOpen(s)
        /\ \/ /\ amount = 0
              /\ lines' = [lines EXCEPT ![s] = others]
              /\ UNCHANGED no
           \/ /\ amount > 0
              /\ \E first \in karaoke :
                    /\ \A k \in karaoke : first.no <= k.no
                    /\ lines' = [lines EXCEPT ![s] = others \cup {line(first.no)}]
              /\ UNCHANGED no
           \/ /\ amount > 0 /\ karaoke = {}
              /\ lines' = [lines EXCEPT ![s] = others \cup {line(no[s])}]
              /\ UsesNumber(s)
        /\ UNCHANGED <<slips, guests, casts, pricing, charges, documents, issued>>

(* add_slip_adjustment *)
AddAdjustment(s, amount) ==
    /\ IsOpen(s)
    /\ charges' = [charges EXCEPT ![s] = @ \cup {[no |-> no[s], amount |-> amount]}]
    /\ UsesNumber(s)
    /\ UNCHANGED <<slips, guests, casts, lines, pricing, documents, issued>>

(* void_slip_adjustment *)
VoidAdjustment(s, c) ==
    /\ IsOpen(s)
    /\ c \in charges[s]
    /\ charges' = [charges EXCEPT ![s] = @ \ {c}]
    /\ UNCHANGED <<slips, guests, casts, lines, pricing, documents, no, issued>>

-----------------------------------------------------------------------------
(* issue_checkout_statement_v2 past its checks: the automatic charges are   *)
(* fixed as pricing lines and as the order lines that stand for them, the   *)
(* customers still seated are billed, and the statement is kept as the one  *)
(* active snapshot of the slip next to a draft checkout with its amounts.   *)
IssueStatement(s, quote) ==
    LET priced == IF quote = 0 THEN {} ELSE {[no |-> no[s], amount |-> quote]}
        automatic == {[no |-> p.no, src |-> "automatic_pricing", cast |-> NoCast, amount |-> p.amount] : p \in priced}
        printed == StatementOf(Entered(lines[s]) \cup automatic, priced, charges[s])
    IN  /\ IsOpen(s)
        /\ checkouts[s] = {}
        /\ issued[s] < MaxIssued
        /\ lines' = [lines EXCEPT ![s] = Entered(@) \cup automatic]
        /\ pricing' = [pricing EXCEPT ![s] = priced]
        /\ guests' = [guests EXCEPT ![s] = [g \in Guest |-> IF @[g] = "active" THEN "billed" ELSE @[g]]]
        /\ slips' = [slips EXCEPT ![s] = [status |-> "checkout_ready", count |-> 0]]
        /\ issued' = [issued EXCEPT ![s] = @ + 1]
        /\ bills' = [bills EXCEPT ![s] = {[version |-> issued[s] + 1, statement |-> printed]}]
        /\ checkouts' = [checkouts EXCEPT ![s] =
                            {[id |-> issued[s] + 1, status |-> "draft", statement |-> printed]}]
        /\ UsesNumber(s)
        /\ UNCHANGED <<casts, charges, payments, sales>>

(* Faulty: everyone who left is seated again, whatever left_at_source says. *)
ReopenSeatingAll(s) ==
    /\ bills' = [bills EXCEPT ![s] = {}]
    /\ pricing' = [pricing EXCEPT ![s] = {}]
    /\ lines' = [lines EXCEPT ![s] = Entered(@)]
    /\ guests' = [guests EXCEPT ![s] = [g \in Guest |-> IF @[g] = "none" THEN "none" ELSE "active"]]
    /\ Recount(s, "open", guests'[s])
    /\ UNCHANGED <<casts, charges, no, issued>>

(* What release_checkout_ready_internal and cancel_checkout_internal do to  *)
(* the slip: the active snapshot is invalidated, the automatic charges are  *)
(* voided and the billed customers are seated again.                        *)
Reopen(s) ==
    /\ Cardinality(bills[s]) = 1
    /\ bills' = [bills EXCEPT ![s] = {}]
    /\ pricing' = [pricing EXCEPT ![s] = {}]
    /\ lines' = [lines EXCEPT ![s] = Entered(@)]
    /\ guests' = [guests EXCEPT ![s] = [g \in Guest |-> IF @[g] = "billed" THEN "active" ELSE @[g]]]
    /\ Recount(s, "open", guests'[s])
    /\ UNCHANGED <<casts, charges, no, issued>>

(* Faulty: the draft checkout stays. *)
ReleaseKeepingDraft(s) ==
    /\ slips[s].status = "checkout_ready"
    /\ Reopen(s)
    /\ UNCHANGED <<checkouts, payments, sales>>

(* release_checkout_ready_v2 past its checks. *)
ReleaseStatement(s) ==
    /\ slips[s].status = "checkout_ready"
    /\ Reopen(s)
    /\ checkouts' = [checkouts EXCEPT ![s] = {c \in @ : c.status # "draft"}]
    /\ UNCHANGED <<payments, sales>>

(* Faulty: a payment below the total is accepted. *)
ConfirmUnderpaid(s, cash, card) ==
    /\ slips[s].status = "checkout_ready"
    /\ \E bill \in bills[s], draft \in checkouts[s] :
          /\ cash + card <= Total(bill.statement)
          /\ checkouts' = [checkouts EXCEPT ![s] =
                 {[id |-> draft.id, status |-> "confirmed", statement |-> bill.statement]}]
          /\ payments' = [payments EXCEPT ![s] = @ \cup
                 {[checkout |-> draft.id, cash |-> cash, card |-> card]}]
    /\ slips' = [slips EXCEPT ![s] = [status |-> "checked_out", count |-> 0]]
    /\ UNCHANGED <<guests, rows, bills, sales, no, issued>>

(* confirm_checkout_draft_v2: the amounts come from the active snapshot and *)
(* the payments must add up to its total; cash stands for the one method    *)
(* that takes a received amount, card for the others, and a method that is  *)
(* not used for zero.  A draft always exists here (DocumentsFollowStatus),  *)
(* so the branch that inserts a missing one has no counterpart.             *)
ConfirmCheckout(s, cash, card) ==
    /\ slips[s].status = "checkout_ready"
    /\ \E bill \in bills[s], draft \in checkouts[s] :
          /\ \A b \in bills[s] : b.version <= bill.version
          /\ draft.status = "draft"
          /\ cash + card = Total(bill.statement)
          /\ checkouts' = [checkouts EXCEPT ![s] = (@ \ {draft}) \cup
                 {[id |-> draft.id, status |-> "confirmed", statement |-> bill.statement]}]
          /\ payments' = [payments EXCEPT ![s] = @ \cup
                 {[checkout |-> draft.id, cash |-> cash, card |-> card]}]
    /\ slips' = [slips EXCEPT ![s] = [status |-> "checked_out", count |-> 0]]
    /\ UNCHANGED <<guests, rows, bills, sales, no, issued>>

(* Faulty: the payments of the cancelled checkout stay confirmed. *)
CancelKeepingPayments(s) ==
    /\ slips[s].status = "checked_out"
    /\ checkouts' = [checkouts EXCEPT ![s] = {}]
    /\ sales' = [sales EXCEPT ![s] = {}]
    /\ Reopen(s)
    /\ UNCHANGED payments

(* Faulty: the sales credited for the cancelled checkout stay. *)
CancelKeepingSales(s) ==
    /\ slips[s].status = "checked_out"
    /\ checkouts' = [checkouts EXCEPT ![s] = {}]
    /\ payments' = [payments EXCEPT ![s] = {}]
    /\ Reopen(s)
    /\ UNCHANGED sales

(* cancel_checkout_v2 past its checks. *)
CancelCheckout(s) ==
    /\ slips[s].status = "checked_out"
    /\ \E confirmed \in checkouts[s] :
          /\ confirmed.status = "confirmed"
          /\ checkouts' = [checkouts EXCEPT ![s] = @ \ {confirmed}]
          /\ payments' = [payments EXCEPT ![s] = {p \in @ : p.checkout # confirmed.id}]
          /\ sales' = [sales EXCEPT ![s] = {a \in @ : a.checkout # confirmed.id}]
    /\ Reopen(s)

(* save_cast_sales_adjustment_internal: one row per active nomination of a  *)
(* slip that has any; the rows confirmed before are cancelled.              *)
SaveCastSales(s) ==
    /\ slips[s].status = "checked_out"
    /\ casts[s] # {}
    /\ \E confirmed \in checkouts[s] :
          /\ confirmed.status = "confirmed"
          /\ sales' = [sales EXCEPT ![s] =
                 {[cast |-> n, checkout |-> confirmed.id, base |-> confirmed.statement] : n \in casts[s]}]
    /\ UNCHANGED <<slips, guests, rows, bills, checkouts, payments, no, issued>>

-----------------------------------------------------------------------------
Edit(s) ==
    \/ \E seated \in SUBSET Guest, nominated \in SUBSET Cast, fee \in Price :
          CreateSlip(s, seated, nominated, fee)
    \/ \E g \in Guest : AddCustomer(s, g)
    \/ \E g \in Guest : LeaveCustomer(s, g)
    \/ \E c \in Cast, allowDuplicate \in BOOLEAN, fee \in Price : AddNomination(s, c, allowDuplicate, fee)
    \/ \E n \in casts[s] : CancelNomination(s, n)
    \/ \E amount \in Price : AddOrder(s, amount)
    \/ \E l \in lines[s] : VoidOrder(s, l)
    \/ \E amount \in Price \cup {0} : SaveKaraoke(s, amount)
    \/ \E amount \in Adjustment : AddAdjustment(s, amount)
    \/ \E c \in charges[s] : VoidAdjustment(s, c)

Account(s) ==
    \/ \E quote \in Quote : IssueStatement(s, quote)
    \/ ReleaseStatement(s)
    \/ \E cash, card \in Tender : ConfirmCheckout(s, cash, card)
    \/ CancelCheckout(s)
    \/ SaveCastSales(s)

Next == \E s \in Slip : Edit(s) \/ Account(s)

Spec == Init /\ [][Next]_vars

-----------------------------------------------------------------------------
(* Properties. *)

(* Every row has the columns and the status values of its table. *)
TypeOK ==
    /\ slips \in [Slip -> [status : SlipStatus, count : Nat]]
    /\ guests \in [Slip -> [Guest -> GuestStatus]]
    /\ casts \in [Slip -> SUBSET Nomination]
    /\ lines \in [Slip -> SUBSET Line]
    /\ pricing \in [Slip -> SUBSET PricingLine]
    /\ charges \in [Slip -> SUBSET Charge]
    /\ bills \in [Slip -> SUBSET Bill]
    /\ checkouts \in [Slip -> SUBSET Checkout]
    /\ payments \in [Slip -> SUBSET Payment]
    /\ sales \in [Slip -> SUBSET CastSales]
    /\ no \in [Slip -> Nat]
    /\ issued \in [Slip -> Nat]

(* Which accounting documents exist is decided by the status of the slip,   *)
(* over any sequence of issue, release, payment and cancellation: none      *)
(* while it is open, one active snapshot and one draft while it waits for   *)
(* payment, one active snapshot and one confirmed checkout once it is paid. *)
DocumentsAt(s) ==
    /\ slips[s].status \in {"absent", "open"} =>
          /\ bills[s] = {} /\ checkouts[s] = {} /\ payments[s] = {} /\ sales[s] = {}
          /\ pricing[s] = {} /\ Automatic(lines[s]) = {}
    /\ slips[s].status = "checkout_ready" =>
          /\ \E b \in bills[s], c \in checkouts[s] :
                /\ bills[s] = {b} /\ checkouts[s] = {c}
                /\ c.status = "draft" /\ c.id = b.version
          /\ payments[s] = {} /\ sales[s] = {}
    /\ slips[s].status = "checked_out" =>
          \E b \in bills[s], c \in checkouts[s] :
              /\ bills[s] = {b} /\ checkouts[s] = {c}
              /\ c.status = "confirmed" /\ c.id = b.version

DocumentsFollowStatus == \A s \in Slip : DocumentsAt(s)

(* The fixed statement is the statement of the rows the slip has now: since *)
(* it was issued nothing that is billed was added, changed or voided, and   *)
(* the checkout was made out for the same statement.                        *)
StatementAt(s) ==
    /\ \A b \in bills[s] : b.statement = StatementOf(lines[s], pricing[s], charges[s])
    /\ \A c \in checkouts[s], b \in bills[s] : c.statement = b.statement

StatementMatchesRows == \A s \in Slip : StatementAt(s)

(* A paid slip has one payment record, made for its live checkout, and it   *)
(* adds up to the total of the statement the customer was given.            *)
PaidAt(s) ==
    /\ slips[s].status = "checked_out" => payments[s] # {}
    /\ \A p, q \in payments[s] : p = q
    /\ \A p \in payments[s] :
          \E b \in bills[s] : p.checkout = b.version /\ p.cash + p.card = Total(b.statement)

PaidInFull == \A s \in Slip : PaidAt(s)

(* Sales are credited for all the nominations of a slip or for none, for    *)
(* the live checkout and from its amounts, however often the slip was       *)
(* cancelled, re-nominated and paid again.                                  *)
SalesAt(s) ==
    /\ sales[s] # {} => {a.cast : a \in sales[s]} = casts[s]
    /\ \A a \in sales[s] :
          \E c \in checkouts[s] : a.checkout = c.id /\ c.status = "confirmed" /\ a.base = c.statement

SalesForLiveCheckout == \A s \in Slip : SalesAt(s)

(* Every automatic order line stands for an active pricing line and the     *)
(* other way round, so no automatic charge is billed twice or lost when a   *)
(* slip is issued again.                                                    *)
AutomaticChargedOnce ==
    \A s \in Slip :
        {[no |-> l.no, amount |-> l.amount] : l \in Automatic(lines[s])} = pricing[s]

(* A nomination and its fee line appear and disappear together. *)
FeePerNomination ==
    \A s \in Slip :
        {[cast |-> l.cast, no |-> l.no] : l \in {x \in lines[s] : x.src = "nomination_fee"}} = casts[s]

(* The head count shown for a slip is the number of customers still seated, *)
(* and nobody is seated at a table whose statement has been issued.         *)
HeadCount ==
    \A s \in Slip :
        /\ slips[s].count = Cardinality(ActiveGuests(guests[s]))
        /\ ~ IsOpen(s) => ActiveGuests(guests[s]) = {}
        /\ slips[s].status \in {"absent", "open"} => \A g \in Guest : guests[s][g] # "billed"

(* At most one karaoke line is active on a slip. *)
OneKaraokeLine ==
    \A s \in Slip : \A k, l \in lines[s] : k.src = "karaoke" /\ l.src = "karaoke" => k = l

(* A step that leaves a customer who went home before the statement was     *)
(* issued never seats this customer again: release and cancellation bring   *)
(* back exactly the customers the statement itself had sent home.           *)
LeftStaysLeft ==
    [][\A s \in Slip, g \in Guest :
          /\ guests[s][g] = "left" => guests'[s][g] = "left"
          /\ slips[s].status \in {"checkout_ready", "checked_out"} /\ slips'[s].status = "open" =>
                (guests'[s][g] = "active" <=> guests[s][g] = "billed")]_vars

(* The rows that are kept in step with others, in every state and over a    *)
(* release or a cancellation: automatic lines and prices, fees and          *)
(* nominations, the head count, the karaoke line, and who is seated.        *)
RowsAgree ==
    /\ [](HeadCount /\ AutomaticChargedOnce /\ FeePerNomination /\ OneKaraokeLine)
    /\ LeftStaysLeft

(* Once the statement is issued, what the staff entered stays as it is      *)
(* until the slip is open again, and reopening gives it back unchanged.     *)
WorkFrozen ==
    [][\A s \in Slip :
          slips[s].status \in {"checkout_ready", "checked_out"} =>
              /\ Entered(lines'[s]) = Entered(lines[s])
              /\ casts'[s] = casts[s]
              /\ charges'[s] = charges[s]]_vars

-----------------------------------------------------------------------------
(* SlipLifecycle, seen through the rows. *)

WorkOf(s) == [lines |-> Entered(lines[s]), casts |-> casts[s], charges |-> charges[s]]

BillOf(s) == {b.statement : b \in bills[s]}
PaidOf(s) == {p.cash + p.card : p \in payments[s]}
DueFor(statements) == {Total(st) : st \in statements}

Lifecycle == INSTANCE SlipLifecycle WITH
    NoBill <- {},
    Unpaid <- {},
    Due <- DueFor,
    stage <- [s \in Slip |-> slips[s].status],
    work <- [s \in Slip |-> WorkOf(s)],
    bill <- [s \in Slip |-> BillOf(s)],
    paid <- [s \in Slip |-> PaidOf(s)]

(* The ledger implements the lifecycle: its steps are the arrows of the     *)
(* slip diagram, editing happens only while the slip is open, and the       *)
(* amount received is the amount of the fixed statement.                    *)
ImplementsLifecycle == Lifecycle!Spec
=============================================================================
