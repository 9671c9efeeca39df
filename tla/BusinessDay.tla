---------------------------- MODULE BusinessDay ----------------------------
(***************************************************************************)
(* The business day of one store: how it is opened, what is entered for it  *)
(* (attendance, the cost of delivered drinks, drink backs, slips), and how  *)
(* it is closed.                                                            *)
(*                                                                          *)
(* The calls are those of Sql/store_rpc/20 (attendance), 23 (drink           *)
(* delivery), 30 (drink backs) and 22 (closing), with the internal functions *)
(* of 01_business_day.sql and the triggers of 13_accounting_snapshot_guards. *)
(* All take the advisory lock of the store, so a call is one step.           *)
(*                                                                          *)
(* A page (attendance editor, drink editor, closing screen) shows what the  *)
(* server told it last, however long ago, and keeps the command it made in  *)
(* sessionStorage until it gets an answer.  A request can be lost, can      *)
(* arrive late and can arrive again, also across noon, when the store's     *)
(* clock (StoreClock) moves to the next business date.                      *)
(***************************************************************************)
EXTENDS Integers, FiniteSets, Sequences

CONSTANTS
    Cast,         \* casts of the company that can come to work
    HomeCast,     \* those of this store; the others help out
    Staff,        \* staff of this store
    Slip,         \* slips of one business day
    Amount,       \* costs of delivered drinks
    NotEntered,   \* drink_delivery_amount_entered is false
    Page,         \* open pages, of one browser or of several
    MaxDate,      \* bound: business dates
    MaxDay,       \* bound: business days (rows)
    MaxOp,        \* bound: operation ids made
    MaxRevision   \* bound: changes of one business day

ASSUME DayAssumption ==
    /\ HomeCast \subseteq Cast
    /\ Cast \cap Staff = {}
    /\ Amount # {} /\ NotEntered \notin Amount
    /\ MaxDate \in Nat \ {0, 1} /\ MaxDay \in Nat \ {0}
    /\ MaxOp \in Nat /\ MaxRevision \in Nat \ {0, 1}

VARIABLES
    today,        \* StoreClock.GetCurrentBusinessDate
    days,         \* store_business_days, without the amount
    books,        \* what is entered for a day
    closings,     \* store_business_day_closing_snapshots of a day
    results,      \* store.current_business_day_operation_results
    nextOp,       \* the next crypto.randomUUID()
    seen,         \* what a page shows
    pending,      \* the command a page waits for, in sessionStorage
    sent,         \* requests that have been sent, any of which may arrive
    answers,      \* history: statuses an operation was answered with
    applied       \* history: the books an operation was applied to

store == <<today, days, books, closings>>
pages == <<seen, pending>>
history == <<answers, applied>>
dayVars == <<store, results, nextOp, pages, sent, history>>

-----------------------------------------------------------------------------
DayId == 1..MaxDay
Person == Cast \cup Staff
NoDay == 0      \* no open business day
NoDate == 0     \* the date is left to the server's clock

(* An attendance row.  `version' stands for updated_at, which is read for   *)
(* rows that are not cancelled.                                             *)
Row == [status : {"none", "present", "cancelled"}, out : BOOLEAN, version : 0..MaxRevision]

Book ==
    [rows : [Person -> Row],
     delivery : Amount \cup {NotEntered},
     backs : SUBSET Cast,
     slips : [Slip -> {"none", "unsettled", "uncredited", "settled"}]]

Blank ==
    [rows |-> [p \in Person |-> [status |-> "none", out |-> FALSE, version |-> 0]],
     delivery |-> NotEntered,
     backs |-> {},
     slips |-> [s \in Slip |-> "none"]]

View == [day : {NoDay} \cup DayId, rev : 0..MaxRevision, date : 0..MaxDate, book : Book]

(* What a form says of a person: not listed, listed but deselected, present,*)
(* present and gone, or gone before the arrival.                            *)
Entry == {"unlisted", "off", "in", "left", "early"}

(* `basis' is not sent: it remembers what the page showed. *)
Command ==
    [op : 1..MaxOp, page : Page, kind : {"attendance", "delivery", "backs", "close"},
     day : {NoDay} \cup DayId, rev : 0..MaxRevision, date : 0..MaxDate,
     form : [Person -> Entry], amount : Amount \cup {NotEntered},
     required : SUBSET Cast, optional : SUBSET Cast, remove : SUBSET Cast,
     override : BOOLEAN, basis : Book]

Status == {"confirmed", "conflict", "validation_error", "error"}

Result == [command : Command, status : Status, view : View]

-----------------------------------------------------------------------------
(* Reading the day. *)

Open(d) == days[d].status = "open"

(* get_current_business_day_internal *)
Current == IF \E d \in DayId : Open(d) THEN CHOOSE d \in DayId : Open(d) ELSE NoDay

(* The next row of store_business_days: ids are given in order. *)
Unused ==
    {d \in DayId : /\ days[d].status = "none"
                   /\ \A e \in 1..(d - 1) : days[e].status # "none"}

Attending(book) == {p \in Person : book.rows[p].status = "present"}

Snapshot ==
    IF Current = NoDay
    THEN [day |-> NoDay, rev |-> 0, date |-> NoDate, book |-> Blank]
    ELSE [day |-> Current, rev |-> days[Current].rev, date |-> days[Current].date,
          book |-> books[Current]]

(* get_business_day_closing_readiness_internal: can_close *)
CanClose(book) ==
    /\ \A s \in Slip : book.slips[s] \in {"none", "settled"}
    /\ book.delivery # NotEntered
    /\ Attending(book) # {}
    /\ \A p \in Attending(book) : book.rows[p].out
    /\ Attending(book) \cap Cast \subseteq book.backs

-----------------------------------------------------------------------------
(* Writing the day. *)

(* Faulty: only a day of the same date is looked for. *)
MayOpenToday == \A d \in DayId : Open(d) => days[d].date # today

(* open_business_day_internal refuses a second open day. *)
MayOpen == Current = NoDay

(* Faulty: the revision moves only when the day is opened. *)
WriteUncounted(date, book) ==
    \/ /\ Current # NoDay
       /\ books' = [books EXCEPT ![Current] = book]
       /\ UNCHANGED <<today, days, closings>>
    \/ /\ MayOpen
       /\ \E d \in Unused :
              /\ days' = [days EXCEPT ![d] = [status |-> "open", date |-> date, rev |-> 1]]
              /\ books' = [books EXCEPT ![d] = book]
       /\ UNCHANGED <<today, closings>>

(* A change of the open day, or of the day it opens first, as one           *)
(* transaction.  Every change moves business_ui_revision.                   *)
Write(date, book) ==
    \/ /\ Current # NoDay
       /\ days[Current].rev < MaxRevision
       /\ days' = [days EXCEPT ![Current].rev = @ + 1]
       /\ books' = [books EXCEPT ![Current] = book]
       /\ UNCHANGED <<today, closings>>
    \/ /\ MayOpen
       /\ \E d \in Unused :
              /\ days' = [days EXCEPT ![d] = [status |-> "open", date |-> date, rev |-> 1]]
              /\ books' = [books EXCEPT ![d] = book]
       /\ UNCHANGED <<today, closings>>

(* The closing functions that a save ends with: a clock-out that was entered *)
(* is written to the row, one that was not leaves the row alone.            *)
ClockedOut(row, entry) == [row EXCEPT !.out = @ \/ entry \in {"left", "early"}]

(* What one attendance entry does to the person's row: the upsert leaves    *)
(* clock_out_at as it is, deselecting clears both times.                    *)
SavedRow(row, entry, version) ==
    CASE entry = "unlisted" -> row
      [] entry = "off" -> IF row.status = "none" THEN row
                          ELSE [status |-> "cancelled", out |-> FALSE, version |-> version]
      [] OTHER -> ClockedOut([status |-> "present", out |-> row.out, version |-> version], entry)

(* The book the page's command makes of the current one. *)
Edited(cmd) ==
    LET book == Snapshot.book
    IN CASE cmd.kind = "attendance" ->
                [book EXCEPT !.rows =
                    [p \in Person |-> SavedRow(book.rows[p], cmd.form[p], Snapshot.rev + 1)]]
         [] cmd.kind = "delivery" -> [book EXCEPT !.delivery = cmd.amount]
         [] cmd.kind = "backs" ->
                [book EXCEPT !.backs = (@ \cup cmd.required \cup cmd.optional) \ cmd.remove]

-----------------------------------------------------------------------------
(* The checks of the four calls, in their order. *)

(* Faulty: the day is compared, its revision is not. *)
OtherDay(cmd) == cmd.day # Snapshot.day

(* The command was not made on the current day as it is now. *)
Outdated(cmd) == cmd.day # Snapshot.day \/ cmd.rev # Snapshot.rev

Version(row) == IF row.status = "present" THEN row.version ELSE 0

Listed(cmd, group) == {p \in group : cmd.form[p] # "unlisted"}
Selected(cmd, group) == {p \in Listed(cmd, group) : cmd.form[p] # "off"}

AttendanceRefusal(cmd, date) ==
    IF \/ Outdated(cmd)
       \/ Current # NoDay /\ days[Current].date # date
       \/ \E p \in Listed(cmd, Person) :
              Version(cmd.basis.rows[p]) # Version(Snapshot.book.rows[p])
    THEN "conflict"
    ELSE IF \/ \E group \in {Cast, Staff} : Listed(cmd, group) # {} /\ Selected(cmd, group) = {}
            \/ \E p \in Person : cmd.form[p] = "early"
    THEN "validation_error"
    ELSE "none"

DeliveryRefusal(cmd) == IF Outdated(cmd) THEN "conflict" ELSE "none"

BacksRefusal(cmd) ==
    LET attending == Attending(Snapshot.book) \cap Cast
    IN IF Current = NoDay \/ Outdated(cmd)
       THEN "conflict"
       ELSE IF \/ cmd.required # attending
               \/ (cmd.optional \cup cmd.remove) \cap attending # {}
               \/ ~ (cmd.required \cup cmd.optional \subseteq HomeCast)
               \/ ~ (cmd.remove \subseteq Snapshot.book.backs)
       THEN "validation_error"
       ELSE "none"

(* A close that passes its checks runs three updates on the day's row: the  *)
(* memo, status = 'closed' and business_ui_revision + 1.  The third finds   *)
(* the row closed, RowGuard rejects it, and the transaction is undone.      *)
RowGuard(old, new, hasSnapshot) ==
    /\ old # "closed"
    /\ new = "closed" => hasSnapshot

Updates == <<[old |-> "open", new |-> "open"],
             [old |-> "open", new |-> "closed"],
             [old |-> "closed", new |-> "closed"]>>

CloseRefusal(cmd) ==
    IF Current = NoDay \/ Outdated(cmd)
    THEN "conflict"
    ELSE IF ~ cmd.override /\ ~ CanClose(Snapshot.book)
    THEN "validation_error"
    ELSE IF \E i \in DOMAIN Updates : ~ RowGuard(Updates[i].old, Updates[i].new, i > 1)
    THEN "error"
    ELSE "none"

Refusal(cmd, date) ==
    CASE cmd.kind = "attendance" -> AttendanceRefusal(cmd, date)
      [] cmd.kind = "delivery" -> DeliveryRefusal(cmd)
      [] cmd.kind = "backs" -> BacksRefusal(cmd)
      [] cmd.kind = "close" -> CloseRefusal(cmd)

(* A save that fails leaves nothing behind, a day it had opened included. *)
Rollback(cmd) == UNCHANGED store

(* What a close that could commit does: the book is fixed as it is. *)
EndDay ==
    /\ days' = [days EXCEPT ![Current].status = "closed", ![Current].rev = @ + 1]
    /\ closings' = [closings EXCEPT ![Current] = {books[Current]}]
    /\ UNCHANGED <<today, books>>

(* The effect of a call that is not refused. *)
Perform(cmd, date) == IF cmd.kind = "close" THEN EndDay ELSE Write(date, Edited(cmd))

-----------------------------------------------------------------------------
(* A request arrives. *)

(* Faulty: the cutover is counted twice. *)
DatedTomorrow(cmd) == [cmd EXCEPT !.date = today + 1]

(* The date of the request as the procedure gets it: the web server fills   *)
(* in the date of a delivery always, of an attendance form if it has none.  *)
Dated(cmd) ==
    IF cmd.kind = "delivery" \/ (cmd.kind = "attendance" /\ cmd.date = NoDate)
    THEN [cmd EXCEPT !.date = today]
    ELSE cmd

(* The page that waits for the answer gets it, or does not.  A refusal may  *)
(* leave the old contents on the screen; an error leaves the command too.   *)
Answer(cmd, status, view) ==
    /\ answers' = [answers EXCEPT ![cmd.op] = @ \cup {status}]
    /\ \/ UNCHANGED pages
       \/ /\ status # "error"
          /\ \E waiting \in pending[cmd.page] : waiting.op = cmd.op
          /\ pending' = [pending EXCEPT ![cmd.page] = {}]
          /\ seen' \in {[seen EXCEPT ![cmd.page] = view]} \cup
                       (IF status = "confirmed" THEN {} ELSE {seen})

(* Faulty: only the attendance call keeps its answers. *)
RememberAttendance(cmd, status, view) ==
    results' = IF cmd.kind = "attendance" /\ status = "confirmed"
               THEN [results EXCEPT ![cmd.op] =
                        {[command |-> cmd, status |-> status, view |-> view]}]
               ELSE results

(* Which answers are kept: attendance keeps confirmations only, and a       *)
(* transaction that fails keeps nothing.                                    *)
Remember(cmd, status, view) ==
    results' = IF \/ status = "error"
                  \/ cmd.kind = "attendance" /\ status # "confirmed"
               THEN results
               ELSE [results EXCEPT ![cmd.op] =
                        {[command |-> cmd, status |-> status, view |-> view]}]

(* The operation id is known: the same answer, if the request is the same.  *)
Recall(cmd) ==
    \E kept \in results[cmd.op] :
        /\ IF kept.command = cmd
           THEN Answer(cmd, kept.status, kept.view)
           ELSE Answer(cmd, "conflict", seen[cmd.page])
        /\ UNCHANGED <<store, results, applied>>

Refuse(cmd) ==
    /\ results[cmd.op] = {}
    /\ Refusal(cmd, cmd.date) # "none"
    /\ Rollback(cmd)
    /\ Remember(cmd, Refusal(cmd, cmd.date), Snapshot)
    /\ Answer(cmd, Refusal(cmd, cmd.date), Snapshot)
    /\ UNCHANGED applied

Accept(cmd) ==
    /\ results[cmd.op] = {}
    /\ Refusal(cmd, cmd.date) = "none"
    /\ Perform(cmd, cmd.date)
    /\ Remember(cmd, "confirmed", Snapshot')
    /\ Answer(cmd, "confirmed", Snapshot')
    /\ applied' = [applied EXCEPT ![cmd.op] = Append(@, Snapshot.book)]

Serve(request) ==
    LET cmd == Dated(request)
    IN /\ Recall(cmd) \/ Refuse(cmd) \/ Accept(cmd)
       /\ UNCHANGED <<nextOp, sent>>

-----------------------------------------------------------------------------
(* The pages.  A command is kept as pending and sent at once. *)

Make(page, command) ==
    /\ pending[page] = {}
    /\ nextOp <= MaxOp
    /\ nextOp' = nextOp + 1
    /\ pending' = [pending EXCEPT ![page] = {command}]
    /\ sent' = sent \cup {command}
    /\ UNCHANGED <<store, results, seen, history>>

(* A command on what the page shows. *)
Plain(page, kind) ==
    [op |-> nextOp, page |-> page, kind |-> kind,
     day |-> seen[page].day, rev |-> seen[page].rev, date |-> NoDate,
     form |-> [p \in Person |-> "unlisted"], amount |-> NotEntered,
     required |-> {}, optional |-> {}, remove |-> {},
     override |-> FALSE, basis |-> seen[page].book]

(* The attendance form lists the people shown and those that are added, and *)
(* wants at least one of them selected.                                     *)
MakeAttendance(page) ==
    \E form \in [Person -> Entry] :
        LET cmd == [Plain(page, "attendance") EXCEPT !.form = form, !.date = seen[page].date]
        IN /\ \A p \in Person :
                  IF p \in Attending(seen[page].book) THEN form[p] # "unlisted" ELSE form[p] # "off"
           /\ Selected(cmd, Person) # {}
           /\ Make(page, cmd)

MakeDelivery(page) ==
    \E amount \in Amount : Make(page, [Plain(page, "delivery") EXCEPT !.amount = amount])

(* The editor lists every attending cast; others can be added or removed. *)
MakeBacks(page) ==
    LET attending == Attending(seen[page].book) \cap Cast
        others == seen[page].book.backs \ attending
    IN /\ seen[page].day # NoDay
       /\ attending # {}
       /\ \E optional \in SUBSET ((HomeCast \ attending) \cup others) :
              Make(page, [Plain(page, "backs") EXCEPT
                            !.required = attending,
                            !.optional = optional,
                            !.remove = others \ optional])

(* The final form is offered when the day can be closed or the requirements *)
(* are overridden.                                                          *)
MakeClose(page) ==
    /\ seen[page].day # NoDay
    /\ \E override \in BOOLEAN :
           /\ override \/ CanClose(seen[page].book)
           /\ Make(page, [Plain(page, "close") EXCEPT !.override = override])

(* The pending command is sent again; it differs from the request sent      *)
(* before only if Reload has dated it, since any request may arrive twice.  *)
Resend(page) ==
    /\ \E cmd \in pending[page] : cmd \notin sent
    /\ sent' = sent \cup pending[page]
    /\ UNCHANGED <<store, results, nextOp, pages, history>>

(* The page is read again.  A pending attendance command without a date     *)
(* takes the date of the day that is shown.                                 *)
Reload(page) ==
    /\ seen' = [seen EXCEPT ![page] = Snapshot]
    /\ pending' = [pending EXCEPT ![page] =
           {IF cmd.kind = "attendance" /\ cmd.date = NoDate
            THEN [cmd EXCEPT !.date = Snapshot.date]
            ELSE cmd : cmd \in @}]
    /\ UNCHANGED <<store, results, nextOp, sent, history>>

-----------------------------------------------------------------------------
(* Work on slips by the business home page, whose own calls are modelled in *)
(* SlipLedger and CheckoutRpc, as far as the day is concerned.              *)

SlipBook(s, status) == [Snapshot.book EXCEPT !.slips[s] = status]

Elsewhere == UNCHANGED <<results, nextOp, pages, sent, history>>

(* sync_business_home_changes_v2 opens the day for its first slip, and      *)
(* refuses a slip on another date than the open day's.                      *)
CreateSlip(s) ==
    /\ Snapshot.book.slips[s] = "none"
    /\ Current # NoDay => days[Current].date = today
    /\ Write(today, SlipBook(s, "unsettled"))
    /\ Elsewhere

(* Faulty: rows of any day that exists can change. *)
RowsExist(d) == days[d].status # "none"

(* guard_closed_business_day_mutation: no row of a closed day changes. *)
RowsOpen(d) == days[d].status # "closed"

(* Payment, crediting the casts, and cancelling the payment. *)
MoveSlip(d, s) ==
    /\ RowsOpen(d)
    /\ days[d].rev < MaxRevision
    /\ \E step \in {<<"unsettled", "uncredited">>, <<"uncredited", "settled">>,
                    <<"uncredited", "unsettled">>, <<"settled", "unsettled">>} :
           /\ books[d].slips[s] = step[1]
           /\ books' = [books EXCEPT ![d].slips[s] = step[2]]
    /\ days' = [days EXCEPT ![d].rev = @ + 1]
    /\ UNCHANGED <<today, closings>>
    /\ Elsewhere

Noon ==
    /\ today < MaxDate
    /\ today' = today + 1
    /\ UNCHANGED <<days, books, closings>>
    /\ Elsewhere

-----------------------------------------------------------------------------
(* Yesterday was closed with a slip paid and the drinks entered.  A page    *)
(* shows no day, or still yesterday from before its closing.                *)
Yesterday ==
    [Blank EXCEPT !.delivery = CHOOSE a \in Amount : TRUE,
                  !.slips = [s \in Slip |-> "settled"]]

DayInit ==
    /\ today = 2
    /\ days = [d \in DayId |-> IF d = 1 THEN [status |-> "closed", date |-> 1, rev |-> 2]
                               ELSE [status |-> "none", date |-> NoDate, rev |-> 0]]
    /\ books = [d \in DayId |-> IF d = 1 THEN Yesterday ELSE Blank]
    /\ closings = [d \in DayId |-> IF d = 1 THEN {Yesterday} ELSE {}]
    /\ results = [o \in 1..MaxOp |-> {}]
    /\ nextOp = 1
    /\ seen \in [Page -> {[day |-> NoDay, rev |-> 0, date |-> NoDate, book |-> Blank],
                          [day |-> 1, rev |-> 1, date |-> 1, book |-> Yesterday]}]
    /\ pending = [p \in Page |-> {}]
    /\ sent = {}
    /\ answers = [o \in 1..MaxOp |-> {}]
    /\ applied = [o \in 1..MaxOp |-> <<>>]

PageStep(page) ==
    \/ MakeAttendance(page)
    \/ MakeDelivery(page)
    \/ MakeBacks(page)
    \/ MakeClose(page)
    \/ Resend(page)
    \/ Reload(page)

DayNext ==
    \/ \E page \in Page : PageStep(page)
    \/ \E request \in sent : Serve(request)
    \/ \E s \in Slip : CreateSlip(s)
    \/ \E d \in DayId, s \in Slip : MoveSlip(d, s)
    \/ Noon

DaySpec == DayInit /\ [][DayNext]_dayVars

-----------------------------------------------------------------------------
(* The variables have their types; commands and answers in full. *)
DayTypeOK ==
    /\ today \in 1..MaxDate
    /\ days \in [DayId -> [status : {"none", "open", "closed"}, date : 0..MaxDate,
                           rev : 0..MaxRevision]]
    /\ books \in [DayId -> Book]
    /\ closings \in [DayId -> SUBSET Book]
    /\ nextOp \in 1..(MaxOp + 1)
    /\ seen \in [Page -> View]
    /\ sent \subseteq Command
    /\ \A page \in Page : pending[page] \subseteq Command
    /\ \A o \in 1..MaxOp : results[o] \subseteq Result
    /\ \A o \in 1..MaxOp : answers[o] \subseteq Status /\ applied[o] \in Seq(Book)

(* There is at most one open business day, however many pages and slips     *)
(* try to open one at the same time (requirements FR-05).                   *)
OneOpenDay ==
    \A d, e \in DayId : Open(d) /\ Open(e) => d = e

(* Nothing that was entered for a closed day changes after it was fixed by  *)
(* the closing snapshot, although slips and pages of that day are still on  *)
(* screens.                                                                 *)
ClosedDayFixed ==
    \A d \in DayId : days[d].status = "closed" => closings[d] = {books[d]}

(* A save is applied to exactly what its page showed: nobody else's entry   *)
(* is overwritten from an old screen.                                       *)
SavesMeetTheScreen ==
    \A o \in 1..MaxOp : \A kept \in results[o] :
        \A i \in DOMAIN applied[o] : applied[o][i] = kept.command.basis

(* An operation is applied once if its kept answer says so, and else never, *)
(* whatever was lost, repeated or late; one that was refused first is not   *)
(* applied by a later copy.                                                 *)
AppliedAsAnswered ==
    \A o \in 1..MaxOp :
        /\ Len(applied[o]) = Cardinality({kept \in results[o] : kept.status = "confirmed"})
        /\ "confirmed" \in answers[o] => Len(applied[o]) = 1
        /\ answers[o] \cap {"validation_error", "error"} # {} => Len(applied[o]) = 0

(* A business day never stands open with nothing entered for it: a save     *)
(* that fails takes back the day it had opened.                             *)
NoEmptyDay ==
    \A d \in DayId : Open(d) => books[d] # Blank

(* The revision tells what is entered: two pages that show the same day at  *)
(* the same revision show the same, so a matching revision is enough to     *)
(* accept a save.                                                           *)
RevisionTellsBook ==
    \A p, q \in Page :
        seen[p].day = seen[q].day /\ seen[p].rev = seen[q].rev => seen[p].book = seen[q].book

(* Of the commands whose whole content the page fixed, one that was         *)
(* confirmed is confirmed every time it is sent again, across noon too.     *)
FixedBodyRepeats ==
    \A request \in sent :
        /\ \/ request.kind \in {"backs", "close"}
           \/ request.kind = "attendance" /\ request.day # NoDay
        /\ "confirmed" \in answers[request.op]
        => answers[request.op] = {"confirmed"}

(* The answers of the three saves of a business day can be relied on: what  *)
(* was applied, what was taken back, and what a repetition is told.         *)
AnsweredTruly == AppliedAsAnswered /\ NoEmptyDay /\ FixedBodyRepeats

-----------------------------------------------------------------------------
(* What the documents say and the code does not do. *)

(* system-specification 14.3: a close that passes its checks sets the day   *)
(* to closed.                                                               *)
ClosingEndsDay ==
    \A request \in sent :
        request.kind = "close" /\ answers[request.op] # {} =>
            \/ answers[request.op] \subseteq {"conflict", "validation_error"}
            \/ days[request.day].status = "closed"
=============================================================================
