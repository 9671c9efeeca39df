------------------------- MODULE BusinessDay_proofs -------------------------
(***************************************************************************)
(* For any number of pages, days, slips and requests, repeated and late     *)
(* ones included.                                                           *)
(*                                                                          *)
(* The days alone (DayInv): there is one open business day at most, and a   *)
(* closed day keeps what its closing snapshot says.  A call writes the      *)
(* current day, which is open, or a day that it opens, which was unused and *)
(* is opened only when no day is open; so a closed day is never written,    *)
(* and a day becomes closed only in the step that makes its snapshot.       *)
(*                                                                          *)
(* The calls (CallsInv): everything that a page, a request or a kept answer *)
(* remembers of a day is a day, a revision and the contents at that         *)
(* revision; no two of them disagree, and none is ahead of the day          *)
(* (KnownInv).  So a request that is not outdated means the contents it     *)
(* finds, and one that is outdated stays so, which with what is kept of an  *)
(* operation settles what it did and what it is told when it comes again.   *)
(***************************************************************************)
EXTENDS BusinessDay, FiniteSetTheorems, TLAPS

DayShape ==
    /\ DOMAIN days = DayId /\ DOMAIN books = DayId /\ DOMAIN closings = DayId
    /\ \A d \in DayId : DOMAIN days[d] = {"status", "date", "rev"}

DayInv == DayShape /\ OneOpenDay /\ ClosedDayFixed

-----------------------------------------------------------------------------
LEMMA DayInitially == DayInit => DayInv
<1> SUFFICES ASSUME DayInit PROVE DayInv
  OBVIOUS
<1>1. DayShape
  BY DEF DayInit, DayShape
<1>2. OneOpenDay
  BY DEF DayInit, OneOpenDay, Open
<1>3. ClosedDayFixed
  BY DEF DayInit, ClosedDayFixed
<1> QED
  BY <1>1, <1>2, <1>3 DEF DayInv

(* The current day is the open one. *)
LEMMA CurrentIsOpen ==
    /\ Current # NoDay => Current \in DayId /\ Open(Current)
    /\ Current = NoDay => \A d \in DayId : ~ Open(d)
<1>1. CASE \E d \in DayId : Open(d)
  <2>1. (CHOOSE d \in DayId : Open(d)) \in DayId /\ Open(CHOOSE d \in DayId : Open(d))
    BY <1>1
  <2> QED
    BY <1>1, <2>1, DayAssumption DEF Current, NoDay, DayId
<1>2. CASE ~ \E d \in DayId : Open(d)
  BY <1>2 DEF Current, NoDay
<1> QED
  BY <1>1, <1>2

(* A step that changes one day that is not closed, without closing it, and  *)
(* opens it only if no other day is open.                                   *)
LEMMA OneDayChanged ==
    ASSUME DayInv, NEW d \in DayId, days[d].status # "closed",
           DOMAIN days' = DayId, DOMAIN books' = DayId, closings' = closings,
           \A e \in DayId : e # d => days'[e] = days[e] /\ books'[e] = books[e],
           DOMAIN days'[d] = {"status", "date", "rev"},
           days'[d].status # "closed",
           days'[d].status = "open" => \A e \in DayId : Open(e) => e = d
    PROVE  DayInv'
<1>1. DayShape'
  BY DEF DayInv, DayShape
<1>2. OneOpenDay'
  BY DEF DayInv, OneOpenDay, Open
<1>3. ClosedDayFixed'
  BY DEF DayInv, ClosedDayFixed
<1> QED
  BY <1>1, <1>2, <1>3 DEF DayInv

LEMMA WritePreserves ==
    ASSUME DayInv, NEW date, NEW book, Write(date, book)
    PROVE  DayInv'
<1>1. CASE /\ Current # NoDay
           /\ days' = [days EXCEPT ![Current].rev = @ + 1]
           /\ books' = [books EXCEPT ![Current] = book]
           /\ UNCHANGED <<today, closings>>
  <2>1. Current \in DayId /\ days[Current].status = "open"
    BY <1>1, CurrentIsOpen DEF Open
  <2>2. /\ days'[Current].status = "open"
        /\ DOMAIN days'[Current] = {"status", "date", "rev"}
    BY <1>1, <2>1 DEF DayInv, DayShape
  <2>3. \A e \in DayId : Open(e) => e = Current
    BY <2>1 DEF DayInv, OneOpenDay, Open
  <2>4. /\ DOMAIN days' = DayId /\ DOMAIN books' = DayId
        /\ \A e \in DayId : e # Current => days'[e] = days[e] /\ books'[e] = books[e]
    BY <1>1, <2>1 DEF DayInv, DayShape
  <2> QED
    BY <1>1, <2>1, <2>2, <2>3, <2>4, OneDayChanged
<1>2. ASSUME MayOpen, NEW d \in Unused,
             days' = [days EXCEPT ![d] = [status |-> "open", date |-> date, rev |-> 1]],
             books' = [books EXCEPT ![d] = book],
             UNCHANGED <<today, closings>>
      PROVE  DayInv'
  <2>1. d \in DayId /\ days[d].status = "none"
    BY <1>2 DEF Unused
  <2>2. \A e \in DayId : ~ Open(e)
    BY <1>2, CurrentIsOpen DEF MayOpen
  <2>3. days'[d] = [status |-> "open", date |-> date, rev |-> 1]
    BY <1>2, <2>1 DEF DayInv, DayShape
  <2>4. /\ DOMAIN days' = DayId /\ DOMAIN books' = DayId
        /\ \A e \in DayId : e # d => days'[e] = days[e] /\ books'[e] = books[e]
    BY <1>2, <2>1 DEF DayInv, DayShape
  <2>5. days'[d].status = "open" /\ DOMAIN days'[d] = {"status", "date", "rev"}
    BY <2>3
  <2> QED
    BY <1>2, <2>1, <2>2, <2>4, <2>5, OneDayChanged
<1> QED
  BY <1>1, <1>2 DEF Write

(* A day is closed together with its snapshot. *)
LEMMA EndDayPreserves ==
    ASSUME DayInv, Current # NoDay, EndDay
    PROVE  DayInv'
<1>1. Current \in DayId /\ days[Current].status = "open"
  BY CurrentIsOpen DEF Open
<1>2. /\ DOMAIN days' = DayId /\ DOMAIN closings' = DayId /\ books' = books
      /\ \A e \in DayId : e # Current => days'[e] = days[e] /\ closings'[e] = closings[e]
      /\ closings'[Current] = {books[Current]}
  BY <1>1 DEF DayInv, DayShape, EndDay
<1>3. /\ days'[Current].status = "closed"
      /\ DOMAIN days'[Current] = {"status", "date", "rev"}
  BY <1>1 DEF DayInv, DayShape, EndDay
<1>4. DayShape'
  BY <1>1, <1>2, <1>3 DEF DayInv, DayShape
<1>5. OneOpenDay'
  BY <1>2, <1>3 DEF DayInv, OneOpenDay, Open
<1>6. ClosedDayFixed'
  BY <1>2 DEF DayInv, ClosedDayFixed
<1> QED
  BY <1>4, <1>5, <1>6 DEF DayInv

LEMMA DaysUnchanged ==
    ASSUME DayInv, UNCHANGED <<days, books, closings>>
    PROVE  DayInv'
BY DEF DayInv, DayShape, OneOpenDay, ClosedDayFixed, Open

LEMMA ServePreserves ==
    ASSUME DayInv, NEW request, Serve(request)
    PROVE  DayInv'
<1> DEFINE cmd == Dated(request)
<1>1. CASE Recall(cmd)
  BY <1>1, DaysUnchanged DEF Recall, store
<1>2. CASE Refuse(cmd)
  BY <1>2, DaysUnchanged DEF Refuse, Rollback, store
<1>3. CASE Accept(cmd)
  <2>1. Refusal(cmd, cmd.date) = "none" /\ Perform(cmd, cmd.date)
    BY <1>3 DEF Accept
  <2>2. CASE cmd.kind = "close"
    <3>1. EndDay
      BY <2>1, <2>2 DEF Perform
    <3>2. CloseRefusal(cmd) = "none"
      BY <2>1, <2>2 DEF Refusal
    <3>3. Current # NoDay
      BY <3>2 DEF CloseRefusal
    <3> QED
      BY <3>1, <3>3, EndDayPreserves
  <2>3. CASE cmd.kind # "close"
    BY <2>1, <2>3, WritePreserves DEF Perform
  <2> QED
    BY <2>2, <2>3
<1> QED
  BY <1>1, <1>2, <1>3 DEF Serve

LEMMA MoveSlipPreserves ==
    ASSUME DayInv, NEW d \in DayId, NEW s \in Slip, MoveSlip(d, s)
    PROVE  DayInv'
<1>1. /\ DOMAIN days' = DayId /\ DOMAIN books' = DayId
      /\ \A e \in DayId : e # d => days'[e] = days[e] /\ books'[e] = books[e]
  BY DEF MoveSlip, DayInv, DayShape
<1>2. days'[d].status = days[d].status /\ DOMAIN days'[d] = {"status", "date", "rev"}
  BY DEF MoveSlip, DayInv, DayShape
<1>3. days[d].status # "closed" /\ UNCHANGED closings
  BY DEF MoveSlip, RowsOpen
<1>4. days[d].status = "open" => \A e \in DayId : Open(e) => e = d
  BY DEF DayInv, OneOpenDay, Open
<1> QED
  BY <1>1, <1>2, <1>3, <1>4, OneDayChanged

LEMMA DayStep == DayInv /\ [DayNext]_dayVars => DayInv'
<1> SUFFICES ASSUME DayInv, [DayNext]_dayVars PROVE DayInv'
  OBVIOUS
<1>1. ASSUME NEW page \in Page, PageStep(page) PROVE DayInv'
  <2>1. UNCHANGED store
    BY <1>1 DEF PageStep, MakeAttendance, MakeDelivery, MakeBacks, MakeClose, Make, Resend, Reload
  <2> QED
    BY <2>1, DaysUnchanged DEF store
<1>2. ASSUME NEW request \in sent, Serve(request) PROVE DayInv'
  BY <1>2, ServePreserves
<1>3. ASSUME NEW s \in Slip, CreateSlip(s) PROVE DayInv'
  BY <1>3, WritePreserves DEF CreateSlip
<1>4. ASSUME NEW d \in DayId, NEW s \in Slip, MoveSlip(d, s) PROVE DayInv'
  BY <1>4, MoveSlipPreserves
<1>5. CASE Noon
  BY <1>5, DaysUnchanged DEF Noon
<1>6. CASE UNCHANGED dayVars
  BY <1>6, DaysUnchanged DEF dayVars, store
<1> QED
  BY <1>1, <1>2, <1>3, <1>4, <1>5, <1>6 DEF DayNext

THEOREM DayInvariant == DaySpec => []DayInv
BY DayInitially, DayStep, PTL DEF DaySpec

(* Two business days are never open at the same time, however many pages    *)
(* and slips try to open one.                                               *)
THEOREM DayOpensOnce == DaySpec => []OneOpenDay
<1>1. DayInv => OneOpenDay
  BY DEF DayInv
<1> QED
  BY <1>1, DayInvariant, PTL

(* A closed day keeps the contents that its closing snapshot fixed.         *)
THEOREM ClosedDayKept == DaySpec => []ClosedDayFixed
<1>1. DayInv => ClosedDayFixed
  BY DEF DayInv
<1> QED
  BY <1>1, DayInvariant, PTL

-----------------------------------------------------------------------------
(* What pages, requests and stored answers know of a day, and what the day  *)
(* is: its number, a revision, and the contents at that revision.           *)

Told(view) == [day |-> view.day, rev |-> view.rev, book |-> view.book]
Meant(cmd) == [day |-> cmd.day, rev |-> cmd.rev, book |-> cmd.basis]
Fact(d) == [day |-> d, rev |-> days[d].rev, book |-> books[d]]

Commands == sent \cup UNION {pending[p] : p \in Page}
Kept == UNION {results[o] : o \in 1..MaxOp}
Views == {seen[p] : p \in Page} \cup {kept.view : kept \in Kept}

NoFact == [day |-> NoDay, rev |-> 0, book |-> Blank]

Known == {NoFact} \cup {Told(v) : v \in Views} \cup {Meant(c) : c \in Commands} \cup {Fact(d) : d \in DayId}

(* A command without its date, which the server and a reload may fill in.   *)
Undated(cmd) == [cmd EXCEPT !.date = NoDate]

(* An attendance form that is refused whatever the day looks like.          *)
BadForm(cmd) ==
    /\ cmd.kind = "attendance"
    /\ \/ \E group \in {Cast, Staff} : Listed(cmd, group) # {} /\ Selected(cmd, group) = {}
       \/ \E p \in Person : cmd.form[p] = "early"

(* The whole content was fixed by the page.                                 *)
Fixed(cmd) == cmd.kind \in {"backs", "close"} \/ (cmd.kind = "attendance" /\ cmd.day # NoDay)

(* The day a command was made on has moved on, for good.                    *)
Passed(cmd) == days[cmd.day].status # "open" \/ cmd.rev < days[cmd.day].rev

-----------------------------------------------------------------------------
(* The invariant. *)

DaysInv ==
    \A d \in DayId :
        IF days[d].status = "none" THEN days[d].rev = 0 /\ books[d] = Blank
        ELSE days[d].date # NoDate

KnownOld ==
    \A x \in Known :
        IF x.day = NoDay THEN x.rev = 0 /\ x.book = Blank ELSE x.rev <= days[x.day].rev

KnownAgree == \A x, y \in Known : x.day = y.day /\ x.rev = y.rev => x.book = y.book

ViewsDated ==
    \A v \in Views : v.day # NoDay => days[v.day].status # "none" /\ v.date = days[v.day].date

KnownInv == KnownOld /\ KnownAgree /\ ViewsDated

MadeOnDay(cmd) ==
    /\ cmd.day # NoDay => days[cmd.day].status # "none"
    /\ cmd.kind = "attendance" =>
          /\ Selected(cmd, Person) # {}
          /\ cmd.day # NoDay => cmd.date = days[cmd.day].date
    /\ cmd.kind = "delivery" => cmd.amount \in Amount
    /\ cmd.kind = "backs" => cmd.required # {}
    /\ cmd.kind \in {"backs", "close"} => cmd.day # NoDay /\ cmd.date = NoDate

CommandInv(cmd) == cmd.op < nextOp /\ MadeOnDay(cmd)

OneCommand == \A a, b \in Commands : a.op = b.op => Undated(a) = Undated(b)

CommandsInv == (\A cmd \in Commands : CommandInv(cmd)) /\ OneCommand

(* One operation: what is kept of it, what it did and what was said of it.  *)
AnswerAt(o) ==
    /\ o >= nextOp => answers[o] = {} /\ results[o] = {}
    /\ results[o] = {} => applied[o] = <<>> /\ "confirmed" \notin answers[o]
    /\ \A kept \in results[o] :
          /\ results[o] = {kept}
          /\ kept.status # "error"
          /\ IF kept.status = "confirmed"
             THEN applied[o] = <<kept.command.basis>> /\ answers[o] \subseteq {"confirmed", "conflict"}
             ELSE applied[o] = <<>> /\ "confirmed" \notin answers[o]

AnswerInv == \A o \in 1..MaxOp : AnswerAt(o)

RequestInv(cmd) ==
    /\ results[cmd.op] = {} /\ "validation_error" \in answers[cmd.op] => BadForm(cmd) \/ cmd.kind = "close"
    /\ results[cmd.op] = {} /\ "error" \in answers[cmd.op] => cmd.kind = "close"
    /\ Fixed(cmd) =>
          /\ results[cmd.op] = {} /\ answers[cmd.op] # {} => BadForm(cmd) \/ cmd.kind = "close" \/ Passed(cmd)
          /\ \A kept \in results[cmd.op] :
                kept.command = cmd /\ (kept.status = "confirmed" => answers[cmd.op] = {"confirmed"})

RequestsInv == \A cmd \in Commands : RequestInv(cmd)

Shaped == DOMAIN pending = Page /\ DOMAIN results = 1..MaxOp /\ DOMAIN answers = 1..MaxOp /\ DOMAIN applied = 1..MaxOp

CallsInv ==
    /\ DayTypeOK /\ Shaped /\ DayInv
    /\ DaysInv /\ NoEmptyDay /\ KnownInv /\ CommandsInv /\ AnswerInv /\ RequestsInv

-----------------------------------------------------------------------------
(* Types. *)

LEMMA BlankTyped == Blank \in Book
BY DayAssumption DEF Blank, Book, Row

LEMMA YesterdayTyped == Yesterday \in Book
<1> DEFINE amount == CHOOSE a \in Amount : TRUE
<1>1. amount \in Amount
  BY DayAssumption
<1>2. Yesterday = [Blank EXCEPT !.delivery = amount, !.slips = [s \in Slip |-> "settled"]]
  BY DEF Yesterday
<1> HIDE DEF amount
<1> QED
  BY <1>1, <1>2, BlankTyped DEF Book

LEMMA CommandFields ==
    ASSUME NEW cmd \in Command
    PROVE  /\ cmd.op \in 1..MaxOp /\ cmd.page \in Page
           /\ cmd.kind \in {"attendance", "delivery", "backs", "close"}
           /\ cmd.day \in {NoDay} \cup DayId /\ cmd.rev \in 0..MaxRevision /\ cmd.date \in 0..MaxDate
           /\ cmd.form \in [Person -> Entry] /\ cmd.amount \in Amount \cup {NotEntered}
           /\ cmd.required \subseteq Cast /\ cmd.optional \subseteq Cast /\ cmd.remove \subseteq Cast
           /\ cmd.basis \in Book
BY DEF Command

(* A command with another date is the same command otherwise.              *)
LEMMA Redated ==
    ASSUME NEW cmd \in Command, NEW date \in 0..MaxDate
    PROVE  LET again == [cmd EXCEPT !.date = date]
           IN  /\ again \in Command
               /\ again.op = cmd.op /\ again.page = cmd.page /\ again.kind = cmd.kind
               /\ again.day = cmd.day /\ again.rev = cmd.rev /\ again.date = date
               /\ again.form = cmd.form /\ again.amount = cmd.amount
               /\ again.required = cmd.required /\ again.optional = cmd.optional
               /\ again.remove = cmd.remove /\ again.basis = cmd.basis
               /\ Undated(again) = Undated(cmd)
<1> DEFINE again == [cmd EXCEPT !.date = date]
<1>1. again \in Command
  BY DEF Command
<1>2. Undated(again) = Undated(cmd)
  BY DEF Undated, Command
<1> QED
  BY <1>1, <1>2 DEF Command

LEMMA UndatedFields ==
    ASSUME NEW a \in Command, NEW b \in Command, Undated(a) = Undated(b)
    PROVE  /\ a.op = b.op /\ a.kind = b.kind /\ a.day = b.day /\ a.rev = b.rev
           /\ a.form = b.form /\ a.basis = b.basis
           /\ a.date = b.date => a = b
<1>1. NoDate \in 0..MaxDate
  BY DayAssumption DEF NoDate
<1>2. ASSUME NEW c \in Command
      PROVE  /\ Undated(c).op = c.op /\ Undated(c).kind = c.kind /\ Undated(c).day = c.day
             /\ Undated(c).rev = c.rev /\ Undated(c).form = c.form /\ Undated(c).basis = c.basis
  BY <1>1, Redated DEF Undated
<1>3. a = [Undated(a) EXCEPT !.date = a.date] /\ b = [Undated(b) EXCEPT !.date = b.date]
  BY DEF Undated, Command
<1>4. /\ Undated(a).op = a.op /\ Undated(a).kind = a.kind /\ Undated(a).day = a.day
      /\ Undated(a).rev = a.rev /\ Undated(a).form = a.form /\ Undated(a).basis = a.basis
  BY <1>2
<1>5. /\ Undated(b).op = b.op /\ Undated(b).kind = b.kind /\ Undated(b).day = b.day
      /\ Undated(b).rev = b.rev /\ Undated(b).form = b.form /\ Undated(b).basis = b.basis
  BY <1>2
<1>6. a.date = b.date => a = b
  BY <1>3
<1> QED
  BY <1>4, <1>5, <1>6

DayRecord == [status : {"none", "open", "closed"}, date : 0..MaxDate, rev : 0..MaxRevision]

StoreTyped == days \in [DayId -> DayRecord] /\ books \in [DayId -> Book]

LEMMA SnapshotShown == StoreTyped => Snapshot \in View
<1> SUFFICES ASSUME StoreTyped PROVE Snapshot \in View
  OBVIOUS
<1>1. CASE Current = NoDay
  BY <1>1, BlankTyped, DayAssumption DEF Snapshot, View, NoDate
<1>2. CASE Current # NoDay
  <2>1. Current \in DayId
    BY <1>2, CurrentIsOpen
  <2>2. days[Current].rev \in 0..MaxRevision /\ days[Current].date \in 0..MaxDate /\ books[Current] \in Book
    BY <2>1 DEF StoreTyped, DayRecord
  <2> QED
    BY <1>2, <2>1, <2>2 DEF Snapshot, View
<1> QED
  BY <1>1, <1>2

LEMMA SnapshotTyped ==
    ASSUME DayTypeOK
    PROVE  /\ Snapshot \in View
           /\ Snapshot.day = Current
           /\ Current = NoDay => Snapshot.rev = 0 /\ Snapshot.book = Blank
           /\ Current # NoDay => Snapshot.rev = days[Current].rev /\ Snapshot.book = books[Current]
                                 /\ Snapshot.date = days[Current].date
<1>1. Snapshot \in View
  BY SnapshotShown DEF StoreTyped, DayRecord, DayTypeOK
<1> QED
  BY <1>1 DEF Snapshot

LEMMA EditedTyped ==
    ASSUME DayTypeOK, NEW cmd \in Command, Snapshot.rev < MaxRevision, cmd.kind # "close"
    PROVE  Edited(cmd) \in Book
<1> DEFINE book == Snapshot.book
<1>1. book \in Book /\ Snapshot.rev \in 0..MaxRevision
  BY SnapshotTyped DEF View
<1>2. CASE cmd.kind = "attendance"
  <2> DEFINE rows == [p \in Person |-> SavedRow(book.rows[p], cmd.form[p], Snapshot.rev + 1)]
  <2>1. ASSUME NEW p \in Person PROVE SavedRow(book.rows[p], cmd.form[p], Snapshot.rev + 1) \in Row
    <3>1. book.rows[p] \in Row /\ Snapshot.rev + 1 \in 0..MaxRevision
      BY <1>1, DayAssumption DEF Book
    <3> DEFINE row == book.rows[p]
               entry == cmd.form[p]
               version == Snapshot.rev + 1
    <3> HIDE DEF row, entry, version
    <3>2. row \in Row /\ version \in 0..MaxRevision
      BY <3>1 DEF row, version
    <3>3. SavedRow(row, entry, version) \in Row
      BY <3>2 DEF SavedRow, ClockedOut, Row
    <3> QED
      BY <3>3 DEF row, entry, version
  <2>2. Edited(cmd) = [book EXCEPT !.rows = rows]
    BY <1>2 DEF Edited
  <2> HIDE DEF book
  <2> QED
    BY <1>1, <2>1, <2>2 DEF Book
<1>3. CASE cmd.kind = "delivery"
  BY <1>1, <1>3, CommandFields DEF Edited, Book
<1>4. CASE cmd.kind = "backs"
  <2>1. Edited(cmd) = [book EXCEPT !.backs = (@ \cup cmd.required \cup cmd.optional) \ cmd.remove]
    BY <1>4 DEF Edited
  <2>2. cmd.required \subseteq Cast /\ cmd.optional \subseteq Cast
    BY CommandFields
  <2> HIDE DEF book
  <2> QED
    BY <1>1, <2>1, <2>2 DEF Book
<1> QED
  BY <1>2, <1>3, <1>4, CommandFields
-----------------------------------------------------------------------------
(* A change of a day: the open one, or the one that the change opens. *)

Change(d, book) ==
    /\ d \in DayId /\ days[d].rev < MaxRevision
    /\ books' = [books EXCEPT ![d] = book]
    /\ UNCHANGED <<today, closings>>
    /\ \E date \in 1..MaxDate :
          /\ IF Current = NoDay THEN days[d].status = "none" ELSE d = Current /\ date = days[d].date
          /\ days' = [days EXCEPT ![d] = [status |-> "open", date |-> date, rev |-> days[d].rev + 1]]

(* What any step may do to the days. *)
Grows ==
    \A d \in DayId :
        /\ days[d].status # "none" => days'[d].status # "none" /\ days'[d].date = days[d].date
        /\ days[d].status = "closed" => days'[d].status = "closed"
        /\ days[d].rev <= days'[d].rev
        /\ Fact(d)' = Fact(d) \/ days[d].rev < days'[d].rev

LEMMA WriteChanges ==
    ASSUME DayTypeOK, DaysInv, NEW date, Current = NoDay => date \in 1..MaxDate,
           NEW book, Write(date, book)
    PROVE  \E d : Change(d, book)
<1>1. CASE /\ Current # NoDay
           /\ days[Current].rev < MaxRevision
           /\ days' = [days EXCEPT ![Current].rev = @ + 1]
           /\ books' = [books EXCEPT ![Current] = book]
           /\ UNCHANGED <<today, closings>>
  <2>1. Current \in DayId /\ days[Current].status = "open"
    BY <1>1, CurrentIsOpen DEF Open
  <2>2. days[Current] \in [status : {"none", "open", "closed"}, date : 0..MaxDate, rev : 0..MaxRevision]
    BY <2>1 DEF DayTypeOK
  <2>3. days[Current].date \in 1..MaxDate
    BY <2>1, <2>2, DayAssumption DEF DaysInv, NoDate
  <2>4. [days[Current] EXCEPT !.rev = @ + 1] = [status |-> "open", date |-> days[Current].date, rev |-> days[Current].rev + 1]
    BY <2>1, <2>2
  <2>5. days' = [days EXCEPT ![Current] = [status |-> "open", date |-> days[Current].date, rev |-> days[Current].rev + 1]]
    BY <1>1, <2>4
  <2> QED
    BY <1>1, <2>1, <2>3, <2>5 DEF Change
<1>2. ASSUME Current = NoDay, NEW d \in Unused,
             days' = [days EXCEPT ![d] = [status |-> "open", date |-> date, rev |-> 1]],
             books' = [books EXCEPT ![d] = book],
             UNCHANGED <<today, closings>>
      PROVE  Change(d, book)
  <2>1. d \in DayId /\ days[d].status = "none" /\ days[d].rev = 0
    BY <1>2 DEF Unused, DaysInv
  <2>2. 0 < MaxRevision /\ 1 = days[d].rev + 1
    BY <2>1, DayAssumption
  <2> QED
    BY <1>2, <2>1, <2>2 DEF Change
<1> QED
  BY <1>1, <1>2 DEF Write, MayOpen

LEMMA ChangeDone ==
    ASSUME DayTypeOK, DayInv, DaysInv, DayInv', NEW d, NEW book \in Book, Change(d, book)
    PROVE  /\ days' \in [DayId -> [status : {"none", "open", "closed"}, date : 0..MaxDate,
                                   rev : 0..MaxRevision]]
           /\ books' \in [DayId -> Book] /\ UNCHANGED <<today, closings>>
           /\ DaysInv' /\ Grows
           /\ Current' = d /\ d \in DayId /\ Snapshot.rev = days[d].rev /\ Snapshot.book = books[d]
           /\ days'[d].rev = days[d].rev + 1 /\ days'[d].status = "open" /\ books'[d] = book
           /\ \A e \in DayId : e # d => days'[e] = days[e] /\ books'[e] = books[e]
           /\ Current = NoDay \/ Current = d
<1>1. PICK date \in 1..MaxDate :
          /\ IF Current = NoDay THEN days[d].status = "none" ELSE d = Current /\ date = days[d].date
          /\ days' = [days EXCEPT ![d] = [status |-> "open", date |-> date, rev |-> days[d].rev + 1]]
  BY DEF Change
<1>2. /\ d \in DayId /\ days[d].rev < MaxRevision
      /\ books' = [books EXCEPT ![d] = book] /\ UNCHANGED <<today, closings>>
  BY DEF Change
<1>3. /\ days \in [DayId -> [status : {"none", "open", "closed"}, date : 0..MaxDate, rev : 0..MaxRevision]]
      /\ books \in [DayId -> Book]
  BY DEF DayTypeOK
<1>4. /\ days[d].rev \in 0..MaxRevision
      /\ days'[d] = [status |-> "open", date |-> date, rev |-> days[d].rev + 1]
      /\ books'[d] = book
      /\ \A e \in DayId : e # d => days'[e] = days[e] /\ books'[e] = books[e]
  BY <1>1, <1>2, <1>3
<1>5. [status |-> "open", date |-> date, rev |-> days[d].rev + 1]
        \in [status : {"none", "open", "closed"}, date : 0..MaxDate, rev : 0..MaxRevision]
  BY <1>2, <1>4, DayAssumption
<1>6. /\ days' \in [DayId -> [status : {"none", "open", "closed"}, date : 0..MaxDate, rev : 0..MaxRevision]]
      /\ books' \in [DayId -> Book]
  BY <1>1, <1>2, <1>3, <1>5
<1>7. DaysInv'
  BY <1>4 DEF DaysInv, NoDate
<1>8. days[d].status = "none" \/ (days[d].status = "open" /\ date = days[d].date)
  BY <1>1, CurrentIsOpen DEF Open
<1>9. Grows
  <2> SUFFICES ASSUME NEW e \in DayId
               PROVE  /\ days[e].status # "none" => days'[e].status # "none" /\ days'[e].date = days[e].date
                      /\ days[e].status = "closed" => days'[e].status = "closed"
                      /\ days[e].rev <= days'[e].rev
                      /\ Fact(e)' = Fact(e) \/ days[e].rev < days'[e].rev
    BY DEF Grows
  <2>1. days[e].rev \in Nat
    BY <1>3
  <2>2. CASE e = d
    BY <1>4, <1>8, <2>1, <2>2
  <2>3. CASE e # d
    BY <1>4, <2>1, <2>3 DEF Fact
  <2> QED
    BY <2>2, <2>3
<1>10. Current' = d
  <2>1. (\E e \in DayId : Open(e))'
    BY <1>2, <1>4 DEF Open
  <2>2. \A e \in DayId : days'[e].status = "open" => e = d
    BY <1>2, <1>4 DEF DayInv, OneOpenDay, Open
  <2>3. Current' = CHOOSE e \in DayId : days'[e].status = "open"
    BY <2>1 DEF Current, Open
  <2> QED
    BY <1>2, <1>4, <2>2, <2>3
<1>11. Snapshot.rev = days[d].rev /\ Snapshot.book = books[d]
  BY <1>1, <1>2, SnapshotTyped DEF DaysInv
<1>12. Current = NoDay \/ Current = d
  BY <1>1
<1> HIDE DEF Grows, Change
<1> QED
  BY <1>2, <1>4, <1>6, <1>7, <1>9, <1>10, <1>11, <1>12

LEMMA StillGrows ==
    ASSUME DayTypeOK, UNCHANGED <<days, books>>
    PROVE  Grows /\ (DaysInv => DaysInv') /\ (NoEmptyDay => NoEmptyDay')
           /\ Current' = Current /\ Snapshot' = Snapshot
BY DEF DayTypeOK, Grows, Fact, DaysInv, NoEmptyDay, Open, Current, Snapshot

LEMMA FilledDay ==
    ASSUME DayTypeOK, DayInv, DaysInv, DayInv', NoEmptyDay, NEW d, NEW book \in Book, book # Blank, Change(d, book)
    PROVE  NoEmptyDay'
<1>1. /\ books'[d] = book
      /\ \A e \in DayId : e # d => days'[e] = days[e] /\ books'[e] = books[e]
  BY ChangeDone
<1> QED
  BY <1>1 DEF NoEmptyDay, Open

-----------------------------------------------------------------------------
(* What is known of the days. *)

LEMMA Sources ==
    ASSUME DayTypeOK, Shaped
    PROVE  /\ Commands \subseteq Command /\ Views \subseteq View
           /\ \A o \in 1..MaxOp : \A kept \in results[o] : kept.view \in Views /\ kept \in Result
           /\ \A p \in Page : seen[p] \in Views
           /\ \A p \in Page : pending[p] \subseteq Commands
           /\ sent \subseteq Commands
<1>1. \A kept \in Kept : kept \in Result
  BY DEF Kept, DayTypeOK
<1>2. \A kept \in Kept : kept.view \in View
  BY <1>1 DEF Result
<1> QED
  BY <1>1, <1>2 DEF DayTypeOK, Commands, Views, Kept

LEMMA KnownTyped ==
    ASSUME DayTypeOK, Shaped, NEW x \in Known
    PROVE  x.day \in {NoDay} \cup DayId /\ x.rev \in 0..MaxRevision
<1>1. CASE x = NoFact
  BY <1>1, DayAssumption DEF NoFact
<1>2. CASE \E v \in Views : x = Told(v)
  BY <1>2, Sources DEF Told, View
<1>3. CASE \E c \in Commands : x = Meant(c)
  BY <1>3, Sources, CommandFields DEF Meant
<1>4. CASE \E d \in DayId : x = Fact(d)
  BY <1>4 DEF Fact, DayTypeOK
<1> QED
  BY <1>1, <1>2, <1>3, <1>4 DEF Known

LEMMA SnapshotKnown ==
    ASSUME DayTypeOK
    PROVE  Told(Snapshot) \in {NoFact} \cup {Fact(d) : d \in DayId}
<1>1. CASE Current = NoDay
  BY <1>1, SnapshotTyped DEF Told, NoFact
<1>2. CASE Current # NoDay
  BY <1>2, SnapshotTyped, CurrentIsOpen DEF Told, Fact
<1> QED
  BY <1>1, <1>2

(* The same of what is shown after a step. *)
LEMMA SnapshotNext ==
    DayTypeOK' =>
        /\ Told(Snapshot') \in {NoFact} \cup {Fact(d)' : d \in DayId}
        /\ Snapshot'.day # NoDay =>
              /\ Snapshot'.date = days'[Snapshot'.day].date
              /\ days'[Snapshot'.day].status # "none"
<1>1. DayTypeOK =>
          /\ Told(Snapshot) \in {NoFact} \cup {Fact(d) : d \in DayId}
          /\ Snapshot.day # NoDay =>
                /\ Snapshot.date = days[Snapshot.day].date
                /\ days[Snapshot.day].status # "none"
  BY SnapshotKnown, SnapshotTyped, CurrentIsOpen DEF Open
<1>2. (DayTypeOK =>
          /\ Told(Snapshot) \in {NoFact} \cup {Fact(d) : d \in DayId}
          /\ Snapshot.day # NoDay =>
                /\ Snapshot.date = days[Snapshot.day].date
                /\ days[Snapshot.day].status # "none")'
  BY <1>1, PTL
<1> QED
  BY <1>2 DEF NoFact, Blank, Told

LEMMA ShownNext == StoreTyped' => Snapshot' \in View
<1>1. (StoreTyped => Snapshot \in View)'
  BY SnapshotShown, PTL
<1> QED
  BY <1>1 DEF View, Book, Row, NoDay, DayId, Person

LEMMA FactsAgree ==
    ASSUME DayTypeOK, DayTypeOK', Shaped, KnownOld, KnownAgree, Grows,
           NEW x \in Known \cup {Fact(d)' : d \in DayId},
           NEW y \in Known \cup {Fact(d)' : d \in DayId}
    PROVE  /\ IF x.day = NoDay THEN x.rev = 0 /\ x.book = Blank ELSE x.rev <= days'[x.day].rev
           /\ x.day = y.day /\ x.rev = y.rev => x.book = y.book
<1>1. \A d \in DayId : /\ d # NoDay /\ days[d].rev \in Nat /\ days'[d].rev \in Nat
                       /\ Fact(d)'.day = d /\ Fact(d)'.rev = days'[d].rev
                       /\ Fact(d) \in Known
  <2> SUFFICES ASSUME NEW d \in DayId
               PROVE  /\ d # NoDay /\ days[d].rev \in Nat /\ days'[d].rev \in Nat
                      /\ Fact(d)'.day = d /\ Fact(d)'.rev = days'[d].rev
                      /\ Fact(d) \in Known
    OBVIOUS
  <2>1. d # NoDay
    BY DayAssumption DEF NoDay, DayId
  <2>2. days[d].rev \in 0..MaxRevision /\ days'[d].rev \in 0..MaxRevision
    BY DEF DayTypeOK
  <2> QED
    BY <2>1, <2>2, DayAssumption DEF Fact, Known
<1>2. ASSUME NEW a \in Known, NEW d \in DayId, a.day = d, a.rev = days'[d].rev
      PROVE  a.book = Fact(d)'.book
  <2>1. a.rev \in Nat /\ a.rev <= days[d].rev
    BY <1>1, <1>2, KnownTyped DEF KnownOld
  <2>2. Fact(d)' = Fact(d)
    BY <1>1, <1>2, <2>1 DEF Grows
  <2>3. Fact(d) \in Known /\ Fact(d).day = d /\ Fact(d).rev = days[d].rev /\ Fact(d)'.rev = days'[d].rev
    BY <1>1 DEF Fact
  <2> QED
    BY <1>2, <2>2, <2>3 DEF KnownAgree
<1>3. x.day = y.day /\ x.rev = y.rev => x.book = y.book
  <2>1. CASE x \in Known /\ y \in Known
    BY <2>1 DEF KnownAgree
  <2>2. CASE x \in Known /\ \E d \in DayId : y = Fact(d)'
    BY <2>2, <1>1, <1>2
  <2>3. CASE y \in Known /\ \E d \in DayId : x = Fact(d)'
    BY <2>3, <1>1, <1>2
  <2>4. CASE (\E d \in DayId : x = Fact(d)') /\ (\E d \in DayId : y = Fact(d)')
    BY <2>4, <1>1
  <2> QED
    BY <2>1, <2>2, <2>3, <2>4
<1>4. IF x.day = NoDay THEN x.rev = 0 /\ x.book = Blank ELSE x.rev <= days'[x.day].rev
  <2>1. CASE x \in Known
    <3>1. x.day # NoDay => x.day \in DayId /\ x.rev \in Nat
      BY <2>1, KnownTyped
    <3> QED
      BY <1>1, <2>1, <3>1 DEF KnownOld, Grows
  <2>2. CASE \E d \in DayId : x = Fact(d)'
    BY <2>2, <1>1
  <2> QED
    BY <2>1, <2>2
<1> QED
  BY <1>3, <1>4

LEMMA KnownStep ==
    ASSUME DayTypeOK, DayTypeOK', Shaped, KnownInv, Grows,
           Views' \subseteq Views \cup {Snapshot, Snapshot'},
           \A c \in Commands' : Meant(c) \in Known
    PROVE  KnownInv'
<1> DEFINE Now == Known \cup {Fact(d)' : d \in DayId}
<1>1. Told(Snapshot) \in Known
  BY SnapshotKnown DEF Known
<1>2. Told(Snapshot') \in Now
  <2> QED
    BY SnapshotNext DEF Known
<1>3. Known' \subseteq Now
  <2>1. \A v \in Views' : Told(v) \in Now
    BY <1>1, <1>2 DEF Known
  <2> QED
    BY <2>1 DEF Known, NoFact, Blank, Told, Meant
<1>4. KnownOld' /\ KnownAgree'
  <2> HIDE DEF Now
  <2>1. \A x, y \in Now : /\ IF x.day = NoDay THEN x.rev = 0 /\ x.book = Blank ELSE x.rev <= days'[x.day].rev
                          /\ x.day = y.day /\ x.rev = y.rev => x.book = y.book
    BY FactsAgree DEF Now, KnownInv
  <2> QED
    BY <1>3, <2>1 DEF KnownOld, KnownAgree, Blank
<1>5. ViewsDated'
  <2> SUFFICES ASSUME NEW v \in Views', v.day # NoDay
               PROVE  days'[v.day].status # "none" /\ v.date = days'[v.day].date
    BY DEF ViewsDated
  <2>1. CASE v \in Views
    <3>1. v.day \in DayId
      BY <2>1, Sources DEF View
    <3> QED
      BY <2>1, <3>1 DEF KnownInv, ViewsDated, Grows
  <2>2. CASE v = Snapshot
    <3>1. v.day = Current /\ v.date = days[Current].date
      BY <2>2, SnapshotTyped
    <3>2. Current \in DayId /\ days[Current].status = "open"
      BY <3>1, CurrentIsOpen DEF Open
    <3> QED
      BY <3>1, <3>2 DEF Grows
  <2>3. CASE v = Snapshot'
    BY <2>3, SnapshotNext
  <2> QED
    BY <2>1, <2>2, <2>3
<1> QED
  BY <1>4, <1>5 DEF KnownInv

-----------------------------------------------------------------------------
(* The commands and what they were answered, while the days grow. *)

LEMMA PassedStays ==
    ASSUME DayTypeOK, DayTypeOK', Grows, NEW cmd \in Command, cmd.day # NoDay,
           days[cmd.day].status # "none", Passed(cmd)
    PROVE  Passed(cmd)'
<1>1. cmd.day \in DayId /\ cmd.rev \in Nat
  BY CommandFields
<1>2. days[cmd.day].status \in {"none", "open", "closed"} /\ days[cmd.day].rev \in Nat
  BY <1>1 DEF DayTypeOK
<1>3. CASE days[cmd.day].status # "open"
  BY <1>1, <1>2, <1>3 DEF Passed, Grows
<1>4. CASE cmd.rev < days[cmd.day].rev
  <2>1. days[cmd.day].rev <= days'[cmd.day].rev /\ days'[cmd.day].rev \in 0..MaxRevision
    BY <1>1 DEF Grows, DayTypeOK
  <2>2. days'[cmd.day].rev \in Nat /\ cmd.rev < days'[cmd.day].rev
    BY <1>1, <1>2, <1>4, <2>1
  <2> QED
    BY <2>2 DEF Passed
<1> QED
  BY <1>3, <1>4 DEF Passed

LEMMA FixedHasDay ==
    ASSUME CommandsInv, NEW cmd \in Commands, Fixed(cmd)
    PROVE  cmd.day # NoDay /\ days[cmd.day].status # "none"
BY DEF CommandsInv, CommandInv, MadeOnDay, Fixed

LEMMA CommandStays ==
    ASSUME DayTypeOK, DayTypeOK', Grows, NEW cmd \in Command, CommandInv(cmd), nextOp <= nextOp'
    PROVE  CommandInv(cmd)'
<1>1. cmd.op \in Nat /\ cmd.day \in {NoDay} \cup DayId
  BY CommandFields
<1>2. nextOp \in Nat /\ nextOp' \in Nat
  BY DEF DayTypeOK
<1>3. cmd.op < nextOp'
  BY <1>1, <1>2 DEF CommandInv, MadeOnDay
<1> QED
  BY <1>1, <1>3 DEF CommandInv, MadeOnDay, Grows, Selected, Listed

LEMMA CommandsStay ==
    ASSUME DayTypeOK, DayTypeOK', Shaped, CommandsInv, Grows, nextOp <= nextOp',
           Commands' \subseteq Commands
    PROVE  CommandsInv'
<1>1. \A cmd \in Commands' : CommandInv(cmd)'
  BY CommandStays, Sources DEF CommandsInv
<1>2. OneCommand'
  BY DEF CommandsInv, OneCommand, Undated, NoDate
<1> QED
  BY <1>1, <1>2 DEF CommandsInv

LEMMA RequestStays ==
    ASSUME DayTypeOK, DayTypeOK', Shaped, CommandsInv, Grows, NEW cmd \in Commands, RequestInv(cmd),
           results'[cmd.op] = results[cmd.op], answers'[cmd.op] = answers[cmd.op]
    PROVE  RequestInv(cmd)'
<1>1. Fixed(cmd) /\ Passed(cmd) => Passed(cmd)'
  BY PassedStays, FixedHasDay, Sources
<1>2. BadForm(cmd)' = BadForm(cmd) /\ Fixed(cmd)' = Fixed(cmd)
  BY DEF BadForm, Fixed, Listed, Selected
<1> QED
  BY <1>1, <1>2 DEF RequestInv

(* The page fixed the content of these commands: there is one of an operation. *)
LEMMA FixedUnique ==
    ASSUME DayTypeOK, Shaped, CommandsInv, NEW a \in Commands, NEW b \in Commands,
           a.op = b.op, Fixed(a)
    PROVE  a = b
<1>1. a \in Command /\ b \in Command
  BY Sources
<1>2. Undated(a) = Undated(b)
  BY DEF CommandsInv, OneCommand
<1>3. a.kind = b.kind /\ a.day = b.day
  BY <1>1, <1>2, UndatedFields
<1>4. CommandInv(a) /\ CommandInv(b)
  BY DEF CommandsInv
<1>5. a.date = b.date
  BY <1>3, <1>4 DEF CommandInv, MadeOnDay, Fixed
<1> QED
  BY <1>1, <1>2, <1>5, UndatedFields

(* What the web server makes of a request. *)
LEMMA DatedRequest ==
    ASSUME DayTypeOK, Shaped, DaysInv, CommandsInv, NEW request \in Commands
    PROVE  LET cmd == Dated(request)
           IN  /\ cmd \in Command
               /\ cmd.op = request.op /\ cmd.page = request.page /\ cmd.kind = request.kind
               /\ cmd.day = request.day /\ cmd.rev = request.rev /\ cmd.form = request.form
               /\ cmd.amount = request.amount /\ cmd.required = request.required
               /\ cmd.basis = request.basis
               /\ cmd.kind \in {"attendance", "delivery"} => cmd.date \in 1..MaxDate
               /\ Fixed(request) => cmd = request
<1>1. request \in Command /\ CommandInv(request)
  BY Sources DEF CommandsInv
<1>2. today \in 0..MaxDate /\ today \in 1..MaxDate /\ request.date \in 0..MaxDate
  BY <1>1, CommandFields DEF DayTypeOK
<1>3. Fixed(request) => request.kind # "delivery" /\ (request.kind = "attendance" => request.date # NoDate)
  <2>1. request.day # NoDay => request.day \in DayId
    BY <1>1, CommandFields
  <2> QED
    BY <1>1, <2>1 DEF Fixed, CommandInv, MadeOnDay, DaysInv
<1>4. CASE request.kind = "delivery" \/ (request.kind = "attendance" /\ request.date = NoDate)
  BY <1>1, <1>2, <1>3, <1>4, Redated DEF Dated
<1>5. CASE ~ (request.kind = "delivery" \/ (request.kind = "attendance" /\ request.date = NoDate))
  BY <1>1, <1>2, <1>5 DEF Dated, NoDate
<1> QED
  BY <1>4, <1>5

-----------------------------------------------------------------------------
(* Why a request is refused, and what it finds when it is not. *)

(* All that a call needs of the invariant. *)
Settled == DayTypeOK /\ Shaped /\ DayInv /\ DaysInv /\ KnownInv /\ CommandsInv

LEMMA OnCurrent ==
    ASSUME Settled, NEW request \in Commands, NEW cmd, cmd = Dated(request), ~ Outdated(cmd)
    PROVE  /\ Snapshot.book = cmd.basis
           /\ cmd.day = Current
           /\ cmd.day # NoDay => ~ Passed(cmd)
<1>1. DayTypeOK /\ Shaped /\ DaysInv /\ CommandsInv /\ KnownAgree
  BY DEF Settled, KnownInv
<1>2. Meant(cmd) = Meant(request)
  BY <1>1, DatedRequest DEF Meant
<1>3. Meant(cmd) \in Known /\ Told(Snapshot) \in Known
  BY <1>1, <1>2, SnapshotKnown DEF Known
<1>4. cmd.day = Snapshot.day /\ cmd.rev = Snapshot.rev
  BY DEF Outdated
<1>5. Snapshot.book = cmd.basis
  <2>1. /\ Meant(cmd).day = cmd.day /\ Meant(cmd).rev = cmd.rev /\ Meant(cmd).book = cmd.basis
        /\ Told(Snapshot).day = Snapshot.day /\ Told(Snapshot).rev = Snapshot.rev
        /\ Told(Snapshot).book = Snapshot.book
    BY DEF Meant, Told
  <2> QED
    BY <1>1, <1>3, <1>4, <2>1 DEF KnownAgree
<1>6. cmd.day = Current
  BY <1>1, <1>4, SnapshotTyped
<1>7. cmd.day # NoDay => ~ Passed(cmd)
  <2> SUFFICES ASSUME cmd.day # NoDay PROVE ~ Passed(cmd)
    OBVIOUS
  <2>1. Current \in DayId /\ days[Current].status = "open" /\ cmd.rev = days[Current].rev
    BY <1>1, <1>4, <1>6, SnapshotTyped, CurrentIsOpen DEF Open
  <2>2. days[Current].rev \in Nat
    BY <1>1, <2>1 DEF DayTypeOK
  <2> QED
    BY <1>6, <2>1, <2>2 DEF Passed
<1> QED
  BY <1>5, <1>6, <1>7

LEMMA OutdatedPassed ==
    ASSUME Settled, NEW cmd \in Commands, Fixed(cmd), Outdated(cmd)
    PROVE  Passed(cmd)
<1>1. DayTypeOK /\ Shaped /\ CommandsInv /\ KnownOld /\ DayInv
  BY DEF Settled, KnownInv
<1>2. cmd.day # NoDay /\ cmd.day \in DayId /\ cmd.rev \in Nat
  BY <1>1, FixedHasDay, Sources, CommandFields
<1>3. cmd.rev <= days[cmd.day].rev /\ days[cmd.day].rev \in Nat
  <2>1. Meant(cmd) \in Known /\ Meant(cmd).day = cmd.day /\ Meant(cmd).rev = cmd.rev
    BY DEF Known, Meant
  <2>2. days[cmd.day].rev \in Nat
    BY <1>1, <1>2 DEF DayTypeOK
  <2> QED
    BY <1>1, <1>2, <2>1, <2>2 DEF KnownOld
<1>4. CASE cmd.day # Current
  <2>1. ~ Open(cmd.day)
    BY <1>1, <1>2, <1>4, CurrentIsOpen DEF DayInv, OneOpenDay
  <2> QED
    BY <2>1 DEF Open, Passed
<1>5. CASE cmd.day = Current
  <2>1. cmd.rev # days[cmd.day].rev
    BY <1>1, <1>2, <1>5, SnapshotTyped DEF Outdated
  <2> QED
    BY <1>2, <1>3, <2>1 DEF Passed
<1> QED
  BY <1>4, <1>5

(* A close is refused always, an attendance form for what it says or        *)
(* because its day has moved on.                                            *)
LEMMA WhyRefused ==
    ASSUME Settled, NEW request \in Commands, NEW cmd, cmd = Dated(request),
           NEW status, status = Refusal(cmd, cmd.date), status # "none"
    PROVE  /\ status \in {"conflict", "validation_error", "error"}
           /\ status = "error" => cmd.kind = "close"
           /\ cmd.kind = "attendance" /\ status = "validation_error" => BadForm(cmd)
           /\ cmd.kind = "attendance" /\ Fixed(request) /\ status = "conflict" => Passed(request)
<1>1. DayTypeOK /\ Shaped /\ DaysInv /\ CommandsInv
  BY DEF Settled
<1>2. cmd \in Command /\ cmd.kind = request.kind
  BY <1>1, DatedRequest
<1>3. CASE cmd.kind = "attendance"
  <2>1. status = AttendanceRefusal(cmd, cmd.date)
    BY <1>3 DEF Refusal
  <2>2. status \in {"conflict", "validation_error"}
    BY <2>1 DEF AttendanceRefusal
  <2>3. status = "validation_error" => BadForm(cmd)
    BY <1>3, <2>1 DEF AttendanceRefusal, BadForm
  <2>4. ASSUME Fixed(request), status = "conflict" PROVE Passed(request)
    <3>1. cmd = request /\ request.day # NoDay
      BY <1>1, <2>4, DatedRequest, FixedHasDay
    <3>2. CASE Outdated(cmd)
      BY <2>4, <3>1, <3>2, OutdatedPassed
    <3>3. CASE ~ Outdated(cmd)
      <4>1. Snapshot.book = cmd.basis /\ cmd.day = Current
        BY <3>3, OnCurrent
      <4>2. cmd.date = days[Current].date
        BY <1>1, <1>3, <3>1, <4>1 DEF CommandsInv, CommandInv, MadeOnDay
      <4>3. FALSE
        BY <2>1, <2>4, <3>3, <4>1, <4>2 DEF AttendanceRefusal
      <4> QED
        BY <4>3
    <3> QED
      BY <3>2, <3>3
  <2> QED
    BY <1>3, <2>2, <2>3, <2>4
<1>4. CASE cmd.kind = "delivery"
  BY <1>4 DEF Refusal, DeliveryRefusal
<1>5. CASE cmd.kind = "backs"
  BY <1>5 DEF Refusal, BacksRefusal
<1>6. CASE cmd.kind = "close"
  BY <1>6 DEF Refusal, CloseRefusal
<1> QED
  BY <1>2, <1>3, <1>4, <1>5, <1>6, CommandFields

LEMMA NoClose == ASSUME NEW cmd PROVE CloseRefusal(cmd) # "none"
<1>1. ~ RowGuard("closed", "closed", TRUE)
  BY DEF RowGuard
<1>2. 3 \in DOMAIN Updates /\ Updates[3].old = "closed" /\ Updates[3].new = "closed"
  BY DEF Updates
<1>3. \E i \in DOMAIN Updates : ~ RowGuard(Updates[i].old, Updates[i].new, i > 1)
  BY <1>2 DEF RowGuard
<1> QED
  BY <1>3 DEF CloseRefusal

LEMMA WhenAccepted ==
    ASSUME Settled, NEW request \in Commands, NEW cmd, cmd = Dated(request),
           Refusal(cmd, cmd.date) = "none"
    PROVE  /\ cmd.kind # "close" /\ ~ BadForm(cmd) /\ ~ Outdated(cmd)
           /\ Current = NoDay => cmd.date \in 1..MaxDate
<1>1. DayTypeOK /\ Shaped /\ DaysInv /\ CommandsInv
  BY DEF Settled
<1>2. cmd \in Command /\ (cmd.kind \in {"attendance", "delivery"} => cmd.date \in 1..MaxDate)
  BY <1>1, DatedRequest
<1>3. CASE cmd.kind = "attendance"
  BY <1>2, <1>3 DEF Refusal, AttendanceRefusal, BadForm
<1>4. CASE cmd.kind = "delivery"
  BY <1>2, <1>4 DEF Refusal, DeliveryRefusal, BadForm
<1>5. CASE cmd.kind = "backs"
  BY <1>2, <1>5 DEF Refusal, BacksRefusal, BadForm
<1>6. CASE cmd.kind = "close"
  BY <1>6, NoClose DEF Refusal
<1> QED
  BY <1>2, <1>3, <1>4, <1>5, <1>6, CommandFields

(* What a save leaves is never blank. *)
LEMMA SaveFills ==
    ASSUME Settled, NEW request \in Commands, NEW cmd, cmd = Dated(request),
           Refusal(cmd, cmd.date) = "none"
    PROVE  Edited(cmd) # Blank
<1>1. DayTypeOK /\ Shaped /\ DaysInv /\ CommandsInv
  BY DEF Settled
<1>2. /\ cmd \in Command /\ cmd.kind # "close" /\ CommandInv(request)
      /\ cmd.kind = request.kind /\ cmd.form = request.form
      /\ cmd.amount = request.amount /\ cmd.required = request.required
  BY <1>1, DatedRequest, WhenAccepted DEF CommandsInv
<1> DEFINE book == Snapshot.book
<1>3. book \in Book
  BY <1>1, SnapshotTyped DEF View
<1>4. CASE cmd.kind = "attendance"
  <2>1. PICK p \in Person : cmd.form[p] # "unlisted" /\ cmd.form[p] # "off"
    BY <1>2, <1>4 DEF CommandInv, MadeOnDay, Selected, Listed
  <2>2. Edited(cmd).rows[p] = SavedRow(book.rows[p], cmd.form[p], Snapshot.rev + 1)
    <3>1. Edited(cmd) = [book EXCEPT !.rows =
                    [q \in Person |-> SavedRow(book.rows[q], cmd.form[q], Snapshot.rev + 1)]]
      BY <1>4 DEF Edited
    <3> HIDE DEF book
    <3> QED
      BY <1>3, <2>1, <3>1 DEF Book
  <2>3. SavedRow(book.rows[p], cmd.form[p], Snapshot.rev + 1).status = "present"
    BY <2>1 DEF SavedRow, ClockedOut
  <2>4. Blank.rows[p].status = "none"
    BY DEF Blank
  <2> QED
    BY <2>2, <2>3, <2>4
<1>5. CASE cmd.kind = "delivery"
  <2>1. Edited(cmd).delivery = cmd.amount
    <3>1. Edited(cmd) = [book EXCEPT !.delivery = cmd.amount]
      BY <1>5 DEF Edited
    <3> HIDE DEF book
    <3> QED
      BY <1>3, <3>1 DEF Book
  <2>2. cmd.amount \in Amount /\ Blank.delivery = NotEntered
    BY <1>2, <1>5 DEF CommandInv, MadeOnDay, Blank
  <2> QED
    BY <2>1, <2>2, DayAssumption
<1>6. CASE cmd.kind = "backs"
  <2>1. Edited(cmd).backs = (book.backs \cup cmd.required \cup cmd.optional) \ cmd.remove
    <3>1. Edited(cmd) = [book EXCEPT !.backs = (@ \cup cmd.required \cup cmd.optional) \ cmd.remove]
      BY <1>6 DEF Edited
    <3> HIDE DEF book
    <3> QED
      BY <1>3, <3>1 DEF Book
  <2>2. cmd.required # {} /\ cmd.required \cap cmd.remove = {}
    BY <1>2, <1>6 DEF CommandInv, MadeOnDay, Refusal, BacksRefusal
  <2>3. Blank.backs = {}
    BY DEF Blank
  <2> QED
    BY <2>1, <2>2, <2>3
<1> QED
  BY <1>2, <1>4, <1>5, <1>6, CommandFields

-----------------------------------------------------------------------------
(* A request is served. *)

LEMMA Answering ==
    ASSUME DayTypeOK, Shaped, NEW cmd \in Command, NEW status \in Status, NEW view \in View,
           Answer(cmd, status, view)
    PROVE  /\ DOMAIN answers' = 1..MaxOp /\ answers'[cmd.op] = answers[cmd.op] \cup {status}
           /\ \A o \in 1..MaxOp : o # cmd.op => answers'[o] = answers[o]
           /\ seen' \in [Page -> View] /\ \A p \in Page : seen'[p] \in {seen[p], view}
           /\ DOMAIN pending' = Page /\ \A p \in Page : pending'[p] \subseteq pending[p]
<1>1. cmd.op \in 1..MaxOp /\ cmd.page \in Page
  BY CommandFields
<1>2. answers' = [answers EXCEPT ![cmd.op] = @ \cup {status}] /\ DOMAIN answers = 1..MaxOp
  BY DEF Answer, Shaped
<1>3. /\ DOMAIN pending = Page /\ seen \in [Page -> View]
      /\ \/ UNCHANGED <<seen, pending>>
         \/ /\ pending' = [pending EXCEPT ![cmd.page] = {}]
            /\ seen' = [seen EXCEPT ![cmd.page] = view] \/ seen' = seen
  BY DEF Answer, Shaped, DayTypeOK, pages
<1>4. seen' \in [Page -> View] /\ \A p \in Page : seen'[p] \in {seen[p], view}
  BY <1>1, <1>3
<1>5. DOMAIN pending' = Page /\ \A p \in Page : pending'[p] \subseteq pending[p]
  BY <1>1, <1>3
<1> QED
  BY <1>1, <1>2, <1>4, <1>5

LEMMA Remembering ==
    ASSUME DayTypeOK, Shaped, NEW cmd \in Command, NEW status \in Status, NEW view \in View,
           Remember(cmd, status, view)
    PROVE  /\ DOMAIN results' = 1..MaxOp /\ \A o \in 1..MaxOp : results'[o] \subseteq Result
           /\ \A o \in 1..MaxOp : o # cmd.op => results'[o] = results[o]
           /\ IF status = "error" \/ (cmd.kind = "attendance" /\ status # "confirmed")
              THEN results'[cmd.op] = results[cmd.op]
              ELSE results'[cmd.op] = {[command |-> cmd, status |-> status, view |-> view]}
<1>1. cmd.op \in 1..MaxOp /\ DOMAIN results = 1..MaxOp
  BY CommandFields DEF Shaped
<1>2. \A o \in 1..MaxOp : results[o] \subseteq Result
  BY DEF DayTypeOK
<1>3. [command |-> cmd, status |-> status, view |-> view] \in Result
  BY DEF Result
<1> QED
  BY <1>1, <1>2, <1>3 DEF Remember

(* What a page and a kept answer show after it. *)
LEMMA ServedViews ==
    ASSUME DayTypeOK, Shaped, NEW view,
           \A p \in Page : seen'[p] \in {seen[p], view},
           \A o \in 1..MaxOp : \A kept \in results'[o] : kept \in results[o] \/ kept.view = view
    PROVE  Views' \subseteq Views \cup {view}
<1>1. ASSUME NEW v \in Views' PROVE v \in Views \cup {view}
  <2>1. CASE \E p \in Page : v = seen'[p]
    BY <2>1 DEF Views
  <2>2. CASE \E o \in 1..MaxOp : \E kept \in results'[o] : v = kept.view
    BY <2>2 DEF Views, Kept
  <2> QED
    BY <2>1, <2>2 DEF Views, Kept
<1> QED
  BY <1>1

LEMMA ServedCommands ==
    ASSUME Shaped, UNCHANGED sent, \A p \in Page : pending'[p] \subseteq pending[p]
    PROVE  Commands' \subseteq Commands
BY DEF Commands

LEMMA OtherOperations ==
    ASSUME DayTypeOK, DayTypeOK', Shaped, CommandsInv, AnswerInv, RequestsInv, Grows, UNCHANGED nextOp,
           Commands' \subseteq Commands, NEW op \in 1..MaxOp,
           \A o \in 1..MaxOp : o # op => /\ results'[o] = results[o] /\ answers'[o] = answers[o]
                                         /\ applied'[o] = applied[o],
           AnswerAt(op)', \A cmd \in Commands : cmd.op = op => RequestInv(cmd)'
    PROVE  AnswerInv' /\ RequestsInv'
<1>1. ASSUME NEW o \in 1..MaxOp, o # op PROVE AnswerAt(o)'
  BY <1>1 DEF AnswerInv, AnswerAt
<1>2. ASSUME NEW cmd \in Commands, cmd.op # op PROVE RequestInv(cmd)'
  <2>1. cmd.op \in 1..MaxOp
    BY Sources, CommandFields
  <2> QED
    BY <1>2, <2>1, RequestStays DEF RequestsInv
<1> QED
  BY <1>1, <1>2 DEF AnswerInv, RequestsInv

LEMMA RecallAnswers ==
    ASSUME Settled, Settled', AnswerInv, RequestsInv, Grows, UNCHANGED <<nextOp, sent>>,
           NEW request \in sent, NEW cmd, cmd = Dated(request), Recall(cmd)
    PROVE  AnswerInv' /\ RequestsInv'
<1> DEFINE op == request.op
<1>1. DayTypeOK /\ DayTypeOK' /\ Shaped /\ Shaped' /\ DaysInv /\ CommandsInv /\ request \in Commands
  BY DEF Settled, Commands
<1>2. cmd \in Command /\ op \in 1..MaxOp /\ cmd.op = op /\ (Fixed(request) => cmd = request)
  BY <1>1, DatedRequest, CommandFields
<1>3. PICK kept \in results[op] :
          /\ IF kept.command = cmd THEN Answer(cmd, kept.status, kept.view)
             ELSE Answer(cmd, "conflict", seen[cmd.page])
          /\ UNCHANGED <<store, results, applied>>
  BY <1>2 DEF Recall
<1>4. AnswerAt(op) /\ results[op] = {kept} /\ kept.status # "error" /\ kept \in Result
  BY <1>1, <1>2, Sources DEF AnswerInv, AnswerAt
<1>5. PICK status \in Status, view \in View :
          Answer(cmd, status, view) /\ status = IF kept.command = cmd THEN kept.status ELSE "conflict"
  <2>1. kept.status \in Status /\ kept.view \in View
    BY <1>4 DEF Result
  <2>2. seen[cmd.page] \in View
    BY <1>1, <1>2, CommandFields DEF DayTypeOK
  <2> QED
    BY <1>3, <2>1, <2>2 DEF Status
<1>6. /\ answers'[op] = answers[op] \cup {status}
      /\ \A o \in 1..MaxOp : o # op => answers'[o] = answers[o]
      /\ \A p \in Page : pending'[p] \subseteq pending[p]
  BY <1>1, <1>2, <1>5, Answering
<1>7. Commands' \subseteq Commands
  BY <1>1, <1>6, ServedCommands
<1>8. AnswerAt(op)'
  BY <1>3, <1>4, <1>5, <1>6 DEF AnswerAt
<1>9. ASSUME NEW other \in Commands, other.op = op PROVE RequestInv(other)'
  <2>1. RequestInv(other) /\ results'[op] = {kept}
    BY <1>3, <1>4 DEF RequestsInv
  <2>2. ASSUME Fixed(other)
        PROVE  kept.command = other /\ (kept.status = "confirmed" => answers'[op] = {"confirmed"})
    <3>1. other = request /\ cmd = other
      BY <1>1, <1>2, <1>9, <2>2, FixedUnique
    <3>2. kept.command = other /\ (kept.status = "confirmed" => answers[op] = {"confirmed"})
      BY <1>4, <1>9, <2>1, <2>2 DEF RequestInv
    <3>3. kept.command = cmd
      BY <3>1, <3>2
    <3>4. status = kept.status
      BY <1>5, <3>3
    <3> QED
      BY <1>6, <3>2, <3>4
  <2>3. Fixed(other)' = Fixed(other)
    BY DEF Fixed
  <2> QED
    BY <1>9, <2>1, <2>2, <2>3 DEF RequestInv
<1> QED
  BY <1>1, <1>2, <1>3, <1>6, <1>7, <1>8, <1>9, OtherOperations

LEMMA RefuseAnswers ==
    ASSUME Settled, Settled', AnswerInv, RequestsInv, Grows, UNCHANGED <<nextOp, sent>>,
           NEW request \in sent, NEW cmd, cmd = Dated(request), Refuse(cmd)
    PROVE  AnswerInv' /\ RequestsInv'
<1> DEFINE op == request.op
           status == Refusal(cmd, cmd.date)
<1>1. DayTypeOK /\ DayTypeOK' /\ Shaped /\ Shaped' /\ DaysInv /\ CommandsInv /\ request \in Commands
  BY DEF Settled, Commands
<1>2. /\ cmd \in Command /\ op \in 1..MaxOp /\ cmd.op = op /\ (Fixed(request) => cmd = request)
      /\ cmd.kind = request.kind /\ cmd.form = request.form
  BY <1>1, DatedRequest, CommandFields
<1>3. /\ results[op] = {} /\ status # "none" /\ UNCHANGED applied
      /\ Remember(cmd, status, Snapshot) /\ Answer(cmd, status, Snapshot)
  BY <1>2 DEF Refuse
<1>4. /\ status \in {"conflict", "validation_error", "error"}
      /\ status = "error" => cmd.kind = "close"
      /\ cmd.kind = "attendance" /\ status = "validation_error" => BadForm(cmd)
      /\ cmd.kind = "attendance" /\ Fixed(request) /\ status = "conflict" => Passed(request)
  BY <1>1, <1>3, WhyRefused
<1>5. status \in Status /\ Snapshot \in View
  BY <1>1, <1>4, SnapshotTyped DEF Status
<1> HIDE DEF status
<1>6. /\ answers'[op] = answers[op] \cup {status}
      /\ \A o \in 1..MaxOp : o # op => answers'[o] = answers[o]
      /\ \A p \in Page : pending'[p] \subseteq pending[p]
  BY <1>1, <1>2, <1>3, <1>5, Answering
<1>7. /\ \A o \in 1..MaxOp : o # op => results'[o] = results[o]
      /\ IF status = "error" \/ cmd.kind = "attendance" THEN results'[op] = {}
         ELSE results'[op] = {[command |-> cmd, status |-> status, view |-> Snapshot]}
  BY <1>1, <1>2, <1>3, <1>4, <1>5, Remembering
<1>8. Commands' \subseteq Commands
  BY <1>1, <1>6, ServedCommands
<1>9. AnswerAt(op)'
  <2>1. AnswerAt(op)
    BY <1>2 DEF AnswerInv
  <2>2. op < nextOp /\ op \in Nat /\ nextOp \in Nat
    BY <1>1, <1>2 DEF CommandsInv, CommandInv, MadeOnDay, DayTypeOK
  <2> QED
    BY <1>3, <1>4, <1>6, <1>7, <2>1, <2>2 DEF AnswerAt
<1>10. ASSUME NEW other \in Commands, other.op = op PROVE RequestInv(other)'
  <2>1. other.kind = cmd.kind /\ other.form = cmd.form
    <3>1. Undated(other) = Undated(request) /\ other \in Command /\ request \in Command
      BY <1>1, <1>2, <1>10, Sources DEF CommandsInv, OneCommand
    <3> QED
      BY <1>2, <3>1, UndatedFields
  <2>2. RequestInv(other) /\ (BadForm(other) <=> BadForm(cmd))
    BY <2>1 DEF RequestsInv, BadForm, Listed, Selected
  <2>3. Fixed(other) => other = cmd /\ other = request
    BY <1>1, <1>2, <1>10, FixedUnique
  <2>4. Fixed(other) /\ Passed(other) => Passed(other)'
    BY <1>1, PassedStays, FixedHasDay, Sources
  <2>5. Fixed(other)' = Fixed(other) /\ BadForm(other)' = BadForm(other)
    BY DEF Fixed, BadForm, Listed, Selected
  <2>6. results'[op] = {} => cmd.kind = "close" \/ cmd.kind = "attendance"
    BY <1>4, <1>7
  <2>7. results'[op] = {} /\ "validation_error" \in answers'[op] => BadForm(other) \/ other.kind = "close"
    BY <1>3, <1>4, <1>6, <1>10, <2>1, <2>2, <2>6 DEF RequestInv
  <2>8. results'[op] = {} /\ "error" \in answers'[op] => other.kind = "close"
    BY <1>3, <1>4, <1>6, <1>10, <2>1, <2>2 DEF RequestInv
  <2>9. Fixed(other) /\ results'[op] = {} => BadForm(other) \/ other.kind = "close" \/ Passed(other)
    BY <1>4, <2>1, <2>2, <2>3, <2>6
  <2>10. Fixed(other) => \A kept \in results'[op] : kept.command = other /\ kept.status # "confirmed"
    BY <1>4, <1>7, <2>3
  <2> QED
    BY <1>10, <2>4, <2>5, <2>7, <2>8, <2>9, <2>10 DEF RequestInv
<1> QED
  BY <1>1, <1>2, <1>3, <1>6, <1>7, <1>8, <1>9, <1>10, OtherOperations

LEMMA AcceptAnswers ==
    ASSUME Settled, Settled', AnswerInv, RequestsInv, Grows, UNCHANGED <<nextOp, sent>>,
           NEW request \in sent, NEW cmd, cmd = Dated(request), Accept(cmd)
    PROVE  AnswerInv' /\ RequestsInv'
<1> DEFINE op == request.op
<1>1. DayTypeOK /\ DayTypeOK' /\ Shaped /\ Shaped' /\ DaysInv /\ CommandsInv /\ request \in Commands
  BY DEF Settled, Commands
<1>2. /\ cmd \in Command /\ op \in 1..MaxOp /\ cmd.op = op /\ (Fixed(request) => cmd = request)
      /\ cmd.kind = request.kind /\ cmd.form = request.form
  BY <1>1, DatedRequest, CommandFields
<1>3. /\ results[op] = {} /\ Remember(cmd, "confirmed", Snapshot') /\ Answer(cmd, "confirmed", Snapshot')
      /\ applied' = [applied EXCEPT ![op] = Append(@, Snapshot.book)]
  BY <1>2 DEF Accept
<1>4. /\ cmd.kind # "close" /\ ~ BadForm(cmd) /\ Snapshot.book = cmd.basis
      /\ cmd.day # NoDay => ~ Passed(cmd)
  <2>1. Refusal(cmd, cmd.date) = "none"
    BY DEF Accept
  <2> QED
    BY <1>1, <2>1, WhenAccepted, OnCurrent
<1>5. "confirmed" \in Status /\ Snapshot' \in View
  BY <1>1, ShownNext DEF Status, StoreTyped, DayRecord, DayTypeOK
<1>6. /\ answers'[op] = answers[op] \cup {"confirmed"}
      /\ \A o \in 1..MaxOp : o # op => answers'[o] = answers[o]
      /\ \A p \in Page : pending'[p] \subseteq pending[p]
  BY <1>1, <1>2, <1>3, <1>5, Answering
<1>7. /\ \A o \in 1..MaxOp : o # op => results'[o] = results[o]
      /\ results'[op] = {[command |-> cmd, status |-> "confirmed", view |-> Snapshot']}
  BY <1>1, <1>2, <1>3, <1>5, Remembering
<1>8. /\ results'[op] # {}
       /\ \A kept \in results'[op] :
             results'[op] = {kept} /\ kept.command = cmd /\ kept.status = "confirmed"
  BY <1>7
<1>9. Commands' \subseteq Commands
  BY <1>1, <1>6, ServedCommands
<1>10. RequestInv(request) /\ AnswerAt(op) /\ answers[op] \subseteq Status
  BY <1>1, <1>2 DEF RequestsInv, AnswerInv, DayTypeOK
<1>11. answers[op] \subseteq {"conflict"}
  <2>1. BadForm(request) <=> BadForm(cmd)
    BY <1>2 DEF BadForm, Listed, Selected
  <2> QED
    BY <1>2, <1>3, <1>4, <1>10, <2>1 DEF RequestInv, AnswerAt, Status
<1>12. /\ applied'[op] = <<cmd.basis>>
       /\ \A o \in 1..MaxOp : o # op => applied'[o] = applied[o]
  <2>1. applied[op] = <<>> /\ DOMAIN applied = 1..MaxOp
    BY <1>1, <1>3, <1>10 DEF AnswerAt, Shaped
  <2>2. Append(<<>>, Snapshot.book) = <<Snapshot.book>>
    OBVIOUS
  <2> QED
    BY <1>2, <1>3, <1>4, <2>1, <2>2
<1>13. AnswerAt(op)'
  <2>1. op < nextOp /\ op \in Nat /\ nextOp \in Nat
    BY <1>1, <1>2 DEF CommandsInv, CommandInv, MadeOnDay, DayTypeOK
  <2>2. answers'[op] \subseteq {"confirmed", "conflict"}
    BY <1>6, <1>11
  <2> QED
    BY <1>8, <1>12, <2>1, <2>2 DEF AnswerAt
<1>14. ASSUME NEW other \in Commands, other.op = op PROVE RequestInv(other)'
  <2>1. Fixed(other) => other = cmd /\ other = request
    BY <1>1, <1>2, <1>14, FixedUnique
  <2>2. Fixed(other) => answers[op] = {}
    <3> SUFFICES ASSUME Fixed(other) PROVE answers[op] = {}
      OBVIOUS
    <3>1. other.day # NoDay
      BY <1>1, FixedHasDay
    <3> QED
      BY <1>2, <1>3, <1>4, <1>10, <2>1, <3>1 DEF RequestInv
  <2>3. Fixed(other)' = Fixed(other)
    BY DEF Fixed
  <2> QED
    BY <1>6, <1>8, <1>14, <2>1, <2>2, <2>3 DEF RequestInv
<1> QED
  BY <1>1, <1>2, <1>6, <1>7, <1>9, <1>12, <1>13, <1>14, OtherOperations

-----------------------------------------------------------------------------
(* The steps. *)

LEMMA RecallStep ==
    ASSUME Settled, NEW cmd \in Command, Recall(cmd), UNCHANGED <<nextOp, sent>>
    PROVE  /\ DayTypeOK' /\ Shaped' /\ UNCHANGED <<days, books>>
           /\ Views' \subseteq Views /\ Commands' \subseteq Commands
<1>1. DayTypeOK /\ Shaped
  BY DEF Settled
<1>2. cmd.op \in 1..MaxOp /\ cmd.page \in Page
  BY CommandFields
<1>3. PICK status \in Status, view \in View :
          /\ Answer(cmd, status, view) /\ view \in Views
          /\ UNCHANGED <<store, results, applied>>
  <2>1. PICK kept \in results[cmd.op] :
            /\ IF kept.command = cmd THEN Answer(cmd, kept.status, kept.view)
               ELSE Answer(cmd, "conflict", seen[cmd.page])
            /\ UNCHANGED <<store, results, applied>>
    BY DEF Recall
  <2>2. kept.status \in Status /\ kept.view \in View /\ kept.view \in Views
    BY <1>1, <1>2, Sources DEF Result
  <2>3. "conflict" \in Status /\ seen[cmd.page] \in View /\ seen[cmd.page] \in Views
    BY <1>1, <1>2, Sources DEF Status
  <2> QED
    BY <2>1, <2>2, <2>3
<1>4. /\ DOMAIN answers' = 1..MaxOp /\ answers'[cmd.op] = answers[cmd.op] \cup {status}
      /\ \A o \in 1..MaxOp : o # cmd.op => answers'[o] = answers[o]
      /\ seen' \in [Page -> View] /\ \A p \in Page : seen'[p] \in {seen[p], view}
      /\ DOMAIN pending' = Page /\ \A p \in Page : pending'[p] \subseteq pending[p]
  BY <1>1, <1>3, Answering
<1>5. DayTypeOK'
  <2>1. \A o \in 1..MaxOp : answers'[o] \subseteq Status /\ applied'[o] \in Seq(Book)
    BY <1>1, <1>3, <1>4 DEF DayTypeOK
  <2>2. \A page \in Page : pending'[page] \subseteq Command
    BY <1>1, <1>4 DEF DayTypeOK
  <2> QED
    BY <1>1, <1>3, <1>4, <2>1, <2>2 DEF DayTypeOK, store
<1>6. Shaped'
  BY <1>1, <1>3, <1>4 DEF Shaped
<1>7. Views' \subseteq Views
  <2>1. Views' \subseteq Views \cup {view}
    BY <1>1, <1>3, <1>4, ServedViews
  <2> QED
    BY <1>3, <2>1
<1> QED
  BY <1>1, <1>3, <1>4, <1>5, <1>6, <1>7, ServedCommands DEF store

LEMMA RefuseStep ==
    ASSUME Settled, NEW request \in sent, NEW cmd, cmd = Dated(request), Refuse(cmd),
           UNCHANGED <<nextOp, sent>>
    PROVE  /\ DayTypeOK' /\ Shaped' /\ UNCHANGED <<days, books>>
           /\ Views' \subseteq Views \cup {Snapshot} /\ Commands' \subseteq Commands
<1> DEFINE status == Refusal(cmd, cmd.date)
<1>1. DayTypeOK /\ Shaped /\ DaysInv /\ CommandsInv /\ request \in Commands
  BY DEF Settled, Commands
<1>2. cmd \in Command /\ cmd.op \in 1..MaxOp
  BY <1>1, DatedRequest, CommandFields
<1>3. status \in Status /\ Snapshot \in View
  <2>1. status # "none"
    BY DEF Refuse
  <2> QED
    BY <1>1, <2>1, WhyRefused, SnapshotTyped DEF Status
<1>4. /\ Remember(cmd, status, Snapshot) /\ Answer(cmd, status, Snapshot)
      /\ UNCHANGED <<store, applied>>
  BY DEF Refuse, Rollback
<1> HIDE DEF status
<1>5. /\ DOMAIN answers' = 1..MaxOp /\ answers'[cmd.op] = answers[cmd.op] \cup {status}
      /\ \A o \in 1..MaxOp : o # cmd.op => answers'[o] = answers[o]
      /\ seen' \in [Page -> View] /\ \A p \in Page : seen'[p] \in {seen[p], Snapshot}
      /\ DOMAIN pending' = Page /\ \A p \in Page : pending'[p] \subseteq pending[p]
  BY <1>1, <1>2, <1>3, <1>4, Answering
<1>6. /\ DOMAIN results' = 1..MaxOp /\ \A o \in 1..MaxOp : results'[o] \subseteq Result
      /\ \A o \in 1..MaxOp : \A kept \in results'[o] : kept \in results[o] \/ kept.view = Snapshot
  BY <1>1, <1>2, <1>3, <1>4, Remembering
<1>7. DayTypeOK'
  <2>1. \A o \in 1..MaxOp : answers'[o] \subseteq Status /\ applied'[o] \in Seq(Book)
    BY <1>1, <1>3, <1>4, <1>5 DEF DayTypeOK
  <2>2. \A page \in Page : pending'[page] \subseteq Command
    BY <1>1, <1>5 DEF DayTypeOK
  <2> QED
    BY <1>1, <1>4, <1>5, <1>6, <2>1, <2>2 DEF DayTypeOK, store
<1>8. Shaped'
  BY <1>1, <1>4, <1>5, <1>6 DEF Shaped
<1>9. Views' \subseteq Views \cup {Snapshot}
  BY <1>1, <1>5, <1>6, ServedViews
<1> QED
  BY <1>1, <1>4, <1>5, <1>7, <1>8, <1>9, ServedCommands DEF store

LEMMA AcceptStep ==
    ASSUME Settled, DayInv', NEW request \in sent, NEW cmd, cmd = Dated(request), Accept(cmd),
           UNCHANGED <<nextOp, sent>>
    PROVE  /\ DayTypeOK' /\ Shaped' /\ Grows /\ DaysInv' /\ (NoEmptyDay => NoEmptyDay')
           /\ Views' \subseteq Views \cup {Snapshot'} /\ Commands' \subseteq Commands
<1>1. DayTypeOK /\ Shaped /\ DayInv /\ DaysInv /\ CommandsInv /\ request \in Commands
  BY DEF Settled, Commands
<1>2. cmd \in Command /\ cmd.op \in 1..MaxOp
  BY <1>1, DatedRequest, CommandFields
<1>3. /\ cmd.kind # "close" /\ (Current = NoDay => cmd.date \in 1..MaxDate)
      /\ Edited(cmd) # Blank
  <2>1. Refusal(cmd, cmd.date) = "none"
    BY DEF Accept
  <2> QED
    BY <1>1, <2>1, WhenAccepted, SaveFills
<1>4. PICK d : Change(d, Edited(cmd))
  <2>1. Write(cmd.date, Edited(cmd))
    BY <1>3 DEF Accept, Perform
  <2> QED
    BY <1>1, <1>3, <2>1, WriteChanges
<1>5. Edited(cmd) \in Book
  <2>1. d \in DayId /\ days[d].rev < MaxRevision /\ days[d].rev \in Nat
        /\ (Current = NoDay \/ Current = d)
    BY <1>1, <1>4 DEF Change, DayTypeOK
  <2>2. Snapshot.rev < MaxRevision
    BY <1>1, <2>1, SnapshotTyped, DayAssumption
  <2> QED
    BY <1>1, <1>2, <1>3, <2>2, EditedTyped
<1>6. /\ days' \in [DayId -> DayRecord]
      /\ books' \in [DayId -> Book] /\ UNCHANGED <<today, closings>> /\ DaysInv' /\ Grows
  BY <1>1, <1>4, <1>5, ChangeDone DEF DayRecord
<1>7. NoEmptyDay => NoEmptyDay'
  BY <1>1, <1>3, <1>4, <1>5, FilledDay
<1>8. Snapshot' \in View
  BY <1>6, ShownNext DEF StoreTyped, DayRecord, DayId
<1>9. /\ Remember(cmd, "confirmed", Snapshot') /\ Answer(cmd, "confirmed", Snapshot')
      /\ applied' = [applied EXCEPT ![cmd.op] = Append(@, Snapshot.book)] /\ "confirmed" \in Status
  BY DEF Accept, Status
<1>10. /\ DOMAIN answers' = 1..MaxOp /\ answers'[cmd.op] = answers[cmd.op] \cup {"confirmed"}
       /\ \A o \in 1..MaxOp : o # cmd.op => answers'[o] = answers[o]
       /\ seen' \in [Page -> View] /\ \A p \in Page : seen'[p] \in {seen[p], Snapshot'}
       /\ DOMAIN pending' = Page /\ \A p \in Page : pending'[p] \subseteq pending[p]
  BY <1>1, <1>2, <1>8, <1>9, Answering
<1>11. /\ DOMAIN results' = 1..MaxOp /\ \A o \in 1..MaxOp : results'[o] \subseteq Result
       /\ \A o \in 1..MaxOp : \A kept \in results'[o] : kept \in results[o] \/ kept.view = Snapshot'
  BY <1>1, <1>2, <1>8, <1>9, Remembering
<1>12. DOMAIN applied' = 1..MaxOp /\ \A o \in 1..MaxOp : applied'[o] \in Seq(Book)
  <2>1. Snapshot.book \in Book /\ DOMAIN applied = 1..MaxOp
        /\ \A o \in 1..MaxOp : applied[o] \in Seq(Book)
    BY <1>1, SnapshotTyped DEF View, Shaped, DayTypeOK
  <2>2. Append(applied[cmd.op], Snapshot.book) \in Seq(Book)
    BY <1>2, <2>1
  <2> QED
    BY <1>9, <2>1, <2>2
<1>13. DayTypeOK'
  <2>1. \A o \in 1..MaxOp : answers'[o] \subseteq Status
    BY <1>1, <1>9, <1>10 DEF DayTypeOK
  <2>2. \A page \in Page : pending'[page] \subseteq Command
    BY <1>1, <1>10 DEF DayTypeOK
  <2> QED
    BY <1>1, <1>6, <1>10, <1>11, <1>12, <2>1, <2>2 DEF DayTypeOK, DayRecord
<1>14. Shaped'
  BY <1>10, <1>11, <1>12 DEF Shaped
<1>15. Views' \subseteq Views \cup {Snapshot'}
  BY <1>1, <1>10, <1>11, ServedViews
<1> QED
  BY <1>1, <1>6, <1>7, <1>10, <1>13, <1>14, <1>15, ServedCommands

LEMMA CommandsMeant ==
    ASSUME Commands' \subseteq Commands
    PROVE  \A c \in Commands' : Meant(c) \in Known
BY DEF Known

LEMMA SettledNext ==
    ASSUME Settled, DayTypeOK', Shaped', DayInv', DaysInv', Grows, nextOp <= nextOp',
           Views' \subseteq Views \cup {Snapshot, Snapshot'}, Commands' \subseteq Commands
    PROVE  Settled'
<1>1. DayTypeOK /\ Shaped /\ KnownInv /\ CommandsInv
  BY DEF Settled
<1>2. KnownInv'
  BY <1>1, KnownStep, CommandsMeant
<1>3. CommandsInv'
  BY <1>1, CommandsStay
<1> QED
  BY <1>2, <1>3 DEF Settled

LEMMA ServeKeeps ==
    ASSUME CallsInv, DayInv', NEW request \in sent, Serve(request)
    PROVE  CallsInv'
<1>1. Settled /\ AnswerInv /\ RequestsInv /\ NoEmptyDay
  BY DEF CallsInv, Settled
<1>2. DayTypeOK /\ Shaped /\ DaysInv /\ CommandsInv /\ request \in Commands /\ nextOp \in Int
  BY <1>1 DEF Settled, Commands, DayTypeOK
<1>3. PICK cmd : cmd = Dated(request)
  OBVIOUS
<1>4. cmd \in Command
  BY <1>2, <1>3, DatedRequest
<1>5. (Recall(cmd) \/ Refuse(cmd) \/ Accept(cmd)) /\ UNCHANGED <<nextOp, sent>>
  BY <1>3 DEF Serve
<1>6. /\ DayTypeOK' /\ Shaped' /\ Grows /\ DaysInv' /\ NoEmptyDay'
      /\ Views' \subseteq Views \cup {Snapshot, Snapshot'} /\ Commands' \subseteq Commands
  <2>1. CASE Recall(cmd)
    BY <1>1, <1>2, <1>4, <1>5, <2>1, RecallStep, StillGrows
  <2>2. CASE Refuse(cmd)
    BY <1>1, <1>2, <1>3, <1>5, <2>2, RefuseStep, StillGrows
  <2>3. CASE Accept(cmd)
    BY <1>1, <1>3, <1>5, <2>3, AcceptStep
  <2> QED
    BY <1>5, <2>1, <2>2, <2>3
<1>7. Settled'
  BY <1>1, <1>2, <1>5, <1>6, SettledNext
<1>8. AnswerInv' /\ RequestsInv'
  BY <1>1, <1>3, <1>5, <1>6, <1>7, RecallAnswers, RefuseAnswers, AcceptAnswers
<1> QED
  BY <1>6, <1>7, <1>8 DEF CallsInv, Settled

(* Steps of others: the requests and answers stay, the days may grow. *)
LEMMA ElsewhereKeeps ==
    ASSUME CallsInv, DayInv', DayTypeOK', DaysInv', NoEmptyDay', Grows, Elsewhere
    PROVE  CallsInv'
<1>1. Settled /\ AnswerInv /\ RequestsInv /\ DayTypeOK /\ Shaped /\ CommandsInv
  BY DEF CallsInv, Settled
<1>2. UNCHANGED <<results, nextOp, seen, pending, sent, answers, applied>>
  BY DEF Elsewhere, pages, history
<1>3. Shaped' /\ Views' = Views /\ Commands' = Commands
  BY <1>1, <1>2 DEF Shaped, Views, Kept, Commands
<1>4. Settled'
  <2>1. nextOp <= nextOp'
    BY <1>1, <1>2 DEF DayTypeOK
  <2> QED
    BY <1>1, <1>3, <2>1, SettledNext
<1>5. AnswerInv'
  BY <1>1, <1>2 DEF AnswerInv, AnswerAt
<1>6. RequestsInv'
  BY <1>1, <1>2, <1>3, RequestStays DEF RequestsInv
<1> QED
  BY <1>4, <1>5, <1>6 DEF CallsInv, Settled

LEMMA SlipWrites ==
    ASSUME CallsInv, DayInv', NEW d, NEW book \in Book, book # Blank, Change(d, book), Elsewhere
    PROVE  CallsInv'
<1>1. DayTypeOK /\ DayInv /\ DaysInv /\ NoEmptyDay
  BY DEF CallsInv
<1>2. /\ days' \in [DayId -> DayRecord] /\ books' \in [DayId -> Book]
      /\ UNCHANGED <<today, closings>> /\ DaysInv' /\ Grows
  BY <1>1, ChangeDone DEF DayRecord
<1>3. NoEmptyDay'
  BY <1>1, FilledDay
<1>4. DayTypeOK'
  BY <1>1, <1>2 DEF DayTypeOK, DayRecord, Elsewhere, pages, history
<1> QED
  BY <1>2, <1>3, <1>4, ElsewhereKeeps

LEMMA SlipBookFilled ==
    ASSUME NEW book \in Book, NEW s \in Slip,
           NEW status \in {"unsettled", "uncredited", "settled"}
    PROVE  /\ [book EXCEPT !.slips[s] = status] \in Book
           /\ [book EXCEPT !.slips[s] = status] # Blank
<1> DEFINE new == [book EXCEPT !.slips[s] = status]
<1>1. new \in Book /\ new.slips[s] = status
  BY DEF Book
<1>2. Blank.slips[s] = "none"
  BY DEF Blank
<1> HIDE DEF new
<1>3. new # Blank
  BY <1>1, <1>2
<1> QED
  BY <1>1, <1>3 DEF new

LEMMA CreateSlipKeeps ==
    ASSUME CallsInv, DayInv', NEW s \in Slip, CreateSlip(s)
    PROVE  CallsInv'
<1>1. DayTypeOK /\ DaysInv
  BY DEF CallsInv
<1>2. SlipBook(s, "unsettled") \in Book /\ SlipBook(s, "unsettled") # Blank
  <2>1. Snapshot.book \in Book
    BY <1>1, SnapshotTyped DEF View
  <2> QED
    BY <2>1, SlipBookFilled DEF SlipBook
<1>3. Write(today, SlipBook(s, "unsettled")) /\ Elsewhere /\ today \in 1..MaxDate
  BY <1>1 DEF CreateSlip, DayTypeOK
<1>4. PICK d : Change(d, SlipBook(s, "unsettled"))
  BY <1>1, <1>3, WriteChanges
<1> QED
  BY <1>2, <1>3, <1>4, SlipWrites

LEMMA MoveSlipKeeps ==
    ASSUME CallsInv, DayInv', NEW d \in DayId, NEW s \in Slip, MoveSlip(d, s)
    PROVE  CallsInv'
<1>1. DayTypeOK /\ DaysInv /\ DayInv
  BY DEF CallsInv
<1>2. PICK to \in {"unsettled", "uncredited", "settled"} :
          /\ books[d].slips[s] # "none"
          /\ books' = [books EXCEPT ![d].slips[s] = to]
  <2>1. PICK step \in {<<"unsettled", "uncredited">>, <<"uncredited", "settled">>,
                       <<"uncredited", "unsettled">>, <<"settled", "unsettled">>} :
            /\ books[d].slips[s] = step[1]
            /\ books' = [books EXCEPT ![d].slips[s] = step[2]]
    BY DEF MoveSlip
  <2>2. step[1] # "none" /\ step[2] \in {"unsettled", "uncredited", "settled"}
    BY <2>1
  <2> QED
    BY <2>1, <2>2
<1> DEFINE book == [books[d] EXCEPT !.slips[s] = to]
<1>3. books[d] \in Book /\ book \in Book /\ book # Blank
  BY <1>1, SlipBookFilled DEF DayTypeOK
<1>4. days[d] \in DayRecord /\ days[d].status = "open" /\ days[d].date \in 1..MaxDate
  <2>1. days[d] \in DayRecord
    BY <1>1 DEF DayTypeOK, DayRecord
  <2>2. books[d] # Blank
    BY <1>2 DEF Blank
  <2>3. days[d].status = "open"
    BY <1>1, <2>1, <2>2 DEF DaysInv, MoveSlip, RowsOpen, DayRecord
  <2> QED
    BY <1>1, <2>1, <2>3, DayAssumption DEF DayRecord, DaysInv, NoDate
<1>5. Current = d
  BY <1>1, <1>4, CurrentIsOpen DEF DayInv, OneOpenDay, Open
<1>6. [days[d] EXCEPT !.rev = @ + 1] = [status |-> "open", date |-> days[d].date, rev |-> days[d].rev + 1]
  BY <1>4 DEF DayRecord
<1>7. Change(d, book)
  <2>1. days' = [days EXCEPT ![d] = [status |-> "open", date |-> days[d].date, rev |-> days[d].rev + 1]]
    BY <1>6 DEF MoveSlip
  <2>2. books' = [books EXCEPT ![d] = book]
    BY <1>2
  <2>3. d # NoDay
    BY DayAssumption DEF DayId, NoDay
  <2> HIDE DEF book
  <2> QED
    BY <1>4, <1>5, <2>1, <2>2, <2>3 DEF Change, MoveSlip
<1> HIDE DEF book
<1> QED
  BY <1>3, <1>7, SlipWrites DEF MoveSlip

LEMMA NoonKeeps ==
    ASSUME CallsInv, DayInv', Noon
    PROVE  CallsInv'
<1>1. DayTypeOK /\ DaysInv /\ NoEmptyDay
  BY DEF CallsInv
<1>2. DayTypeOK'
  BY <1>1, DayAssumption DEF DayTypeOK, Noon, Elsewhere, pages, history
<1>3. Grows /\ DaysInv' /\ NoEmptyDay'
  BY <1>1, StillGrows DEF Noon
<1> QED
  BY <1>2, <1>3, ElsewhereKeeps DEF Noon

-----------------------------------------------------------------------------
(* A page makes a command, sends it again or reads the day again. *)

LEMMA MakeKeeps ==
    ASSUME CallsInv, DayInv', NEW page \in Page, NEW cmd \in Command, cmd.op = nextOp,
           Meant(cmd) = Told(seen[page]), MadeOnDay(cmd), Make(page, cmd)
    PROVE  CallsInv'
<1>1. /\ DayTypeOK /\ Shaped /\ DaysInv /\ NoEmptyDay /\ KnownInv /\ CommandsInv /\ AnswerInv /\ RequestsInv
      /\ Settled
  BY DEF CallsInv, Settled
<1>2. /\ nextOp <= MaxOp /\ nextOp \in Nat /\ nextOp' = nextOp + 1 /\ nextOp' \in 1..(MaxOp + 1)
      /\ pending' = [pending EXCEPT ![page] = {cmd}] /\ sent' = sent \cup {cmd}
      /\ UNCHANGED <<today, days, books, closings, results, seen, answers, applied>>
  BY <1>1, DayAssumption DEF Make, DayTypeOK, store, history
<1>3. DayTypeOK' /\ Shaped'
  BY <1>1, <1>2 DEF DayTypeOK, Shaped
<1>4. Grows /\ DaysInv' /\ NoEmptyDay'
  BY <1>1, <1>2, StillGrows
<1>5. Commands' \subseteq Commands \cup {cmd}
  BY <1>1, <1>2 DEF Commands, Shaped
<1>6. \A c \in Commands : c \in Command /\ c.op \in Nat /\ c.op < nextOp /\ MadeOnDay(c)
  BY <1>1, Sources, CommandFields DEF CommandsInv, CommandInv
<1>7. KnownInv'
  <2>1. Told(seen[page]) \in Known
    BY <1>1, Sources DEF Known
  <2>2. \A c \in Commands' : Meant(c) \in Known
    BY <1>5, <2>1 DEF Known
  <2>3. Views' \subseteq Views
    BY <1>2 DEF Views, Kept
  <2> QED
    BY <1>1, <1>3, <1>4, <2>2, <2>3, KnownStep
<1>8. CommandsInv'
  <2>1. \A c \in Commands' : c.op < nextOp'
    BY <1>2, <1>5, <1>6
  <2>2. \A c \in Commands' : MadeOnDay(c)'
    BY <1>2, <1>5, <1>6 DEF MadeOnDay, Selected, Listed
  <2>3. OneCommand'
    <3> SUFFICES ASSUME NEW a \in Commands', NEW b \in Commands', a.op = b.op
                 PROVE  Undated(a) = Undated(b)
      BY DEF OneCommand, Undated, NoDate
    <3>1. CASE a \in Commands /\ b \in Commands
      BY <1>1, <3>1 DEF CommandsInv, OneCommand
    <3>2. CASE a = cmd /\ b = cmd
      BY <3>2
    <3>3. \A c \in Commands : c.op # cmd.op
      BY <1>2, <1>6
    <3> QED
      BY <1>5, <3>1, <3>2, <3>3
  <2> QED
    BY <2>1, <2>2, <2>3 DEF CommandsInv, CommandInv
<1>9. AnswerInv'
  BY <1>1, <1>2 DEF AnswerInv, AnswerAt
<1>10. RequestsInv'
  <2>1. answers[cmd.op] = {} /\ results[cmd.op] = {}
    BY <1>1, <1>2, CommandFields DEF AnswerInv, AnswerAt
  <2>2. RequestInv(cmd)'
    BY <1>2, <2>1 DEF RequestInv
  <2>3. \A c \in Commands : RequestInv(c)'
    BY <1>1, <1>2, <1>3, <1>4, RequestStays DEF RequestsInv
  <2> QED
    BY <1>5, <2>2, <2>3 DEF RequestsInv
<1> QED
  BY <1>3, <1>4, <1>7, <1>8, <1>9, <1>10 DEF CallsInv

LEMMA PlainTyped ==
    ASSUME DayTypeOK, NEW page \in Page, NEW kind \in {"attendance", "delivery", "backs", "close"},
           nextOp <= MaxOp
    PROVE  Plain(page, kind) \in Command
<1>1. nextOp \in 1..MaxOp /\ seen[page] \in View /\ NoDate \in 0..MaxDate
  BY DayAssumption DEF DayTypeOK, NoDate
<1>2. [p \in Person |-> "unlisted"] \in [Person -> Entry]
  BY DEF Entry
<1> QED
  BY <1>1, <1>2 DEF Plain, Command, View

LEMMA AttendanceKeeps ==
    ASSUME CallsInv, DayInv', NEW page \in Page, MakeAttendance(page)
    PROVE  CallsInv'
<1>1. DayTypeOK /\ ViewsDated /\ Shaped
  BY DEF CallsInv, KnownInv
<1>2. PICK form \in [Person -> Entry] : \E cmd :
          /\ cmd = [Plain(page, "attendance") EXCEPT !.form = form, !.date = seen[page].date]
          /\ Selected(cmd, Person) # {} /\ Make(page, cmd)
  BY DEF MakeAttendance
<1>2a. PICK cmd :
          /\ cmd = [Plain(page, "attendance") EXCEPT !.form = form, !.date = seen[page].date]
          /\ Selected(cmd, Person) # {} /\ Make(page, cmd)
  BY <1>2
<1>3. Plain(page, "attendance") \in Command /\ seen[page] \in View
  BY <1>1, <1>2, <1>2a, PlainTyped DEF Make, DayTypeOK
<1>4. /\ cmd \in Command /\ cmd.op = nextOp /\ cmd.kind = "attendance"
      /\ cmd.day = seen[page].day /\ cmd.rev = seen[page].rev /\ cmd.basis = seen[page].book
      /\ cmd.date = seen[page].date
  BY <1>2, <1>2a, <1>3 DEF Plain, Command, View
<1>5. MadeOnDay(cmd)
  BY <1>1, <1>2, <1>2a, <1>4, Sources DEF MadeOnDay, ViewsDated
<1>6. Meant(cmd) = Told(seen[page])
  BY <1>4 DEF Meant, Told
<1> QED
  BY <1>2, <1>2a, <1>4, <1>5, <1>6, MakeKeeps

LEMMA DeliveryKeeps ==
    ASSUME CallsInv, DayInv', NEW page \in Page, MakeDelivery(page)
    PROVE  CallsInv'
<1>1. DayTypeOK /\ ViewsDated /\ Shaped
  BY DEF CallsInv, KnownInv
<1>2. PICK amount \in Amount : \E cmd :
          /\ cmd = [Plain(page, "delivery") EXCEPT !.amount = amount]
          /\ Make(page, cmd)
  BY DEF MakeDelivery
<1>2a. PICK cmd :
          /\ cmd = [Plain(page, "delivery") EXCEPT !.amount = amount]
          /\ Make(page, cmd)
  BY <1>2
<1>3. Plain(page, "delivery") \in Command /\ seen[page] \in View
  BY <1>1, <1>2, <1>2a, PlainTyped DEF Make, DayTypeOK
<1>4. /\ cmd \in Command /\ cmd.op = nextOp /\ cmd.kind = "delivery" /\ cmd.amount = amount
      /\ cmd.day = seen[page].day /\ cmd.rev = seen[page].rev /\ cmd.basis = seen[page].book
  BY <1>2, <1>2a, <1>3 DEF Plain, Command
<1>5. MadeOnDay(cmd)
  BY <1>1, <1>2, <1>2a, <1>4, Sources DEF MadeOnDay, ViewsDated
<1>6. Meant(cmd) = Told(seen[page])
  BY <1>4 DEF Meant, Told
<1> QED
  BY <1>2, <1>2a, <1>4, <1>5, <1>6, MakeKeeps

LEMMA BacksKeeps ==
    ASSUME CallsInv, DayInv', NEW page \in Page, MakeBacks(page)
    PROVE  CallsInv'
<1> DEFINE attending == Attending(seen[page].book) \cap Cast
           others == seen[page].book.backs \ attending
<1>1. DayTypeOK /\ ViewsDated /\ Shaped /\ HomeCast \subseteq Cast
  BY DayAssumption DEF CallsInv, KnownInv
<1>2. PICK optional \in SUBSET ((HomeCast \ attending) \cup others) : \E cmd :
          /\ cmd = [Plain(page, "backs") EXCEPT !.required = attending, !.optional = optional,
                                                !.remove = others \ optional]
          /\ Make(page, cmd)
  BY DEF MakeBacks
<1>2a. PICK cmd :
          /\ cmd = [Plain(page, "backs") EXCEPT !.required = attending, !.optional = optional,
                                                !.remove = others \ optional]
          /\ Make(page, cmd)
  BY <1>2
<1>3. seen[page].day # NoDay /\ attending # {}
  BY DEF MakeBacks
<1>4. Plain(page, "backs") \in Command /\ seen[page] \in View
  BY <1>1, <1>2, <1>2a, PlainTyped DEF Make, DayTypeOK
<1>5. attending \subseteq Cast /\ others \subseteq Cast
  BY <1>4 DEF View, Book
<1> HIDE DEF attending, others
<1>6. /\ cmd \in Command /\ cmd.op = nextOp /\ cmd.kind = "backs" /\ cmd.required = attending
      /\ cmd.day = seen[page].day /\ cmd.rev = seen[page].rev /\ cmd.basis = seen[page].book
      /\ cmd.date = NoDate
  BY <1>1, <1>2, <1>2a, <1>4, <1>5 DEF Plain, Command
<1>7. MadeOnDay(cmd)
  BY <1>1, <1>3, <1>6, Sources DEF MadeOnDay, ViewsDated
<1>8. Meant(cmd) = Told(seen[page])
  BY <1>6 DEF Meant, Told
<1> QED
  BY <1>2, <1>2a, <1>6, <1>7, <1>8, MakeKeeps

LEMMA CloseKeeps ==
    ASSUME CallsInv, DayInv', NEW page \in Page, MakeClose(page)
    PROVE  CallsInv'
<1>1. DayTypeOK /\ ViewsDated /\ Shaped
  BY DEF CallsInv, KnownInv
<1>2. PICK override \in BOOLEAN : \E cmd :
          /\ cmd = [Plain(page, "close") EXCEPT !.override = override]
          /\ Make(page, cmd)
  BY DEF MakeClose
<1>2a. PICK cmd :
          /\ cmd = [Plain(page, "close") EXCEPT !.override = override]
          /\ Make(page, cmd)
  BY <1>2
<1>3. Plain(page, "close") \in Command /\ seen[page] \in View /\ seen[page].day # NoDay
  BY <1>1, <1>2, <1>2a, PlainTyped DEF Make, DayTypeOK, MakeClose
<1>4. /\ cmd \in Command /\ cmd.op = nextOp /\ cmd.kind = "close" /\ cmd.date = NoDate
      /\ cmd.day = seen[page].day /\ cmd.rev = seen[page].rev /\ cmd.basis = seen[page].book
  BY <1>2, <1>2a, <1>3 DEF Plain, Command
<1>5. MadeOnDay(cmd)
  BY <1>1, <1>3, <1>4, Sources DEF MadeOnDay, ViewsDated
<1>6. Meant(cmd) = Told(seen[page])
  BY <1>4 DEF Meant, Told
<1> QED
  BY <1>2, <1>2a, <1>4, <1>5, <1>6, MakeKeeps

LEMMA ResendKeeps ==
    ASSUME CallsInv, DayInv', NEW page \in Page, Resend(page)
    PROVE  CallsInv'
<1>1. /\ DayTypeOK /\ Shaped /\ DaysInv /\ NoEmptyDay /\ CommandsInv /\ AnswerInv /\ RequestsInv
      /\ Settled
  BY DEF CallsInv, Settled
<1>2. /\ sent' = sent \cup pending[page]
      /\ UNCHANGED <<today, days, books, closings, results, nextOp, seen, pending, answers, applied>>
  BY DEF Resend, store, pages, history
<1>3. Commands' \subseteq Commands /\ Views' \subseteq Views
  BY <1>1, <1>2, Sources DEF Commands, Views, Kept
<1>4. DayTypeOK' /\ Shaped'
  BY <1>1, <1>2 DEF DayTypeOK, Shaped
<1>5. Grows /\ DaysInv' /\ NoEmptyDay'
  BY <1>1, <1>2, StillGrows
<1>6. Settled'
  <2>1. nextOp <= nextOp'
    BY <1>1, <1>2 DEF DayTypeOK
  <2> QED
    BY <1>1, <1>3, <1>4, <1>5, <2>1, SettledNext
<1>7. AnswerInv'
  BY <1>1, <1>2 DEF AnswerInv, AnswerAt
<1>8. RequestsInv'
  BY <1>1, <1>2, <1>3, <1>4, <1>5, RequestStays DEF RequestsInv
<1> QED
  BY <1>5, <1>6, <1>7, <1>8 DEF CallsInv, Settled

(* Only a form without a day takes the date of the day that is shown. *)
LEMMA ReloadKeeps ==
    ASSUME CallsInv, DayInv', NEW page \in Page, Reload(page)
    PROVE  CallsInv'
<1> DEFINE Again(cmd) == IF cmd.kind = "attendance" /\ cmd.date = NoDate
                         THEN [cmd EXCEPT !.date = Snapshot.date] ELSE cmd
<1>1. /\ DayTypeOK /\ Shaped /\ DaysInv /\ NoEmptyDay /\ KnownInv /\ CommandsInv /\ AnswerInv /\ RequestsInv
  BY DEF CallsInv
<1>2. /\ seen' = [seen EXCEPT ![page] = Snapshot]
      /\ pending' = [pending EXCEPT ![page] = {Again(cmd) : cmd \in @}]
      /\ UNCHANGED <<today, days, books, closings, results, nextOp, sent, answers, applied>>
  BY DEF Reload, store, history
<1>3. Snapshot \in View
  BY <1>1, SnapshotTyped
<1>4. ASSUME NEW cmd \in Commands
      PROVE  /\ Again(cmd) \in Command /\ cmd \in Command /\ Undated(Again(cmd)) = Undated(cmd)
             /\ Again(cmd) = cmd \/ (cmd.kind = "attendance" /\ cmd.day = NoDay)
  <2>1. cmd \in Command /\ CommandInv(cmd) /\ cmd.day \in {NoDay} \cup DayId
    BY <1>1, Sources, CommandFields DEF CommandsInv
  <2>2. Snapshot.date \in 0..MaxDate
    BY <1>3 DEF View
  <2>3. CASE cmd.kind = "attendance" /\ cmd.date = NoDate
    <3>1. cmd.day = NoDay
      BY <1>1, <2>1, <2>3 DEF CommandInv, MadeOnDay, DaysInv
    <3> QED
      BY <2>1, <2>2, <2>3, <3>1, Redated
  <2>4. CASE ~ (cmd.kind = "attendance" /\ cmd.date = NoDate)
    BY <2>1, <2>4
  <2> QED
    BY <2>3, <2>4
<1>5. ASSUME NEW c \in Commands'
      PROVE  \E cmd \in Commands :
                 /\ c \in Command /\ cmd \in Command /\ Undated(c) = Undated(cmd)
                 /\ c = cmd \/ (cmd.kind = "attendance" /\ cmd.day = NoDay)
  <2> HIDE DEF Again
  <2>1. CASE \E p \in Page : c \in pending'[p]
    <3>1. PICK p \in Page : c \in pending'[p]
      BY <2>1
    <3>2. CASE p = page
      <4>1. PICK cmd \in pending[page] : c = Again(cmd)
        BY <1>1, <1>2, <3>1, <3>2 DEF Shaped
      <4> QED
        BY <1>1, <1>4, <4>1, Sources
    <3>3. CASE p # page
      BY <1>1, <1>2, <3>1, <3>3, Sources DEF Shaped
    <3> QED
      BY <3>2, <3>3
  <2>2. CASE c \in sent
    BY <1>1, <2>2, Sources
  <2> QED
    BY <1>2, <2>1, <2>2 DEF Commands
<1> HIDE DEF Again
<1>6. DayTypeOK' /\ Shaped'
  <2>1. \A p \in Page : pending'[p] \subseteq Command
    BY <1>5 DEF Commands
  <2> QED
    BY <1>1, <1>2, <1>3, <2>1 DEF DayTypeOK, Shaped
<1>7. Grows /\ DaysInv' /\ NoEmptyDay'
  BY <1>1, <1>2, StillGrows
<1>8. KnownInv'
  <2>1. \A c \in Commands' : Meant(c) \in Known
    <3> SUFFICES ASSUME NEW c \in Commands' PROVE Meant(c) \in Known
      OBVIOUS
    <3>1. PICK cmd \in Commands : c \in Command /\ cmd \in Command /\ Undated(c) = Undated(cmd)
      BY <1>5
    <3>2. Meant(c) = Meant(cmd)
      BY <3>1, UndatedFields DEF Meant
    <3> QED
      BY <3>2 DEF Known
  <2>2. Views' \subseteq Views \cup {Snapshot, Snapshot'}
    <3>1. \A p \in Page : seen'[p] \in {seen[p], Snapshot}
      BY <1>1, <1>2 DEF DayTypeOK
    <3>2. Views' \subseteq Views \cup {Snapshot}
      BY <1>1, <1>2, <3>1, ServedViews
    <3> QED
      BY <3>2
  <2> QED
    BY <1>1, <1>6, <1>7, <2>1, <2>2, KnownStep
<1>9. CommandsInv'
  <2>1. ASSUME NEW c \in Commands' PROVE CommandInv(c)'
    <3>1. PICK cmd \in Commands :
              /\ c \in Command /\ cmd \in Command /\ Undated(c) = Undated(cmd)
              /\ c = cmd \/ (cmd.kind = "attendance" /\ cmd.day = NoDay)
      BY <1>5
    <3>2. c.op = cmd.op /\ c.kind = cmd.kind /\ c.day = cmd.day /\ c.form = cmd.form
      BY <3>1, UndatedFields
    <3>3. CommandInv(cmd)
      BY <1>1 DEF CommandsInv
    <3>4. c.op < nextOp'
      BY <1>2, <3>2, <3>3 DEF CommandInv
    <3>5. Selected(c, Person) = Selected(cmd, Person)
      BY <3>2 DEF Selected, Listed
    <3>6. MadeOnDay(c)
      BY <3>1, <3>2, <3>3, <3>5 DEF CommandInv, MadeOnDay
    <3>7. MadeOnDay(c)'
      BY <1>2, <3>6 DEF MadeOnDay, Selected, Listed
    <3> QED
      BY <3>4, <3>7 DEF CommandInv
  <2>2. ASSUME NEW a \in Commands', NEW b \in Commands', a.op = b.op PROVE Undated(a) = Undated(b)
    <3>1. PICK x \in Commands : a \in Command /\ x \in Command /\ Undated(a) = Undated(x)
      BY <1>5
    <3>2. PICK y \in Commands : b \in Command /\ y \in Command /\ Undated(b) = Undated(y)
      BY <1>5
    <3>3. x.op = y.op
      BY <2>2, <3>1, <3>2, UndatedFields
    <3> QED
      BY <1>1, <3>1, <3>2, <3>3 DEF CommandsInv, OneCommand
  <2> QED
    BY <2>1, <2>2 DEF CommandsInv, OneCommand, Undated, NoDate
<1>10. AnswerInv'
  BY <1>1, <1>2 DEF AnswerInv, AnswerAt
<1>11. RequestsInv'
  <2> SUFFICES ASSUME NEW c \in Commands' PROVE RequestInv(c)'
    BY DEF RequestsInv
  <2>1. PICK cmd \in Commands :
            /\ c \in Command /\ cmd \in Command /\ Undated(c) = Undated(cmd)
            /\ c = cmd \/ (cmd.kind = "attendance" /\ cmd.day = NoDay)
    BY <1>5
  <2>2. c.op = cmd.op /\ c.kind = cmd.kind /\ c.day = cmd.day /\ c.form = cmd.form
    BY <2>1, UndatedFields
  <2>3. RequestInv(cmd)'
    BY <1>1, <1>2, <1>6, <1>7, RequestStays DEF RequestsInv
  <2>4. BadForm(c)' <=> BadForm(cmd)'
    BY <2>2 DEF BadForm, Selected, Listed
  <2>5. CASE c = cmd
    BY <2>3, <2>5
  <2>6. CASE cmd.kind = "attendance" /\ cmd.day = NoDay
    <3>1. ~ Fixed(c)'
      BY <2>2, <2>6 DEF Fixed, NoDay
    <3> QED
      BY <2>2, <2>3, <2>4, <3>1 DEF RequestInv
  <2> QED
    BY <2>1, <2>5, <2>6
<1> QED
  BY <1>6, <1>7, <1>8, <1>9, <1>10, <1>11 DEF CallsInv

-----------------------------------------------------------------------------
LEMMA CallsInitially == DayInit => CallsInv
<1> SUFFICES ASSUME DayInit PROVE CallsInv
  OBVIOUS
<1> DEFINE NothingSeen == [day |-> NoDay, rev |-> 0, date |-> NoDate, book |-> Blank]
           ClosedSeen == [day |-> 1, rev |-> 1, date |-> 1, book |-> Yesterday]
<1>1. /\ Blank \in Book /\ Yesterday \in Book /\ 1 \in DayId /\ NoDate \in 0..MaxDate
      /\ 2 \in 1..MaxDate /\ 2 \in 0..MaxRevision /\ 1 \in 1..(MaxOp + 1)
  BY BlankTyped, YesterdayTyped, DayAssumption DEF DayId, NoDate
<1>2. NothingSeen \in View /\ ClosedSeen \in View
  BY <1>1, DayAssumption DEF View
<1>3. /\ today = 2 /\ nextOp = 1 /\ sent = {}
      /\ days = [d \in DayId |-> IF d = 1 THEN [status |-> "closed", date |-> 1, rev |-> 2]
                                 ELSE [status |-> "none", date |-> NoDate, rev |-> 0]]
      /\ books = [d \in DayId |-> IF d = 1 THEN Yesterday ELSE Blank]
      /\ closings = [d \in DayId |-> IF d = 1 THEN {Yesterday} ELSE {}]
      /\ results = [o \in 1..MaxOp |-> {}] /\ answers = [o \in 1..MaxOp |-> {}]
      /\ applied = [o \in 1..MaxOp |-> <<>>] /\ pending = [p \in Page |-> {}]
      /\ seen \in [Page -> {NothingSeen, ClosedSeen}]
  BY DEF DayInit
<1> HIDE DEF NothingSeen, ClosedSeen
<1>4. Shaped
  BY <1>3 DEF Shaped
<1>5. DayTypeOK
  <2>1. days \in [DayId -> DayRecord]
    <3>1. [status |-> "closed", date |-> 1, rev |-> 2] \in DayRecord
      BY <1>1, DayAssumption DEF DayRecord
    <3>2. [status |-> "none", date |-> NoDate, rev |-> 0] \in DayRecord
      BY <1>1, DayAssumption DEF DayRecord
    <3> QED
      BY <1>3, <3>1, <3>2
  <2>2. books \in [DayId -> Book] /\ closings \in [DayId -> SUBSET Book] /\ seen \in [Page -> View]
    BY <1>1, <1>2, <1>3
  <2>3. \A o \in 1..MaxOp : applied[o] \in Seq(Book)
    BY <1>3
  <2> QED
    BY <1>1, <1>3, <2>1, <2>2, <2>3 DEF DayTypeOK, DayRecord
<1>6. DayInv
  BY DayInitially
<1>7. DaysInv
  BY <1>3 DEF DaysInv, NoDate
<1>8. NoEmptyDay
  BY <1>3 DEF NoEmptyDay, Open
<1>9. Commands = {} /\ Views \subseteq {NothingSeen, ClosedSeen}
  BY <1>3 DEF Commands, Views, Kept
<1>10. KnownInv
  <2>1. \A d \in DayId : Fact(d) = [day |-> d, rev |-> IF d = 1 THEN 2 ELSE 0,
                                    book |-> IF d = 1 THEN Yesterday ELSE Blank]
    BY <1>3 DEF Fact
  <2>2. \A x \in Known : x \in {NoFact, [day |-> 1, rev |-> 1, book |-> Yesterday]} \cup {Fact(d) : d \in DayId}
    BY <1>9 DEF Known, Told, NothingSeen, ClosedSeen, NoFact
  <2>3. \A d \in DayId : d # NoDay /\ days[d].rev = IF d = 1 THEN 2 ELSE 0
    BY <1>3, DayAssumption DEF DayId, NoDay
  <2>4. KnownOld
    BY <1>1, <2>1, <2>2, <2>3 DEF KnownOld, NoFact, NoDay
  <2>5. KnownAgree
    BY <1>1, <2>1, <2>2, <2>3 DEF KnownAgree, NoFact, NoDay
  <2>6. ViewsDated
    BY <1>1, <1>3, <1>9 DEF ViewsDated, NothingSeen, ClosedSeen, NoDay
  <2> QED
    BY <2>4, <2>5, <2>6 DEF KnownInv
<1>11. CommandsInv /\ RequestsInv
  BY <1>9 DEF CommandsInv, OneCommand, RequestsInv
<1>12. AnswerInv
  BY <1>3 DEF AnswerInv, AnswerAt
<1> QED
  BY <1>4, <1>5, <1>6, <1>7, <1>8, <1>10, <1>11, <1>12 DEF CallsInv

LEMMA CallsStep == CallsInv /\ [DayNext]_dayVars => CallsInv'
<1> SUFFICES ASSUME CallsInv, [DayNext]_dayVars PROVE CallsInv'
  OBVIOUS
<1>1. DayInv'
  BY DayStep DEF CallsInv
<1>2. ASSUME NEW page \in Page, PageStep(page) PROVE CallsInv'
  BY <1>1, <1>2, AttendanceKeeps, DeliveryKeeps, BacksKeeps, CloseKeeps, ResendKeeps, ReloadKeeps
  DEF PageStep
<1>3. ASSUME NEW request \in sent, Serve(request) PROVE CallsInv'
  BY <1>1, <1>3, ServeKeeps
<1>4. ASSUME NEW s \in Slip, CreateSlip(s) PROVE CallsInv'
  BY <1>1, <1>4, CreateSlipKeeps
<1>5. ASSUME NEW d \in DayId, NEW s \in Slip, MoveSlip(d, s) PROVE CallsInv'
  BY <1>1, <1>5, MoveSlipKeeps
<1>6. CASE Noon
  BY <1>1, <1>6, NoonKeeps
<1>7. CASE UNCHANGED dayVars
  <2>1. DayTypeOK /\ DaysInv /\ NoEmptyDay
    BY DEF CallsInv
  <2>2. Elsewhere /\ UNCHANGED <<today, days, books, closings>>
    BY <1>7 DEF dayVars, Elsewhere, store
  <2>3. DayTypeOK'
    BY <2>1, <2>2 DEF DayTypeOK, Elsewhere, pages, history
  <2> QED
    BY <1>1, <2>1, <2>2, <2>3, StillGrows, ElsewhereKeeps
<1> QED
  BY <1>2, <1>3, <1>4, <1>5, <1>6, <1>7 DEF DayNext

THEOREM CallsInvariant == DaySpec => []CallsInv
BY CallsInitially, CallsStep, PTL DEF DaySpec

(* The variables have their types: days, books, commands, kept answers and  *)
(* what pages show.                                                         *)
THEOREM DayTyped == DaySpec => []DayTypeOK
<1>1. CallsInv => DayTypeOK
  BY DEF CallsInv
<1> QED
  BY <1>1, CallsInvariant, PTL

(* A save is applied to exactly what its page showed, whoever else wrote in *)
(* the meantime and however late it arrives.                                *)
THEOREM SavesMatchScreens == DaySpec => []SavesMeetTheScreen
<1>1. CallsInv => SavesMeetTheScreen
  <2> SUFFICES ASSUME CallsInv, NEW o \in 1..MaxOp, NEW kept \in results[o], NEW i \in DOMAIN applied[o]
               PROVE  applied[o][i] = kept.command.basis
    BY DEF SavesMeetTheScreen
  <2>1. AnswerAt(o)
    BY DEF CallsInv, AnswerInv
  <2>2. applied[o] = <<kept.command.basis>> \/ applied[o] = <<>>
    BY <2>1 DEF AnswerAt
  <2> QED
    BY <2>2
<1> QED
  BY <1>1, CallsInvariant, PTL

(* Two pages that show the same day at the same revision show the same.     *)
THEOREM RevisionsTellBooks == DaySpec => []RevisionTellsBook
<1>1. CallsInv => RevisionTellsBook
  <2> SUFFICES ASSUME CallsInv, NEW p \in Page, NEW q \in Page,
                      seen[p].day = seen[q].day, seen[p].rev = seen[q].rev
               PROVE  seen[p].book = seen[q].book
    BY DEF RevisionTellsBook
  <2>1. Told(seen[p]) \in Known /\ Told(seen[q]) \in Known
    BY Sources DEF Known, CallsInv
  <2> QED
    BY <2>1 DEF CallsInv, KnownInv, KnownAgree, Told
<1> QED
  BY <1>1, CallsInvariant, PTL

(* An operation did what was said of it: applied once when it was          *)
(* confirmed, never when it was refused, no day left open with nothing in   *)
(* it, and a confirmation repeated for as long as the request is.           *)
THEOREM AnswersTrue == DaySpec => []AnsweredTruly
<1>1. CallsInv => AppliedAsAnswered
  <2> SUFFICES ASSUME CallsInv, NEW o \in 1..MaxOp
               PROVE  /\ Len(applied[o]) = Cardinality({kept \in results[o] : kept.status = "confirmed"})
                      /\ "confirmed" \in answers[o] => Len(applied[o]) = 1
                      /\ answers[o] \cap {"validation_error", "error"} # {} => Len(applied[o]) = 0
    BY DEF AppliedAsAnswered
  <2> DEFINE confirmed == {kept \in results[o] : kept.status = "confirmed"}
  <2>1. AnswerAt(o)
    BY DEF CallsInv, AnswerInv
  <2>2. CASE \E kept \in results[o] : kept.status = "confirmed"
    <3>1. PICK kept \in results[o] : kept.status = "confirmed"
      BY <2>2
    <3>2. confirmed = {kept} /\ Len(applied[o]) = 1 /\ answers[o] \subseteq {"confirmed", "conflict"}
      <4>1. results[o] = {kept} /\ applied[o] = <<kept.command.basis>>
            /\ answers[o] \subseteq {"confirmed", "conflict"}
        BY <2>1, <3>1 DEF AnswerAt
      <4>2. Len(applied[o]) = 1
        BY <4>1
      <4> QED
        BY <3>1, <4>1, <4>2
    <3>3. Cardinality(confirmed) = 1
      BY <3>2, FS_Singleton
    <3> QED
      BY <3>2, <3>3
  <2>3. CASE ~ \E kept \in results[o] : kept.status = "confirmed"
    <3>1. confirmed = {} /\ Len(applied[o]) = 0 /\ "confirmed" \notin answers[o]
      BY <2>1, <2>3 DEF AnswerAt
    <3>2. Cardinality(confirmed) = 0
      BY <3>1, FS_EmptySet
    <3> QED
      BY <3>1, <3>2
  <2> QED
    BY <2>2, <2>3
<1>2. CallsInv => FixedBodyRepeats
  <2> SUFFICES ASSUME CallsInv, NEW request \in sent, Fixed(request), "confirmed" \in answers[request.op]
               PROVE  answers[request.op] = {"confirmed"}
    BY DEF FixedBodyRepeats, Fixed
  <2>1. RequestInv(request) /\ AnswerAt(request.op)
    <3>1. request.op \in 1..MaxOp /\ request \in Commands
      BY Sources, CommandFields DEF CallsInv, DayTypeOK, Commands
    <3> QED
      BY <3>1 DEF CallsInv, AnswerInv, RequestsInv
  <2>2. results[request.op] # {}
    BY <2>1 DEF AnswerAt
  <2>3. PICK kept \in results[request.op] : kept.status = "confirmed"
    BY <2>1, <2>2 DEF AnswerAt
  <2> QED
    BY <2>1, <2>3 DEF RequestInv
<1>3. CallsInv => AnsweredTruly
  BY <1>1, <1>2 DEF CallsInv, AnsweredTruly
<1> QED
  BY <1>3, CallsInvariant, PTL
=============================================================================
