------------------------------ MODULE HomeSync ------------------------------
(***************************************************************************)
(* The business home page (wwwroot/js/features/business-home.js): editing   *)
(* operations and karaoke quantities are typed against a snapshot of the    *)
(* business day, shown at once, kept in localStorage, and sent in batches   *)
(* to store.sync_business_home_changes_v2 (Sql/store_rpc/19), which applies *)
(* a batch as a whole or not at all.                                        *)
(*                                                                          *)
(* `page' is what the scripts of the page hold; its handlers are functions  *)
(* from a page to the page they leave.  A reload drops everything but       *)
(* `stored'.  Requests and their answers can be lost or late, the page      *)
(* stops waiting after operationTimeoutMs, and other staff change the same  *)
(* business day meanwhile.                                                  *)
(*                                                                          *)
(* What an operation does to a slip is modelled in SlipEditor; here it is a *)
(* number that the log of the day either holds or does not.                 *)
(***************************************************************************)
EXTENDS Integers, Sequences, SequencesExt, Lists

CONSTANTS
    Slip,         \* slips
    MaxOp,        \* bound: operations typed
    MaxQuantity,  \* bound: karaoke quantities
    MaxTyped,     \* bound: karaoke quantities typed
    MaxRevision,  \* bound: changes of one business day
    MaxDay,       \* bound: business days
    Fault,        \* what may go wrong: "timeout", "loss", "reload"
    MaxFault,     \* bound: how often it does
    Staff         \* what other staff do: "edit", "quantity", "close", "reopen", "open"

ASSUME HomeAssumption ==
    /\ {MaxOp, MaxQuantity, MaxTyped, MaxRevision, MaxDay, MaxFault} \subseteq Nat
    /\ Fault \subseteq {"timeout", "loss", "reload"}
    /\ Staff \subseteq {"edit", "quantity", "close", "reopen", "open"}

VARIABLES
    db,       \* the business day in the database
    answers,  \* store.business_home_sync_results
    page,     \* memory of the page's scripts, and its localStorage
    calls,    \* batches on their way to the server
    reply,    \* the answer on its way to the page, if any
    poll,     \* the snapshot refreshPromise brings, if any
    made,     \* batches made so far
    typed,    \* history: the operations typed, each numbered by its place
    told,     \* history: what the page learned of each of them
    touched,  \* history: how many karaoke quantities were typed
    faults    \* how much went wrong

homeVars == <<db, answers, page, calls, reply, poll, made, typed, told, touched, faults>>

-----------------------------------------------------------------------------
Operation == 1..MaxOp
MaxBatch == MaxOp + MaxTyped
Revision == 0..(MaxRevision + MaxBatch)
Quantity == 0..MaxQuantity

(* A quantity not typed, and one typed while the slip showed `base'.        *)
Clean == [n |-> -1, base |-> -1]
Draft == {Clean} \cup [n : Quantity, base : Quantity]
NoDrafts == [s \in Slip |-> Clean]

Edit == [id : Operation, slip : Slip, valid : BOOLEAN]
View == [day : 0..MaxDay, rev : Revision, status : [Slip -> {"unborn", "open", "closed", "past"}],
         count : [Slip -> Quantity], log : Seq(Operation)]

NoShot == [day |-> 0, rev |-> 0, status |-> [s \in Slip |-> "unborn"],
           count |-> [s \in Slip |-> 0], log |-> <<>>]
NoBatch == [id |-> 0, day |-> 0, rev |-> 0, ops |-> <<>>, lines |-> NoDrafts]
Nothing == [ops |-> <<>>, draft |-> NoDrafts, batch |-> NoBatch]

Batch == [id : 0..MaxBatch, day : 0..MaxDay, rev : Revision, ops : Seq(Edit), lines : [Slip -> Draft]]
Kept == [ops : Seq(Edit), draft : [Slip -> Draft], batch : Batch]
Answer == [batch : Batch, confirmed : BOOLEAN, view : View]
Page == [shown : View, outbox : Seq(Edit), draft : [Slip -> Draft], batch : Batch, stored : Kept,
         restored : BOOLEAN, flying : BOOLEAN, timer : BOOLEAN, rearm : BOOLEAN,
         waiting : SUBSET Slip, dialog : SUBSET Slip]

FreshPage(kept) ==
    [shown |-> NoShot, outbox |-> <<>>, draft |-> NoDrafts, batch |-> NoBatch, stored |-> kept,
     restored |-> FALSE, flying |-> FALSE, timer |-> FALSE, rearm |-> FALSE,
     waiting |-> {}, dialog |-> {}]

Ids(ops) == {ops[i].id : i \in DOMAIN ops}

-----------------------------------------------------------------------------
(* Handlers of the page. *)

(* persistBusinessHomeDraft, clearBusinessHomeDraft *)
Persist(p) ==
    [p EXCEPT !.stored = IF p.outbox = <<>> /\ p.draft = NoDrafts
                         THEN Nothing
                         ELSE [ops |-> p.outbox, draft |-> p.draft, batch |-> p.batch]]

IsOpen(p, s) == p.shown.status[s] = "open"

(* karaokeDraft.cleanup: quantities of slips that are not open, or equal to *)
(* what the slip shows, are forgotten.                                      *)
Cleanup(p) ==
    LET draft == [s \in Slip |-> IF IsOpen(p, s) /\ p.draft[s].n # p.shown.count[s] THEN p.draft[s] ELSE Clean]
    IN  IF draft = p.draft THEN p ELSE Persist([p EXCEPT !.draft = draft])

(* scheduleFlush *)
ScheduleFlush(p) == IF p.timer \/ p.flying THEN p ELSE [p EXCEPT !.timer = TRUE]

(* karaokeDraft.setQuantity *)
SetQuantity(p, s, n) ==
    Persist([p EXCEPT !.draft[s] =
        IF n = p.shown.count[s] THEN Clean ELSE [n |-> n, base |-> p.shown.count[s]]])

(* karaokeDraft.markSaved and markRejected: unless another was typed since *)
MarkLines(p, lines) ==
    [p EXCEPT !.draft = [s \in Slip |-> IF @[s].n = lines[s].n THEN Clean ELSE @[s]]]

(* hasUnconfirmedChanges *)
Unconfirmed(p) == p.batch # NoBatch \/ p.outbox # <<>> \/ p.draft # NoDrafts

(* restoreBusinessHomeDraft, on the first snapshot: what concerns a slip    *)
(* that is not open is left out; the batch is taken back as it was sent.    *)
Restore(p) ==
    IF p.restored THEN p
    ELSE LET ops == AtPlaces(p.stored.ops, {i \in DOMAIN p.stored.ops : IsOpen(p, p.stored.ops[i].slip)})
             draft == [s \in Slip |-> IF IsOpen(p, s) /\ p.stored.draft[s].n # p.shown.count[s]
                                      THEN p.stored.draft[s] ELSE Clean]
             q == [p EXCEPT !.restored = TRUE, !.outbox = ops, !.draft = draft, !.batch = p.stored.batch]
         IN  IF ops = <<>> /\ draft = NoDrafts
             THEN [q EXCEPT !.stored = Nothing]
             ELSE ScheduleFlush(Persist(q))

(* Faulty: any snapshot is shown. *)
ApplyAny(p, view, allowDayChange) == Cleanup(Restore([p EXCEPT !.shown = view]))

(* applySnapshot, with renderProjectedSnapshot *)
ApplySnapshot(p, view, allowDayChange) ==
    IF \/ p.shown # NoShot /\ view.day # p.shown.day /\ ~ allowDayChange
       \/ view.day = p.shown.day /\ view.rev < p.shown.rev
    THEN p
    ELSE Cleanup(Restore([p EXCEPT !.shown = view]))

(* Faulty: a batch without an answer is replaced by a new one. *)
MakeBatchAnew(p, id) ==
    LET q == Cleanup(p) IN
    IF q.outbox = <<>> /\ q.draft = NoDrafts THEN q
    ELSE [q EXCEPT !.batch = [id |-> id, day |-> q.shown.day, rev |-> q.shown.rev,
                              ops |-> q.outbox, lines |-> q.draft]]

(* createFlushBatch, unless a batch without an answer is kept *)
MakeBatch(p, id) ==
    LET q == Cleanup(p) IN
    IF q.batch # NoBatch \/ (q.outbox = <<>> /\ q.draft = NoDrafts) THEN q
    ELSE [q EXCEPT !.batch = [id |-> id, day |-> q.shown.day, rev |-> q.shown.rev,
                              ops |-> q.outbox, lines |-> q.draft]]

(* flushBusinessHomeChanges, up to the request *)
Flush(p) ==
    IF p.flying THEN p
    ELSE LET q == MakeBatch(p, made + 1)
         IN  IF q.batch = NoBatch THEN q ELSE Persist([q EXCEPT !.flying = TRUE])

(* applyFlushResult: the rows of the batch leave the page, whatever their   *)
(* result, and the snapshot of the answer is shown.                         *)
ApplyFlushResult(p, view) ==
    LET rest == MarkLines([p EXCEPT !.outbox = WithoutIds(@, Ids(p.batch.ops))], p.batch.lines)
    IN  Persist([ApplySnapshot(rest, view, FALSE) EXCEPT !.batch = NoBatch, !.flying = FALSE])

(* Faulty: the dialog opens after one flush. *)
WaitOnce(p) == [p EXCEPT !.waiting = {}, !.dialog = {s \in p.waiting : IsOpen(p, s)}]

(* A caller of waitForBusinessOperations goes on: it flushes again while    *)
(* there is something to flush, and then opens the checkout (open of        *)
(* business-checkout.js) if the slip is still open.                         *)
WaitOn(p) ==
    IF p.waiting = {} THEN p
    ELSE IF Unconfirmed(p) THEN Flush(p)
    ELSE [p EXCEPT !.waiting = {}, !.dialog = {s \in p.waiting : IsOpen(p, s)}]

(* Faulty: nothing is scheduled after a flight. *)
LandedForGood(p, timerFirst) == WaitOn([p EXCEPT !.rearm = FALSE])

(* A flight is over: a timer that started or joined it sets the next one,   *)
(* unless the caller that waits was called back before and flushes already. *)
Landed(p, timerFirst) ==
    LET q == [p EXCEPT !.rearm = FALSE]
    IN  WaitOn(IF p.rearm /\ Unconfirmed(p) /\ (timerFirst \/ p.waiting = {})
               THEN ScheduleFlush(q) ELSE q)

(* The flight failed: the batch is kept, and nothing is scheduled. *)
Failed(p) == [p EXCEPT !.flying = FALSE, !.rearm = FALSE, !.waiting = {}]

-----------------------------------------------------------------------------
(* Steps of the page. *)

(* The page becomes p, and sends the batch of a flight it started. *)
Become(next) ==
    \E p \in {next} :
        /\ page' = p
        /\ made' = IF p.batch.id > made THEN p.batch.id ELSE made
        /\ calls' = IF p.flying /\ (~ page.flying \/ p.batch # page.batch) THEN calls \cup {p.batch} ELSE calls

(* An edit is offered for open slips that no checkout holds. *)
CanEdit(s) == IsOpen(page, s) /\ s \notin page.waiting \cup page.dialog

(* enqueueEditorOperation *)
TypeEdit(s, valid) ==
    LET edit == [id |-> Len(typed) + 1, slip |-> s, valid |-> valid]
        p == Persist([page EXCEPT !.outbox = Append(@, edit)])
    IN  /\ CanEdit(s) /\ Len(typed) < MaxOp
        /\ typed' = Append(typed, edit)
        /\ told' = Append(told, "nothing")
        /\ Become(ScheduleFlush(Cleanup(p)))
        /\ UNCHANGED <<db, answers, reply, poll, touched, faults>>

(* changeKaraokeQuantity: nothing is scheduled. *)
TypeQuantity(s, n) ==
    /\ CanEdit(s) /\ touched < MaxTyped
    /\ n \in {page.draft[s].n - 1, page.draft[s].n + 1, page.shown.count[s] - 1, page.shown.count[s] + 1}
    /\ touched' = touched + 1
    /\ Become(SetQuantity(page, s, n))
    /\ UNCHANGED <<db, answers, reply, poll, typed, told, faults>>

(* The timer joins a flight or starts one; either way it sets the next one. *)
TimerFires ==
    /\ page.timer
    /\ LET p == Flush([page EXCEPT !.timer = FALSE])
       IN  Become([p EXCEPT !.rearm = p.flying])
    /\ UNCHANGED <<db, answers, reply, poll, typed, told, touched, faults>>

(* open of business-checkout.js locks the slip and waits. *)
OpenCheckout(s) ==
    /\ page.waiting = {} /\ page.dialog = {}
    /\ IsOpen(page, s)
    /\ Become(WaitOn([page EXCEPT !.waiting = {s}]))
    /\ UNCHANGED <<db, answers, reply, poll, typed, told, touched, faults>>

(* reset of business-checkout.js *)
CloseCheckout ==
    /\ page.dialog # {}
    /\ Become([page EXCEPT !.dialog = {}])
    /\ UNCHANGED <<db, answers, reply, poll, typed, told, touched, faults>>

(* The `online' event, after an interruption of the network. *)
Online ==
    /\ faults > 0 /\ page.shown # NoShot
    /\ Become(ScheduleFlush(Cleanup(page)))
    /\ UNCHANGED <<db, answers, reply, poll, typed, told, touched, faults>>

(* loadSlips asks; the server compares revisions and nothing else, and says *)
(* `unchanged' or sends the snapshot.                                       *)
AskSnapshot ==
    /\ poll = {} /\ (page.shown = NoShot \/ db.rev # page.shown.rev)
    /\ poll' = {db}
    /\ UNCHANGED <<db, answers, page, calls, reply, made, typed, told, touched, faults>>

LoadSlips ==
    /\ \E view \in poll : Become(ApplySnapshot(page, view, TRUE))
    /\ poll' = {}
    /\ UNCHANGED <<db, answers, reply, typed, told, touched, faults>>

(* Receive takes the answer the flight waits for.  The rows of a refused    *)
(* batch are all refused.                                                   *)
Receive ==
    /\ \E answer \in reply, timerFirst \in BOOLEAN :
        /\ \E p \in {ApplyFlushResult(page, answer.view)} : Become(Landed(p, timerFirst))
        /\ told' = [i \in DOMAIN told |->
                IF i \in Ids(page.batch.ops) THEN IF answer.confirmed THEN "confirmed" ELSE "refused" ELSE told[i]]
    /\ reply' = {}
    /\ UNCHANGED <<db, answers, poll, typed, touched, faults>>

Goes(fault) ==
    /\ fault \in Fault /\ faults < MaxFault
    /\ faults' = faults + 1

(* operationTimeoutMs is over; the request may still reach the server. *)
TimeOut ==
    /\ Goes("timeout") /\ page.flying
    /\ Become(Failed(page))
    /\ reply' = {}
    /\ UNCHANGED <<db, answers, poll, typed, told, touched>>

(* The network drops the request or the answer, and the page learns of it. *)
Lose ==
    /\ Goes("loss") /\ page.flying
    /\ page' = Failed(page)
    /\ calls' = calls \ {page.batch}
    /\ reply' = {}
    /\ UNCHANGED <<db, answers, poll, made, typed, told, touched>>

(* A reload, or a crash of the browser.  The page shows the snapshot that   *)
(* came with it, if the server could read one, and loads one otherwise.     *)
Reload ==
    /\ Goes("reload")
    /\ page' \in {FreshPage(page.stored), ApplySnapshot(FreshPage(page.stored), db, TRUE)}
    /\ reply' = {} /\ poll' = {}
    /\ UNCHANGED <<db, answers, calls, made, typed, told, touched>>

-----------------------------------------------------------------------------
(* Steps of the server. *)

(* Operation ids that an answer was given for, applied or not. *)
Retired == UNION {Ids(a.batch.ops) : a \in answers}

Acceptable(b) ==
    /\ b.day = db.day /\ b.rev = db.rev
    /\ Ids(b.ops) \cap Retired = {}
    /\ \A e \in Range(b.ops) : e.valid /\ db.status[e.slip] = "open"
    /\ \A s \in Slip : b.lines[s] # Clean => db.status[s] = "open"

Bump(d) == [d EXCEPT !.rev = @ + 1]

(* A batch is applied as a whole, or not at all. *)
Applied(b) ==
    IF Acceptable(b)
    THEN Bump([db EXCEPT !.log = @ \o [i \in DOMAIN b.ops |-> b.ops[i].id],
                         !.count = [s \in Slip |-> IF b.lines[s] = Clean THEN @[s] ELSE b.lines[s].n]])
    ELSE db

(* Faulty: only the answer of an applied batch is stored. *)
ServeUnstored(b) ==
    LET known == {a \in answers : a.batch.id = b.id}
        answer == [batch |-> b, confirmed |-> Acceptable(b), view |-> Applied(b)]
    IN  /\ calls' = calls \ {b}
        /\ db' = IF known = {} THEN Applied(b) ELSE db
        /\ answers' = IF known = {} /\ Acceptable(b) THEN answers \cup {answer} ELSE answers
        /\ reply' = IF page.flying /\ page.batch.id = b.id
                    THEN IF known = {} THEN {answer} ELSE known
                    ELSE reply
        /\ UNCHANGED <<page, poll, made, typed, told, touched, faults>>

(* store.sync_business_home_changes_v2: the answer of a batch that is known *)
(* is repeated; every answer is stored, also that of a refused batch.       *)
Serve(b) ==
    LET known == {a \in answers : a.batch.id = b.id}
        answer == [batch |-> b, confirmed |-> Acceptable(b), view |-> Applied(b)]
    IN  /\ calls' = calls \ {b}
        /\ db' = IF known = {} THEN Applied(b) ELSE db
        /\ answers' = IF known = {} THEN answers \cup {answer} ELSE answers
        /\ reply' = IF page.flying /\ page.batch.id = b.id
                    THEN IF known = {} THEN {answer} ELSE known
                    ELSE reply
        /\ UNCHANGED <<page, poll, made, typed, told, touched, faults>>

Changes(d) ==
    /\ db.rev < MaxRevision
    /\ db' = Bump(d)
    /\ UNCHANGED <<answers, page, calls, reply, poll, made, typed, told, touched, faults>>

(* Other terminals edit, set a quantity, take a slip to checkout, give it   *)
(* back or cancel its payment (release_checkout_ready and cancel_checkout), *)
(* open one.                                                                *)
StaffEdits == "edit" \in Staff /\ Changes(db)
StaffSets(s, n) == "quantity" \in Staff /\ db.status[s] = "open" /\ n # db.count[s] /\ Changes([db EXCEPT !.count[s] = n])
StaffCloses(s) == "close" \in Staff /\ db.status[s] = "open" /\ Changes([db EXCEPT !.status[s] = "closed"])
StaffReopens(s) == "reopen" \in Staff /\ db.status[s] = "closed" /\ Changes([db EXCEPT !.status[s] = "open"])
StaffOpens(s) == "open" \in Staff /\ db.status[s] = "unborn" /\ Changes([db EXCEPT !.status[s] = "open"])

(* The day is closed, without open slips, and the next one is opened: what  *)
(* was paid is past.                                                        *)
NextDay ==
    /\ db.day < MaxDay /\ \A s \in Slip : db.status[s] # "open"
    /\ db' = [db EXCEPT !.day = @ + 1, !.rev = 0,
                        !.status = [s \in Slip |-> IF @[s] = "closed" THEN "past" ELSE @[s]]]
    /\ UNCHANGED <<answers, page, calls, reply, poll, made, typed, told, touched, faults>>

-----------------------------------------------------------------------------
HomeInit ==
    /\ db \in [day : {1}, rev : {0}, status : [Slip -> {"unborn", "open"}], count : [Slip -> {0}], log : {<<>>}]
    /\ answers = {} /\ calls = {} /\ reply = {} /\ poll = {}
    /\ page = ApplySnapshot(FreshPage(Nothing), db, TRUE)
    /\ made = 0 /\ typed = <<>> /\ told = <<>> /\ touched = 0 /\ faults = 0

HomeNext ==
    \/ \E s \in Slip, valid \in BOOLEAN : TypeEdit(s, valid)
    \/ \E s \in Slip, n \in Quantity : TypeQuantity(s, n)
    \/ TimerFires
    \/ \E s \in Slip : OpenCheckout(s)
    \/ CloseCheckout
    \/ Online
    \/ AskSnapshot
    \/ LoadSlips
    \/ Receive
    \/ TimeOut
    \/ Lose
    \/ Reload
    \/ \E b \in calls : Serve(b)
    \/ StaffEdits
    \/ \E s \in Slip, n \in Quantity : StaffSets(s, n)
    \/ \E s \in Slip : StaffCloses(s) \/ StaffReopens(s)
    \/ \E s \in Slip : StaffOpens(s)
    \/ NextDay

HomeSpec == HomeInit /\ [][HomeNext]_homeVars

(* The timers of a page fire, requests and answers arrive unless they are   *)
(* lost, and the page asks for the snapshot at intervals.  Nothing is       *)
(* assumed of the staff, of the network's faults or of the online event.    *)
HomeFairness ==
    /\ WF_homeVars(TimerFires)
    /\ WF_homeVars(\E b \in calls : Serve(b))
    /\ WF_homeVars(Receive)
    /\ WF_homeVars(AskSnapshot)
    /\ WF_homeVars(LoadSlips)

LiveHomeSpec == HomeSpec /\ HomeFairness

-----------------------------------------------------------------------------
(* Properties. *)

HomeTypeOK ==
    /\ db \in View /\ page \in Page
    /\ answers \subseteq Answer /\ reply \subseteq answers /\ calls \subseteq Batch
    /\ poll \subseteq View
    /\ made \in 0..MaxBatch
    /\ typed \in Seq(Edit) /\ told \in Seq({"nothing", "confirmed", "refused"})
    /\ Len(told) = Len(typed)
    /\ touched \in 0..MaxTyped /\ faults \in 0..MaxFault

(* Operations take effect at most once and in the order they were typed in, *)
(* and what the page is told of each is what happened to it, whatever is    *)
(* lost, late or sent again: the queue, the batches and the stored answers  *)
(* implement the list of EditList.                                          *)
Edits == INSTANCE EditList WITH count <- Len(typed), applied <- db.log
ImplementsEditList == Edits!EditSpec

(* The page takes back what was kept: with the first snapshot it loads, or  *)
(* with the one that came with a reload.                                    *)
TakesBack == page'.restored /\ (~ page.restored \/ faults' = faults + 1)

(* What was kept for a slip that is not open just then is left out, and     *)
(* nobody is told (restoreBusinessHomeDraft).                               *)
LeftOut(i) == TakesBack /\ ~ IsOpen(page', typed[i].slip)

(* An operation is in localStorage from when it is typed until the page is  *)
(* told about it: no crash, time-out, answer or snapshot makes it           *)
(* disappear, except that a page which takes back what was kept leaves out  *)
(* what concerns a slip that is at checkout or paid.  The slip may be       *)
(* opened again later; the operation does not come back.                    *)
NothingForgotten ==
    [][\A i \in DOMAIN typed' : told'[i] = "nothing" =>
        \/ i \in Ids(page'.stored.ops)
        \/ i \in DOMAIN typed /\ (i \notin Ids(page.stored.ops) \/ LeftOut(i))]_homeVars

(* What is kept for the page that is opened next is what the page sends.    *)
KeptAsQueued == page.restored => page.stored.ops = page.outbox

(* The screen never goes back to an older revision of the same day. *)
ScreenForward ==
    [][page'.shown.day = page.shown.day => page'.shown.rev >= page.shown.rev]_homeVars

(* The checkout of a slip is on the screen only when nothing typed for the  *)
(* slip waits to be saved: the statement is made of what was typed.         *)
SettledBeforeCheckout ==
    \A s \in page.dialog :
        /\ \A e \in Range(page.outbox) : e.slip # s
        /\ page.draft[s] = Clean

(* What is typed into the page is neither lost nor left out: an operation   *)
(* is kept in localStorage, as the page will send it, until the page is     *)
(* told about it, unless it is reloaded while the slip is at checkout or    *)
(* paid; and a checkout is shown only when nothing typed for its slip waits *)
(* (business-home.js, persistBusinessHomeDraft, restoreBusinessHomeDraft    *)
(* and waitForBusinessOperations).                                          *)
TypedIsSafe == NothingForgotten /\ [](KeptAsQueued /\ SettledBeforeCheckout)

(* Every operation is answered in the end, when no message is lost, however *)
(* often the page reloads: unless its slip is at checkout or paid, or was   *)
(* so at a reload, which left the operation out (NothingForgotten).         *)
EverySettled ==
    \A i \in 1..MaxOp :
        i \in DOMAIN told ~>
            /\ i \in DOMAIN told
            /\ \/ told[i] # "nothing"
               \/ db.status[typed[i].slip] # "open"
               \/ i \notin Ids(page.stored.ops)

(* The page comes to show what the server holds. *)
ScreenCatchesUp == []<>(page.shown = db)

=============================================================================
