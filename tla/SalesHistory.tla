---------------------------- MODULE SalesHistory ----------------------------
(***************************************************************************)
(* The sales history page (wwwroot/js/features/sales-history.js): the list  *)
(* of business days that is loaded page by page, and the correction of a    *)
(* closed day, saved by save_sales_history_correction_v1                    *)
(* (Sql/store_rpc/31_sales_history.sql).                                    *)
(*                                                                          *)
(* A business day is a number that grows with its date.  Of what is         *)
(* corrected the model keeps who attended, who has a drink back, and one    *)
(* value for the rest (memo, drink delivery, times, amounts).               *)
(***************************************************************************)
EXTENDS Integers, FiniteSets, Sequences, SequencesExt, Lists

CONSTANTS
    Cast,       \* casts of the store
    Rest,       \* values of the rest of a day
    Filters,    \* date ranges of the filter, each as the set of its days
    MaxDay,     \* bound: business days
    PageSize,   \* days in a page (30 in the code)
    SearchPages,\* pages searched for the day of the address (5 in the code)
    Editable,   \* the latest days that may be corrected (3 in the code)
    MaxOpen,    \* bound: times the dialog is opened
    MaxVersion, \* bound: snapshots of a day
    MaxLoad,    \* bound: loads of the list
    MaxSave     \* bound: corrections under way at a time

ASSUME HistoryAssumption ==
    /\ {MaxDay, PageSize, SearchPages, Editable, MaxOpen, MaxVersion, MaxLoad, MaxSave} \subseteq Nat
    /\ PageSize > 0 /\ MaxDay > 0 /\ Rest # {} /\ \A f \in Filters : f \subseteq 1..MaxDay

VARIABLES
    archive,     \* days with rows and snapshots, the business date, stored answers
    list,   \* items, hasMore, cursor, selected day, active filter
    paging,   \* the page under way (state.loading)
    queue,  \* the initial load under way and the one that waits for it
    editor, \* the dialog: shown, the day it was opened for, form, operation id
    loads,  \* days whose editor is being read
    saves,  \* corrections under way
    hides,  \* timers that hide the dialog after a correction
    asked    \* history: loads asked for, a load that met a page under way

historyVars == <<archive, list, paging, queue, editor, loads, saves, hides, asked>>
listVars == <<list, paging, queue>>
editorVars == <<editor, loads, saves, hides>>

Content == [att : SUBSET Cast, back : SUBSET Cast, rest : Rest]
NoForm == [day |-> 0]
NoPaging == [kind |-> "none"]
NoRequest == [preferred |-> -1, filter |-> {}]

(* One of the latest days, and closed with a snapshot *)
Correctable(d) == archive.last - d < Editable /\ archive.days[d].version > 0

-----------------------------------------------------------------------------
(* The list. *)

Before(before) == {d \in 1..archive.last : before = 0 \/ d < before}

(* get_sales_history_page, with one row more to know hasMore *)
Page(filter, before) ==
    LET rows == Descending(Before(before) \cap filter)
        items == SubSeq(rows, 1, IF Len(rows) < PageSize THEN Len(rows) ELSE PageSize)
    IN  [items |-> items, more |-> Len(rows) > PageSize, before |-> IF items = <<>> THEN 0 ELSE Last(items)]

NewList(filter) == [items |-> <<>>, can |-> {}, more |-> TRUE, before |-> 0, selected |-> 0, filter |-> filter]

FirstPage(request) ==
    [kind |-> "first", preferred |-> request.preferred, filter |-> request.filter, before |-> 0, pages |-> 1]

(* Faulty: the request that waits is dropped. *)
KeepsNone(request) == NoRequest

Waiting(request) == request

(* requestInitialHistoryLoad: one load at a time, the last request waits.   *)
(* The load empties the list, and then reads nothing at all when another    *)
(* page is under way.                                                       *)
RequestInitial(request) ==
    /\ IF queue.active
       THEN /\ queue' = [queue EXCEPT !.next = Waiting(request), !.typed = request.filter]
            /\ UNCHANGED <<list, paging>>
            /\ asked' = [asked EXCEPT !.loads = @ + 1]
       ELSE /\ list' = NewList(request.filter)
            /\ asked' = [loads |-> asked.loads + 1, met |-> asked.met \/ paging # NoPaging]
            /\ paging' = IF paging = NoPaging THEN FirstPage(request) ELSE paging
            /\ queue' = [active |-> paging = NoPaging, next |-> NoRequest, typed |-> request.filter]

(* The filter form, or its clear button *)
SubmitFilter(filter) ==
    /\ asked.loads < MaxLoad
    /\ RequestInitial([preferred |-> 0, filter |-> filter])
    /\ UNCHANGED <<archive, editorVars>>

LoadMore ==
    /\ paging = NoPaging /\ list.more
    /\ paging' = [kind |-> "more", preferred |-> 0, filter |-> list.filter, before |-> list.before, pages |-> 0]
    /\ UNCHANGED <<archive, list, queue, editorVars, asked>>

SelectDay(d) ==
    /\ d \in ToSet(list.items) /\ d # list.selected
    /\ list' = [list EXCEPT !.selected = d]
    /\ UNCHANGED <<archive, paging, queue, editorVars, asked>>

(* The end of an initial load: the request that waits is next. *)
EndInitial(l) ==
    IF queue.next = NoRequest
    THEN list' = l /\ paging' = NoPaging /\ queue' = [queue EXCEPT !.active = FALSE]
    ELSE /\ list' = NewList(queue.next.filter) /\ paging' = FirstPage(queue.next)
         /\ queue' = [queue EXCEPT !.next = NoRequest]

Chosen(l, preferred) ==
    [l EXCEPT !.selected = IF preferred \in ToSet(l.items) THEN preferred
                           ELSE IF l.items = <<>> THEN 0 ELSE Head(l.items)]

(* loadHistoryPage, and what follows it in loadInitialHistory *)
PageArrives ==
    /\ paging # NoPaging
    /\ LET page == Page(paging.filter, paging.before)
           old == IF paging.kind = "first" THEN <<>> ELSE list.items
           l == [list EXCEPT !.items = old \o AtPlaces(page.items, {n \in 1..Len(page.items) : page.items[n] \notin ToSet(old)}),
                             !.can = @ \cup {d \in ToSet(page.items) : Correctable(d)},
                             !.more = page.more, !.before = page.before]
       IN  IF paging.kind = "more" THEN list' = l /\ paging' = NoPaging /\ UNCHANGED queue
           ELSE IF paging.preferred # 0 /\ paging.preferred \notin ToSet(l.items) /\ l.more /\ paging.pages < SearchPages
           THEN /\ list' = l /\ UNCHANGED queue
                /\ paging' = [paging EXCEPT !.kind = "search", !.before = l.before, !.pages = @ + 1]
           ELSE EndInitial(Chosen(l, paging.preferred))
    /\ UNCHANGED <<archive, editorVars, asked>>

PageFails ==
    /\ paging # NoPaging
    /\ CASE paging.kind = "more" -> paging' = NoPaging /\ UNCHANGED <<list, queue>>
         [] paging.kind = "first" -> EndInitial(list)
         [] paging.kind = "search" -> EndInitial(Chosen(list, paging.preferred))
    /\ UNCHANGED <<archive, editorVars, asked>>

-----------------------------------------------------------------------------
(* The dialog. *)

(* openCorrectionEditor: nothing ends the read of an earlier opening. *)
OpenDialog ==
    /\ list.selected \in list.can /\ ~ editor.shown /\ editor.op < MaxOpen
    /\ editor' = [shown |-> TRUE, day |-> list.selected, form |-> NoForm, op |-> editor.op + 1, ready |-> FALSE]
    /\ loads' = loads \cup {[op |-> editor.op + 1, day |-> list.selected]}
    /\ UNCHANGED <<archive, listVars, saves, hides, asked>>

(* renderCorrectionEditor.  `locked' are the drink backs that are disabled: *)
(* at first those of who attends and has one; nothing is ticked by itself.  *)
Filled(d, rows) ==
    [day |-> d, version |-> archive.days[d].version, seen |-> rows, now |-> rows, locked |-> rows.att \cap rows.back]

EditorArrives(load) ==
    /\ load \in loads /\ loads' = loads \ {load}
    /\ editor' = IF ~ Correctable(load.day) THEN editor
                 ELSE [editor EXCEPT !.ready = TRUE,
                            !.form = Filled(load.day, archive.days[load.day].rows)]
    /\ UNCHANGED <<archive, listVars, saves, hides, asked>>

EditorFails(load) ==
    /\ load \in loads /\ loads' = loads \ {load}
    /\ UNCHANGED <<archive, listVars, editor, saves, hides, asked>>

CloseDialog ==
    /\ editor.shown /\ editor' = [editor EXCEPT !.shown = FALSE]
    /\ UNCHANGED <<archive, listVars, loads, saves, hides, asked>>

(* The dialog with other contents on the form *)
Fill(content, locked) ==
    /\ editor.shown /\ editor.form # NoForm
    /\ editor' = [editor EXCEPT !.form.now = content, !.form.locked = locked]
    /\ UNCHANGED <<archive, listVars, loads, saves, hides, asked>>

(* syncRequiredDrinkBacks(true): all who attend get a drink back, of 0 yen  *)
(* at first                                                                 *)
Synced(content) == [content EXCEPT !.back = @ \cup content.att]

(* A change of who attends asks for the drink backs of everybody. *)
ToggleCast(c) ==
    editor.form # NoForm /\
    LET now == editor.form.now
        att == IF c \in now.att THEN now.att \ {c} ELSE now.att \cup {c}
    IN  Fill(Synced([now EXCEPT !.att = att]), att)

(* A drink back that was required and ticked when the form was last synced  *)
(* cannot be taken off.                                                     *)
ToggleBack(c) ==
    editor.form # NoForm /\
    LET now == editor.form.now
    IN  /\ c \notin editor.form.locked
        /\ Fill([now EXCEPT !.back = IF c \in now.back THEN now.back \ {c} ELSE now.back \cup {c}], editor.form.locked)

ChangeRest(value) ==
    /\ editor.form # NoForm /\ editor.form.now.rest # value
    /\ Fill([editor.form.now EXCEPT !.rest = value], editor.form.locked)

(* The submit button: the operation id is that of the last opening. *)
Submit ==
    /\ editor.shown /\ editor.form # NoForm /\ editor.ready /\ Cardinality(saves) < MaxSave
    /\ editor' = [editor EXCEPT !.ready = FALSE]
    /\ saves' = saves \cup {[state |-> "going", op |-> editor.op, day |-> editor.form.day,
                             version |-> editor.form.version, seen |-> editor.form.seen, content |-> editor.form.now]}
    /\ UNCHANGED <<archive, listVars, loads, hides, asked>>

(* Saved: the list is loaded again for the day, with the dates typed in by  *)
(* then, and after that a timer hides the dialog, whatever it shows.        *)
Saved(save, filter) ==
    /\ save \in saves /\ save.state \in {"confirmed", "unchanged"}
    /\ saves' = saves \ {save} /\ hides' = TRUE
    /\ RequestInitial([preferred |-> save.day, filter |-> filter])
    /\ UNCHANGED <<archive, editor, loads>>

(* Refused, or no answer: the form can be sent again.  The request whose    *)
(* answer does not come may still be under way.                             *)
NotSaved(save) ==
    /\ save \in saves /\ save.state # "late"
    /\ saves' = (saves \ {save}) \cup (IF save.state = "going" THEN {[save EXCEPT !.state = "late"]} ELSE {})
    /\ editor' = [editor EXCEPT !.ready = TRUE]
    /\ UNCHANGED <<archive, listVars, loads, hides, asked>>

HideTimer ==
    /\ hides /\ ~ queue.active /\ hides' = FALSE
    /\ editor' = [editor EXCEPT !.shown = FALSE]
    /\ UNCHANGED <<archive, listVars, loads, saves, asked>>

-----------------------------------------------------------------------------
(* The server. *)

(* The request as it is stored: with the business date of its arrival *)
Body(save) == [day |-> save.day, version |-> save.version, content |-> save.content, date |-> archive.date]

StoredAnswers(save) == {a \in archive.answers : a.op = save.op}

(* Faulty: the snapshot of the form is not looked at. *)
FreshAnyway(save) == TRUE

Fresh(save) == archive.days[save.day].version = save.version

(* Who attends without a drink back.  Closing a day asks for none, but the  *)
(* store can have the day closed all the same.                              *)
Missing(content) == content.att \ content.back

(* Every cast who attends has a drink back, when either is changed. *)
Covered(rows, content) == (rows.att # content.att \/ rows.back # content.back) => Missing(content) = {}

Corrected(day, content) == [version |-> day.version + 1, rows |-> content, snapshot |-> content]

(* The sub-block is rolled back. *)
Undone(day, content) == day

(* save_sales_history_correction_v1: an operation that was saved gets the   *)
(* answer of then, if the request is the same to the letter; a refusal is   *)
(* not stored.  `ok' is FALSE when saving the amounts fails.                *)
Outcome(save, ok) ==
    IF ~ (Correctable(save.day) /\ Fresh(save) /\ Covered(archive.days[save.day].rows, save.content)) THEN "rejected"
    ELSE IF archive.days[save.day].rows = save.content THEN "unchanged"
    ELSE IF ok THEN "confirmed" ELSE "failed"

Replay(save) ==
    LET same == {a \in StoredAnswers(save) : a.body = Body(save)}
    IN  IF same = {} THEN "rejected" ELSE (CHOOSE a \in same : TRUE).status

ServeCorrection(save, ok) ==
    /\ save \in saves /\ save.state \in {"going", "late"}
    /\ LET replayed == StoredAnswers(save) # {}
           status == IF replayed THEN Replay(save) ELSE Outcome(save, ok)
       IN  /\ status \notin {"confirmed", "failed"} => ok
           /\ status = "confirmed" /\ ~ replayed => archive.days[save.day].version < MaxVersion
           /\ saves' = (saves \ {save}) \cup
                (IF save.state = "late" THEN {}
                 ELSE {[save EXCEPT !.state = IF status = "failed" THEN "rejected" ELSE status]})
           /\ archive' = IF replayed THEN archive ELSE
                [archive EXCEPT
                  !.answers = @ \cup (IF status \in {"confirmed", "unchanged"}
                                     THEN {[op |-> save.op, body |-> Body(save), status |-> status]} ELSE {}),
                  !.days[save.day] = CASE status = "confirmed" -> Corrected(@, save.content)
                                       [] status = "failed" -> Undone(@, save.content)
                                       [] OTHER -> @]
    /\ UNCHANGED <<listVars, editor, loads, hides, asked>>

(* Another terminal corrects a day. *)
CorrectElsewhere(d, content) ==
    /\ Correctable(d) /\ archive.days[d].version < MaxVersion /\ Covered(archive.days[d].rows, content)
    /\ archive.days[d].rows # content
    /\ archive' = [archive EXCEPT !.days[d] = Corrected(@, content)]
    /\ UNCHANGED <<listVars, editorVars, asked>>

(* The business date turns after the last day was closed. *)
TurnDate ==
    /\ archive.date = archive.last /\ archive.date < MaxDay /\ archive.days[archive.last].version > 0
    /\ archive' = [archive EXCEPT !.date = @ + 1]
    /\ UNCHANGED <<listVars, editorVars, asked>>

OpenDay ==
    /\ archive.last < archive.date
    /\ archive' = [archive EXCEPT !.last = archive.date]
    /\ UNCHANGED <<listVars, editorVars, asked>>

(* close_business_day_v2: who attended may miss a drink back, when the      *)
(* requirements are ignored (Sql/store_rpc/22_current_business_day_close    *)
(* .sql:113).                                                               *)
CloseDay(content) ==
    /\ archive.days[archive.last].version = 0
    /\ archive' = [archive EXCEPT !.days[archive.last] = Corrected(@, content)]
    /\ UNCHANGED <<listVars, editorVars, asked>>

-----------------------------------------------------------------------------
Closed(content) == [version |-> 1, rows |-> content, snapshot |-> content]

(* The page is opened, for a day of the address or none, with the dates of  *)
(* the address.                                                             *)
HistoryInit ==
    \E k \in 1..MaxDay, content \in Content, filter \in Filters : \E preferred \in 0..k :
        /\ archive = [days |-> [d \in 1..MaxDay |-> IF d <= k THEN Closed(content)
                                              ELSE [Closed(content) EXCEPT !.version = 0]],
                 last |-> k, date |-> k, answers |-> {}]
        /\ list = NewList(filter)
        /\ paging = FirstPage([preferred |-> preferred, filter |-> filter])
        /\ queue = [active |-> TRUE, next |-> NoRequest, typed |-> filter]
        /\ editor = [shown |-> FALSE, day |-> 0, form |-> NoForm, op |-> 0, ready |-> FALSE]
        /\ loads = {} /\ saves = {} /\ hides = FALSE /\ asked = [loads |-> 0, met |-> FALSE]

HistoryNext ==
    \/ \E filter \in Filters : SubmitFilter(filter)
    \/ LoadMore \/ PageArrives \/ PageFails
    \/ \E d \in 1..MaxDay : SelectDay(d)
    \/ OpenDialog \/ CloseDialog \/ Submit \/ HideTimer
    \/ \E load \in loads : EditorArrives(load) \/ EditorFails(load)
    \/ \E c \in Cast : ToggleCast(c) \/ ToggleBack(c)
    \/ \E value \in Rest : ChangeRest(value)
    \/ \E save \in saves, filter \in Filters : Saved(save, filter)
    \/ \E save \in saves : NotSaved(save)
    \/ \E save \in saves, ok \in BOOLEAN : ServeCorrection(save, ok)
    \/ \E d \in 1..archive.last, content \in Content : CorrectElsewhere(d, content)
    \/ TurnDate \/ OpenDay
    \/ \E content \in Content : CloseDay(content)

HistorySpec == HistoryInit /\ [][HistoryNext]_historyVars

-----------------------------------------------------------------------------
(* Every day of the list lies in the store's history, the day shown in      *)
(* detail is one of them, and there is a load under way when one waits      *)
(* (sales-history.js, state and requestInitialHistoryLoad).                 *)
HistoryTypeOK ==
    /\ archive.last \in 1..MaxDay /\ archive.date \in archive.last..MaxDay
    /\ \A d \in 1..MaxDay : archive.days[d].version \in 0..MaxVersion /\ archive.days[d].rows \in Content
    /\ ToSet(list.items) \cup list.can \subseteq 1..archive.last /\ list.selected \in ToSet(list.items) \cup {0}
    /\ queue.next # NoRequest => queue.active
    /\ queue.active => paging # NoPaging
    /\ editor.op \in 0..MaxOpen /\ \A save \in saves : save.op \in 1..editor.op

(* The list is strictly from new to old and leaves out no day of the dates  *)
(* that were typed in last between its first and its last.                  *)
MatchesFilter ==
    /\ \A i, j \in DOMAIN list.items : i < j => list.items[i] > list.items[j]
    /\ list.items # <<>> =>
         ToSet(list.items) = {d \in queue.typed : Last(list.items) <= d /\ d <= Head(list.items)}

(* When nothing is being loaded, the list shows the days of the last dates  *)
(* asked for, newest first, without a gap or a repetition, whatever pages   *)
(* failed, were searched or waited: unless a load was asked for while the   *)
(* next page was under way, which reads nothing.                            *)
ListMatches == paging = NoPaging /\ ~ asked.met => MatchesFilter

(* A correction is applied to the rows its form was filled with: what       *)
(* another terminal corrected in the meantime is never written over.        *)
NoLostCorrection ==
    [][\A a \in archive'.answers \ archive.answers : a.status = "confirmed" =>
        \E save \in saves : /\ save.op = a.op /\ save.day = a.body.day /\ save.version = a.body.version
                            /\ save.content = a.body.content /\ save.seen = archive.days[a.body.day].rows]_historyVars

(* A correction sent again because its answer was lost or late is told to   *)
(* be saved if it was: a request is refused only if the same request, to    *)
(* the letter, has not been applied.                                        *)
CorrectionTold ==
    [][\A save \in saves : save.state = "going" /\ [save EXCEPT !.state = "rejected"] \in saves' \ saves =>
        \A a \in archive.answers : a.op = save.op => a.body # Body(save)]_historyVars

(* The last snapshot of a closed day, from which every report of it is      *)
(* made, tells its rows.                                                    *)
SnapshotTellsRows ==
    \A d \in DOMAIN archive.days : archive.days[d].version > 0 => archive.days[d].snapshot = archive.days[d].rows

(* Whatever is toggled on the form, in whatever order: who attends without  *)
(* a drink back did so when the form was filled.  A day that was closed     *)
(* with all of them is never refused for a missing one.                     *)
FormCovers == editor.form # NoForm => Missing(editor.form.now) \subseteq Missing(editor.form.seen)

(* No correction, from this terminal or another one, first, again or late,  *)
(* takes the drink back of a cast who attended a closed day, nor adds a     *)
(* cast without one: a day that was closed with some missing can only gain. *)
NeverUncovered ==
    [][\A d \in DOMAIN archive.days : archive.days[d].version > 0 =>
        Missing(archive'.days[d].rows) \subseteq Missing(archive.days[d].rows)]_historyVars

(* A correction of a closed day never writes over one it has not seen, is   *)
(* told as it was applied although it is sent again, leaves a snapshot that *)
(* tells the rows and takes no drink back from who attended; the form adds  *)
(* no missing drink back to those the day was closed with                   *)
(* (Sql/store_rpc/31_sales_history.sql, sales-history.js).                  *)
CorrectionsHold == [](SnapshotTellsRows /\ FormCovers) /\ NoLostCorrection /\ CorrectionTold /\ NeverUncovered
=============================================================================
