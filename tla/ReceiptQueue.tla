---------------------------- MODULE ReceiptQueue ----------------------------
(***************************************************************************)
(* The receipt work queue (wwwroot/js/features/receipt-work-queue.js) over  *)
(* advance_receipt_work_queue_v2 and get_current_receipt_work_queue         *)
(* (Sql/store_rpc/21_receipt_work_queue.sql).  What the user enters goes    *)
(* into an outbox that IndexedDB keeps; its head is sent, again and again   *)
(* with the same operation id, until an answer says confirmed or rejected.  *)
(*                                                                          *)
(* A receipt is a number, in the order of the queue; its version stands for *)
(* the token of the work item.  Amounts, subjects and texts are left out:   *)
(* the server accepts them or does not.  A receipt that is saved and one    *)
(* that is excluded as a scan mistake are both done.                        *)
(***************************************************************************)
EXTENDS Integers, FiniteSets, Sequences, SequencesExt

CONSTANTS
    MaxDoc,     \* bound: receipts
    MaxCommand, \* bound: commands made
    MaxVersion, \* bound: changes of a receipt
    MaxFault,   \* bound: answers lost, reads and writes that fail, page loads, answers deleted
    Window,     \* receipts in one answer (6 in the code)
    BadWrites,  \* TRUE when IndexedDB may refuse a write
    Forgets     \* TRUE when stored answers may be deleted while a command is kept

ASSUME ReceiptAssumption ==
    /\ {MaxDoc, MaxCommand, MaxVersion, MaxFault, Window} \subseteq Nat /\ Window > 0
    /\ BadWrites \in BOOLEAN /\ Forgets \in BOOLEAN

VARIABLES
    receipts,     \* receipts: version and status; saves made; stored answers
    disk,   \* the outbox in IndexedDB
    outbox, \* the outbox in memory: pending and failed commands
    view,   \* current receipt, buffer, cursor, index of the failed command edited
    load,   \* the read of the queue
    flight, \* the request of the head (processing), up to the write after it
    timer,  \* retryTimer
    writes, \* writes to IndexedDB under way, with what goes on after them
    late,   \* requests nobody waits for
    hist    \* history: faults, commands made, accepted and answered; whether a write
            \* has failed (unwritten) and an answer was deleted (forgotten)

receiptVars == <<receipts, disk, outbox, view, load, flight, timer, writes, late, hist>>

Doc == 1..MaxDoc
NoItem == [doc |-> 0, version |-> 0]
(* A command is well formed, or is refused before it reaches the procedure. *)
ReceiptCommand == [id : 1..MaxCommand, doc : Doc, version : 0..MaxVersion, formed : BOOLEAN]
EmptyOutbox == [pending |-> <<>>, failed |-> <<>>]
NoFlight == [state |-> "none"]
NoLoad == [state |-> "none"]

Ids(commands) == {commands[i].id : i \in DOMAIN commands}
Docs(commands) == {commands[i].doc : i \in DOMAIN commands}
DocsOf(items) == {item.doc : item \in items}

-----------------------------------------------------------------------------
(* The server. *)

Open(doc) == receipts.docs[doc].status = "open"

(* get_current_receipt_work_queue: the open receipts after the cursor up to *)
(* the one that fills the window, or all.                                   *)
Payload(docs, cursor) ==
    LET open == {d \in Doc : d > cursor /\ docs[d].status = "open"}
        last == {d \in open : Cardinality({e \in open : e <= d}) = Window}
        resume == IF last = {} THEN 0 ELSE CHOOSE d \in last : TRUE
        first == {d \in open : resume = 0 \/ d <= resume}
    IN  [items |-> {[doc |-> d, version |-> docs[d].version] : d \in first}, cursor |-> resume]

(* The receipt has no journal entry and is not deleted. *)
PendingReceipt(doc) == Open(doc)

Stored(command) == {a \in receipts.answers : a.id = command.id}

(* advance_receipt_work_queue_v2: `ok' says whether the contents are        *)
(* accepted.  Rejections are stored too.                                    *)
Advance(command, ok) ==
    LET done == receipts.docs[command.doc].version = command.version /\ PendingReceipt(command.doc) /\ ok
        docs == IF done THEN [receipts.docs EXCEPT ![command.doc].status = "done"] ELSE receipts.docs
    IN  IF Stored(command) # {} THEN receipts
        ELSE [docs |-> docs,
              done |-> IF done THEN receipts.done \cup {command} ELSE receipts.done,
              answers |-> receipts.answers \cup
                {[id |-> command.id, status |-> IF done THEN "confirmed" ELSE "rejected", payload |-> Payload(docs, 0)]}]

-----------------------------------------------------------------------------
(* What the page does after an answer, a write or a key. *)

(* The first of some receipts goes on the form, the rest is the buffer.     *)
Least(items) == CHOOSE item \in items : \A other \in items : item.doc <= other.doc

TakeFirst(v, items) ==
    [v EXCEPT !.current = IF items = {} THEN NoItem ELSE Least(items),
              !.buffer = IF items = {} THEN {} ELSE items \ {Least(items)}]

(* Faulty: every answer brings another receipt. *)
NeverListed(v, payload) == FALSE

StillListed(v, payload) == v.current.doc \in DocsOf(payload.items)

(* mergeQueuePayload *)
Merge(v, box, payload) ==
    LET unavailable == Docs(box.pending) \cup Docs(box.failed)
        items == {item \in payload.items : item.doc \notin unavailable /\ item.doc # v.current.doc}
        next == [v EXCEPT !.buffer = items, !.cursor = payload.cursor]
    IN  IF v.editing = 0 /\ (~ StillListed(v, payload) \/ v.current.doc \in unavailable) THEN TakeFirst(next, items) ELSE next

(* loadQueue: one read at a time *)
LoadQueue(cursor) == IF load = NoLoad THEN [state |-> "going", cursor |-> cursor] ELSE load

(* moveNext, with what becomes of the read *)
MoveNext(v) ==
    /\ view' = TakeFirst(v, v.buffer)
    /\ load' = IF v.buffer = {} /\ v.cursor # 0 THEN LoadQueue(v.cursor) ELSE load

(* pump: the head of the outbox, unless a request is under way *)
Pump(box, now) ==
    IF now # NoFlight \/ box.pending = <<>> THEN now ELSE [state |-> "going", command |-> Head(box.pending)]

(* scheduleRetry *)
Retry(box) == timer \/ box.pending # <<>>

(* failed.splice(index, 1), which does nothing past the end *)
Spliced(failed, index) == IF index \in DOMAIN failed THEN RemoveAt(failed, index) ELSE failed

(* A fault is counted. *)
FaultCounted(h) == hist.faults < MaxFault /\ hist' = [h EXCEPT !.faults = @ + 1]

NextId == hist.made + 1

-----------------------------------------------------------------------------
(* The user. *)

(* queueCommand, up to its write *)
Press(formed) ==
    /\ view.current # NoItem /\ NextId <= MaxCommand
    /\ LET command == [id |-> NextId, doc |-> view.current.doc, version |-> view.current.version, formed |-> formed]
       IN  /\ outbox' = [pending |-> Append(outbox.pending, command), failed |-> Spliced(outbox.failed, view.editing)]
           /\ writes' = Append(writes, [kind |-> "queue", id |-> command.id, before |-> outbox, editing |-> view.editing])
           /\ hist' = [hist EXCEPT !.made = @ + 1]
    /\ UNCHANGED <<receipts, disk, view, load, flight, timer, late>>

Skip ==
    /\ view.current # NoItem
    /\ MoveNext([view EXCEPT !.editing = 0])
    /\ UNCHANGED <<receipts, disk, outbox, flight, timer, writes, late, hist>>

(* The edit button of a failed command *)
EditFailed(i) ==
    /\ i \in DOMAIN outbox.failed
    /\ view' = [view EXCEPT !.editing = i,
                            !.current = [doc |-> outbox.failed[i].doc, version |-> outbox.failed[i].version]]
    /\ UNCHANGED <<receipts, disk, outbox, load, flight, timer, writes, late, hist>>

WithdrawFailed(i) ==
    /\ i \in DOMAIN outbox.failed
    /\ outbox' = [outbox EXCEPT !.failed = RemoveAt(@, i)]
    /\ writes' = Append(writes, [kind |-> "withdraw"])
    /\ UNCHANGED <<receipts, disk, view, load, flight, timer, late, hist>>

-----------------------------------------------------------------------------
(* Writes: IndexedDB takes them in their order. *)

Stop(box) ==
    /\ timer' = timer
    /\ flight' = IF timer THEN NoFlight ELSE Pump(box, NoFlight)

(* A write that succeeds stores the outbox as it is by then. *)
Wrote ==
    /\ writes # <<>> /\ writes' = Tail(writes)
    /\ disk' = outbox
    /\ LET w == Head(writes) IN
       CASE w.kind = "queue" ->
              /\ MoveNext([view EXCEPT !.editing = 0])
              /\ flight' = Pump(outbox, flight)
              /\ hist' = [hist EXCEPT !.accepted = @ \cup {w.id}]
              /\ UNCHANGED timer
         [] w.kind = "pump" -> Stop(outbox) /\ UNCHANGED <<view, load, hist>>
         [] w.kind = "withdraw" -> UNCHANGED <<view, load, flight, timer, hist>>
    /\ UNCHANGED <<receipts, outbox, late>>

(* A write that fails: queueCommand puts the outbox of before back. *)
WriteFailed ==
    /\ BadWrites /\ writes # <<>> /\ writes' = Tail(writes)
    /\ LET w == Head(writes) IN
       CASE w.kind = "queue" ->
              /\ outbox' = w.before /\ view' = [view EXCEPT !.editing = w.editing]
              /\ UNCHANGED <<flight, timer>>
         [] w.kind = "pump" ->
              /\ timer' = Retry(outbox) /\ flight' = IF timer' THEN NoFlight ELSE Pump(outbox, NoFlight)
              /\ UNCHANGED <<outbox, view>>
         [] w.kind = "withdraw" -> UNCHANGED <<outbox, view, flight, timer>>
    /\ FaultCounted([hist EXCEPT !.unwritten = TRUE])
    /\ UNCHANGED <<receipts, disk, load, late>>

-----------------------------------------------------------------------------
(* Requests and answers. *)

ServeHead(ok) ==
    /\ flight.state = "going" /\ flight.command.formed
    /\ receipts' = Advance(flight.command, ok)
    /\ \E answer \in {a \in receipts'.answers : a.id = flight.command.id} :
        flight' = [state |-> "answered", command |-> flight.command, answer |-> answer]
    /\ UNCHANGED <<disk, outbox, view, load, timer, writes, late, hist>>

ServeLate(ok) ==
    \E command \in late :
        /\ command.formed
        /\ receipts' = Advance(command, ok) /\ late' = late \ {command}
        /\ UNCHANGED <<disk, outbox, view, load, flight, timer, writes, hist>>

(* Faulty: an answer leaves the command in the queue. *)
NotShifted(pending) == pending

(* pending.shift() *)
Shifted(pending) == IF pending = <<>> THEN <<>> ELSE Tail(pending)

(* The answer takes whatever command is first by now off the outbox, and    *)
(* puts the one it was sent for on the failed list.                         *)
Settle(status, merged) ==
    /\ outbox' = [pending |-> Shifted(outbox.pending),
                  failed |-> IF status = "rejected" THEN Append(outbox.failed, flight.command) ELSE outbox.failed]
    /\ view' = merged
    /\ flight' = [state |-> "saving"]
    /\ writes' = Append(writes, [kind |-> "pump"])
    /\ hist' = [hist EXCEPT !.answered = @ \cup {flight.command.id}]
    /\ UNCHANGED <<receipts, disk, load, timer, late>>

ReceiveAnswer ==
    /\ flight.state = "answered"
    /\ Settle(flight.answer.status, Merge(view, outbox, flight.answer.payload))

(* The request is refused before the procedure: nothing is stored. *)
Refused == flight.state = "going" /\ ~ flight.command.formed /\ Settle("rejected", view)

(* No usable answer: try again in three seconds.  The request may be late.  *)
Lost ==
    /\ flight.state \in {"going", "answered"}
    /\ late' \in {late} \cup IF flight.state = "going" THEN {late \cup {flight.command}} ELSE {}
    /\ timer' = Retry(outbox)
    /\ flight' = IF timer' THEN NoFlight ELSE Pump(outbox, NoFlight)
    /\ FaultCounted(hist)
    /\ UNCHANGED <<receipts, disk, outbox, view, load, writes>>

RetryFires ==
    /\ timer /\ timer' = FALSE
    /\ flight' = Pump(outbox, flight)
    /\ UNCHANGED <<receipts, disk, outbox, view, load, writes, late, hist>>

(* The online event, or the page becomes visible *)
Wake ==
    /\ flight' = Pump(outbox, flight)
    /\ load' = IF view.current = NoItem THEN LoadQueue(0) ELSE load
    /\ <<flight, load>>' # <<flight, load>>
    /\ UNCHANGED <<receipts, disk, outbox, view, timer, writes, late, hist>>

ServeLoad ==
    /\ load.state = "going"
    /\ load' = [state |-> "answered", cursor |-> load.cursor, payload |-> Payload(receipts.docs, load.cursor)]
    /\ UNCHANGED <<receipts, disk, outbox, view, flight, timer, writes, late, hist>>

(* The first read is followed by a pump, whatever became of it. *)
Loaded(ok) ==
    /\ load.state \in IF ok THEN {"answered"} ELSE {"going", "answered"}
    /\ view' = [IF ok THEN Merge(view, outbox, load.payload) ELSE view EXCEPT !.started = TRUE]
    /\ flight' = IF view.started THEN flight ELSE Pump(outbox, flight)
    /\ load' = NoLoad
    /\ IF ok THEN UNCHANGED hist ELSE FaultCounted(hist)
    /\ UNCHANGED <<receipts, disk, outbox, timer, writes, late>>

(* The page is opened again: the outbox comes from IndexedDB. *)
NewView == [current |-> NoItem, buffer |-> {}, cursor |-> 0, editing |-> 0, started |-> FALSE]

Reopen ==
    /\ outbox' = disk /\ view' = NewView /\ load' = [state |-> "going", cursor |-> 0]
    /\ flight' = NoFlight /\ timer' = FALSE /\ writes' = <<>>
    /\ late' \in {late} \cup IF flight.state = "going" THEN {late \cup {flight.command}} ELSE {}
    /\ FaultCounted(hist)
    /\ UNCHANGED <<receipts, disk>>

(* Another terminal edits a receipt, or processes it. *)
EditElsewhere(doc) ==
    /\ receipts.docs[doc].version < MaxVersion /\ Open(doc)
    /\ \E status \in {"open", "done"} :
        receipts' = [receipts EXCEPT !.docs[doc] = [version |-> @.version + 1, status |-> status]]
    /\ UNCHANGED <<disk, outbox, view, load, flight, timer, writes, late, hist>>

(* cleanup_operation_results: a stored answer is older than thirty days. *)
Forget ==
    /\ Forgets
    /\ \E a \in receipts.answers : flight.state # "answered" /\ receipts' = [receipts EXCEPT !.answers = @ \ {a}]
    /\ FaultCounted([hist EXCEPT !.forgotten = TRUE])
    /\ UNCHANGED <<disk, outbox, view, load, flight, timer, writes, late>>

-----------------------------------------------------------------------------
ReceiptInit ==
    /\ receipts = [docs |-> [d \in Doc |-> [version |-> 0, status |-> "open"]], done |-> {}, answers |-> {}]
    /\ disk = EmptyOutbox /\ outbox = EmptyOutbox
    /\ view = NewView /\ load = [state |-> "going", cursor |-> 0]
    /\ flight = NoFlight /\ timer = FALSE /\ writes = <<>> /\ late = {}
    /\ hist = [faults |-> 0, made |-> 0, accepted |-> {}, answered |-> {}, unwritten |-> FALSE, forgotten |-> FALSE]

ReceiptNext ==
    \/ \E formed \in BOOLEAN : Press(formed)
    \/ Skip
    \/ \E i \in 1..MaxCommand : EditFailed(i) \/ WithdrawFailed(i)
    \/ Wrote \/ WriteFailed
    \/ \E ok \in BOOLEAN : ServeHead(ok) \/ ServeLate(ok) \/ Loaded(ok)
    \/ ReceiveAnswer \/ Refused \/ Lost \/ RetryFires \/ Wake \/ ServeLoad \/ Reopen
    \/ \E doc \in Doc : EditElsewhere(doc)
    \/ Forget

ReceiptSpec == ReceiptInit /\ [][ReceiptNext]_receiptVars

(* Timers fire, and requests, answers, reads and writes come to an end:     *)
(* faults are finitely many.  A request that the procedure answers with an  *)
(* exception is sent again for ever, and is left out.                       *)
ReceiptFairness ==
    /\ WF_receiptVars(RetryFires) /\ WF_receiptVars(ServeLoad) /\ WF_receiptVars(Loaded(TRUE))
    /\ WF_receiptVars(\E ok \in BOOLEAN : ServeHead(ok)) /\ WF_receiptVars(Refused \/ ReceiveAnswer)
    /\ WF_receiptVars(Wrote)

ReceiptFairSpec == ReceiptSpec /\ ReceiptFairness

-----------------------------------------------------------------------------
(* Properties. *)

ReceiptTypeOK ==
    /\ \A box \in {disk, outbox} :
        /\ box.pending \in Seq(ReceiptCommand) /\ box.failed \in Seq(ReceiptCommand)
        /\ Cardinality(Ids(box.pending \o box.failed)) = Len(box.pending \o box.failed)
    /\ view.current.doc \in Doc \cup {0} /\ view.editing \in 0..MaxCommand
    /\ flight.state \in {"none", "going", "answered", "saving"} /\ load.state \in {"none", "going", "answered"}
    /\ late \subseteq ReceiptCommand /\ hist.made \in 0..MaxCommand

(* A receipt is processed once, by one command, although a press is         *)
(* repeated, an answer is lost or late, the page is reloaded before the     *)
(* outbox is written, and stored answers are deleted.                       *)
ProcessedOnce == \A a, b \in receipts.done : a.doc = b.doc => a = b

(* A command that the user is told was kept stays in the outbox, in memory  *)
(* and in IndexedDB, until there is an answer to it.                        *)
AcceptedKept ==
    \A id \in hist.accepted \ hist.answered : \A box \in {disk, outbox} : id \in Ids(box.pending)

(* The list of failures names no command that was carried out: the user     *)
(* would enter the receipt again.                                           *)
NoFalseFailure == \A c \in ToSet(outbox.failed) : c \notin receipts.done

(* An answer lists the receipts after the cursor it was asked for, up to    *)
(* its own.                                                                 *)
OutOfReach(doc, cursor, payload) == doc <= cursor \/ (payload.cursor # 0 /\ doc > payload.cursor)

Kept(cursor, payload) ==
    \/ view.current = NoItem \/ view'.current = view.current
    \/ ~ Open(view.current.doc)
    \/ view.current.doc \in Docs(outbox.pending) \cup Docs(outbox.failed)
    \/ OutOfReach(view.current.doc, cursor, payload)

(* The answer to a command or to a read does not take away the receipt that *)
(* the user is at, unless it was sent or processed, or is one that the      *)
(* answer does not reach.                                                   *)
FormStays ==
    [][ /\ flight.state = "answered" /\ flight'.state = "saving" => Kept(0, flight.answer.payload)
        /\ load.state = "answered" /\ load' = NoLoad => Kept(load.cursor, load.payload)]_receiptVars

(* A receipt is processed by one command, whatever is lost or forgotten.  A *)
(* command the user was told was kept is in memory and in IndexedDB until   *)
(* it is answered, while no write has failed; no command that was carried   *)
(* out is listed as failed, while no answer was deleted.  No answer takes   *)
(* away the receipt the user is at (receipt-work-queue.js).                 *)
OutboxTrue ==
    ProcessedOnce /\ (~ hist.unwritten => AcceptedKept) /\ (~ hist.forgotten => NoFalseFailure)

ReceiptsOnce == []OutboxTrue /\ FormStays

(* Every command is answered in the end, and the outbox is empty then, in   *)
(* IndexedDB too.                                                           *)
Drains == <>[](outbox.pending = <<>> /\ disk.pending = <<>>)
=============================================================================
