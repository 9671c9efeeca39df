------------------------------ MODULE PrintQueue ------------------------------
(***************************************************************************)
(* Printing on one terminal: the queue of jobs                              *)
(* (wwwroot/js/features/sii-print-queue.js), the statement and the receipt  *)
(* printer (sii-checkout-statement-printer.js, sii-receipt-printer.js) and  *)
(* what business-checkout.js does with both for one slip.                   *)
(*                                                                          *)
(* The calls that change the slip are those of CheckoutRpc; here each one   *)
(* is answered at once and confirmed.  A statement and a checkout are their *)
(* numbers.                                                                 *)
(***************************************************************************)
EXTENDS Integers, FiniteSets, Sequences, Lists

CONSTANTS
    MaxKept,     \* receipts that can wait to be printed again (20)
    MaxIssue,    \* bound: statements issued
    MaxOpen,     \* bound: dialogs opened
    MaxJob,      \* bound: jobs queued
    MaxTillReload \* bound: reloads of the page

ASSUME PrintAssumption == {MaxKept, MaxIssue, MaxOpen, MaxJob, MaxTillReload} \subseteq Nat /\ MaxKept > 0

VARIABLES
    slip,   \* the slip in the database
    kept,   \* localStorage: the statement, the receipts to print again, those printed
    till,   \* the page: the dialog, the action under way, the disabled buttons
    jobs,   \* what `tail' has still to do, in order
    prints  \* history: numbers used, papers that came out, what was reported of each receipt

printVars == <<slip, kept, till, jobs, prints>>

Status == {"open", "checkout_ready", "checked_out"}
State == {"pending", "printing", "printed", "failed"}
Number == 1..MaxIssue
Phase == {"waiting", "open", "sent", "printed", "broken"}

(* A receipt job carries whether it says that it is a copy; a statement job *)
(* carries the dialog it belongs to and whether that still keeps it.        *)
(* `known' is history: a paper was reported when the receipt was asked for. *)
(* A receipt that waits to be printed again is kept as it was asked for.    *)
Job == [no : 1..MaxJob, kind : {"statement", "receipt", "retry"}, key : Number, mark : BOOLEAN,
        dialog : 0..MaxOpen, keeps : BOOLEAN, phase : Phase, known : BOOLEAN]
Waiting == [key : Number, mark : BOOLEAN, known : BOOLEAN]
Dialog == [id : 1..MaxOpen, statement : Number, state : State, task : BOOLEAN]

-----------------------------------------------------------------------------
(* sii-print-queue.js *)

NewJob(kind, key, mark, dialog, known) ==
    [no |-> prints.jobs + 1, kind |-> kind, key |-> key, mark |-> mark,
     dialog |-> dialog, keeps |-> TRUE, phase |-> "waiting", known |-> known]

(* enqueue *)
Enqueue(job) == prints.jobs < MaxJob /\ jobs' = Append(jobs, job)

(* tail.then(job, job): when those before it have ended, well or badly *)
MayBegin(i) == i = 1

InPhase(i, phase) == jobs' = [jobs EXCEPT ![i].phase = phase]

(* The job of place i leaves the queue. *)
Without(i) == SubSeq(jobs, 1, i - 1) \o SubSeq(jobs, i + 1, Len(jobs))

-----------------------------------------------------------------------------
(* sii-receipt-printer.js *)

Others(list, key) == AtPlaces(list, {n \in 1..Len(list) : list[n].key # key})

(* Faulty: the receipt stays in the list. *)
StillPending(k, key) == k.pending

(* removePendingReceipt *)
RemovePending(k, key) == Others(k.pending, key)

(* upsertPendingReceipt *)
UpsertPending(k, job) ==
    LET list == <<[key |-> job.key, mark |-> job.mark, known |-> job.known]>> \o Others(k.pending, job.key)
    IN  SubSeq(list, 1, IF Len(list) > MaxKept THEN MaxKept ELSE Len(list))

(* markSuccessfulReceipt *)
MarkSuccessful(k, key) == k.printed \cup {key}

(* print, with explicitReprint: whether the paper says so is settled here   *)
ReceiptJob(key) == NewJob("receipt", key, key \in kept.printed, 0, key \in prints.reported)

(* The lists are drawn: every button is enabled. *)
Drawn(p) == [p EXCEPT !.off = {}]

(* The page goes on with what waited for the job. *)
Ends(p, job) == IF p.busy = job.no THEN [p EXCEPT !.busy = 0] ELSE p

Report(key, what) == [prints.told EXCEPT ![key] = what]

(* The list is full: the oldest receipt leaves it. *)
Dropped(told, list) ==
    [k \in Number |-> IF \E n \in 1..Len(kept.pending) : kept.pending[n].key = k /\ \A m \in 1..Len(list) : list[m].key # k
                      THEN "dropped" ELSE told[k]]

(* The statement of a dialog: its state is written where it is kept.        *)
StatementEnds(i, state) ==
    LET job == jobs[i]
    IN  /\ kept' = IF job.keeps THEN [kept EXCEPT !.queue = {[statement |-> job.key, state |-> state]}] ELSE kept
        /\ till' = [till EXCEPT !.current =
                        {IF d.id = job.dialog THEN [d EXCEPT !.state = state, !.task = FALSE] ELSE d : d \in @}]
        /\ UNCHANGED prints

(* Nothing was printed, or nobody knows: catch of print and of the retry    *)
Fails(i) ==
    LET job == jobs[i]
    IN  /\ jobs' = Without(i)
        /\ IF job.kind = "statement" THEN StatementEnds(i, "failed")
           ELSE /\ kept' = [kept EXCEPT !.pending = UpsertPending(kept, job)]
                /\ till' = Drawn(Ends(till, job))
                /\ prints' = [prints EXCEPT !.told = Dropped(Report(job.key, "failed"), UpsertPending(kept, job))]
        /\ UNCHANGED slip

(* printNow, printRequest: manager.start, or there is no printer            *)
Start(i) ==
    /\ jobs[i].phase = "waiting" /\ MayBegin(i)
    /\ \/ InPhase(i, "open") /\ UNCHANGED <<slip, kept, till, prints>>
       \/ Fails(i)

(* the sections, feed and cut; a section that fails breaks off              *)
SendSections(i) ==
    /\ jobs[i].phase = "open"
    /\ InPhase(i, "sent") \/ InPhase(i, "broken")
    /\ UNCHANGED <<slip, kept, till, prints>>

Paper(job, ok) == [ok |-> ok, no |-> job.no, kind |-> job.kind, key |-> job.key, mark |-> job.mark, known |-> job.known]

(* manager.doPrint: it can fail before the paper comes out and after        *)
DoPrint(i) ==
    LET job == jobs[i]
    IN  /\ job.phase = "sent"
        /\ \/ /\ InPhase(i, "printed")
              /\ IF job.kind = "statement" THEN
                    /\ prints' = [prints EXCEPT !.papers = Append(@, Paper(job, TRUE))]
                    /\ UNCHANGED <<kept, till>>
                 ELSE
                    /\ kept' = [kept EXCEPT !.printed = MarkSuccessful(kept, job.key),
                                            !.pending = RemovePending(kept, job.key)]
                    /\ till' = Drawn(till)
                    /\ prints' = [prints EXCEPT !.papers = Append(@, Paper(job, TRUE)), !.reported = @ \cup {job.key},
                                            !.told = Report(job.key, "printed")]
           \/ /\ InPhase(i, "broken")
              /\ prints' \in {prints, [prints EXCEPT !.papers = Append(@, Paper(job, FALSE))]}
              /\ UNCHANGED <<kept, till>>
        /\ UNCHANGED slip

(* finally manager.stop, and the promise of the job is settled              *)
Stop(i) ==
    /\ jobs[i].phase = "printed"
    /\ jobs' = Without(i)
    /\ IF jobs[i].kind = "statement" THEN StatementEnds(i, "printed")
       ELSE till' = Ends(till, jobs[i]) /\ UNCHANGED <<kept, prints>>
    /\ UNCHANGED slip

StopBroken(i) == jobs[i].phase = "broken" /\ Fails(i)

(* Faulty: the request that is printed again has lost its mark. *)
RetryUnmarked(item) == NewJob("retry", item.key, FALSE, 0, item.known)

(* A receipt is printed again with the request that was kept. *)
RetryJob(item) == NewJob("retry", item.key, item.mark, 0, item.known)

(* The list of receipts to print again: the button is disabled until the    *)
(* list is drawn again.                                                     *)
Retry ==
    \E n \in 1..Len(kept.pending) :
        LET item == kept.pending[n]
        IN  /\ item.key \notin till.off
            /\ Enqueue(RetryJob(item))
            /\ till' = [till EXCEPT !.off = @ \cup {item.key}]
            /\ prints' = [prints EXCEPT !.jobs = @ + 1]
            /\ UNCHANGED <<slip, kept>>

DismissReceipt ==
    \E n \in 1..Len(kept.pending) :
        /\ kept' = [kept EXCEPT !.pending = RemovePending(kept, kept.pending[n].key)]
        /\ till' = Drawn(till)
        /\ prints' = [prints EXCEPT !.told = Report(kept.pending[n].key, "dismissed")]
        /\ UNCHANGED <<slip, jobs>>

-----------------------------------------------------------------------------
(* business-checkout.js *)

Free == till.busy = 0
Closed == till.current = {}
Show(d) == till' = [till EXCEPT !.current = {d}]

(* printStatementCore: not while the dialog has a task *)
PrintCore(d, k) ==
    /\ Enqueue(NewJob("statement", d.statement, FALSE, d.id, FALSE))
    /\ kept' = [k EXCEPT !.queue = {[statement |-> d.statement, state |-> "printing"]}]
    /\ Show([d EXCEPT !.state = "printing", !.task = TRUE])

NewDialog(statement, state) == [id |-> prints.dialogs + 1, statement |-> statement, state |-> state, task |-> FALSE]

(* open and issue on a slip that is open *)
Issue ==
    /\ Free /\ Closed /\ slip.status = "open" /\ slip.statement < MaxIssue /\ prints.dialogs < MaxOpen
    /\ slip' = [slip EXCEPT !.status = "checkout_ready", !.statement = @ + 1]
    /\ PrintCore(NewDialog(slip.statement + 1, "pending"), kept)
    /\ prints' = [prints EXCEPT !.jobs = @ + 1, !.dialogs = @ + 1]

(* open on a slip whose statement is issued: the statement that is kept, or *)
(* else the one of the database                                             *)
Open ==
    /\ Free /\ Closed /\ slip.status = "checkout_ready" /\ prints.dialogs < MaxOpen
    /\ IF kept.queue # {}
       THEN (\E q \in kept.queue : Show(NewDialog(q.statement, q.state))) /\ UNCHANGED kept
       ELSE /\ Show(NewDialog(slip.statement, "pending"))
            /\ kept' = [kept EXCEPT !.queue = {[statement |-> slip.statement, state |-> "pending"]}]
    /\ prints' = [prints EXCEPT !.dialogs = @ + 1]
    /\ UNCHANGED <<slip, jobs>>

(* The dialog is left; a task it has goes on.  `left' is history. *)
Close ==
    /\ till.current # {}
    /\ till' = [till EXCEPT !.current = {}]
    /\ prints' = [prints EXCEPT !.left = @ \/ \E d \in till.current : d.task]
    /\ UNCHANGED <<slip, kept, jobs>>

(* printStatement, the button *)
PrintStatement ==
    \E d \in till.current :
        /\ ~ d.task
        /\ PrintCore(d, kept)
        /\ prints' = [prints EXCEPT !.jobs = @ + 1]
        /\ UNCHANGED slip

(* release, from the dialog when it has no task, or from the list           *)
Release ==
    /\ Free /\ slip.status = "checkout_ready"
    /\ \A d \in till.current : ~ d.task
    /\ slip' = [slip EXCEPT !.status = "open"]
    /\ kept' = [kept EXCEPT !.queue = {}]
    /\ till' = [till EXCEPT !.current = {}]
    /\ UNCHANGED <<jobs, prints>>

(* queueDiscarded: the end of its task writes nothing. *)
Discard(list, dialog) == [i \in 1..Len(list) |-> IF list[i].dialog = dialog THEN [list[i] EXCEPT !.keeps = FALSE] ELSE list[i]]

(* confirm: the dialog's statement is discarded and the receipt printed,    *)
(* nobody waits for it                                                      *)
Confirm ==
    \E d \in till.current :
        LET checkout == slip.statement
            job == ReceiptJob(checkout)
        IN  /\ Free /\ slip.status = "checkout_ready" /\ prints.jobs < MaxJob
            /\ slip' = [slip EXCEPT !.status = "checked_out"]
            /\ kept' = [kept EXCEPT !.queue = {}]
            /\ till' = [till EXCEPT !.current = {}]
            /\ jobs' = Append(Discard(jobs, d.id), job)
            /\ prints' = [prints EXCEPT !.jobs = @ + 1]

(* printReceipt: the page waits until the job has ended *)
PrintReceipt ==
    /\ Free /\ Closed /\ slip.status = "checked_out"
    /\ Enqueue(ReceiptJob(slip.statement))
    /\ till' = [till EXCEPT !.busy = prints.jobs + 1]
    /\ prints' = [prints EXCEPT !.jobs = @ + 1]
    /\ UNCHANGED <<slip, kept>>

(* cancelCheckout, clearReceiptTerminalState *)
CancelCheckout ==
    /\ Free /\ Closed /\ slip.status = "checked_out"
    /\ slip' = [slip EXCEPT !.status = "open"]
    /\ kept' = [kept EXCEPT !.pending = RemovePending(kept, slip.statement), !.printed = @ \ {slip.statement}]
    /\ till' = Drawn(till)
    /\ prints' = [prints EXCEPT !.told = Report(slip.statement, "cancelled"), !.reported = @ \ {slip.statement}]
    /\ UNCHANGED jobs

(* The page is loaded again: the queue was in memory only. *)
ReloadTill ==
    /\ prints.reloads < MaxTillReload
    /\ jobs' = <<>>
    /\ till' = [current |-> {}, busy |-> 0, off |-> {}]
    /\ prints' = [prints EXCEPT !.reloads = @ + 1]
    /\ UNCHANGED <<slip, kept>>

-----------------------------------------------------------------------------
PrintInit ==
    /\ slip = [status |-> "open", statement |-> 0]
    /\ kept = [queue |-> {}, pending |-> <<>>, printed |-> {}]
    /\ till = [current |-> {}, busy |-> 0, off |-> {}]
    /\ jobs = <<>>
    /\ prints = [jobs |-> 0, dialogs |-> 0, reloads |-> 0, left |-> FALSE, papers |-> <<>>, reported |-> {},
               told |-> [k \in Number |-> "nothing"]]

JobWorks(i) == i <= Len(jobs) /\ (Start(i) \/ SendSections(i) \/ DoPrint(i) \/ Stop(i) \/ StopBroken(i))

PrintNext ==
    \/ \E i \in 1..Len(jobs) : JobWorks(i)
    \/ Retry \/ DismissReceipt
    \/ Issue \/ Open \/ Close \/ PrintStatement \/ Release \/ Confirm \/ PrintReceipt \/ CancelCheckout
    \/ ReloadTill

PrintSpec == PrintInit /\ [][PrintNext]_printVars

(* The printer answers every call, well or badly. *)
PrintFairness == WF_printVars(JobWorks(1))
FairPrintSpec == PrintSpec /\ PrintFairness

-----------------------------------------------------------------------------
PrintTypeOK ==
    /\ slip.status \in Status /\ slip.statement \in 0..MaxIssue
    /\ kept.queue \subseteq [statement : Number, state : State] /\ kept.printed \subseteq Number
    /\ Len(kept.pending) <= MaxKept /\ \A n \in 1..Len(kept.pending) : kept.pending[n] \in Waiting
    /\ till.current \subseteq Dialog /\ till.busy \in 0..MaxJob /\ till.off \subseteq Number
    /\ \A i \in 1..Len(jobs) : jobs[i] \in Job

PendingKeys == {kept.pending[n].key : n \in 1..Len(kept.pending)}
FailedKeys == {k \in Number : prints.told[k] = "failed"}

(* One job at a time has the printer, whether it prints a statement or a    *)
(* receipt and however the one before it ended.                             *)
OneSession == Cardinality({i \in 1..Len(jobs) : jobs[i].phase # "waiting"}) <= 1

(* A receipt whose last job failed can be printed again from the list, and  *)
(* only such a receipt is there; only newer ones drive it out of the list.  *)
FailedIsKept == PendingKeys = FailedKeys

(* A receipt asked for after a paper of it was reported says that it is a   *)
(* copy, also when that request fails and is printed again from the list,   *)
(* and after the page was loaded again.  A receipt asked for before the     *)
(* first paper was reported keeps its request without the mark: see         *)
(* ReprintMarked.                                                           *)
LaterCopyMarked == \A n \in 1..Len(prints.papers) : prints.papers[n].known => prints.papers[n].mark

(* The requirement (docs/requirements-definition.md, FR-13): a receipt that *)
(* is printed again can be told from the first one.  The code does not      *)
(* ensure it: the list prints the request as it was made (sii-receipt-      *)
(* printer.js:488), also when a paper came out and was reported since.      *)
ReprintMarked ==
    \A m, n \in 1..Len(prints.papers) :
        LET first == prints.papers[m]
            again == prints.papers[n]
        IN  m < n /\ first.kind # "statement" /\ first.ok /\ again.kind = "retry" /\ again.key = first.key
            => again.mark

(* A press of the receipt button does not lock the page for ever: the job   *)
(* is reached and ends although others fail before it.                      *)
Unlocked == till.busy # 0 ~> till.busy = 0

(* The statement that is kept is the one that is issued. *)
KeptStatementIsIssued == \A q \in kept.queue : slip.status = "checkout_ready" /\ q.statement = slip.statement

(* So it is as long as no dialog is left while it prints: the end of a job, *)
(* however late, does not put back a statement that was paid or released.   *)
KeptFollowsDialog == ~ prints.left => KeptStatementIsIssued

(* All of it: what the queue, the printers and their lists promise          *)
(* (sii-print-queue.js, sii-receipt-printer.js, business-checkout.js).      *)
PrintedAsKept == OneSession /\ FailedIsKept /\ LaterCopyMarked /\ KeptFollowsDialog
=============================================================================
