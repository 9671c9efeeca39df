----------------------------- MODULE CreateSlip -----------------------------
(***************************************************************************)
(* The dialog that opens a slip (wwwroot/js/features/create-slip-modal.js)  *)
(* on top of the change batches of the business home page                   *)
(* (enqueueAndFlushOperation and its neighbours in business-home.js).  The  *)
(* dialog makes a command once, keeps it until its result is known, and     *)
(* waits for whatever flight the page is in, which may be that of a batch   *)
(* without the command.                                                     *)
(*                                                                          *)
(* Both drafts are written with each change: a reload brings back form,     *)
(* command, queue and batch as they are.  HomeSync has the timers and the   *)
(* snapshots, SlipEditor the contents of the other operations.              *)
(***************************************************************************)
EXTENDS Integers, FiniteSets, Sequences, SequencesExt, Lists

CONSTANTS
    Cast,       \* casts
    NoCast,     \* a row without a cast
    MaxRow,     \* bound: rows of nominations (20 in the code)
    MaxCommand, \* bound: operations
    MaxRev,     \* bound: changes of the day
    MaxFlight,  \* bound: batches made
    Denials     \* TRUE when a request may be refused before the procedure runs

ASSUME CreateAssumption ==
    NoCast \notin Cast /\ {MaxRow, MaxCommand, MaxRev, MaxFlight} \subseteq Nat /\ Denials \in BOOLEAN

VARIABLES
    server,  \* revision, attending casts, slips and edits made, stored answers
    home,    \* the queue, the batch that is kept, the revision shown, batches made
    flight,  \* the request the page waits for, or its answer
    late,    \* batches of requests that the page no longer waits for
    dialog,  \* the form, its command, whether submit is waiting
    hist     \* history: operations, forms filled in, commands given up, whether one after a denial

createVars == <<server, home, flight, late, dialog, hist>>

Row == Cast \cup {NoCast}
Op == [id : 1..MaxCommand, kind : {"create_slip", "edit"}, form : Nat, casts : Seq(Row)]
NoCommand == [id |-> 0]
NoneKept == [id |-> 0, rev |-> 0, ops |-> <<>>]
NoFlight == [state |-> "none", batch |-> NoneKept, ok |-> FALSE]

Selected == {dialog.casts[i] : i \in DOMAIN dialog.casts} \ {NoCast}

(* availableNominationCasts *)
AvailableCasts == dialog.attending \ Selected

Locked == dialog.command # NoCommand
otherVars == <<server, home, flight, late, hist>>

-----------------------------------------------------------------------------
(* The form: a command locks it. *)

ChooseTable ==
    /\ ~ Locked /\ ~ dialog.table
    /\ dialog' = [dialog EXCEPT !.table = TRUE]
    /\ UNCHANGED otherVars

(* addNominationRow, removeLastNominationRow *)
AddRow ==
    /\ ~ Locked /\ AvailableCasts # {} /\ Len(dialog.casts) < MaxRow
    /\ dialog' = [dialog EXCEPT !.casts = Append(@, NoCast)]
    /\ UNCHANGED otherVars

RemoveRow ==
    /\ ~ Locked /\ dialog.casts # <<>>
    /\ dialog' = [dialog EXCEPT !.casts = Front(@)]
    /\ UNCHANGED otherVars

(* openCastModal, setSelectedCast *)
ChooseCast(i, c) ==
    /\ ~ Locked /\ i \in DOMAIN dialog.casts /\ c \in AvailableCasts
    /\ dialog' = [dialog EXCEPT !.casts[i] = c]
    /\ UNCHANGED otherVars

(* prosper:attendance-casts-updated *)
CastsUpdated ==
    /\ dialog.attending # server.attending
    /\ dialog' = [dialog EXCEPT !.attending = server.attending]
    /\ UNCHANGED otherVars

-----------------------------------------------------------------------------
(* The queue of the page. *)

NextOp == Len(hist.ops) + 1

(* Faulty: each press makes a command. *)
CommandAnew == [id |-> NextOp, kind |-> "create_slip", form |-> hist.forms, casts |-> dialog.casts]

(* buildCreateCommand, unless there is one whose result is not known *)
Command ==
    IF Locked THEN dialog.command
    ELSE [id |-> NextOp, kind |-> "create_slip", form |-> hist.forms, casts |-> dialog.casts]

(* pendingOperations.has *)
Queued(op) == \E i \in DOMAIN home.queue : home.queue[i].id = op.id

(* createFlushBatch and the first half of flushBusinessHomeChanges: a batch *)
(* that is kept goes first; one flight at a time.                           *)
StartFlight(queue) ==
    LET batch == IF home.batch # NoneKept THEN home.batch
                 ELSE [id |-> home.batches + 1, rev |-> home.rev, ops |-> queue]
    IN  /\ batch.id <= MaxFlight
        /\ home' = [home EXCEPT !.queue = queue, !.batch = batch, !.batches = IF home.batch = NoneKept THEN @ + 1 ELSE @]
        /\ flight' = [state |-> "going", batch |-> batch, ok |-> FALSE]

(* The submit button: enqueueAndFlushOperation queues the command unless it *)
(* is there, and joins the flight of the page or starts one.                *)
PressCreate ==
    /\ dialog.table /\ ~ dialog.waiting
    /\ dialog.attending # {}
    /\ Command.id <= MaxCommand
    /\ IF flight # NoFlight
       THEN /\ home' = [home EXCEPT !.queue = IF Queued(Command) THEN @ ELSE Append(@, Command)]
            /\ UNCHANGED flight
       ELSE StartFlight(IF Queued(Command) THEN home.queue ELSE Append(home.queue, Command))
    /\ dialog' = [dialog EXCEPT !.command = Command, !.waiting = TRUE]
    /\ hist' = [hist EXCEPT !.ops = IF Locked THEN @ ELSE Append(@, Command)]
    /\ UNCHANGED <<server, late>>

(* Another dialog queues an operation. *)
QueueEdit ==
    /\ NextOp <= MaxCommand
    /\ LET op == [id |-> NextOp, kind |-> "edit", form |-> 0, casts |-> <<>>]
       IN  /\ home' = [home EXCEPT !.queue = Append(@, op)]
           /\ hist' = [hist EXCEPT !.ops = Append(@, op)]
    /\ UNCHANGED <<server, flight, late, dialog>>

(* A timer or the online event *)
SendQueue ==
    /\ flight = NoFlight
    /\ home.batch # NoneKept \/ home.queue # <<>>
    /\ StartFlight(home.queue)
    /\ UNCHANGED <<server, late, dialog, hist>>

Reset(d) == [d EXCEPT !.command = NoCommand, !.table = FALSE, !.casts = <<>>, !.waiting = FALSE]

(* What the dialog takes for a definitive refusal: the status of the answer *)
(* it waited for, whichever batch that was.                                 *)
Definitive(status) == status = "rejected"

(* submit after the flight: the command goes when it was refused, from the  *)
(* queue too (discardOperation); the batch that is kept is left alone.      *)
Continue(d, status) ==
    IF d.waiting /\ Definitive(status) THEN [d EXCEPT !.command = NoCommand, !.waiting = FALSE]
    ELSE [d EXCEPT !.waiting = FALSE]

GiveUp(d, status) == IF d.waiting /\ Definitive(status) THEN {d.command} ELSE {}

(* prosper:business-home-flush-completed *)
Completed(ids, ok) == ok /\ dialog.command.id \in ids

(* applyFlushResult: the operations of the batch leave the queue, the       *)
(* listener of the dialog runs, and then submit goes on.                    *)
ReceiveFlight ==
    /\ flight.state = "answered"
    /\ LET ids == {flight.batch.ops[i].id : i \in DOMAIN flight.batch.ops}
           status == IF flight.ok THEN "confirmed" ELSE "rejected"
           told == IF Completed(ids, flight.ok) THEN Reset(dialog) ELSE dialog
           given == GiveUp(told, status)
       IN  /\ dialog' = Continue(told, status)
           /\ home' = [home EXCEPT !.queue = WithoutIds(@, ids \cup {c.id : c \in given}), !.batch = NoneKept, !.rev = server.rev]
           /\ hist' = [hist EXCEPT !.givenUp = @ \cup given, !.forms = IF told # dialog THEN @ + 1 ELSE @]
    /\ flight' = NoFlight
    /\ UNCHANGED <<server, late>>

(* No answer with a snapshot came: the batch is kept.  The request was lost *)
(* or is late, or it was refused before it reached the procedure.           *)
NotReceived(status) ==
    /\ flight.state \in IF status = "rejected" THEN {"going"} ELSE {"going", "answered"}
    /\ LET given == GiveUp(dialog, status)
       IN  /\ dialog' = Continue(dialog, status)
           /\ home' = [home EXCEPT !.queue = WithoutIds(@, {c.id : c \in given})]
           /\ hist' = [hist EXCEPT !.givenUp = @ \cup given, !.denied = @ \/ given # {}]
    /\ late' \in {late} \cup IF flight.state = "going" /\ status # "rejected" THEN {late \cup {flight.batch}} ELSE {}
    /\ flight' = NoFlight
    /\ UNCHANGED server

Fail == NotReceived("unavailable")
Deny == Denials /\ NotReceived("rejected")

ReloadHome ==
    /\ flight # NoFlight
    /\ late' = late \cup IF flight.state = "going" THEN {flight.batch} ELSE {}
    /\ flight' = NoFlight
    /\ dialog' = [dialog EXCEPT !.waiting = FALSE]
    /\ UNCHANGED <<server, home, hist>>

LoadRevision ==
    /\ home.rev # server.rev
    /\ home' = [home EXCEPT !.rev = server.rev]
    /\ UNCHANGED <<server, flight, late, dialog, hist>>

-----------------------------------------------------------------------------
(* The server. *)

(* The operations of a batch are made all together or not at all; an        *)
(* operation id is accepted once.                                           *)
BatchAcceptable(batch) ==
    /\ batch.rev = server.rev
    /\ \A i \in DOMAIN batch.ops :
        LET op == batch.ops[i] IN
        /\ op \notin server.tried
        /\ \A j \in DOMAIN op.casts : op.casts[j] \in server.attending /\ \A k \in 1..(j - 1) : op.casts[k] # op.casts[j]

Answered(batch) == \E a \in server.answers : a.id = batch.id

(* sync_business_home_changes_v2: `ok' says whether the edits are accepted. *)
ServeBatch(batch, ok) ==
    LET edits == \E i \in DOMAIN batch.ops : batch.ops[i].kind = "edit"
        done == BatchAcceptable(batch) /\ (edits => ok)
        made == {batch.ops[i] : i \in DOMAIN batch.ops}
    IN  server' = IF Answered(batch) THEN server
              ELSE [server EXCEPT !.rev = IF done THEN @ + 1 ELSE @,
                              !.made = IF done THEN @ \cup made ELSE @,
                              !.tried = @ \cup made,
                              !.answers = @ \cup {[id |-> batch.id, ok |-> done]}]

ServeFlight(ok) ==
    /\ flight.state = "going" /\ server.rev < MaxRev
    /\ ServeBatch(flight.batch, ok)
    /\ flight' = [flight EXCEPT !.state = "answered", !.ok = (CHOOSE a \in server'.answers : a.id = flight.batch.id).ok]
    /\ UNCHANGED <<home, late, dialog, hist>>

ServeLate(ok) ==
    /\ server.rev < MaxRev
    /\ \E batch \in late : ServeBatch(batch, ok) /\ late' = late \ {batch}
    /\ UNCHANGED <<home, flight, dialog, hist>>

(* Other terminals change the day, and who attends. *)
OtherTerminal ==
    /\ server.rev < MaxRev
    /\ server' \in {[server EXCEPT !.rev = @ + 1]} \cup {[server EXCEPT !.rev = @ + 1, !.attending = server.attending \ {c}] : c \in server.attending}
    /\ UNCHANGED <<home, flight, late, dialog, hist>>

-----------------------------------------------------------------------------
CreateInit ==
    /\ server = [rev |-> 0, attending |-> Cast, made |-> {}, tried |-> {}, answers |-> {}]
    /\ home = [queue |-> <<>>, batch |-> NoneKept, rev |-> 0, batches |-> 0]
    /\ flight = NoFlight /\ late = {}
    /\ dialog = [table |-> FALSE, casts |-> <<>>, attending |-> Cast, command |-> NoCommand, waiting |-> FALSE]
    /\ hist = [ops |-> <<>>, forms |-> 1, givenUp |-> {}, denied |-> FALSE]

CreateNext ==
    \/ ChooseTable \/ AddRow \/ RemoveRow
    \/ \E i \in 1..MaxRow, c \in Cast : ChooseCast(i, c)
    \/ CastsUpdated \/ PressCreate \/ QueueEdit \/ SendQueue
    \/ ReceiveFlight \/ Fail \/ Deny \/ ReloadHome \/ LoadRevision
    \/ \E ok \in BOOLEAN : ServeFlight(ok) \/ ServeLate(ok)
    \/ OtherTerminal

CreateSpec == CreateInit /\ [][CreateNext]_createVars

-----------------------------------------------------------------------------
(* Properties. *)

CreateTypeOK ==
    /\ server.made \subseteq Op /\ server.tried \subseteq Op /\ server.rev \in 0..MaxRev
    /\ \A i, j \in DOMAIN home.queue : home.queue[i].id = home.queue[j].id => i = j
    /\ home.queue \in Seq(Op) /\ home.batch.ops \in Seq(Op) /\ home.rev \in 0..MaxRev
    /\ flight.state \in {"none", "going", "answered"} /\ (flight # NoFlight => flight.batch = home.batch)
    /\ dialog.casts \in Seq(Row) /\ dialog.attending \subseteq Cast
    /\ dialog.command \in Op \cup {NoCommand}

(* One form makes one slip, however often the button is pressed, whatever   *)
(* is lost or late and whichever batch the dialog waited for.               *)
CreatedOnce == \A a, b \in server.made : a.kind = "create_slip" /\ a.form = b.form => a = b

(* A command that the dialog has given up, so that the user fills in the    *)
(* form again, does not open a slip later.                                  *)
GivenUpNeverCreated == hist.givenUp \cap server.made = {}

(* The form is emptied only for a slip that exists. *)
KeptUntilCreated == [][hist'.forms # hist.forms => dialog.command \in server.made]_createVars

(* The form never nominates a cast twice, although casts come and go while  *)
(* it is filled in.                                                         *)
NominatedOnce ==
    \A i, j \in DOMAIN dialog.casts : dialog.casts[i] = dialog.casts[j] /\ dialog.casts[i] # NoCast => i = j

(* One form opens one slip, whatever is lost, late or pressed again, and a  *)
(* command the dialog gave up opens none: unless it gave one up because a   *)
(* request was refused before the procedure ran, while the batch with the   *)
(* command is kept.  The form is emptied only for a slip that exists and    *)
(* nominates nobody twice (create-slip-modal.js).                           *)
SlipOpenedOnce ==
    /\ [](~ hist.denied => CreatedOnce /\ GivenUpNeverCreated)
    /\ []NominatedOnce
    /\ KeptUntilCreated
=============================================================================
