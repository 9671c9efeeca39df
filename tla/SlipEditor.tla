----------------------------- MODULE SlipEditor -----------------------------
(***************************************************************************)
(* Editing one slip on the business home page: the editor dialog            *)
(* (wwwroot/js/features/business-slip-editor.js), the way the page shows a  *)
(* queued operation before it is saved (projectOperation and                *)
(* refreshSlipSummary of business-home.js), and what the server makes of it *)
(* (apply_business_slip_editor_operation_internal, Sql/store_rpc/09).       *)
(*                                                                          *)
(* Rows the server made have positive numbers.  A row that only the page    *)
(* shows, for an operation on its way, has the id `temporary:<operation>',  *)
(* here the negated number of the operation, which Number() cannot read.    *)
(*                                                                          *)
(* How batches are lost and repeated is HomeSync's subject: here a batch is *)
(* sent and answered.                                                       *)
(***************************************************************************)
EXTENDS Integers, FiniteSets, Sequences, SequencesExt

CONSTANTS
    Cast,      \* attending casts
    Item,      \* items of the catalogue
    BackItem,  \* those that ask who the back is for
    NoCast,    \* no back
    Section,   \* sections of the editor that are opened
    MaxOp,     \* bound: operations typed
    MaxPiece,  \* bound: pieces put in the order queue
    MaxStaff   \* bound: changes other staff make

EditorAssumption ==
    /\ BackItem \subseteq Item /\ NoCast \notin Cast
    /\ Section \subseteq {"customers", "nominations", "adjustments", "orders"}
    /\ {MaxOp, MaxPiece, MaxStaff} \subseteq Nat

VARIABLES
    slip,     \* the slip in the database
    shown,    \* the slip in the snapshot of the page
    pending,  \* pendingOperations, in order
    sent,     \* the length of the batch on its way, and the revision it names
    editor,   \* state, and what the form of the editor holds
    ops       \* history: operations typed, batches refused

editVars == <<slip, shown, pending, sent, editor, ops>>

-----------------------------------------------------------------------------
Key == Item \X (Cast \cup {NoCast})
Empty == [k \in Key |-> 0]
NoPicks == [c \in Cast \cup {NoCast} |-> 0]

(* A slip: the customers, nominations, fees, orders and adjustments that    *)
(* are active; `others' counts the changes of other terminals.              *)
Id == Int
Contents ==
    [open : BOOLEAN, rev : Nat, others : Nat, next : Nat, guests : SUBSET Id,
     nominations : SUBSET [id : Id, cast : Cast], fees : SUBSET Id,
     orders : SUBSET [id : Id, key : Key, n : Nat], adjustments : SUBSET Id]

Kind == {"add_customer", "update_customer", "leave_customer", "add_nomination", "cancel_nomination",
         "add_adjustment", "void_adjustment", "add_order", "void_order"}

Seen == [others : Nat, refused : Nat]
NothingSeen == [others |-> 0, refused |-> 0]

(* `record' is 0 when there is none; `valid' says whether the server will   *)
(* accept the names, times, casts and items that were typed or chosen;      *)
(* `seen' is not sent, it tells which changes of others and which refusals  *)
(* the page knew when the form was opened.                                  *)
Op == [id : Nat, kind : Kind, record : Nat, cast : Cast \cup {NoCast}, duplicate : BOOLEAN,
       key : Key, n : Nat, valid : BOOLEAN, seen : Seen]

AnyKey == CHOOSE k \in Key : TRUE
Blank(kind) == [id |-> 0, kind |-> kind, record |-> 0, cast |-> NoCast, duplicate |-> FALSE,
                key |-> AnyKey, n |-> 0, valid |-> TRUE, seen |-> NothingSeen]

(* Number(): a temporary id is not a number. *)
Number(id) == IF id > 0 THEN id ELSE 0

-----------------------------------------------------------------------------
(* Faulty: cancelling a nomination leaves its fee on the screen, and orders *)
(* and adjustments are not shown before they are saved.                     *)
ProjectKeepingFee(c, o) ==
    LET id == 0 - o.id IN
    CASE o.kind = "add_customer" -> [c EXCEPT !.guests = @ \cup {id}]
      [] o.kind = "leave_customer" -> [c EXCEPT !.guests = @ \ {o.record}]
      [] o.kind = "add_nomination" -> [c EXCEPT !.nominations = @ \cup {[id |-> id, cast |-> o.cast]}, !.fees = @ \cup {id}]
      [] o.kind = "cancel_nomination" -> [c EXCEPT !.nominations = {m \in @ : m.id # o.record}]
      [] OTHER -> c

(* projectOperation: the page does not check anything. *)
Project(c, o) ==
    LET id == 0 - o.id IN
    CASE o.kind = "add_customer" -> [c EXCEPT !.guests = @ \cup {id}]
      [] o.kind = "update_customer" -> c
      [] o.kind = "leave_customer" -> [c EXCEPT !.guests = @ \ {o.record}]
      [] o.kind = "add_nomination" -> [c EXCEPT !.nominations = @ \cup {[id |-> id, cast |-> o.cast]}, !.fees = @ \cup {id}]
      [] o.kind = "cancel_nomination" -> [c EXCEPT !.nominations = {m \in @ : m.id # o.record}, !.fees = @ \ {o.record}]
      [] o.kind = "add_adjustment" -> [c EXCEPT !.adjustments = @ \cup {id}]
      [] o.kind = "void_adjustment" -> [c EXCEPT !.adjustments = @ \ {o.record}]
      [] o.kind = "add_order" -> [c EXCEPT !.orders = @ \cup {[id |-> id, key |-> o.key, n |-> o.n]}]
      [] o.kind = "void_order" -> [c EXCEPT !.orders = {l \in @ : l.id # o.record}]

(* projectSnapshot, over the operations that are queued or on their way *)
Projected == FoldLeft(Project, shown, pending)

(* refreshSlipSummary: what the card of a slip shows *)
Summary(c) ==
    [heads |-> Cardinality(c.guests),
     casts |-> {m.cast : m \in c.nominations},
     pieces |-> MapThenSumSet(LAMBDA l : l.n, c.orders) + Cardinality(c.fees),
     adjustments |-> Cardinality(c.adjustments)]

(* apply_business_slip_editor_operation_internal and the function it calls; *)
(* a customer who has left can still be renamed.                            *)
Accepts(c, o) ==
    /\ c.open /\ o.valid
    /\ CASE o.kind = "update_customer" -> o.record # 0
         [] o.kind = "leave_customer" -> o.record \in c.guests
         [] o.kind = "add_nomination" -> o.duplicate \/ \A m \in c.nominations : m.cast # o.cast
         [] o.kind = "cancel_nomination" -> \E m \in c.nominations : m.id = o.record
         [] o.kind = "void_adjustment" -> o.record \in c.adjustments
         [] o.kind = "void_order" -> \E l \in c.orders : l.id = o.record
         [] OTHER -> TRUE

(* A new row gets the next id; the fee of a nomination is a row that names  *)
(* it as its source.                                                        *)
Apply(c, o) ==
    LET added == [c EXCEPT !.next = @ + 1] IN
    CASE o.kind = "add_customer" -> [added EXCEPT !.guests = @ \cup {c.next}]
      [] o.kind = "leave_customer" -> [c EXCEPT !.guests = @ \ {o.record}]
      [] o.kind = "add_nomination" -> [added EXCEPT !.nominations = @ \cup {[id |-> c.next, cast |-> o.cast]},
                                                    !.fees = @ \cup {c.next}]
      [] o.kind = "cancel_nomination" -> [c EXCEPT !.nominations = {m \in @ : m.id # o.record}, !.fees = @ \ {o.record}]
      [] o.kind = "add_adjustment" -> [added EXCEPT !.adjustments = @ \cup {c.next}]
      [] o.kind = "void_adjustment" -> [c EXCEPT !.adjustments = @ \ {o.record}]
      [] o.kind = "add_order" -> [added EXCEPT !.orders = @ \cup {[id |-> c.next, key |-> o.key, n |-> o.n]}]
      [] o.kind = "void_order" -> [c EXCEPT !.orders = {l \in @ : l.id # o.record}]
      [] OTHER -> c

-----------------------------------------------------------------------------
(* The editor. *)

Closed == [section |-> "none", view |-> "closed", record |-> 0, seen |-> NothingSeen, cast |-> NoCast, duplicate |-> FALSE,
           typed |-> FALSE, queue |-> Empty, item |-> {}, picks |-> NoPicks]
Editor == [section : {"none"} \cup Section, view : {"closed", "gone", "list"} \cup Kind, record : Int, seen : Seen,
           cast : Cast \cup {NoCast}, duplicate : BOOLEAN, typed : BOOLEAN,
           queue : [Key -> Nat], item : SUBSET Item, picks : [Cast \cup {NoCast} -> Nat]]

(* renderLocalEditor *)
Listed(section) ==
    [Closed EXCEPT !.section = section, !.view = IF Projected.open THEN "list" ELSE "gone"]

pageVars == <<slip, shown, pending, sent, ops>>

(* openEditor, and the button `back' of a form *)
OpenEditor(section) ==
    /\ editor.view = "closed" \/ section = editor.section
    /\ editor' = Listed(section)
    /\ UNCHANGED pageVars

(* showLocalAction, showDeleteAction: a form for a new row, or for a row of *)
(* the list.                                                                *)
ShowForm(kind, record) ==
    /\ editor.view = "list"
    /\ CASE editor.section = "customers" -> \/ kind = "add_customer" /\ record = 0
                                            \/ kind \in {"update_customer", "leave_customer"} /\ record \in Projected.guests
         [] editor.section = "nominations" -> \/ kind = "add_nomination" /\ record = 0
                                              \/ kind = "cancel_nomination" /\ \E m \in Projected.nominations : m.id = record
         [] editor.section = "adjustments" -> \/ kind = "add_adjustment" /\ record = 0
                                              \/ kind = "void_adjustment" /\ record \in Projected.adjustments
         [] editor.section = "orders" -> \/ kind = "add_order" /\ record = 0
                                         \/ kind = "void_order" /\ \E l \in Projected.orders : l.id = record
    /\ editor' = [editor EXCEPT !.view = kind, !.record = record, !.seen = [others |-> shown.others, refused |-> ops.refused]]
    /\ UNCHANGED pageVars

(* openNominationCastPicker: casts already nominated are offered only when  *)
(* duplicates are allowed.                                                  *)
ChooseCast(c, duplicate) ==
    /\ editor.view = "add_nomination"
    /\ duplicate \/ \A m \in Projected.nominations : m.cast # c
    /\ editor' = [editor EXCEPT !.cast = c, !.duplicate = duplicate]
    /\ UNCHANGED pageVars

(* Something is typed into the form of an adjustment. *)
TypeAdjustment ==
    /\ editor.view = "add_adjustment"
    /\ editor' = [editor EXCEPT !.typed = TRUE]
    /\ UNCHANGED pageVars

Pieces(bag) == FoldFunction(+, 0, bag)

(* addBusinessOrderToQueue *)
Put(queue, k) == [queue EXCEPT ![k] = @ + 1]

(* An item without a back goes to the queue, one with a back asks first. *)
PressItem(i) ==
    /\ editor.view = "add_order" /\ editor.item = {}
    /\ Pieces(editor.queue) < MaxPiece
    /\ IF i \in BackItem
       THEN editor' = [editor EXCEPT !.item = {i}]
       ELSE editor' = [editor EXCEPT !.queue = Put(@, <<i, NoCast>>)]
    /\ UNCHANGED pageVars

(* changeBusinessOrderBackSelection *)
ChangePick(c, delta) ==
    /\ editor.item # {}
    /\ editor.picks[c] + delta \in Nat
    /\ Pieces(editor.queue) + Pieces(editor.picks) + delta <= MaxPiece
    /\ editor' = [editor EXCEPT !.picks[c] = @ + delta]
    /\ UNCHANGED pageVars

(* The picks become pieces of the queue, line by line. *)
ConfirmPicks ==
    /\ editor.item # {} /\ Pieces(editor.picks) > 0
    /\ editor' = [editor EXCEPT !.item = {}, !.picks = NoPicks,
                                !.queue = [k \in Key |-> @[k] + IF k[1] \in editor.item THEN editor.picks[k[2]] ELSE 0]]
    /\ UNCHANGED pageVars

(* A line is removed, or the queue cleared. *)
TakeOut(keys) ==
    /\ editor.view = "add_order" /\ editor.item = {}
    /\ editor' = [editor EXCEPT !.queue = [k \in Key |-> IF k \in keys THEN 0 ELSE @[k]]]
    /\ UNCHANGED pageVars

(* buildOperation: one operation, one for each line of the order queue, or  *)
(* none.  Deleting needs a number for the row; changing a customer does not *)
(* ask for one.                                                             *)
BuildOperation(valid) ==
    LET one == [Blank(editor.view) EXCEPT !.record = Number(editor.record), !.cast = editor.cast,
                                          !.duplicate = editor.duplicate, !.valid = valid]
    IN  CASE editor.view \in {"cancel_nomination", "void_adjustment", "void_order"} ->
                IF one.record = 0 THEN <<>> ELSE <<one>>
          [] editor.view = "add_order" ->
                LET keys == SetToSeq({k \in Key : editor.queue[k] > 0})
                IN  [i \in DOMAIN keys |-> [Blank("add_order") EXCEPT !.key = keys[i], !.n = editor.queue[keys[i]]]]
          [] OTHER -> <<one>>

(* submitEditor: nothing without a cast that may be nominated, nor without  *)
(* an operation.  After adding the list is shown, otherwise the dialog      *)
(* closes.                                                                  *)
Submit(valid) ==
    /\ editor.view \in Kind /\ editor.item = {}
    /\ valid \/ editor.view \notin {"cancel_nomination", "void_adjustment", "void_order"}
    /\ editor.view = "add_nomination" =>
        editor.cast # NoCast /\ (editor.duplicate \/ \A m \in Projected.nominations : m.cast # editor.cast)
    /\ LET built == BuildOperation(valid)
           new == [i \in DOMAIN built |-> [built[i] EXCEPT !.id = ops.typed + i, !.seen = editor.seen]]
       IN  /\ built # <<>> /\ ops.typed + Len(built) <= MaxOp
           /\ pending' = pending \o new
           /\ ops' = [ops EXCEPT !.typed = @ + Len(built)]
           /\ editor' = IF editor.view \in {"add_customer", "add_nomination", "add_adjustment", "add_order"}
                        THEN [Closed EXCEPT !.section = editor.section, !.view = IF shown.open THEN "list" ELSE "gone"]
                        ELSE Closed
    /\ UNCHANGED <<slip, shown, sent>>

(* adjustmentHasInput reads two inputs; the form has inputs with other      *)
(* names.                                                                   *)
FormInputs == IF editor.view = "add_adjustment" THEN {"adjustmentName", "adjustmentAmount"} ELSE {}
AdjustmentHasInput == editor.typed /\ FormInputs \cap {"businessAdjustmentName", "businessAdjustmentAmount"} # {}

(* The dialog closes; with input it asks, and may be told to. *)
CloseEditor ==
    /\ editor.view # "closed"
    /\ editor' = Closed
    /\ UNCHANGED pageVars

-----------------------------------------------------------------------------
(* Batches and snapshots. *)

(* The listener of prosper:business-slips-updated *)
SlipsUpdated(snapshot) ==
    IF editor.view # "closed" /\ ~ snapshot.open
    THEN editor' = [Closed EXCEPT !.section = editor.section, !.view = "gone"]
    ELSE UNCHANGED editor

Send ==
    /\ sent.n = 0 /\ pending # <<>>
    /\ sent' = [n |-> Len(pending), rev |-> shown.rev]
    /\ UNCHANGED <<slip, shown, pending, editor, ops>>

Batch == SubSeq(pending, 1, sent.n)
Stages == [i \in 0..sent.n |-> FoldLeft(Apply, slip, SubSeq(pending, 1, i))]
Accepted == sent.rev = slip.rev /\ \A i \in 1..sent.n : Accepts(Stages[i - 1], pending[i])

(* The batch is applied or refused as a whole, and its answer shown. *)
Answer ==
    /\ sent.n > 0
    /\ slip' = IF Accepted THEN [Stages[sent.n] EXCEPT !.rev = @ + 1] ELSE slip
    /\ shown' = slip'
    /\ pending' = SubSeq(pending, sent.n + 1, Len(pending))
    /\ sent' = [n |-> 0, rev |-> 0]
    /\ SlipsUpdated(slip')
    /\ ops' = IF Accepted THEN ops ELSE [ops EXCEPT !.refused = @ + 1]

LoadSlips ==
    /\ shown # slip
    /\ shown' = slip
    /\ SlipsUpdated(slip)
    /\ UNCHANGED <<slip, pending, sent, ops>>

(* Another terminal takes the slip to checkout, gives it back or changes it. *)
OtherTerminal ==
    /\ slip.others < MaxStaff
    /\ slip' \in {[slip EXCEPT !.open = ~ @, !.rev = @ + 1, !.others = @ + 1]}
            \cup {[slip EXCEPT !.guests = @ \ {g}, !.rev = @ + 1, !.others = @ + 1] : g \in {x \in slip.guests : slip.open}}
    /\ UNCHANGED <<shown, pending, sent, editor, ops>>

-----------------------------------------------------------------------------
EditorInit ==
    /\ \E c \in Cast, open \in BOOLEAN :
        slip = [open |-> open, rev |-> 0, others |-> 0, next |-> 3, guests |-> {1},
                nominations |-> {[id |-> 2, cast |-> c]}, fees |-> {2}, orders |-> {}, adjustments |-> {}]
    /\ shown = slip /\ pending = <<>> /\ sent = [n |-> 0, rev |-> 0]
    /\ editor = Closed /\ ops = [typed |-> 0, refused |-> 0]

EditorNext ==
    \/ \E section \in Section : OpenEditor(section)
    \/ \E kind \in Kind, record \in (0 - MaxOp)..(MaxOp + 2) : ShowForm(kind, record)
    \/ \E c \in Cast, duplicate \in BOOLEAN : ChooseCast(c, duplicate)
    \/ TypeAdjustment
    \/ \E i \in Item : PressItem(i)
    \/ \E c \in Cast \cup {NoCast}, delta \in {-1, 1} : ChangePick(c, delta)
    \/ ConfirmPicks
    \/ \E keys \in {{k} : k \in Key} \cup {Key} : TakeOut(keys)
    \/ \E valid \in BOOLEAN : Submit(valid)
    \/ CloseEditor
    \/ Send
    \/ Answer
    \/ LoadSlips
    \/ OtherTerminal

EditorSpec == EditorInit /\ [][EditorNext]_editVars

-----------------------------------------------------------------------------
(* Properties. *)

EditorTypeOK ==
    /\ slip \in Contents /\ shown \in Contents
    /\ pending \in Seq(Op) /\ sent \in [n : 0..Len(pending), rev : Nat]
    /\ editor \in Editor /\ ops \in [typed : 0..MaxOp, refused : 0..MaxOp]

(* What the page shows for queued operations is what their batch turns out  *)
(* to be: the card of the slip does not change when the answer comes.       *)
ProjectionComesTrue ==
    [][sent.n > 0 /\ sent'.n = 0 /\ Accepted => Summary(shown') = Summary(FoldLeft(Project, shown, Batch))]_editVars

(* No operation is queued for a slip the page knows to be closed, although  *)
(* snapshots arrive while a form is being filled in.                        *)
NothingTypedOnClosedSlip == [][Len(pending') > Len(pending) => shown.open]_editVars

Invalid(o) == ~ o.valid \/ o.seen # [others |-> shown.others, refused |-> ops.refused]
Temporary(o) == o.kind \in {"update_customer", "leave_customer"} /\ o.record = 0

(* A batch is refused only when the screen was stale when it was made or    *)
(* when one of its forms was opened (a batch before it was refused, or      *)
(* other staff changed the slip), when a value in it is not valid, or when  *)
(* it changes a customer who is still pending: the lists offer nothing else *)
(* that the server would not accept, and operations of one batch never      *)
(* stand in each other's way.                                               *)
RefusalsExplained ==
    sent.n > 0 /\ ~ Accepted =>
        sent.rev # slip.rev \/ \E i \in 1..sent.n : Invalid(pending[i]) \/ Temporary(pending[i])
=============================================================================
