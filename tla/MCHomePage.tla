------------------------------ MODULE MCHomePage ------------------------------
(***************************************************************************)
(* The business home page for TLC: its change batches (HomeSync, once with  *)
(* everything other staff may do but once only, and once with slips that go *)
(* to checkout and come back), the editor of a slip (SlipEditor) and the    *)
(* dialog that opens one (CreateSlip, once with many batches and once with  *)
(* a long form).  The three share no                                        *)
(* state here, and each behaviour is one of one of them: `focus' says of    *)
(* which, and the others stand still in one of their initial states, so     *)
(* that their states add up and do not multiply.                            *)
(***************************************************************************)
EXTENDS HomeSync, CreateSlip

CONSTANTS s1, c1, c2, beer, drink, nobody

VARIABLES
    focus,                                      \* the part that moves
    slip, shown, pending, sent, editor, ops     \* SlipEditor

Returned == INSTANCE HomeSync WITH
    MaxTyped <- 0, MaxRevision <- 2, MaxDay <- 2, Fault <- {"timeout", "reload"}, Staff <- {"close", "reopen"}

Editor == INSTANCE SlipEditor WITH
    Cast <- {c1, c2}, Item <- {beer, drink}, BackItem <- {drink}, NoCast <- nobody,
    Section <- {"customers", "nominations", "adjustments", "orders"},
    MaxOp <- 2, MaxPiece <- 1, MaxStaff <- 1

Form == INSTANCE CreateSlip WITH
    Cast <- {c1, c2}, MaxRow <- 2, MaxCommand <- 1, MaxRev <- 2, MaxFlight <- 1, Denials <- TRUE

ASSUME Returned!HomeAssumption /\ Editor!EditorAssumption /\ Form!CreateAssumption

editVars == <<slip, shown, pending, sent, editor, ops>>
pageVars == <<focus, homeVars, editVars, createVars>>

OnHome(Step) == focus = "batches" /\ Step /\ UNCHANGED <<focus, editVars, createVars>>
OnReturned(Step) == focus = "returned" /\ Step /\ UNCHANGED <<focus, editVars, createVars>>
OnEditor(Step) == focus = "editor" /\ Step /\ UNCHANGED <<focus, homeVars, createVars>>
OnFlights(Step) == focus = "flights" /\ Step /\ UNCHANGED <<focus, homeVars, editVars>>
OnForm(Step) == focus = "form" /\ Step /\ UNCHANGED <<focus, homeVars, editVars>>

PageInit ==
    /\ focus \in {"batches", "returned", "editor", "flights", "form"}
    /\ HomeInit /\ Editor!EditorInit
    /\ IF focus = "form" THEN Form!CreateInit ELSE CreateInit
    /\ focus \notin {"batches", "returned"} => \A s \in Slip : db.status[s] = "open"
    /\ focus # "editor" => slip.open /\ \A nomination \in slip.nominations : nomination.cast = c1

BatchesNext ==
    \/ \E s \in Slip, valid \in BOOLEAN : OnHome(TypeEdit(s, valid))
    \/ \E s \in Slip, n \in Quantity : OnHome(TypeQuantity(s, n)) \/ OnHome(StaffSets(s, n))
    \/ \E s \in Slip : OnHome(OpenCheckout(s)) \/ OnHome(StaffCloses(s)) \/ OnHome(StaffOpens(s))
    \/ OnHome(CloseCheckout) \/ OnHome(TimerFires) \/ OnHome(Online)
    \/ OnHome(AskSnapshot) \/ OnHome(LoadSlips)
    \/ \E b \in calls : OnHome(Serve(b))
    \/ OnHome(Receive) \/ OnHome(TimeOut) \/ OnHome(Lose) \/ OnHome(Reload)
    \/ OnHome(StaffEdits) \/ OnHome(NextDay)

ReturnedNext ==
    \/ \E s \in Slip, valid \in BOOLEAN : OnReturned(Returned!TypeEdit(s, valid))
    \/ \E s \in Slip : \/ OnReturned(Returned!OpenCheckout(s))
                      \/ OnReturned(Returned!StaffCloses(s)) \/ OnReturned(Returned!StaffReopens(s))
    \/ OnReturned(Returned!CloseCheckout) \/ OnReturned(Returned!TimerFires)
    \/ OnReturned(Returned!AskSnapshot) \/ OnReturned(Returned!LoadSlips)
    \/ \E b \in calls : OnReturned(Returned!Serve(b))
    \/ OnReturned(Returned!Receive) \/ OnReturned(Returned!TimeOut) \/ OnReturned(Returned!Reload)
    \/ OnReturned(Returned!NextDay)

EditorNext ==
    \/ \E section \in {"customers", "nominations", "adjustments", "orders"} : OnEditor(Editor!OpenEditor(section))
    \/ \E kind \in Editor!Kind, record \in -2..4 : OnEditor(Editor!ShowForm(kind, record))
    \/ \E c \in {c1, c2}, duplicate \in BOOLEAN : OnEditor(Editor!ChooseCast(c, duplicate))
    \/ OnEditor(Editor!TypeAdjustment)
    \/ \E i \in {beer, drink} : OnEditor(Editor!PressItem(i))
    \/ \E c \in {c1, c2, nobody}, delta \in {-1, 1} : OnEditor(Editor!ChangePick(c, delta))
    \/ OnEditor(Editor!ConfirmPicks)
    \/ \E keys \in {{k} : k \in Editor!Key} \cup {Editor!Key} : OnEditor(Editor!TakeOut(keys))
    \/ \E valid \in BOOLEAN : OnEditor(Editor!Submit(valid))
    \/ OnEditor(Editor!CloseEditor) \/ OnEditor(Editor!Send) \/ OnEditor(Editor!Answer)
    \/ OnEditor(Editor!LoadSlips) \/ OnEditor(Editor!OtherTerminal)

FlightsNext ==
    \/ OnFlights(ChooseTable) \/ OnFlights(CastsUpdated)
    \/ OnFlights(PressCreate) \/ OnFlights(QueueEdit) \/ OnFlights(SendQueue)
    \/ OnFlights(ReceiveFlight) \/ OnFlights(Fail) \/ OnFlights(ReloadHome)
    \/ OnFlights(LoadRevision) \/ OnFlights(OtherTerminal)
    \/ \E ok \in BOOLEAN : OnFlights(ServeFlight(ok)) \/ OnFlights(ServeLate(ok))

FormNext ==
    \/ OnForm(Form!AddRow) \/ OnForm(Form!RemoveRow)
    \/ \E i \in 1..2, c \in {c1, c2} : OnForm(Form!ChooseCast(i, c))
    \/ OnForm(Form!CastsUpdated) \/ OnForm(Form!Deny)
    \/ OnForm(Form!CreateNext)

PageNext == BatchesNext \/ ReturnedNext \/ EditorNext \/ FlightsNext \/ FormNext
PageSpec == PageInit /\ [][PageNext]_pageVars

-----------------------------------------------------------------------------
(* The types of the three parts (HomeSync, SlipEditor, CreateSlip).         *)
PageTypeOK ==
    /\ HomeTypeOK /\ Editor!EditorTypeOK
    /\ IF focus = "form" THEN Form!CreateTypeOK ELSE CreateTypeOK

(* The card of a slip does not change when the answer to its operations     *)
(* comes, none is queued for a slip the page knows to be closed, and the    *)
(* editor offers nothing that the server refuses, but for a stale screen, a *)
(* bad value and a customer still on the way (business-home.js,             *)
(* projectOperation; business-slip-editor.js; Sql/store_rpc/09).            *)
EditorForetells ==
    Editor!ProjectionComesTrue /\ Editor!NothingTypedOnClosedSlip /\ []Editor!RefusalsExplained
=============================================================================
