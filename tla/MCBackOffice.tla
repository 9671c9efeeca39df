----------------------------- MODULE MCBackOffice -----------------------------
(***************************************************************************)
(* The two pages of the office, for TLC: the masters (ManagementMaster,     *)
(* with two areas and with one area in both modes) and the history of       *)
(* closed days (SalesHistory: its list, the form, the form with two casts,  *)
(* and the form over two openings).  They share no state: `focus' says      *)
(* which one moves, the other stands still, so that their states add up and *)
(* do not multiply.                                                         *)
(***************************************************************************)
EXTENDS ManagementMaster, SalesHistory, TLC

CONSTANTS a1, a2, v1, v2, c1, c2, r1, r2

VARIABLE focus  \* the part that moves

Modes == INSTANCE ManagementMaster WITH Area <- {a1}, Admin <- TRUE, MaxFault <- 2

Form == INSTANCE SalesHistory WITH
    Cast <- {c1}, Rest <- {r1, r2}, Filters <- {{1}}, MaxDay <- 1, PageSize <- 2,
    SearchPages <- 2, Editable <- 1, MaxOpen <- 1, MaxVersion <- 3, MaxLoad <- 0, MaxSave <- 2

Casts == INSTANCE SalesHistory WITH
    Cast <- {c1, c2}, Rest <- {r1}, Filters <- {{1}}, MaxDay <- 1, PageSize <- 2,
    SearchPages <- 2, Editable <- 1, MaxOpen <- 1, MaxVersion <- 2, MaxLoad <- 0, MaxSave <- 1

Reopened == INSTANCE SalesHistory WITH
    Cast <- {}, Rest <- {r1, r2}, Filters <- {1..2}, MaxDay <- 2, PageSize <- 2,
    SearchPages <- 2, Editable <- 1, MaxOpen <- 2, MaxVersion <- 2, MaxLoad <- 0, MaxSave <- 1

ASSUME Modes!MasterAssumption
ASSUME Form!HistoryAssumption /\ Casts!HistoryAssumption /\ Reopened!HistoryAssumption

officeVars == <<focus, masterVars, historyVars>>

OnMasters(Step) == focus = "masters" /\ Step /\ UNCHANGED <<focus, historyVars>>
OnModes(Step) == focus = "modes" /\ Step /\ UNCHANGED <<focus, historyVars>>
OnList(Step) == focus = "list" /\ Step /\ UNCHANGED <<focus, masterVars>>
OnForm(Step) == focus = "form" /\ Step /\ UNCHANGED <<focus, masterVars>>
OnCasts(Step) == focus = "casts" /\ Step /\ UNCHANGED <<focus, masterVars>>
OnReopened(Step) == focus = "reopened" /\ Step /\ UNCHANGED <<focus, masterVars>>

OfficeInit ==
    /\ focus \in {"masters", "modes", "list", "form", "casts", "reopened"}
    /\ IF focus = "modes" THEN Modes!MasterInit ELSE MasterInit
    /\ CASE focus = "list" -> HistoryInit
         [] focus = "casts" -> Casts!HistoryInit
         [] focus = "reopened" -> Reopened!HistoryInit
         [] OTHER -> Form!HistoryInit
    /\ focus \notin {"masters", "modes"} => \A area \in Area : db.content[area] = v1
    /\ focus \notin {"list", "form", "casts", "reopened"} =>
        /\ archive.days[1].rows = [att |-> {}, back |-> {}, rest |-> r1]
        /\ paging.preferred = 0

MastersNext ==
    \/ OnMasters(Refresh) \/ OnMasters(ServeRead) \/ OnMasters(ReadArrives) \/ OnMasters(ReadFails)
    \/ \E area \in Area, value \in Value :
        OnMasters(Press(area, value)) \/ OnMasters(ChangeElsewhere(area, value))
    \/ \E ok \in BOOLEAN : OnMasters(Serve(ok)) \/ \E r \in late : OnMasters(ServeLate(r, ok))
    \/ OnMasters(Receive) \/ OnMasters(Unanswered) \/ OnMasters(Reload)
    \/ OnModes(Modes!SwitchMode) \/ OnModes(Modes!MasterNext)

DaysNext ==
    \/ \E filter \in Filters : OnList(SubmitFilter(filter))
    \/ OnList(LoadMore) \/ OnList(PageArrives) \/ OnList(PageFails)
    \/ \E d \in 1..MaxDay : OnList(SelectDay(d))
    \/ OnList(TurnDate) \/ OnList(OpenDay)
    \/ \E content \in Content : OnList(CloseDay(content))
    \/ OnList(HistoryNext)
    \/ OnForm(Form!OpenDialog) \/ OnForm(Form!CloseDialog) \/ OnForm(Form!Submit) \/ OnForm(Form!HideTimer)
    \/ \E load \in loads : OnForm(Form!EditorArrives(load)) \/ OnForm(Form!EditorFails(load))
    \/ OnForm(Form!ToggleCast(c1)) \/ OnForm(Form!ToggleBack(c1))
    \/ \E value \in {r1, r2} : OnForm(Form!ChangeRest(value))
    \/ \E save \in saves :
        \/ OnForm(Form!Saved(save, {1})) \/ OnForm(Form!NotSaved(save))
        \/ \E ok \in BOOLEAN : OnForm(Form!ServeCorrection(save, ok))
    \/ \E content \in Form!Content : OnForm(Form!CorrectElsewhere(1, content))
    \/ OnForm(Form!PageArrives) \/ OnForm(Form!PageFails)
    \/ OnCasts(Casts!HistoryNext) \/ OnReopened(Reopened!HistoryNext)

OfficeNext == MastersNext \/ DaysNext
OfficeSpec == OfficeInit /\ [][OfficeNext]_officeVars

(* The areas are alike. *)
Alike == Permutations({a1, a2})

-----------------------------------------------------------------------------
(* The types of the two parts (ManagementMaster, SalesHistory).             *)
OfficeTypeOK ==
    /\ IF focus = "modes" THEN Modes!MasterTypeOK ELSE MasterTypeOK
    /\ CASE focus = "list" -> HistoryTypeOK
         [] focus = "casts" -> Casts!HistoryTypeOK
         [] focus = "reopened" -> Reopened!HistoryTypeOK
         [] OTHER -> Form!HistoryTypeOK
=============================================================================
