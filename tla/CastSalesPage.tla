---------------------------- MODULE CastSalesPage ----------------------------
(***************************************************************************)
(* The adjustment of cast sales before closing: the page                    *)
(* (wwwroot/js/features/cast-sales-adjustment.js) with the command it keeps *)
(* in sessionStorage, and the two procedures that save one slip or confirm  *)
(* all (Sql/store_rpc/29_current_cast_sales_adjustment.sql).                *)
(*                                                                          *)
(* The amounts of the casts of a slip are one amount.  A checkout has a     *)
(* number; the number 0 says that the slip is not checked out.              *)
(***************************************************************************)
EXTENDS Integers, FiniteSets

CONSTANTS
    Slip,        \* slips of the open day that have nominations
    Typed,       \* amounts the user types
    MaxCheckout, \* bound: checkouts of a slip
    MaxRev,      \* bound: revisions of the day
    MaxOp,       \* bound: commands made
    MaxSent,     \* bound: calls under way at once
    MaxReload    \* bound: reloads of the page

ASSUME CastSalesAssumption == Typed \subseteq 1..99 /\ {MaxCheckout, MaxRev, MaxOp, MaxSent, MaxReload} \subseteq Nat

VARIABLES
    db,     \* revision, slips, stored answers
    page,   \* overview, dialog, the command kept, the confirm button
    calls,  \* calls under way
    saves   \* history: commands applied and told

castSalesVars == <<db, page, calls, saves>>

NotSaved == 0
Suggested(checkout) == 100 + checkout  \* what the details of the checkout suggest
Amount == Typed \cup {Suggested(c) : c \in 1..MaxCheckout}
Detail == [checkout : 0..MaxCheckout, saved : Amount \cup {NotSaved}]

(* get_current_cast_sales_adjustment_overview *)
Overview(d) == [rev |-> d.rev, slips |-> d.slips]
NoOverview == [rev |-> -1, slips |-> [s \in Slip |-> [checkout |-> 0, saved |-> NotSaved]]]

Targets(slips) == {s \in Slip : slips[s].checkout > 0}

(* initialValues: the amount saved, or else the suggestion *)
InitialValue(detail) == IF detail.saved = NotSaved THEN Suggested(detail.checkout) ELSE detail.saved

(* A line keeps, as history, the amount that the page showed.               *)
Line == [slip : Slip, checkout : 1..MaxCheckout, amount : Amount, seen : Amount]
Command == [kind : {"save", "confirm"}, op : 1..MaxOp, rev : 0..MaxRev, lines : SUBSET Line]
Answer == [op : 1..MaxOp, ok : BOOLEAN, ov : [rev : 0..MaxRev, slips : [Slip -> Detail]]]

-----------------------------------------------------------------------------
(* The page *)

NewOp(kind, lines) == [kind |-> kind, op |-> saves.made + 1, rev |-> page.ov.rev, lines |-> lines]

LineOf(s, detail, amount) == [slip |-> s, checkout |-> detail.checkout, amount |-> amount, seen |-> InitialValue(detail)]

(* commandForAll: what the page shows of every slip *)
CommandForAll == NewOp("confirm", {LineOf(s, page.ov.slips[s], InitialValue(page.ov.slips[s])) : s \in Targets(page.ov.slips)})

(* commandForDetail: the detail of the dialog, the revision of the page *)
CommandForDetail(d) == NewOp("save", {LineOf(d.slip, d.detail, d.typed)})

Locked(p) == {[d EXCEPT !.saveOn = FALSE, !.inputsOn = FALSE] : d \in p.dialog}

Slot == CHOOSE n \in 1..MaxSent : \A c \in calls : c.n # n

(* executeMutation, until the request is sent *)
Execute(p, cmd) ==
    /\ Cardinality(calls) < MaxSent
    /\ calls' = calls \cup {[n |-> Slot, cmd |-> cmd, ans |-> {}, here |-> TRUE]}
    /\ page' = [p EXCEPT !.pend = {cmd}, !.confirmOn = FALSE,
                         !.dialog = IF cmd.kind = "save" THEN Locked(p) ELSE @]
    /\ saves' = [saves EXCEPT !.made = IF cmd.op > @ THEN cmd.op ELSE @]
    /\ UNCHANGED db

Render(p) == [p EXCEPT !.confirmOn = p.pend = {}]

(* loadOverview: a command that was kept is sent again at once.             *)
LoadOverview ==
    /\ page.ov = NoOverview
    /\ LET p == Render([page EXCEPT !.ov = Overview(db)])
       IN  IF p.pend = {} THEN page' = p /\ UNCHANGED <<db, calls, saves>>
           ELSE \E cmd \in p.pend : Execute(p, cmd)

OpenEditor(s) ==
    /\ page.dialog = {} /\ s \in Targets(page.ov.slips)
    /\ page' = [page EXCEPT !.dialog = {[slip |-> s, detail |-> page.ov.slips[s], typed |-> InitialValue(page.ov.slips[s]),
                                         saveOn |-> TRUE, inputsOn |-> TRUE]}]
    /\ UNCHANGED <<db, calls, saves>>

Type(amount) ==
    /\ \E d \in page.dialog : d.inputsOn /\ d.typed # amount /\ page' = [page EXCEPT !.dialog = {[d EXCEPT !.typed = amount]}]
    /\ UNCHANGED <<db, calls, saves>>

Pending(kind) == {cmd \in page.pend : cmd.kind = kind}

(* The submit of the form: a save that is kept goes first.                  *)
SubmitForm ==
    \E d \in page.dialog :
        /\ d.saveOn
        /\ IF Pending("save") # {} THEN \E cmd \in Pending("save") : Execute(page, cmd)
           ELSE saves.made < MaxOp /\ Execute(page, CommandForDetail(d))

(* The confirm button, behind the dialog *)
PressConfirm ==
    /\ page.confirmOn /\ page.dialog = {}
    /\ IF Pending("confirm") # {} THEN \E cmd \in Pending("confirm") : Execute(page, cmd)
       ELSE Targets(page.ov.slips) # {} /\ saves.made < MaxOp /\ Execute(page, CommandForAll)

(* The dialog stays while there is a save. *)
Dismiss ==
    /\ page.dialog # {} /\ Pending("save") = {}
    /\ page' = [page EXCEPT !.dialog = {}]
    /\ UNCHANGED <<db, calls, saves>>

-----------------------------------------------------------------------------
(* The procedures *)

Stored(cmd) == {a \in db.answers : a.op = cmd.op}

(* Faulty: only the checkouts are compared. *)
FitsAnyRevision(cmd) == \A l \in cmd.lines : db.slips[l.slip].checkout = l.checkout

(* The day, the slips and their checkouts are those of the command.         *)
Fits(cmd) ==
    /\ cmd.rev = db.rev
    /\ cmd.kind = "confirm" => {l.slip : l \in cmd.lines} = Targets(db.slips)
    /\ \A l \in cmd.lines : db.slips[l.slip].checkout = l.checkout

Applied(cmd) ==
    [db EXCEPT !.rev = @ + 1,
               !.slips = [s \in Slip |-> IF \E l \in cmd.lines : l.slip = s
                                         THEN [@[s] EXCEPT !.saved = (CHOOSE l \in cmd.lines : l.slip = s).amount] ELSE @[s]]]

(* save_current_cast_sales_adjustment_v2 and                                *)
(* confirm_current_cast_sales_adjustments_v2                                *)
Serve(c) ==
    /\ c \in calls /\ c.ans = {}
    /\ IF Stored(c.cmd) # {}
       THEN db' = db /\ calls' = (calls \ {c}) \cup {[c EXCEPT !.ans = Stored(c.cmd)]} /\ UNCHANGED saves
       ELSE LET ok == Fits(c.cmd)
                d == IF ok THEN Applied(c.cmd) ELSE db
                a == [op |-> c.cmd.op, ok |-> ok, ov |-> Overview(d)]
            IN  /\ ok => db.rev < MaxRev
                /\ db' = [d EXCEPT !.answers = @ \cup {a}]
                /\ calls' = (calls \ {c}) \cup {[c EXCEPT !.ans = {a}]}
                /\ saves' = IF ~ok THEN saves
                           ELSE [saves EXCEPT !.applied = @ \cup {c.cmd.op},
                                             !.unseen = @ \cup {l \in c.cmd.lines : InitialValue(db.slips[l.slip]) # l.seen}]
    /\ UNCHANGED page

-----------------------------------------------------------------------------
(* The answer at the page *)

(* applyConfirmed: the new revision, and the amounts of the slips of the    *)
(* command as they are in the answer.                                       *)
ApplyConfirmed(ov, cmd, a) ==
    [rev |-> a.ov.rev,
     slips |-> [s \in Slip |-> IF s \in Targets(ov.slips) /\ \E l \in cmd.lines : l.slip = s THEN a.ov.slips[s] ELSE ov.slips[s]]]

(* History: also an answer older than the page, with another call under way *)
Told(c, a) ==
    saves' = [saves EXCEPT !.told = @ \cup {[op |-> a.op, ok |-> a.ok]},
                         !.older = @ \/ (a.ov.rev < page.ov.rev /\ \E e \in calls : e.here /\ e # c)]

(* Confirmed or refused: whatever command is kept is forgotten.  A refusal  *)
(* brings the latest overview and closes the dialog.                        *)
Receive(c) ==
    /\ c \in calls /\ c.here
    /\ calls' = calls \ {c}
    /\ \E a \in c.ans :
        /\ page' = Render([page EXCEPT
                !.ov = IF a.ok THEN ApplyConfirmed(@, c.cmd, a) ELSE a.ov,
                !.pend = {},
                !.dialog = IF a.ok /\ c.cmd.kind = "confirm" THEN @ ELSE {}])
        /\ Told(c, a)
    /\ UNCHANGED db

(* The result is not known: the user is asked to send the same again.  The  *)
(* request may still reach the server.                                      *)
Unknown(c) ==
    /\ c \in calls /\ c.here
    /\ calls' \in {calls \ {c}} \cup (IF c.ans = {} THEN {(calls \ {c}) \cup {[c EXCEPT !.here = FALSE]}} ELSE {})
    /\ page' = IF c.cmd.kind = "confirm" THEN [page EXCEPT !.confirmOn = TRUE]
               ELSE [page EXCEPT !.dialog = {[d EXCEPT !.saveOn = TRUE] : d \in @}]
    /\ UNCHANGED <<db, saves>>

(* A request, or an answer, nobody waits for is gone. *)
Gone(c) ==
    /\ c \in calls /\ ~c.here
    /\ calls' = calls \ {c}
    /\ UNCHANGED <<db, page, saves>>

-----------------------------------------------------------------------------
NewPage(kept) == [ov |-> NoOverview, dialog |-> {}, pend |-> kept, confirmOn |-> FALSE]

(* readPendingMutation: the command kept outlives the page. *)
Reload ==
    /\ page.ov # NoOverview /\ saves.reloads < MaxReload
    /\ page' = NewPage(page.pend)
    /\ calls' = {[c EXCEPT !.here = FALSE] : c \in {e \in calls : e.ans = {}}}
    /\ saves' = [saves EXCEPT !.reloads = @ + 1]
    /\ UNCHANGED db

(* Another terminal saves an amount, or a slip is paid or opened again      *)
(* (which cancels its amounts): the revision of the day grows with each.    *)
ChangeElsewhere(s, detail) ==
    /\ db.rev < MaxRev /\ db.slips[s] # detail
    /\ \/ detail.checkout = db.slips[s].checkout /\ detail.checkout > 0 /\ detail.saved \in Typed
       \/ detail.checkout \in {0, saves.checkouts[s] + 1} /\ (detail.checkout = 0) # (db.slips[s].checkout = 0) /\ detail.saved = NotSaved
    /\ db' = [db EXCEPT !.rev = @ + 1, !.slips[s] = detail]
    /\ saves' = [saves EXCEPT !.checkouts[s] = IF detail.checkout > @ THEN detail.checkout ELSE @]
    /\ UNCHANGED <<page, calls>>

-----------------------------------------------------------------------------
CastSalesInit ==
    /\ \E out \in SUBSET Slip :
        /\ db = [rev |-> 0, answers |-> {},
                 slips |-> [s \in Slip |-> [checkout |-> IF s \in out THEN 1 ELSE 0, saved |-> NotSaved]]]
        /\ saves = [made |-> 0, reloads |-> 0, applied |-> {}, told |-> {}, unseen |-> {}, older |-> FALSE,
                   checkouts |-> [s \in Slip |-> IF s \in out THEN 1 ELSE 0]]
    /\ page = NewPage({})
    /\ calls = {}

UserNext ==
    \/ LoadOverview
    \/ \E s \in Slip : OpenEditor(s)
    \/ \E a \in Typed : Type(a)
    \/ SubmitForm
    \/ PressConfirm
    \/ Dismiss
    \/ Reload

CastSalesNext ==
    \/ UserNext
    \/ \E c \in calls : Serve(c) \/ Receive(c) \/ Unknown(c) \/ Gone(c)
    \/ \E s \in Slip, detail \in Detail : ChangeElsewhere(s, detail)

CastSalesSpec == CastSalesInit /\ [][CastSalesNext]_castSalesVars

-----------------------------------------------------------------------------
(* Properties *)

CastSalesTypeOK ==
    /\ db.rev \in 0..MaxRev /\ db.slips \in [Slip -> Detail] /\ db.answers \subseteq Answer
    /\ page.ov = NoOverview \/ page.ov \in [rev : 0..MaxRev, slips : [Slip -> Detail]]
    /\ page.pend \subseteq Command /\ Cardinality(page.pend) <= 1 /\ page.confirmOn \in BOOLEAN
    /\ \A d \in page.dialog : d.slip \in Slip /\ d.detail \in Detail /\ d.typed \in Amount /\ {d.saveOn, d.inputsOn} \subseteq BOOLEAN
    /\ \A c \in calls : c.n \in 1..MaxSent /\ c.cmd \in Command /\ c.ans \subseteq Answer /\ c.here \in BOOLEAN

(* What the user is told of a command is what became of it, however often   *)
(* it was sent: saved when it was carried out, refused when it never was.   *)
ToldAsApplied == \A t \in saves.told : t.ok = (t.op \in saves.applied)

(* Optimistic concurrency: an amount is replaced only when the page showed  *)
(* it when the command was made; unless an answer older than the page came  *)
(* while another command was under way.                                     *)
NothingUnseenReplaced == saves.older \/ saves.unseen = {}

(* The revision of the page is that of the amounts it shows: with the       *)
(* revision of the server it shows what the server has.                     *)
RevisionOfOverview == saves.older \/ page.ov.rev # db.rev \/ page.ov = Overview(db)

(* What the user is told of a save or a confirmation of cast sales is what  *)
(* became of it, an amount is replaced only when the page showed it, and    *)
(* the page's revision is that of the amounts it shows, while no answer is  *)
(* older than the page (cast-sales-adjustment.js, applyConfirmedOverview).  *)
CastSalesTold == ToldAsApplied /\ NothingUnseenReplaced /\ RevisionOfOverview
=============================================================================
