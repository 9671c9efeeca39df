----------------------------- MODULE OrderEntry -----------------------------
(***************************************************************************)
(* The order terminal: the queue of the page and the command it sends       *)
(* (wwwroot/js/features/order-entry.js), the draft it keeps in localStorage *)
(* for each business day, and the procedure that inserts the lines          *)
(* (submit_current_order_entry_v2, Sql/store_rpc/25).                       *)
(*                                                                          *)
(* A line has the id the page gave it; a command has an operation id and    *)
(* keeps day, revision and lines of the moment it was made.  Requests and   *)
(* answers can be late or lost, and the page can be reloaded at any time.   *)
(*                                                                          *)
(* The page has the slip picker, the items, the queue and the button only   *)
(* when the server passes it the day that is open (Pages/Orders/            *)
(* Index.cshtml:50).  LoadPageAsync passes none, so at this commit nothing  *)
(* can be typed; what the script then does is modelled with DayPassed.      *)
(***************************************************************************)
EXTENDS Integers, FiniteSets

CONSTANTS
    Slip,      \* slips of all days
    NoSlip,    \* no slip is selected
    Item,      \* items, with the cast their back is for
    DayPassed, \* the server passes the open day to the page
    MaxDay,    \* bound: business days
    MaxRev,    \* bound: changes of one day
    MaxPiece,  \* bound: pieces typed
    MaxOp,     \* bound: commands made
    MaxCall    \* bound: calls of the page on the way at once

ASSUME OrderAssumption ==
    NoSlip \notin Slip /\ DayPassed \in BOOLEAN /\ {MaxDay, MaxRev, MaxPiece, MaxOp, MaxCall} \subseteq Nat /\ MaxDay > 0

VARIABLES
    db,      \* the day, its slips, the lines inserted and the stored answers
    page,    \* the variables of the page
    stored,  \* localStorage: a draft for each business day
    calls,   \* submissions on the way
    due      \* history: pieces the user wants, by line id

orderVars == <<db, page, stored, calls, due>>

LineId == 1..MaxPiece
Line == [key : Slip \X Item, id : LineId, n : 1..MaxPiece]
Command == [op : 1..MaxOp, day : 1..MaxDay, rev : 0..MaxRev, lines : SUBSET Line]
Nothing == -1  \* a revision the page does not know
NoDay == 0

NoDraft == [lines |-> {}, cmd |-> {}, selected |-> NoSlip]

(* What get_current_order_entry_candidates returns. *)
Candidates(d) == [day |-> d.day, rev |-> IF d.day = NoDay THEN Nothing ELSE d.rev, slips |-> d.open]

-----------------------------------------------------------------------------
(* The page: each change ends in render, and render in persistDraft.        *)

(* Faulty: the draft goes when a command is sent. *)
PersistUnsent(p) ==
    IF p.key = NoDay THEN stored
    ELSE [stored EXCEPT ![p.key] = IF p.queue = {} \/ p.cmd # {} THEN NoDraft
                                   ELSE [lines |-> p.queue, cmd |-> p.cmd, selected |-> p.selected]]

(* persistDraft *)
Persist(p) ==
    IF p.key = NoDay THEN stored
    ELSE [stored EXCEPT ![p.key] = IF p.queue = {} /\ p.cmd = {} THEN NoDraft
                                   ELSE [lines |-> p.queue, cmd |-> p.cmd, selected |-> p.selected]]

Show(p) == page' = p /\ stored' = Persist(p)

(* restoreStoredDraft: once for each key, and only into an empty queue; a   *)
(* command comes back only on its own day.                                  *)
Restore(p) ==
    LET draft == stored[p.key]
        kept == {c \in draft.cmd : c.day = p.day}
    IN  IF p.key = NoDay \/ p.restored = p.key THEN p
        ELSE IF p.queue # {} \/ draft = NoDraft THEN [p EXCEPT !.restored = p.key]
        ELSE [p EXCEPT !.restored = p.key, !.queue = draft.lines,
                       !.cmd = IF kept # {} THEN kept ELSE @,
                       !.selected = IF @ = NoSlip THEN draft.selected ELSE @]

(* removeUnavailableSlipLines: lines of slips that are gone stay.           *)
Deselect(p) == IF p.selected \in p.slips THEN p ELSE [p EXCEPT !.selected = NoSlip]

(* Only lines of slips in the list have a row. *)
Rows == {l \in page.queue : l.key[1] \in page.slips}

(* A click on a slip *)
Select(s) ==
    /\ page.form /\ s \in page.slips /\ s # page.selected
    /\ Show([page EXCEPT !.selected = s])
    /\ UNCHANGED <<db, calls, due>>

(* The queue is locked while there is a command. *)
MayChange == page.cmd = {}

Used == {i \in LineId : due[i] > 0} \cup {l.id : l \in db.lines} \cup {l.id : l \in page.queue}
Pieces == Cardinality({piece \in LineId \X LineId : piece[2] <= due[piece[1]]})

(* makeQueueKey *)
Same(item) == {l \in page.queue : l.key = <<page.selected, item>>}

NewId == {i \in LineId \ Used : \A j \in LineId \ Used : i <= j}

(* addToQueue: pieces of the same slip, item and back are one line. *)
LineFor(item) ==
    IF Same(item) # {} THEN {[l EXCEPT !.n = @ + 1] : l \in Same(item)}
    ELSE {[key |-> <<page.selected, item>>, id |-> i, n |-> 1] : i \in NewId}

AddToQueue(item) ==
    /\ page.form /\ MayChange /\ page.selected \in page.slips
    /\ Pieces < MaxPiece
    /\ \E line \in LineFor(item) :
        /\ Show([page EXCEPT !.queue = (@ \ Same(item)) \cup {line}, !.busy = FALSE])
        /\ due' = [due EXCEPT ![line.id] = line.n]
    /\ UNCHANGED <<db, calls>>

(* A line is removed, or the queue cleared with the lines that have no row. *)
TakeOut(lines) ==
    /\ page.form /\ MayChange /\ Rows # {}
    /\ lines = page.queue \/ \E l \in Rows : lines = {l}
    /\ Show([page EXCEPT !.queue = @ \ lines, !.busy = FALSE])
    /\ due' = [i \in LineId |-> IF \E l \in lines : l.id = i THEN 0 ELSE due[i]]
    /\ UNCHANGED <<db, calls>>

Ops == {c.op : c \in page.cmd \cup {call.cmd : call \in calls} \cup UNION {stored[d].cmd : d \in 1..MaxDay}}
        \cup {a.op : a \in db.answers}

NextOp == {op \in 1..MaxOp \ Ops : \A o \in 1..MaxOp : o < op => o \in Ops}

(* pendingSubmitCommand, or a new command with all lines of the queue *)
CommandToSend ==
    IF page.cmd # {} THEN page.cmd
    ELSE {[op |-> op, day |-> page.day, rev |-> page.rev, lines |-> page.queue] : op \in NextOp}

(* Calls have numbers, to tell two with the same command apart. *)
NewCall ==
    LET taken == {c.n : c \in calls}
    IN  {n \in 1..(MaxCall + 2) \ taken : \A m \in 1..(MaxCall + 2) : m < n => m \in taken}

(* The submit listener up to fetch: a command is made once, and sent as it  *)
(* is until its result is known.  The button is off until something is      *)
(* rendered.                                                                *)
Submit ==
    /\ page.form /\ page.day # NoDay /\ page.rev # Nothing
    /\ page.cmd # {} \/ Rows # {}
    /\ ~ page.busy /\ Cardinality({c \in calls : c.mine}) < MaxCall /\ Cardinality(calls) <= MaxCall
    /\ \E cmd \in CommandToSend, n \in NewCall :
        /\ Show([page EXCEPT !.cmd = {cmd}, !.busy = TRUE])
        /\ calls' = calls \cup {[n |-> n, cmd |-> cmd, answer |-> {}, mine |-> TRUE]}
    /\ UNCHANGED <<db, due>>

(* The submit listener after fetch.  An answer that is not a refusal and    *)
(* not a confirmation leaves everything as it is.                           *)
Receive(call) ==
    /\ call \in calls /\ call.mine /\ call.answer # {}
    /\ \E a \in call.answer :
        Show(IF a.status = "confirmed"
             THEN [page EXCEPT !.queue = {l \in @ : l.id \notin a.inserted}, !.cmd = {},
                               !.day = a.day, !.rev = a.rev, !.busy = FALSE]
             ELSE Deselect([page EXCEPT !.day = a.day, !.rev = a.rev, !.slips = a.slips, !.cmd = {}, !.busy = FALSE]))
    /\ calls' = calls \ {call}
    /\ UNCHANGED <<db, due>>

(* The connection breaks: the request may be lost, or arrive later. *)
Fail(call) ==
    /\ call \in calls /\ call.mine
    /\ page' = [page EXCEPT !.busy = FALSE]
    /\ \E late \in IF call.answer = {} THEN {{}, {[call EXCEPT !.mine = FALSE]}} ELSE {{}} :
        calls' = (calls \ {call}) \cup late
    /\ UNCHANGED <<db, stored, due>>

(* loadSlipOptions: the timer, the button, focus. *)
AskOptions ==
    /\ page.asked = {}
    /\ page' = [page EXCEPT !.asked = {Candidates(db)}]
    /\ UNCHANGED <<db, stored, calls, due>>

LoadOptions ==
    /\ \E c \in page.asked :
        LET p == [page EXCEPT !.asked = {}, !.day = c.day, !.rev = c.rev, !.busy = FALSE]
            q == IF c.day = NoDay THEN p ELSE Restore([p EXCEPT !.key = c.day])
        IN  Show(Deselect([q EXCEPT !.slips = c.slips]))
    /\ UNCHANGED <<db, calls, due>>

LoadFails ==
    /\ page.asked # {}
    /\ page' = [page EXCEPT !.asked = {}]
    /\ UNCHANGED <<db, stored, calls, due>>

(* The script of a page that the server has just rendered: it has no list   *)
(* of slips yet, and the form only if the server knew the day.              *)
Rendered == IF DayPassed THEN db.day ELSE NoDay

Fresh ==
    Restore([day |-> Rendered, rev |-> Nothing, slips |-> {}, key |-> Rendered, restored |-> NoDay, queue |-> {},
             cmd |-> {}, selected |-> NoSlip, asked |-> {}, busy |-> FALSE, form |-> Rendered # NoDay])

Reload ==
    /\ Show(Fresh)
    /\ calls' = {[c EXCEPT !.mine = FALSE] : c \in {c \in calls : c.answer = {}}}
    /\ UNCHANGED <<db, due>>

-----------------------------------------------------------------------------
(* The server. *)

(* The lines are inserted all together or not at all; `ok' says whether the *)
(* items may be ordered.                                                    *)
Acceptable(cmd, ok) ==
    /\ ok /\ cmd.day = db.day /\ cmd.rev = db.rev
    /\ \A l \in cmd.lines : l.key[1] \in db.open

StoredAnswer(op) == {a \in db.answers : a.op = op}

(* submit_current_order_entry_v2 *)
Serve(call, ok) ==
    /\ call \in calls /\ call.answer = {}
    /\ db.rev < MaxRev
    /\ LET done == Acceptable(call.cmd, ok)
           after == IF done THEN [db EXCEPT !.rev = @ + 1,
                                            !.lines = @ \cup {[op |-> call.cmd.op, id |-> l.id, n |-> l.n] : l \in call.cmd.lines}]
                    ELSE db
           new == [op |-> call.cmd.op, status |-> IF done THEN "confirmed" ELSE "rejected",
                   inserted |-> IF done THEN {l.id : l \in call.cmd.lines} ELSE {},
                   day |-> Candidates(after).day, rev |-> Candidates(after).rev, slips |-> after.open]
           answer == IF StoredAnswer(call.cmd.op) # {} THEN StoredAnswer(call.cmd.op) ELSE {new}
       IN  /\ db' = IF StoredAnswer(call.cmd.op) # {} THEN db ELSE [after EXCEPT !.answers = @ \cup {new}]
           /\ calls' = (calls \ {call}) \cup IF call.mine THEN {[call EXCEPT !.answer = answer]} ELSE {}
    /\ UNCHANGED <<page, stored, due>>

(* Other terminals open a slip, take it to checkout, release or cancel the  *)
(* checkout, close and open days; slips of a day that is over stay closed.  *)
OtherTerminal ==
    /\ \/ /\ db.day # NoDay /\ db.rev < MaxRev
          /\ \E s \in Slip \ db.over :
                db' = [db EXCEPT !.open = IF s \in @ THEN @ \ {s} ELSE @ \cup {s},
                                 !.seen = @ \cup {s}, !.rev = @ + 1]
       \/ db.day # NoDay /\ db.open = {} /\ db' = [db EXCEPT !.day = NoDay, !.over = db.seen]
       \/ db.day = NoDay /\ db.days < MaxDay /\ db' = [db EXCEPT !.day = db.days + 1, !.days = @ + 1, !.rev = 0]
    /\ UNCHANGED <<page, stored, calls, due>>

-----------------------------------------------------------------------------
OrderInit ==
    /\ \E open \in SUBSET Slip \ {{}} :
        db = [day |-> 1, days |-> 1, rev |-> 0, open |-> open, seen |-> open, over |-> {}, lines |-> {}, answers |-> {}]
    /\ stored = [d \in 1..MaxDay |-> NoDraft]
    /\ page = Fresh
    /\ calls = {} /\ due = [i \in LineId |-> 0]

OrderNext ==
    \/ \E s \in Slip : Select(s)
    \/ \E item \in Item : AddToQueue(item)
    \/ \E lines \in {page.queue} \cup {{l} : l \in page.queue} : TakeOut(lines)
    \/ Submit
    \/ \E call \in calls : Receive(call)
    \/ \E call \in calls : Fail(call)
    \/ AskOptions
    \/ LoadOptions
    \/ LoadFails
    \/ Reload
    \/ \E call \in calls, ok \in BOOLEAN : Serve(call, ok)
    \/ OtherTerminal

OrderSpec == OrderInit /\ [][OrderNext]_orderVars

-----------------------------------------------------------------------------
(* Properties. *)

Answer == [op : 1..MaxOp, status : {"confirmed", "rejected"}, inserted : SUBSET LineId, day : 0..MaxDay,
           rev : -1..MaxRev, slips : SUBSET Slip]

OrderTypeOK ==
    /\ db.day \in 0..MaxDay /\ db.rev \in 0..MaxRev /\ db.open \subseteq db.seen /\ db.seen \subseteq Slip
    /\ db.over \subseteq db.seen \ db.open
    /\ db.lines \subseteq [op : 1..MaxOp, id : LineId, n : 1..MaxPiece] /\ db.answers \subseteq Answer
    /\ page.queue \subseteq Line /\ page.cmd \subseteq Command /\ page.selected \in Slip \cup {NoSlip}
    /\ page.key \in 0..MaxDay /\ page.rev \in -1..MaxRev /\ Cardinality(page.cmd) <= 1
    /\ \A x, y \in page.queue : x.id = y.id \/ x.key = y.key => x = y
    /\ due \in [LineId -> 0..MaxPiece]

(* What the user put into the queue and did not take out is in the queue,   *)
(* in a draft, or ordered in the quantity shown, whatever is lost, reloaded *)
(* or refused (the queue is deleted after a successful registration only).  *)
NothingLost ==
    \A i \in DOMAIN due : due[i] > 0 =>
        \E l \in db.lines \cup page.queue \cup UNION {stored[d].lines : d \in DOMAIN stored} : l.id = i /\ l.n = due[i]

(* A line of the queue is ordered once, although the page sends again when  *)
(* it does not know the result.                                             *)
NothingTwice == \A x, y \in db.lines : x.id = y.id => x = y

(* While a result is not known the queue is what the command says, and a    *)
(* reload brings back both.                                                 *)
LockedWhileUnknown ==
    /\ \A c \in page.cmd : c.lines = page.queue
    /\ \A d \in DOMAIN stored : \A c \in stored[d].cmd : c.lines = stored[d].lines

(* A piece in the order queue is ordered once or still there, in the        *)
(* quantity shown, and the queue is locked while a result is not known      *)
(* (order-entry.js, persistDraft and the submit listener).                  *)
OrderedOnce == NothingLost /\ NothingTwice /\ LockedWhileUnknown

(* The page does not send while it waits for an answer.  The code does not  *)
(* ensure it: a poll enables the button again.                              *)
OneSubmission == \A c, e \in calls : c.mine /\ e.mine => c = e
=============================================================================
