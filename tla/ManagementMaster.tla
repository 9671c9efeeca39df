-------------------------- MODULE ManagementMaster --------------------------
(***************************************************************************)
(* A management page: the masters of the store in a SyncStore              *)
(* (wwwroot/js/sync-store.js), read and saved area by area                 *)
(* (features/management-master.js, features/management-editor.js) with     *)
(* get_management_master_snapshot and save_management_master_v2            *)
(* (Sql/store_rpc/16_management_master_snapshot.sql).                      *)
(*                                                                         *)
(* The revision of an area is the digest of its contents, and that of the  *)
(* whole the digest of those: here both are the contents themselves, which *)
(* have no order and may come back.                                        *)
(***************************************************************************)
EXTENDS Integers, FiniteSets

CONSTANTS
    Area,       \* tables, casts, staffs, items, nominations, pricing
    Value,      \* contents of an area
    Admin,      \* whether the administrator mode may be switched
    MaxOp,      \* bound: operation ids the page makes
    MaxForeign, \* bound: changes made elsewhere
    MaxFault    \* bound: answers lost, reads that fail, reloads

ASSUME MasterAssumption ==
    Area # {} /\ Value # {} /\ Admin \in BOOLEAN /\ {MaxOp, MaxForeign, MaxFault} \subseteq Nat

VARIABLES
    db,     \* contents by area, the stored answers, the mode of the session
    store,  \* the SyncStore: revision and payload, kept over reloads
    pend,   \* the command whose answer is not known, kept over reloads
    mut,    \* the save under way of the page
    late,   \* requests whose answer nobody waits for
    read,   \* the read under way, one at a time
    hist    \* history: bounds, and how often each command was applied

masterVars == <<db, store, pend, mut, late, read, hist>>

Contents == [Area -> Value]
NoStore == [rev |-> <<>>]
NoPend == [op |-> 0]
NoMut == [state |-> "none"]
NoRead == [state |-> "none"]

FaultCounted == hist.faults < MaxFault /\ hist' = [hist EXCEPT !.faults = @ + 1]

-----------------------------------------------------------------------------
(* The store. *)

(* defaultIsNewer: digests are not numbers, so any other revision is newer. *)
IsNewer(rev) == store.rev # rev

(* hydrate: the read under way serves everybody who asks. *)
Refresh ==
    /\ read = NoRead
    /\ read' = [state |-> "going", known |-> store.rev]
    /\ UNCHANGED <<db, store, pend, mut, late, hist>>

ServeRead ==
    /\ read.state = "going"
    /\ read' = IF read.known = db.content THEN [state |-> "unchanged", content |-> <<>>]
               ELSE [state |-> "snapshot", content |-> db.content]
    /\ UNCHANGED <<db, store, pend, mut, late, hist>>

(* Faulty: whether the revision is unchanged is not looked at. *)
AnyAnswer(r) == IsNewer(r.content)

Taken(r) == r.state = "snapshot" /\ IsNewer(r.content)

(* replace, without force *)
ReadArrives ==
    /\ read.state \in {"unchanged", "snapshot"}
    /\ read' = NoRead
    /\ store' = IF Taken(read) THEN [rev |-> read.content, content |-> read.content] ELSE store
    /\ UNCHANGED <<db, pend, mut, late, hist>>

ReadFails ==
    /\ read # NoRead /\ FaultCounted
    /\ read' = NoRead
    /\ UNCHANGED <<db, store, pend, mut, late>>

-----------------------------------------------------------------------------
(* A save. *)

Request(p) == [op |-> p.op, area |-> p.area, value |-> p.value, expected |-> p.expected]

NewCommand(area, value) ==
    [op |-> hist.ops + 1, area |-> area, value |-> value, expected |-> store.content[area]]

(* While a command is not answered only the same contents can be sent.      *)
MayBeSent(area, value) ==
    IF pend = NoPend THEN hist.ops < MaxOp ELSE pend.area = area /\ pend.value = value

(* The submit button of a form, a confirmed deletion or a new order of the  *)
(* items, one save at a time: a new command, or again the one that is kept. *)
Press(area, value) ==
    /\ mut = NoMut /\ store # NoStore /\ MayBeSent(area, value)
    /\ pend' = IF pend # NoPend THEN pend ELSE NewCommand(area, value)
    /\ hist' = IF pend # NoPend THEN hist ELSE [hist EXCEPT !.ops = @ + 1]
    /\ mut' = [state |-> "going", shown |-> store.content[area]]
    /\ UNCHANGED <<db, store, late, read>>

(* Faulty: no stored answer is looked for. *)
NeverStored(r) == {}

Stored(r) == {a \in db.answers : a.request.op = r.op}

(* save_management_master_v2: `ok' is FALSE when a row is refused.          *)
(* Every answer is stored, a refusal too.  The mode of the session is part  *)
(* of the request: another one under the same id is an error, which the     *)
(* page is told as "unavailable".                                           *)
Status(r, ok) ==
    IF db.content[r.area] # r.expected THEN "conflict" ELSE IF ok THEN "confirmed" ELSE "validation_error"

Answer(r, ok) ==
    LET status == Status(r, ok)
        after == IF status = "confirmed" THEN [db.content EXCEPT ![r.area] = r.value] ELSE db.content
    IN  IF Stored(r) # {}
        THEN LET a == CHOOSE x \in Stored(r) : TRUE
             IN  IF a.request = r /\ a.admin = db.admin THEN a ELSE [a EXCEPT !.status = "unavailable"]
        ELSE [request |-> r, admin |-> db.admin, status |-> status, content |-> after]

Applied(r, ok) ==
    /\ ok \/ (Stored(r) = {} /\ Status(r, ok) = "validation_error")
    /\ LET a == Answer(r, ok)
       IN  /\ db' = IF Stored(r) # {} THEN db
                    ELSE [db EXCEPT !.answers = @ \cup {a}, !.content = a.content]
           /\ hist' = IF Stored(r) = {} /\ a.status = "confirmed"
                      THEN [hist EXCEPT !.applied[r.op] = @ + 1] ELSE hist

Serve(ok) ==
    /\ mut.state = "going" /\ Applied(Request(pend), ok)
    /\ mut' = [state |-> "answered", shown |-> mut.shown, answer |-> Answer(Request(pend), ok)]
    /\ UNCHANGED <<store, pend, late, read>>

ServeLate(r, ok) ==
    /\ r \in late /\ Applied(r, ok) /\ late' = late \ {r}
    /\ UNCHANGED <<store, pend, mut, read>>

(* Faulty: a refusal keeps the command. *)
OnlyConfirmed(status) == status = "confirmed"

(* The answers that end a command *)
Definite(status) == status # "unavailable"

(* What was saved is put into the store, unless the area has changed in the *)
(* store since, under the revision of the whole.                            *)
Patched(a) ==
    LET area == a.request.area
    IN  IF a.status = "confirmed" /\ store.content[area] = mut.shown
        THEN [rev |-> a.content, content |-> [store.content EXCEPT ![area] = a.content[area]]]
        ELSE store

Receive ==
    /\ mut.state = "answered" /\ mut' = NoMut
    /\ LET a == mut.answer
       IN  /\ pend' = IF Definite(a.status) THEN NoPend ELSE pend
           /\ store' = Patched(a)
    /\ UNCHANGED <<db, late, read, hist>>

(* No answer: the command is kept, and its request may still arrive. *)
Unanswered ==
    /\ mut # NoMut /\ FaultCounted
    /\ mut' = NoMut
    /\ late' = IF mut.state = "going" THEN late \cup {Request(pend)} ELSE late
    /\ UNCHANGED <<db, store, pend, read>>

(* The page is left and opened again. *)
Reload ==
    /\ FaultCounted
    /\ mut' = NoMut /\ read' = NoRead
    /\ late' = IF mut.state = "going" THEN late \cup {Request(pend)} ELSE late
    /\ UNCHANGED <<db, store, pend>>

ChangeElsewhere(area, value) ==
    /\ hist.foreign < MaxForeign /\ db.content[area] # value
    /\ hist' = [hist EXCEPT !.foreign = @ + 1]
    /\ db' = [db EXCEPT !.content[area] = value]
    /\ UNCHANGED <<store, pend, mut, late, read>>

SwitchMode ==
    /\ Admin /\ FaultCounted
    /\ db' = [db EXCEPT !.admin = ~ @]
    /\ UNCHANGED <<store, pend, mut, late, read>>

-----------------------------------------------------------------------------
MasterInit ==
    /\ db \in [content : Contents, answers : {{}}, admin : {FALSE}]
    /\ store = NoStore /\ pend = NoPend /\ mut = NoMut /\ late = {} /\ read = NoRead
    /\ hist = [ops |-> 0, foreign |-> 0, faults |-> 0, applied |-> [op \in 1..MaxOp |-> 0]]

MasterNext ==
    \/ Refresh \/ ServeRead \/ ReadArrives \/ ReadFails
    \/ \E area \in Area, value \in Value : Press(area, value) \/ ChangeElsewhere(area, value)
    \/ \E ok \in BOOLEAN : Serve(ok) \/ \E r \in late : ServeLate(r, ok)
    \/ Receive \/ Unanswered \/ Reload \/ SwitchMode

MasterSpec == MasterInit /\ [][MasterNext]_masterVars

(* The user comes back to the page from time to time, which reads the       *)
(* masters again (the focus listener), and presses again what has not been  *)
(* answered; requests are served and answered.                              *)
PressAgain == \E area \in Area, value \in Value : pend # NoPend /\ Press(area, value)

MasterFairness ==
    /\ WF_masterVars(Refresh) /\ WF_masterVars(ServeRead) /\ WF_masterVars(ReadArrives)
    /\ WF_masterVars(PressAgain)
    /\ WF_masterVars(\E ok \in BOOLEAN : Serve(ok)) /\ WF_masterVars(Receive)

MasterFairSpec == MasterSpec /\ MasterFairness

-----------------------------------------------------------------------------
(* The store holds contents of every area, the page waits for an answer     *)
(* only to the command it keeps, and only such commands are late            *)
(* (management-master.js, pendingMutation).                                 *)
MasterTypeOK ==
    /\ db.content \in Contents
    /\ store # NoStore => store.rev \in Contents /\ store.content \in Contents
    /\ mut # NoMut => pend # NoPend /\ store # NoStore
    /\ mut.state = "answered" => mut.answer.request = Request(pend)
    /\ \A r \in late : r.op \in 1..hist.ops

(* A command is carried out once, however often it is sent, early or late,  *)
(* even when its area has got back the contents it was typed on.            *)
AppliedOnce == \A op \in 1..MaxOp : hist.applied[op] <= 1

(* A save is told to conflict or to be refused only if it was not made: the *)
(* answer to the first request is that to every other.                      *)
ToldAsApplied ==
    mut.state = "answered" /\ mut.answer.status \in {"conflict", "validation_error"} =>
        hist.applied[pend.op] = 0

(* The kept command was answered in the other mode of the session. *)
OtherMode == \E a \in Stored(pend) : a.admin # db.admin

(* A command that is kept ends: saving the same contents again settles it,  *)
(* unless the administrator mode was switched after the server answered it: *)
(* then it is refused as another request under its id (Sql/store_rpc/       *)
(* 16_management_master_snapshot.sql:205), and kept until the mode is       *)
(* switched back.                                                           *)
CommandsEnd == pend # NoPend ~> (pend = NoPend \/ OtherMode)

(* Whatever late answers did to the store, the page gets to show what the   *)
(* server has; with one area, as a late answer of one area can hide a later *)
(* change of another (isNewerResult).                                       *)
CatchesUp == <>[](store # NoStore /\ store.content = db.content)
=============================================================================
