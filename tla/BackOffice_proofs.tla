-------------------------- MODULE BackOffice_proofs --------------------------
(***************************************************************************)
(* What is proved of the two pages of the office.                           *)
(*                                                                          *)
(* ManagementMaster, for any areas, contents, changes elsewhere and faults: *)
(* a command is carried out once and told as it was.                        *)
(*                                                                          *)
(* SalesHistory, for any number of days, casts, contents, filters, page     *)
(* sizes, corrections of other terminals and reloads of the list.  The      *)
(* invariant says of the server that a snapshot tells the rows; of a form   *)
(* or a request under way that it knows the rows of its version; and of the *)
(* list, until a load meets a page under way, that it holds the days of its *)
(* filter without a gap, down to the place where the next page begins.      *)
(***************************************************************************)
EXTENDS ManagementMaster, SalesHistory, Lists_proofs

AreaSaves == [op : 1..MaxOp, area : Area, value : Value, expected : Value]
Statuses == {"confirmed", "conflict", "validation_error", "unavailable"}
AreaAnswers == [request : AreaSaves, admin : BOOLEAN, status : Statuses, content : Contents]

Databases == [content : Contents, answers : SUBSET AreaAnswers, admin : BOOLEAN]
Histories == [ops : 0..MaxOp, foreign : Nat, faults : Nat, applied : [1..MaxOp -> Nat]]

MasterRecords ==
    /\ db \in Databases
    /\ store = NoStore \/ store \in [rev : Contents, content : Contents]
    /\ pend = NoPend \/ pend \in AreaSaves
    /\ \/ mut = NoMut
       \/ mut \in [state : {"going"}, shown : Value]
       \/ mut \in [state : {"answered"}, shown : Value, answer : AreaAnswers]
    /\ late \subseteq AreaSaves
    /\ read.state = "snapshot" => read.content \in Contents
    /\ hist \in Histories

(* An operation id is never given to two requests.                          *)
OneRequestPerId ==
    /\ mut # NoMut => pend # NoPend /\ store # NoStore
    /\ pend.op <= hist.ops
    /\ \A r \in late : r.op <= hist.ops /\ (r.op = pend.op => r = pend)
    /\ \A r, s \in late : r.op = s.op => r = s
    /\ \A a \in db.answers : /\ a.request.op <= hist.ops
                             /\ a.request.op = pend.op => a.request = pend
                             /\ \A r \in late : a.request.op = r.op => a.request = r

(* What was applied was answered, and is told as it was answered.           *)
AnsweredOnce ==
    /\ \A a \in db.answers : hist.applied[a.request.op] = IF a.status = "confirmed" THEN 1 ELSE 0
    /\ \A op \in 1..MaxOp : hist.applied[op] = 0 \/ \E a \in db.answers : a.request.op = op
    /\ mut.state = "answered" =>
        /\ mut.answer.request = pend
        /\ \E a \in db.answers : a.request.op = pend.op /\ mut.answer.status \in {a.status, "unavailable"}

MasterInv == MasterRecords /\ OneRequestPerId /\ AnsweredOnce

-----------------------------------------------------------------------------
LEMMA MasterStarts == MasterInit => MasterInv
  <1> SUFFICES ASSUME MasterInit PROVE MasterInv
    OBVIOUS
  <1> USE MasterAssumption DEF MasterInit, NoStore, NoPend, NoMut, NoRead
  <1>1. MasterRecords
    <2>1. hist \in Histories
      BY DEF Histories
    <2>2. db \in Databases
      BY DEF Databases
    <2> QED
      BY <2>1, <2>2 DEF MasterRecords
  <1>2. OneRequestPerId
    BY DEF OneRequestPerId
  <1>3. AnsweredOnce
    BY DEF AnsweredOnce
  <1> QED
    BY <1>1, <1>2, <1>3 DEF MasterInv

(* A store that was read is not the empty one. *)
LEMMA StoreRead == \A s \in [rev : Contents, content : Contents] : s # NoStore
  <1> SUFFICES ASSUME NEW s \in [rev : Contents, content : Contents], s = NoStore PROVE FALSE
    OBVIOUS
  <1>1. DOMAIN s.rev = Area
    BY DEF Contents
  <1>2. DOMAIN s.rev = {}
    BY DEF NoStore
  <1> QED
    BY <1>1, <1>2, MasterAssumption

LEMMA PendIsRequest == MasterRecords /\ pend # NoPend => pend \in AreaSaves /\ Request(pend) = pend
  BY DEF MasterRecords, AreaSaves, Request

(* Reads, faults, changes elsewhere: nothing is answered, and the requests  *)
(* that are late are those that were, or the command that is kept.          *)
LEMMA NoneAnswered ==
    ASSUME MasterInv, MasterRecords', pend' = pend, db'.answers = db.answers,
           hist'.ops = hist.ops, hist'.applied = hist.applied,
           late' = late \/ (pend # NoPend /\ late' = late \cup {pend}),
           mut' = mut \/ mut' = NoMut, mut' # NoMut => store' # NoStore
    PROVE  MasterInv'
  <1>1. OneRequestPerId'
    BY DEF MasterInv, OneRequestPerId, NoMut
  <1>2. AnsweredOnce'
    BY DEF MasterInv, AnsweredOnce, NoMut
  <1> QED
    BY <1>1, <1>2 DEF MasterInv

LEMMA ReadsKeep == MasterInv /\ (Refresh \/ ServeRead \/ ReadArrives \/ ReadFails) => MasterInv'
  <1> SUFFICES ASSUME MasterInv, Refresh \/ ServeRead \/ ReadArrives \/ ReadFails PROVE MasterInv'
    OBVIOUS
  <1> USE DEF MasterInv
  <1>1. CASE Refresh
    <2>1. MasterRecords'
      BY <1>1 DEF Refresh, MasterRecords
    <2> QED
      BY <1>1, <2>1, NoneAnswered DEF Refresh, OneRequestPerId
  <1>2. CASE ServeRead
    <2>1. MasterRecords'
      BY <1>2 DEF ServeRead, MasterRecords, Databases, Histories
    <2> QED
      BY <1>2, <2>1, NoneAnswered DEF ServeRead, OneRequestPerId
  <1>3. CASE ReadArrives
    <2>1. store' = store \/ store' \in [rev : Contents, content : Contents]
      BY <1>3 DEF ReadArrives, Taken, MasterRecords
    <2>2. MasterRecords'
      BY <1>3, <2>1 DEF ReadArrives, MasterRecords, NoRead
    <2> QED
      BY <1>3, <2>1, <2>2, StoreRead, NoneAnswered DEF ReadArrives, OneRequestPerId
  <1>4. CASE ReadFails
    <2>1. MasterRecords'
      BY <1>4 DEF ReadFails, FaultCounted, MasterRecords, NoRead, Databases, Histories
    <2> QED
      BY <1>4, <2>1, NoneAnswered DEF ReadFails, FaultCounted, OneRequestPerId, MasterRecords
  <1> QED
    BY <1>1, <1>2, <1>3, <1>4

LEMMA FaultsKeep == MasterInv /\ (Unanswered \/ Reload \/ SwitchMode) => MasterInv'
  <1> SUFFICES ASSUME MasterInv, Unanswered \/ Reload \/ SwitchMode PROVE MasterInv'
    OBVIOUS
  <1> USE DEF MasterInv
  <1>1. mut.state = "going" => pend # NoPend /\ pend \in AreaSaves /\ Request(pend) = pend
    BY PendIsRequest DEF OneRequestPerId, NoMut
  <1>2. CASE Unanswered
    <2>1. MasterRecords'
      BY <1>1, <1>2 DEF Unanswered, FaultCounted, MasterRecords, Databases, Histories
    <2> QED
      BY <1>1, <1>2, <2>1, NoneAnswered DEF Unanswered, FaultCounted, OneRequestPerId, MasterRecords
  <1>3. CASE Reload
    <2>1. MasterRecords'
      BY <1>1, <1>3 DEF Reload, FaultCounted, MasterRecords, NoRead, Databases, Histories
    <2> QED
      BY <1>1, <1>3, <2>1, NoneAnswered DEF Reload, FaultCounted, OneRequestPerId, MasterRecords
  <1>4. CASE SwitchMode
    <2>1. db' \in Databases /\ hist' \in Histories
      <3>1. hist' \in Histories
        BY <1>4 DEF SwitchMode, FaultCounted, MasterRecords, Histories
      <3>2. PICK admin \in BOOLEAN : db' = [db EXCEPT !.admin = admin]
        BY <1>4 DEF SwitchMode
      <3> QED
        BY <3>1, <3>2 DEF MasterRecords, Databases
    <2>2. MasterRecords'
      BY <1>4, <2>1 DEF SwitchMode, MasterRecords
    <2> QED
      BY <1>4, <2>1, <2>2, NoneAnswered DEF SwitchMode, FaultCounted, OneRequestPerId, MasterRecords
  <1> QED
    BY <1>2, <1>3, <1>4

LEMMA ElsewhereKeeps ==
    ASSUME MasterInv, NEW area \in Area, NEW value \in Value, ChangeElsewhere(area, value)
    PROVE  MasterInv'
  <1>1. db' \in Databases
    BY DEF MasterInv, ChangeElsewhere, MasterRecords, Databases, Contents
  <1>2. hist' \in Histories
    BY DEF MasterInv, ChangeElsewhere, MasterRecords, Histories
  <1>3. MasterRecords'
    BY <1>1, <1>2 DEF MasterInv, ChangeElsewhere, MasterRecords
  <1> QED
    BY <1>3, NoneAnswered DEF MasterInv, ChangeElsewhere, MasterRecords, OneRequestPerId

LEMMA PressKeeps ==
    ASSUME MasterInv, NEW area \in Area, NEW value \in Value, Press(area, value)
    PROVE  MasterInv'
  <1> USE MasterAssumption DEF MasterInv
  <1>1. /\ db' = db /\ store' = store /\ late' = late /\ read' = read
        /\ mut' = [state |-> "going", shown |-> store.content[area]]
        /\ store \in [rev : Contents, content : Contents] /\ store # NoStore
    BY DEF Press, MasterRecords
  <1>2. store.content[area] \in Value /\ mut' \in [state : {"going"}, shown : Value]
    BY <1>1 DEF Contents
  <1>3. CASE pend # NoPend
    <2>1. pend' = pend /\ hist' = hist
      BY <1>3 DEF Press
    <2> QED
      BY <1>1, <1>2, <1>3, <2>1 DEF MasterRecords, OneRequestPerId, AnsweredOnce, NoMut
  <1>4. CASE pend = NoPend
    <2>1. pend' = NewCommand(area, value) /\ hist' = [hist EXCEPT !.ops = @ + 1] /\ hist.ops < MaxOp
      BY <1>4 DEF Press, MayBeSent
    <2>2. pend' \in AreaSaves /\ pend'.op = hist.ops + 1 /\ hist'.ops = hist.ops + 1 /\ hist'.applied = hist.applied
      BY <1>2, <2>1 DEF NewCommand, AreaSaves, MasterRecords, Databases, Histories
    <2>3. pend' # NoPend
      BY <2>2 DEF NoPend, MasterRecords, AreaSaves
    <2>4. MasterRecords'
      BY <1>1, <1>2, <2>1, <2>2 DEF MasterRecords, Databases, Histories
    <2>5. \A r \in late : r.op \in Nat /\ r.op # pend'.op /\ r.op <= hist'.ops
      BY <2>2 DEF MasterRecords, OneRequestPerId, AreaSaves, Databases, Histories
    <2>6. \A a \in db.answers : a.request.op \in Nat /\ a.request.op # pend'.op /\ a.request.op <= hist'.ops
      BY <2>2 DEF MasterRecords, OneRequestPerId, AreaSaves, AreaAnswers, Databases, Histories
    <2>7. OneRequestPerId'
      BY <1>1, <2>2, <2>3, <2>4, <2>5, <2>6 DEF OneRequestPerId, MasterRecords, AreaSaves
    <2>8. AnsweredOnce'
      BY <1>1, <2>2 DEF AnsweredOnce
    <2> QED
      BY <2>4, <2>7, <2>8
  <1> QED
    BY <1>3, <1>4

(* A request that is new is answered and applied as the answer says; one    *)
(* that is known changes nothing.                                           *)
LEMMA AppliedKeeps ==
    ASSUME MasterInv, NEW r \in AreaSaves, NEW ok \in BOOLEAN, Applied(r, ok),
           r.op <= hist.ops, r.op = pend.op => r = pend,
           \A s \in late : r.op = s.op => r = s
    PROVE  /\ db' \in Databases
           /\ hist' \in Histories
           /\ hist'.ops = hist.ops
           /\ Answer(r, ok) \in AreaAnswers /\ Answer(r, ok).request.op = r.op
           /\ \E a \in db'.answers : a.request.op = r.op /\ Answer(r, ok).status \in {a.status, "unavailable"}
           /\ db.answers \subseteq db'.answers
           /\ \A a \in db'.answers : a \in db.answers \/ a.request = r
           /\ \A a \in db'.answers : hist'.applied[a.request.op] = IF a.status = "confirmed" THEN 1 ELSE 0
           /\ \A op \in 1..MaxOp : hist'.applied[op] = 0 \/ \E a \in db'.answers : a.request.op = op
  <1> USE DEF MasterInv
  <1>1. CASE Stored(r) # {}
    <2>1. db' = db /\ hist' = hist
      BY <1>1 DEF Applied
    <2>2. PICK x \in db.answers : /\ x.request.op = r.op
                                  /\ Answer(r, ok) = IF x.request = r /\ x.admin = db.admin THEN x
                                                     ELSE [x EXCEPT !.status = "unavailable"]
      <3>1. (CHOOSE x \in Stored(r) : TRUE) \in Stored(r)
        BY <1>1
      <3> QED
        BY <1>1, <3>1 DEF Stored, Answer
    <2>3. /\ Answer(r, ok) \in AreaAnswers /\ Answer(r, ok).request.op = r.op
          /\ Answer(r, ok).status \in {x.status, "unavailable"}
      <3>1. x \in AreaAnswers
        BY DEF MasterRecords, Databases, Histories
      <3>2. /\ [x EXCEPT !.status = "unavailable"] \in AreaAnswers
            /\ [x EXCEPT !.status = "unavailable"].request = x.request
            /\ [x EXCEPT !.status = "unavailable"].status = "unavailable"
        BY <3>1 DEF AreaAnswers, Statuses
      <3> QED
        BY <2>2, <3>1, <3>2
    <2> QED
      BY <2>1, <2>2, <2>3 DEF MasterRecords, AnsweredOnce
  <1>2. CASE Stored(r) = {}
    <2> DEFINE a == Answer(r, ok)
    <2>1. /\ a.request = r /\ a.status = Status(r, ok) /\ a \in AreaAnswers
          /\ a.status \in {"confirmed", "conflict", "validation_error"}
      <3>1. Status(r, ok) \in {"confirmed", "conflict", "validation_error"}
        BY DEF Status
      <3>2. [db.content EXCEPT ![r.area] = r.value] \in Contents /\ db.content \in Contents /\ db.admin \in BOOLEAN
        BY DEF MasterRecords, Contents, AreaSaves, Databases, Histories
      <3> QED
        BY <1>2, <3>1, <3>2 DEF Answer, AreaAnswers, Statuses
    <2>2. /\ db' = [db EXCEPT !.answers = @ \cup {a}, !.content = a.content]
          /\ hist' = IF a.status = "confirmed" THEN [hist EXCEPT !.applied[r.op] = @ + 1] ELSE hist
      BY <1>2 DEF Applied
    <2>3. a.content \in Contents
      BY <2>1 DEF AreaAnswers
    <2> HIDE DEF a
    <2>4. db' \in Databases /\ db'.answers = db.answers \cup {a}
      BY <2>1, <2>2, <2>3 DEF MasterRecords, Databases, Histories
    <2>5. r.op \in 1..MaxOp /\ r.area \in Area
      BY DEF AreaSaves
    <2>6. \A b \in db.answers : b.request.op # r.op
      BY <1>2 DEF Stored
    <2>7. hist.applied[r.op] = 0
      BY <2>5, <2>6 DEF AnsweredOnce
    <2>8. /\ hist' \in Histories
          /\ hist'.ops = hist.ops
          /\ hist'.applied = [hist.applied EXCEPT ![r.op] = IF a.status = "confirmed" THEN 1 ELSE 0]
      <3>1. CASE a.status = "confirmed"
        <4>1. hist' = [hist EXCEPT !.applied[r.op] = @ + 1]
          BY <2>2, <3>1
        <4>2. hist' \in Histories /\ hist'.ops = hist.ops
          <5>1. hist.applied[r.op] + 1 \in Nat
            BY <2>7
          <5>2. [hist.applied EXCEPT ![r.op] = @ + 1] \in [1..MaxOp -> Nat]
            BY <5>1 DEF MasterRecords, Histories
          <5> QED
            BY <4>1, <5>2 DEF MasterRecords, Histories
        <4>3. hist'.applied = [hist.applied EXCEPT ![r.op] = @ + 1]
          BY <4>1 DEF MasterRecords, Histories
        <4> QED
          BY <2>5, <2>7, <3>1, <4>2, <4>3 DEF MasterRecords, Histories
      <3>2. CASE a.status # "confirmed"
        BY <2>2, <2>5, <2>7, <3>2 DEF MasterRecords, Histories
      <3> QED
        BY <3>1, <3>2
    <2>9. \A b \in db'.answers : hist'.applied[b.request.op] = IF b.status = "confirmed" THEN 1 ELSE 0
      <3>1. \A b \in db.answers : b.request.op \in 1..MaxOp
        BY DEF MasterRecords, AreaAnswers, AreaSaves, Databases, Histories
      <3>2. hist'.applied[r.op] = IF a.status = "confirmed" THEN 1 ELSE 0
        BY <2>5, <2>8 DEF MasterRecords, Histories
      <3>3. \A b \in db.answers : hist'.applied[b.request.op] = hist.applied[b.request.op]
        BY <2>5, <2>6, <2>8, <3>1 DEF MasterRecords, Histories
      <3> QED
        BY <2>1, <2>4, <3>2, <3>3 DEF AnsweredOnce
    <2>10. \A op \in 1..MaxOp : hist'.applied[op] = 0 \/ \E b \in db'.answers : b.request.op = op
      BY <2>1, <2>4, <2>5, <2>8 DEF MasterRecords, AnsweredOnce
    <2> QED
      BY <2>1, <2>4, <2>8, <2>9, <2>10 DEF a
  <1> QED
    BY <1>1, <1>2

LEMMA ServeKeeps ==
    ASSUME MasterInv, NEW ok \in BOOLEAN, Serve(ok)
    PROVE  MasterInv'
  <1> USE DEF MasterInv
  <1>1. pend \in AreaSaves /\ Request(pend) = pend /\ mut \in [state : {"going"}, shown : Value] /\ pend # NoPend /\ store # NoStore
    BY PendIsRequest DEF Serve, OneRequestPerId, MasterRecords, NoMut
  <1>2. /\ Applied(pend, ok) /\ mut' = [state |-> "answered", shown |-> mut.shown, answer |-> Answer(pend, ok)]
        /\ store' = store /\ pend' = pend /\ late' = late /\ read' = read
    BY <1>1 DEF Serve
  <1>3. /\ pend.op <= hist.ops /\ \A s \in late : pend.op = s.op => pend = s
        /\ \A a \in db.answers : a.request.op = pend.op => a.request = pend
    BY DEF OneRequestPerId
  <1> DEFINE a == Answer(pend, ok)
  <1>4. /\ a \in AreaAnswers /\ a.request.op = pend.op
        /\ \E b \in db'.answers : b.request.op = pend.op /\ a.status \in {b.status, "unavailable"}
    BY <1>1, <1>2, <1>3, AppliedKeeps
  <1>5. a.request = pend
    <2>1. CASE Stored(pend) = {}
      BY <2>1 DEF Answer
    <2>2. CASE Stored(pend) # {}
      <3>1. PICK x \in Stored(pend) : a = IF x.request = pend /\ x.admin = db.admin THEN x ELSE [x EXCEPT !.status = "unavailable"]
        <4>1. (CHOOSE x \in Stored(pend) : TRUE) \in Stored(pend)
          BY <2>2
        <4> QED
          BY <2>2, <4>1 DEF Answer
      <3>2. x \in AreaAnswers /\ x.request = pend
        BY <1>3 DEF Stored, MasterRecords, Databases, Histories
      <3>3. [x EXCEPT !.status = "unavailable"].request = x.request
        BY <3>2 DEF AreaAnswers
      <3> QED
        BY <3>1, <3>2, <3>3
    <2> QED
      BY <2>1, <2>2
  <1> HIDE DEF a
  <1>6. mut' \in [state : {"answered"}, shown : Value, answer : AreaAnswers] /\ mut'.answer = a /\ mut'.state = "answered"
    BY <1>1, <1>2, <1>4 DEF a
  <1>7. MasterRecords'
    BY <1>1, <1>2, <1>3, <1>6, AppliedKeeps DEF MasterRecords
  <1>8. OneRequestPerId'
    <2>1. hist'.ops = hist.ops /\ \A b \in db'.answers : b \in db.answers \/ b.request = pend
      BY <1>1, <1>2, <1>3, AppliedKeeps
    <2> QED
      BY <1>1, <1>2, <1>3, <2>1 DEF OneRequestPerId
  <1>9. AnsweredOnce'
    <2>1. /\ \A b \in db'.answers : hist'.applied[b.request.op] = IF b.status = "confirmed" THEN 1 ELSE 0
          /\ \A op \in 1..MaxOp : hist'.applied[op] = 0 \/ \E b \in db'.answers : b.request.op = op
      BY <1>1, <1>2, <1>3, AppliedKeeps
    <2> QED
      BY <1>2, <1>4, <1>5, <1>6, <2>1 DEF AnsweredOnce
  <1> QED
    BY <1>7, <1>8, <1>9

LEMMA ServeLateKeeps ==
    ASSUME MasterInv, NEW r, NEW ok \in BOOLEAN, ServeLate(r, ok)
    PROVE  MasterInv'
  <1> USE DEF MasterInv
  <1>1. /\ r \in late /\ r \in AreaSaves /\ Applied(r, ok) /\ late' = late \ {r}
        /\ store' = store /\ pend' = pend /\ mut' = mut /\ read' = read
    BY DEF ServeLate, MasterRecords
  <1>2. /\ r.op <= hist.ops /\ (r.op = pend.op => r = pend) /\ \A s \in late : r.op = s.op => r = s
    BY <1>1 DEF OneRequestPerId
  <1>3. MasterRecords'
    BY <1>1, <1>2, AppliedKeeps DEF MasterRecords
  <1>4. hist'.ops = hist.ops /\ db.answers \subseteq db'.answers /\ \A b \in db'.answers : b \in db.answers \/ b.request = r
    BY <1>1, <1>2, AppliedKeeps
  <1>5. OneRequestPerId'
    BY <1>1, <1>2, <1>4 DEF OneRequestPerId
  <1>6. AnsweredOnce'
    <2>1. /\ \A b \in db'.answers : hist'.applied[b.request.op] = IF b.status = "confirmed" THEN 1 ELSE 0
          /\ \A op \in 1..MaxOp : hist'.applied[op] = 0 \/ \E b \in db'.answers : b.request.op = op
      BY <1>1, <1>2, AppliedKeeps
    <2> QED
      BY <1>1, <1>4, <2>1 DEF AnsweredOnce
  <1> QED
    BY <1>3, <1>5, <1>6

LEMMA ReceiveKeeps == MasterInv /\ Receive => MasterInv'
  <1> SUFFICES ASSUME MasterInv, Receive PROVE MasterInv'
    OBVIOUS
  <1> USE MasterAssumption DEF MasterInv
  <1>1. /\ mut \in [state : {"answered"}, shown : Value, answer : AreaAnswers]
        /\ pend \in AreaSaves /\ store \in [rev : Contents, content : Contents]
    BY PendIsRequest DEF Receive, MasterRecords, OneRequestPerId, NoMut
  <1> DEFINE a == mut.answer
  <1>2. a \in AreaAnswers /\ a.content \in Contents /\ a.request.area \in Area /\ a.request.value \in Value
    BY <1>1 DEF AreaAnswers, AreaSaves
  <1> HIDE DEF a
  <1>3. /\ mut' = NoMut /\ db' = db /\ late' = late /\ read' = read /\ pend' \in {pend, NoPend}
        /\ store' = Patched(a) /\ hist' = hist
    BY DEF Receive, a
  <1>4. store' \in [rev : Contents, content : Contents]
    BY <1>1, <1>2, <1>3 DEF Patched, Contents
  <1>5. /\ hist' \in Histories
        /\ hist'.ops = hist.ops /\ hist'.applied = hist.applied
    BY <1>2, <1>3 DEF MasterRecords, Databases, Histories
  <1>6. MasterRecords'
    BY <1>1, <1>3, <1>4, <1>5 DEF MasterRecords
  <1>7. OneRequestPerId'
    <2>1. CASE pend' = pend
      BY <1>3, <1>5, <2>1 DEF OneRequestPerId
    <2>2. CASE pend' = NoPend
      <3>1. pend'.op = 0 /\ hist.ops \in Nat
        BY <2>2 DEF NoPend, MasterRecords, Databases, Histories
      <3>2. (\A r \in late : r.op # 0) /\ \A b \in db.answers : b.request.op # 0
        BY DEF MasterRecords, AreaAnswers, AreaSaves, Databases, Histories
      <3> QED
        BY <1>3, <1>5, <3>1, <3>2 DEF OneRequestPerId
    <2> QED
      BY <1>3, <2>1, <2>2
  <1>8. AnsweredOnce'
    BY <1>3, <1>5 DEF AnsweredOnce, NoMut
  <1> QED
    BY <1>6, <1>7, <1>8

LEMMA MasterInvariant == MasterSpec => []MasterInv
  <1>1. MasterInv /\ [MasterNext]_masterVars => MasterInv'
    <2> SUFFICES ASSUME MasterInv, [MasterNext]_masterVars PROVE MasterInv'
      OBVIOUS
    <2>1. CASE Refresh \/ ServeRead \/ ReadArrives \/ ReadFails
      BY <2>1, ReadsKeep
    <2>2. ASSUME NEW area \in Area, NEW value \in Value, Press(area, value) \/ ChangeElsewhere(area, value)
          PROVE  MasterInv'
      BY <2>2, PressKeeps, ElsewhereKeeps
    <2>3. ASSUME NEW ok \in BOOLEAN, Serve(ok)
          PROVE  MasterInv'
      BY <2>3, ServeKeeps
    <2>4. ASSUME NEW ok \in BOOLEAN, NEW r \in late, ServeLate(r, ok)
          PROVE  MasterInv'
      BY <2>4, ServeLateKeeps
    <2>5. CASE Receive
      BY <2>5, ReceiveKeeps
    <2>6. CASE Unanswered \/ Reload \/ SwitchMode
      BY <2>6, FaultsKeep
    <2>7. CASE UNCHANGED masterVars
      BY <2>7 DEF masterVars, MasterInv, MasterRecords, OneRequestPerId, AnsweredOnce
    <2> QED
      BY <2>1, <2>2, <2>3, <2>4, <2>5, <2>6, <2>7 DEF MasterNext
  <1> QED
    BY <1>1, MasterStarts, PTL DEF MasterSpec

(* The store, the command that is kept and the requests that are late stay  *)
(* well formed: the page waits only for an answer to the command it keeps.  *)
THEOREM MasterTyped == MasterSpec => []MasterTypeOK
  <1>1. MasterInv => MasterTypeOK
    <2> SUFFICES ASSUME MasterInv PROVE MasterTypeOK
      OBVIOUS
    <2>1. db.content \in Contents /\ (store # NoStore => store.rev \in Contents /\ store.content \in Contents)
      BY DEF MasterInv, MasterRecords, Databases, Histories
    <2>2. mut # NoMut => pend # NoPend /\ store # NoStore
      BY DEF MasterInv, OneRequestPerId
    <2>3. mut.state = "answered" => mut.answer.request = Request(pend)
      BY <2>2, PendIsRequest DEF MasterInv, AnsweredOnce, NoMut
    <2>4. \A r \in late : r.op \in 1..hist.ops
      BY DEF MasterInv, MasterRecords, OneRequestPerId, AreaSaves
    <2> QED
      BY <2>1, <2>2, <2>3, <2>4 DEF MasterTypeOK
  <1> QED
    BY <1>1, MasterInvariant, PTL

(* A command is carried out at most once, however often it is sent.         *)
THEOREM MasterAppliedOnce == MasterSpec => []AppliedOnce
  <1>1. MasterInv => AppliedOnce
    BY DEF MasterInv, MasterRecords, AnsweredOnce, AppliedOnce
  <1> QED
    BY <1>1, MasterInvariant, PTL

(* A save told to conflict or to be refused was never made.                 *)
THEOREM MasterToldAsApplied == MasterSpec => []ToldAsApplied
  <1>1. MasterInv => ToldAsApplied
    BY DEF MasterInv, AnsweredOnce, ToldAsApplied
  <1> QED
    BY <1>1, MasterInvariant, PTL

-----------------------------------------------------------------------------
DayNo == 1..MaxDay
Days == [version : Nat, rows : Content, snapshot : Content]
Bodies == [day : DayNo, version : Nat, content : Content, date : DayNo]
Answers == [op : Nat, body : Bodies, status : {"confirmed", "unchanged"}]
Requests == [preferred : 0..MaxDay, filter : Filters]
Pagings == [kind : {"first", "more", "search"}, preferred : 0..MaxDay, filter : Filters, before : 0..MaxDay, pages : Nat]
Forms == [day : DayNo, version : Nat, seen : Content, now : Content, locked : SUBSET Cast]
Saves == [state : {"going", "late", "confirmed", "unchanged", "rejected"}, op : Nat, day : DayNo, version : Nat,
          seen : Content, content : Content]

(* The shape of the variables. *)
ArchiveShape == archive \in [days : [DayNo -> Days], last : DayNo, date : DayNo, answers : SUBSET Answers]
ListShape ==
    list \in [items : Seq(DayNo), can : SUBSET DayNo, more : BOOLEAN, before : 0..MaxDay, selected : 0..MaxDay,
              filter : Filters]
PagingShape == paging \in Pagings \cup {NoPaging}
QueueShape == queue \in [active : BOOLEAN, next : Requests \cup {NoRequest}, typed : Filters]
EditorShape == editor \in [shown : BOOLEAN, day : 0..MaxDay, form : Forms \cup {NoForm}, op : Nat, ready : BOOLEAN]
LoadsShape == loads \subseteq [op : Nat, day : DayNo]
SavesShape == saves \subseteq Saves
AskedShape == asked \in [loads : Nat, met : BOOLEAN]

(* The version of a form or a request stands for the rows it was filled     *)
(* with.                                                                    *)
Knows(x) ==
    /\ x.version <= archive.days[x.day].version
    /\ x.version = archive.days[x.day].version => x.seen = archive.days[x.day].rows

SeenInv == (editor.form # NoForm => Knows(editor.form)) /\ \A save \in saves : Knows(save)

(* Who may have the drink back taken off, and who has none, attended        *)
(* without one when the form was filled.                                    *)
Holds(form) ==
    /\ Missing(form.now) \subseteq Missing(form.seen)
    /\ form.now.att \ form.locked \subseteq Missing(form.seen)

FormHeld == editor.form # NoForm => Holds(editor.form)

(* Days from new to old, all that the filter has from the first to the last.*)
Falls(s) == \A i, j \in 1..Len(s) : i < j => s[i] > s[j]
IsRun(s, filter) ==
    /\ Falls(s)
    /\ s # <<>> => {s[i] : i \in 1..Len(s)} = {d \in filter : s[Len(s)] <= d /\ d <= s[1]}

LastDay(s) == IF s = <<>> THEN 0 ELSE s[Len(s)]

Listed == \A i \in 1..Len(list.items) : list.items[i] <= archive.last

ListInv ==
    /\ IsRun(list.items, list.filter)
    /\ list.more => list.before = LastDay(list.items)
    /\ paging # NoPaging =>
         /\ paging.filter = list.filter /\ paging.before = LastDay(list.items) /\ list.more
         /\ paging.kind = "first" => list.items = <<>>
    /\ queue.active <=> paging # NoPaging /\ paging.kind # "more"
    /\ queue.typed = IF queue.next = NoRequest THEN list.filter ELSE queue.next.filter
    /\ queue.next # NoRequest => queue.active

RecordPart ==
    ArchiveShape /\ EditorShape /\ LoadsShape /\ SavesShape /\ SnapshotTellsRows /\ FormHeld /\ SeenInv

ListPart == ListShape /\ PagingShape /\ QueueShape /\ AskedShape /\ Listed /\ (~ asked.met => ListInv)

HistoryInv == RecordPart /\ ListPart

LEMMA Bounds ==
    /\ MaxDay \in Nat /\ MaxDay > 0 /\ PageSize \in Nat /\ PageSize > 0
    /\ \A f \in Filters : f \subseteq DayNo
BY HistoryAssumption DEF HistoryAssumption, DayNo

-----------------------------------------------------------------------------
(* Lists and pages. *)

(* get_sales_history_page: the latest days of the filter before a day.      *)
LEMMA PageIsRun ==
    ASSUME ArchiveShape, NEW filter \in Filters, NEW before \in 0..MaxDay
    PROVE  LET page == Page(filter, before)
               s == page.items
           IN  /\ s \in Seq(DayNo) /\ Falls(s)
               /\ \A i \in 1..Len(s) : s[i] \in filter /\ (before = 0 \/ s[i] < before)
               /\ \A d \in filter : d <= archive.last /\ (before = 0 \/ d < before) /\ s # <<>> /\ d >= s[Len(s)] =>
                    \E i \in 1..Len(s) : s[i] = d
               /\ \A i \in 1..Len(s) : s[i] <= archive.last
               /\ page.more \in BOOLEAN /\ (page.more => s # <<>>) /\ page.before = LastDay(s)
<1> DEFINE S == Before(before) \cap filter
           rows == Descending(S)
           n == IF Len(rows) < PageSize THEN Len(rows) ELSE PageSize
           s == SubSeq(rows, 1, n)
<1>1. archive.last \in DayNo /\ archive.last \in Nat /\ archive.last <= MaxDay
  BY Bounds DEF ArchiveShape, DayNo
<1>2. S \in SUBSET Int /\ S \in SUBSET DayNo /\ IsFiniteSet(S)
  <2>1. S \subseteq 1..MaxDay
    BY <1>1, Bounds DEF Before, DayNo
  <2>2. 1 \in Int /\ MaxDay \in Int
    BY Bounds
  <2>3. IsFiniteSet(1..MaxDay)
    BY <2>2, FS_Interval
  <2>4. IsFiniteSet(S)
    BY <2>1, <2>3, FS_Subset
  <2> QED BY <2>1, <2>4 DEF DayNo
<1>3. \A d : d \in S <=> d \in filter /\ d <= archive.last /\ (before = 0 \/ d < before)
  BY <1>1, Bounds DEF Before, DayNo
<1> HIDE DEF S
<1>4. /\ rows \in Seq(S) /\ Len(rows) = Cardinality(S) /\ Cardinality(S) \in Nat
      /\ \A i, j \in 1..Cardinality(S) : i < j => rows[i] > rows[j]
      /\ \A d \in S : \E i \in 1..Cardinality(S) : rows[i] = d
  BY <1>2, QueryOrders
<1> HIDE DEF rows
<1>5. n \in Nat /\ n <= Len(rows)
  BY <1>4, Bounds
<1>6. s \in Seq(S) /\ Len(s) = n /\ \A i \in 1..n : s[i] = rows[i]
  BY <1>4, <1>5
<1>7. Page(filter, before).items = s /\ Page(filter, before).more = (Len(rows) > PageSize)
      /\ Page(filter, before).before = IF s = <<>> THEN 0 ELSE Last(s)
  BY DEF Page, S, rows
<1>8. s = <<>> <=> n = 0
  BY <1>6
<1>9. Page(filter, before).more => s # <<>>
  <2>1. Len(rows) > PageSize => n # 0
    BY <1>4, Bounds
  <2> HIDE DEF n, s
  <2> QED BY <2>1, <1>7, <1>8
<1>10. Page(filter, before).before = LastDay(s)
  BY <1>7 DEF Last, LastDay
<1> HIDE DEF s
<1>11. \A i \in 1..n : s[i] \in S
  BY <1>4, <1>5, <1>6
<1>12. s \in Seq(DayNo)
  <2>1. s \in [1..n -> S]
    BY <1>5, <1>6
  <2>2. s \in [1..n -> DayNo]
    BY <2>1, <1>2
  <2> QED BY <2>2, <1>5
<1>13. Falls(s)
  <2>1. \A i \in 1..n : i \in 1..Cardinality(S)
    BY <1>4, <1>5
  <2> HIDE DEF n
  <2> QED BY <2>1, <1>4, <1>6 DEF Falls
<1>14. ASSUME NEW d \in filter, d <= archive.last, before = 0 \/ d < before, s # <<>>, d >= s[Len(s)]
       PROVE  \E i \in 1..Len(s) : s[i] = d
  <2>1. d \in S /\ n > 0
    BY <1>3, <1>5, <1>8, <1>14
  <2>2. PICK i \in 1..Cardinality(S) : rows[i] = d
    BY <2>1, <1>4
  <2> HIDE DEF n
  <2>3. s[n] = rows[n] /\ n \in 1..Cardinality(S) /\ rows[n] \in Int /\ d \in Int
    <3>1. n \in 1..n /\ n \in 1..Cardinality(S) /\ n \in 1..Len(rows)
      BY <2>1, <1>4, <1>5
    <3>2. rows[n] \in S
      BY <3>1, <1>4
    <3> QED BY <3>1, <3>2, <2>1, <1>2, <1>6
  <2>4. CASE i > n
    <3>1. rows[n] > rows[i]
      BY <2>3, <2>4, <1>4
    <3> QED BY <3>1, <2>2, <2>3, <1>6, <1>14
  <2>5. CASE i <= n
    BY <2>2, <2>5, <1>4, <1>5, <1>6
  <2>6. i > n \/ i <= n
    BY <1>5
  <2> QED BY <2>4, <2>5, <2>6
<1>15. Page(filter, before).more \in BOOLEAN
  BY <1>7
<1> QED BY <1>3, <1>6, <1>7, <1>9, <1>10, <1>11, <1>12, <1>13, <1>14, <1>15

(* What was loaded already is left out of a page: nothing, when the page    *)
(* begins where the list ends.                                              *)
LEMMA FilteredPage ==
    ASSUME NEW s \in Seq(DayNo), NEW old \in Seq(DayNo), Falls(s),
           NEW places \in SUBSET (1..Len(s)), \A n \in 1..Len(s) : n \in places <=> s[n] \notin ToSet(old)
    PROVE  LET t == AtPlaces(s, places)
           IN  /\ t \in Seq(DayNo) /\ Falls(t)
               /\ \A i \in 1..Len(t) : \E n \in 1..Len(s) : t[i] = s[n]
               /\ \A n \in 1..Len(s) : s[n] \notin ToSet(old) => \E i \in 1..Len(t) : t[i] = s[n]
<1> DEFINE t == AtPlaces(s, places)
<1>1. places \in SUBSET (1..Len(s)) /\ \A n \in 1..Len(s) : s[n] \notin ToSet(old) => n \in places
  OBVIOUS
<1>2. /\ t \in Seq(DayNo)
      /\ Len(t) = Cardinality(places)
      /\ Cardinality(places) \in Nat /\ Cardinality(places) <= Len(s)
      /\ \A n \in 1..Cardinality(places) : Nth(places, n) \in places /\ t[n] = s[Nth(places, n)]
      /\ \A m, n \in 1..Cardinality(places) : m < n => Nth(places, m) < Nth(places, n)
      /\ \A i \in places : \E n \in 1..Cardinality(places) : i = Nth(places, n)
  BY <1>1, FilterKeeps
<1> HIDE DEF t
<1>3. Falls(t)
  BY <1>1, <1>2 DEF Falls
<1>4. \A i \in 1..Len(t) : \E n \in 1..Len(s) : t[i] = s[n]
  BY <1>1, <1>2
<1>5. ASSUME NEW n \in 1..Len(s), s[n] \notin ToSet(old) PROVE \E i \in 1..Len(t) : t[i] = s[n]
  BY <1>1, <1>2, <1>5
<1> QED BY <1>2, <1>3, <1>4, <1>5 DEF t

(* A run goes on with the days below its last. *)
LEMMA RunGrows ==
    ASSUME NEW filter \in SUBSET DayNo, NEW s \in Seq(DayNo), NEW t \in Seq(DayNo), IsRun(s, filter), Falls(t),
           \A i \in 1..Len(t) : t[i] \in filter /\ (s = <<>> \/ t[i] < s[Len(s)]),
           \A d \in filter : (IF s = <<>> THEN t # <<>> /\ d <= t[1] ELSE d < s[Len(s)]) /\ t # <<>> /\ d >= t[Len(t)] =>
             \E i \in 1..Len(t) : t[i] = d
    PROVE  IsRun(s \o t, filter) /\ s \o t \in Seq(DayNo)
<1> DEFINE u == s \o t
<1>1. /\ u \in Seq(DayNo) /\ Len(s) \in Nat /\ Len(t) \in Nat /\ Len(u) = Len(s) + Len(t)
      /\ \A i \in 1..Len(s) : u[i] = s[i]
      /\ \A i \in 1..Len(t) : u[Len(s) + i] = t[i]
      /\ \A i \in 1..Len(u) : i \in 1..Len(s) \/ i - Len(s) \in 1..Len(t)
  OBVIOUS
<1>2. \A i \in 1..Len(u) : i \notin 1..Len(s) => u[i] = t[i - Len(s)]
  <2> SUFFICES ASSUME NEW i \in 1..Len(u), i \notin 1..Len(s) PROVE u[i] = t[i - Len(s)]
    OBVIOUS
  <2>1. i - Len(s) \in 1..Len(t) /\ Len(s) + (i - Len(s)) = i
    BY <1>1
  <2> HIDE DEF u
  <2> QED BY <2>1, <1>1
<1> HIDE DEF u
<1>3. (s = <<>> <=> Len(s) = 0) /\ (t = <<>> <=> Len(t) = 0) /\ (u = <<>> <=> Len(u) = 0)
  BY <1>1
<1>4. /\ \A i \in 1..Len(s) : s[i] \in DayNo /\ s[i] \in Int
      /\ \A i \in 1..Len(t) : t[i] \in DayNo /\ t[i] \in Int
  <2>1. /\ \A i \in 1..Len(s) : s[i] \in DayNo
        /\ \A i \in 1..Len(t) : t[i] \in DayNo
    OBVIOUS
  <2>2. \A d \in DayNo : d \in Int
    BY DEF DayNo
  <2> QED BY <2>1, <2>2
<1>5. \A i \in 1..Len(s) : s[i] >= s[Len(s)] /\ s[i] <= s[1]
  <2> SUFFICES ASSUME NEW i \in 1..Len(s) PROVE s[i] >= s[Len(s)] /\ s[i] <= s[1]
    OBVIOUS
  <2>1. Len(s) \in 1..Len(s) /\ 1 \in 1..Len(s) /\ (i < Len(s) \/ i = Len(s)) /\ (1 < i \/ 1 = i)
    BY <1>1
  <2>2. (i < Len(s) => s[i] > s[Len(s)]) /\ (1 < i => s[1] > s[i])
    BY <2>1 DEF IsRun, Falls
  <2> QED BY <2>1, <2>2, <1>4
<1>6. \A i \in 1..Len(t) : t[i] >= t[Len(t)] /\ t[i] <= t[1]
  <2> SUFFICES ASSUME NEW i \in 1..Len(t) PROVE t[i] >= t[Len(t)] /\ t[i] <= t[1]
    OBVIOUS
  <2>1. Len(t) \in 1..Len(t) /\ 1 \in 1..Len(t) /\ (i < Len(t) \/ i = Len(t)) /\ (1 < i \/ 1 = i)
    BY <1>1
  <2>2. (i < Len(t) => t[i] > t[Len(t)]) /\ (1 < i => t[1] > t[i])
    BY <2>1 DEF Falls
  <2> QED BY <2>1, <2>2, <1>4
<1>7. Falls(u)
  <2> SUFFICES ASSUME NEW i \in 1..Len(u), NEW j \in 1..Len(u), i < j PROVE u[i] > u[j]
    BY DEF Falls
  <2>1. CASE i \in 1..Len(s) /\ j \in 1..Len(s)
    <3>1. u[i] = s[i] /\ u[j] = s[j]
      BY <2>1, <1>1
    <3>2. s[i] > s[j]
      BY <2>1 DEF IsRun, Falls
    <3>3. s[i] \in Int /\ s[j] \in Int
      BY <2>1, <1>4
    <3> QED BY <3>1, <3>2, <3>3
  <2>2. CASE i \in 1..Len(s) /\ j \notin 1..Len(s)
    <3>1. j - Len(s) \in 1..Len(t) /\ u[j] = t[j - Len(s)] /\ u[i] = s[i] /\ Len(s) \in 1..Len(s)
      BY <2>2, <1>1, <1>2
    <3>2. t[j - Len(s)] < s[Len(s)] /\ s[i] >= s[Len(s)]
      BY <3>1, <2>2, <1>1, <1>3, <1>5
    <3>3. t[j - Len(s)] \in Int /\ s[Len(s)] \in Int /\ s[i] \in Int
      BY <3>1, <2>2, <1>4
    <3>4. s[i] > t[j - Len(s)]
      BY <3>2, <3>3
    <3> QED BY <3>1, <3>4, <3>3
  <2>3. CASE i \notin 1..Len(s)
    <3>1. j \notin 1..Len(s)
      BY <2>3, <1>1
    <3>2. i - Len(s) \in 1..Len(t) /\ j - Len(s) \in 1..Len(t) /\ i - Len(s) < j - Len(s)
      BY <2>3, <3>1, <1>1
    <3> QED BY <3>1, <3>2, <2>3, <1>2 DEF Falls
  <2> QED BY <2>1, <2>2, <2>3
<1>8. ASSUME u # <<>> PROVE {u[i] : i \in 1..Len(u)} = {d \in filter : u[Len(u)] <= d /\ d <= u[1]}
  <2>1. CASE t = <<>>
    <3>1. Len(u) = Len(s) /\ Len(s) # 0 /\ u[Len(u)] = s[Len(s)] /\ u[1] = s[1] /\ s # <<>>
      BY <2>1, <1>1, <1>3, <1>8
    <3>2. {u[i] : i \in 1..Len(u)} = {s[i] : i \in 1..Len(s)}
      BY <3>1, <1>1
    <3>3. {s[i] : i \in 1..Len(s)} = {d \in filter : s[Len(s)] <= d /\ d <= s[1]}
      BY <3>1 DEF IsRun
    <3>4. u[Len(u)] = s[Len(s)] /\ u[1] = s[1]
      BY <3>1
    <3> QED BY <3>2, <3>3, <3>4, Zenon
  <2>2. CASE s = <<>> /\ t # <<>>
    <3>1. Len(s) = 0 /\ Len(u) = Len(t) /\ Len(t) # 0
      BY <2>2, <1>1, <1>3
    <3>2. \A i \in 1..Len(t) : u[i] = t[i]
      BY <3>1, <1>1
    <3>3. u[Len(u)] = t[Len(t)] /\ u[1] = t[1]
      BY <3>1, <3>2, <1>1
    <3>4. {u[i] : i \in 1..Len(u)} = {t[i] : i \in 1..Len(t)}
      BY <3>1, <3>2
    <3>5. \A i \in 1..Len(t) : t[i] \in filter /\ t[Len(t)] <= t[i] /\ t[i] <= t[1]
      BY <1>4, <1>6, <3>1
    <3>6. \A d \in filter : t[Len(t)] <= d /\ d <= t[1] => \E i \in 1..Len(t) : t[i] = d
      BY <2>2, <1>4, <1>1, <3>1 DEF DayNo
    <3>7. {t[i] : i \in 1..Len(t)} = {d \in filter : t[Len(t)] <= d /\ d <= t[1]}
      BY <3>5, <3>6
    <3> QED BY <3>3, <3>4, <3>7, Zenon
  <2>3. CASE s # <<>> /\ t # <<>>
    <3>1. Len(s) # 0 /\ Len(t) # 0 /\ u[1] = s[1] /\ u[Len(u)] = t[Len(t)]
          /\ 1 \in 1..Len(s) /\ Len(s) \in 1..Len(s) /\ 1 \in 1..Len(t) /\ Len(t) \in 1..Len(t)
      BY <2>3, <1>1, <1>3
    <3>2. {s[i] : i \in 1..Len(s)} = {d \in filter : s[Len(s)] <= d /\ d <= s[1]}
      BY <2>3 DEF IsRun
    <3>3. t[Len(t)] < s[Len(s)] /\ s[Len(s)] <= s[1]
      BY <3>1, <2>3, <1>5
    <3>4. ASSUME NEW i \in 1..Len(u) PROVE u[i] \in filter /\ t[Len(t)] <= u[i] /\ u[i] <= s[1]
      <4>1. CASE i \in 1..Len(s)
        <5>1. u[i] = s[i] /\ s[i] \in filter /\ s[Len(s)] <= s[i] /\ s[i] <= s[1]
          BY <4>1, <3>2, <1>1
        <5> QED BY <5>1, <3>1, <3>3, <1>4, <4>1
      <4>2. CASE i \notin 1..Len(s)
        <5>1. i - Len(s) \in 1..Len(t) /\ u[i] = t[i - Len(s)]
          BY <4>2, <1>1, <1>2
        <5>2. t[i - Len(s)] \in filter /\ t[i - Len(s)] < s[Len(s)] /\ t[i - Len(s)] >= t[Len(t)]
          BY <5>1, <2>3, <1>6
        <5> QED BY <5>1, <5>2, <3>1, <3>3, <1>4
      <4> QED BY <4>1, <4>2
    <3>5. ASSUME NEW d \in filter, t[Len(t)] <= d, d <= s[1] PROVE \E i \in 1..Len(u) : u[i] = d
      <4>1. d \in Int
        BY DEF DayNo
      <4>2. CASE d >= s[Len(s)]
        <5>1. PICK i \in 1..Len(s) : s[i] = d
          BY <4>2, <3>2, <3>5, <4>1, <3>1, <1>4
        <5> QED BY <5>1, <1>1
      <4>3. CASE d < s[Len(s)]
        <5>1. PICK i \in 1..Len(t) : t[i] = d
          BY <4>3, <2>3, <3>5, <4>1, <3>1, <1>4
        <5> QED BY <5>1, <1>1
      <4> QED BY <4>1, <4>2, <4>3, <3>1, <1>4
    <3> QED BY <3>1, <3>4, <3>5
  <2> QED BY <2>1, <2>2, <2>3
<1> QED BY <1>1, <1>7, <1>8 DEF IsRun, u

(* A page that begins where the list ends makes the list longer, and leaves *)
(* the next beginning where the longer list ends.                           *)
LEMMA PageExtends ==
    ASSUME ArchiveShape, NEW filter \in Filters, NEW old \in Seq(DayNo), IsRun(old, filter),
           \A i \in 1..Len(old) : old[i] <= archive.last
    PROVE  LET page == Page(filter, LastDay(old))
               t == AtPlaces(page.items, {n \in 1..Len(page.items) : page.items[n] \notin ToSet(old)})
           IN  IsRun(old \o t, filter) /\ (page.more => page.before = LastDay(old \o t))
<1> DEFINE page == Page(filter, LastDay(old))
           s == page.items
           places == {n \in 1..Len(s) : s[n] \notin ToSet(old)}
           t == AtPlaces(s, places)
<1>1. /\ filter \in SUBSET DayNo /\ \A d \in DayNo : d \in Int /\ d > 0 /\ d <= MaxDay
      /\ archive.last \in DayNo
  BY Bounds DEF DayNo, ArchiveShape
<1>2. /\ \A i \in 1..Len(old) : old[i] \in DayNo
      /\ Len(old) \in Nat /\ (old = <<>> <=> Len(old) = 0)
  OBVIOUS
<1>3. LastDay(old) \in 0..MaxDay /\ (old # <<>> => LastDay(old) = old[Len(old)] /\ LastDay(old) # 0)
  <2>1. CASE old = <<>>
    BY <2>1, Bounds DEF LastDay
  <2>2. CASE old # <<>>
    <3>1. Len(old) \in 1..Len(old) /\ LastDay(old) = old[Len(old)]
      BY <2>2, <1>2 DEF LastDay
    <3>2. old[Len(old)] \in DayNo
      BY <3>1, <1>2
    <3> QED BY <3>1, <3>2, <1>1, Bounds
  <2> QED BY <2>1, <2>2
<1> DEFINE before == LastDay(old)
<1> HIDE DEF before
<1>4. /\ s \in Seq(DayNo) /\ Falls(s)
      /\ \A i \in 1..Len(s) : s[i] \in filter /\ (before = 0 \/ s[i] < before)
      /\ \A d \in filter : d <= archive.last /\ (before = 0 \/ d < before) /\ s # <<>> /\ d >= s[Len(s)] =>
           \E i \in 1..Len(s) : s[i] = d
      /\ \A i \in 1..Len(s) : s[i] <= archive.last
      /\ page.more \in BOOLEAN /\ (page.more => s # <<>>) /\ page.before = LastDay(s)
  BY <1>3, PageIsRun DEF before
<1> HIDE DEF page
<1> HIDE DEF places, s
<1>5. /\ t \in Seq(DayNo) /\ Falls(t)
      /\ \A i \in 1..Len(t) : \E n \in 1..Len(s) : t[i] = s[n]
      /\ \A n \in 1..Len(s) : s[n] \notin ToSet(old) => \E i \in 1..Len(t) : t[i] = s[n]
  <2>1. places = {n \in 1..Len(s) : s[n] \notin ToSet(old)}
    BY DEF places
  <2>2. places \in SUBSET (1..Len(s)) /\ \A n \in 1..Len(s) : n \in places <=> s[n] \notin ToSet(old)
    BY <2>1
  <2> QED BY <2>2, <1>4, FilteredPage
<1> HIDE DEF t
<1>6. \A i \in 1..Len(old) : old[i] >= before
  <2> SUFFICES ASSUME NEW i \in 1..Len(old) PROVE old[i] >= before
    OBVIOUS
  <2>1. Len(old) \in 1..Len(old) /\ (i < Len(old) \/ i = Len(old)) /\ old # <<>> /\ before = old[Len(old)]
    BY <1>2, <1>3 DEF before
  <2>2. i < Len(old) => old[i] > old[Len(old)]
    BY <2>1 DEF IsRun, Falls
  <2>3. old[i] \in Int /\ old[Len(old)] \in Int
    BY <2>1, <1>1, <1>2
  <2> QED BY <2>1, <2>2, <2>3
<1>7. \A n \in 1..Len(s) : s[n] \notin ToSet(old)
  <2> SUFFICES ASSUME NEW n \in 1..Len(s), s[n] \in ToSet(old) PROVE FALSE
    OBVIOUS
  <2>1. PICK i \in 1..Len(old) : old[i] = s[n]
    BY <1>2 DEF ToSet
  <2>2. old # <<>> /\ before # 0 /\ before \in Int
    BY <1>2, <1>3, Bounds DEF before
  <2>3. s[n] < before /\ s[n] >= before /\ s[n] \in Int
    BY <2>1, <2>2, <1>1, <1>2, <1>4, <1>6
  <2> QED BY <2>2, <2>3
<1>8. \A n \in 1..Len(s) : \E i \in 1..Len(t) : t[i] = s[n]
  BY <1>5, <1>7
<1>9. \A i \in 1..Len(t) : t[i] \in filter /\ (old = <<>> \/ t[i] < old[Len(old)])
  BY <1>3, <1>4, <1>5 DEF before
<1>10. /\ Len(t) \in Nat /\ (t = <<>> <=> Len(t) = 0) /\ (t # <<>> => Len(t) \in 1..Len(t) /\ 1 \in 1..Len(t))
       /\ Len(s) \in Nat /\ (s = <<>> <=> Len(s) = 0) /\ (s # <<>> => Len(s) \in 1..Len(s) /\ 1 \in 1..Len(s))
       /\ \A i \in 1..Len(s) : s[i] \in DayNo
       /\ \A i \in 1..Len(t) : t[i] \in DayNo
  BY <1>4, <1>5
<1>11. \A n \in 1..Len(s) : s[n] \in Int /\ s[n] >= s[Len(s)]
  <2> SUFFICES ASSUME NEW n \in 1..Len(s) PROVE s[n] \in Int /\ s[n] >= s[Len(s)]
    OBVIOUS
  <2>1. Len(s) \in 1..Len(s) /\ (n < Len(s) \/ n = Len(s))
    BY <1>10
  <2>2. n < Len(s) => s[n] > s[Len(s)]
    BY <2>1, <1>4 DEF Falls
  <2>3. s[n] \in Int /\ s[Len(s)] \in Int
    BY <2>1, <1>1, <1>10
  <2> QED BY <2>1, <2>2, <2>3
<1>12. t # <<>> => s # <<>> /\ t[Len(t)] = s[Len(s)]
  <2> SUFFICES ASSUME t # <<>> PROVE s # <<>> /\ t[Len(t)] = s[Len(s)]
    OBVIOUS
  <2>1. PICK n \in 1..Len(s) : t[Len(t)] = s[n]
    BY <1>5, <1>10
  <2>2. s # <<>> /\ Len(s) \in 1..Len(s)
    BY <2>1, <1>10
  <2>3. PICK i \in 1..Len(t) : t[i] = s[Len(s)]
    BY <2>2, <1>8
  <2>4. i < Len(t) \/ i = Len(t)
    BY <1>10
  <2>5. i < Len(t) => t[i] > t[Len(t)]
    BY <1>5, <1>10 DEF Falls
  <2>6. t[i] \in Int /\ t[Len(t)] \in Int /\ s[n] \in Int /\ s[n] >= s[Len(s)]
    BY <1>1, <1>10, <1>11
  <2>7. t[Len(t)] >= s[Len(s)] /\ s[Len(s)] >= t[Len(t)] /\ s[Len(s)] \in Int
    BY <2>1, <2>3, <2>4, <2>5, <2>6
  <2> QED BY <2>2, <2>6, <2>7
<1>13. ASSUME NEW d \in filter, IF old = <<>> THEN t # <<>> /\ d <= t[1] ELSE d < old[Len(old)], t # <<>>, d >= t[Len(t)]
       PROVE  \E i \in 1..Len(t) : t[i] = d
  <2>1. d \in Int
    BY <1>1
  <2>2. d <= archive.last /\ (before = 0 \/ d < before)
    <3>1. CASE old = <<>>
      <4>1. before = 0
        BY <3>1 DEF before, LastDay
      <4>2. PICK n \in 1..Len(s) : t[1] = s[n]
        BY <1>13, <1>5, <1>10
      <4>3. d <= s[n] /\ s[n] <= archive.last /\ s[n] \in Int /\ archive.last \in Int
        BY <4>2, <3>1, <1>1, <1>4, <1>11, <1>13
      <4> QED BY <4>1, <4>3, <2>1
    <3>2. CASE old # <<>>
      <4>1. Len(old) \in 1..Len(old) /\ before = old[Len(old)] /\ d < before
        BY <3>2, <1>2, <1>3, <1>13 DEF before
      <4>2. old[Len(old)] <= archive.last /\ old[Len(old)] \in Int /\ archive.last \in Int
        BY <4>1, <1>1, <1>2
      <4> QED BY <4>1, <4>2, <2>1
    <3> QED BY <3>1, <3>2
  <2>3. s # <<>> /\ d >= s[Len(s)]
    BY <1>12, <1>13
  <2>4. PICK n \in 1..Len(s) : s[n] = d
    BY <2>2, <2>3, <1>4
  <2> QED BY <2>4, <1>8
<1>14. IsRun(old \o t, filter) /\ old \o t \in Seq(DayNo)
  <2>1. \A d \in filter : (IF old = <<>> THEN t # <<>> /\ d <= t[1] ELSE d < old[Len(old)]) /\ t # <<>> /\ d >= t[Len(t)] =>
             \E i \in 1..Len(t) : t[i] = d
    BY <1>13
  <2> QED BY <2>1, <1>1, <1>5, <1>9, RunGrows
<1>15. ASSUME page.more PROVE page.before = LastDay(old \o t)
  <2>1. s # <<>> /\ page.before = s[Len(s)]
    BY <1>4, <1>15 DEF LastDay
  <2>2. t # <<>> /\ t[Len(t)] = s[Len(s)]
    BY <2>1, <1>8, <1>10, <1>12
  <2>3. Len(old \o t) = Len(old) + Len(t) /\ Len(t) # 0 /\ (old \o t)[Len(old) + Len(t)] = t[Len(t)] /\ old \o t # <<>>
    BY <2>2, <1>2, <1>5, <1>10
  <2> QED BY <2>1, <2>2, <2>3 DEF LastDay
<1> QED BY <1>14, <1>15 DEF t, places, s, page, before

-----------------------------------------------------------------------------
(* What each action does to the list. *)

LEMMA Parts ==
    ASSUME HistoryInv
    PROVE  /\ ArchiveShape /\ EditorShape /\ LoadsShape /\ SavesShape
           /\ SnapshotTellsRows /\ FormHeld /\ SeenInv
           /\ ListShape /\ PagingShape /\ QueueShape /\ AskedShape /\ Listed /\ (~ asked.met => ListInv)
BY DEF HistoryInv, RecordPart, ListPart

(* The part of the invariant about the list, of a list that is still to be  *)
(* put in place.                                                            *)
Sound(l) ==
    /\ l \in [items : Seq(DayNo), can : SUBSET DayNo, more : BOOLEAN, before : 0..MaxDay, selected : 0..MaxDay,
              filter : Filters]
    /\ \A i \in 1..Len(l.items) : l.items[i] <= archive.last
    /\ ~ asked.met => IsRun(l.items, l.filter) /\ (l.more => l.before = LastDay(l.items)) /\ l.filter = list.filter

LEMMA EmptyRun ==
    ASSUME NEW filter
    PROVE  IsRun(<<>>, filter) /\ LastDay(<<>>) = 0 /\ <<>> \in Seq(DayNo) /\ Len(<<>>) = 0
BY DEF IsRun, Falls, LastDay

LEMMA NewListIs ==
    ASSUME NEW request \in Requests
    PROVE  /\ NewList(request.filter) \in [items : Seq(DayNo), can : SUBSET DayNo, more : BOOLEAN, before : 0..MaxDay,
                                           selected : 0..MaxDay, filter : Filters]
           /\ NewList(request.filter).items = <<>> /\ NewList(request.filter).filter = request.filter
           /\ NewList(request.filter).more = TRUE /\ NewList(request.filter).before = 0
           /\ FirstPage(request) \in Pagings /\ FirstPage(request) # NoPaging
           /\ FirstPage(request).kind = "first" /\ FirstPage(request).filter = request.filter
           /\ FirstPage(request).before = 0
           /\ request # NoRequest /\ request.filter \in Filters
<1>1. request.preferred \in 0..MaxDay /\ request.filter \in Filters
  BY DEF Requests
<1>2. request # NoRequest
  BY <1>1, Bounds DEF NoRequest
<1>3. FirstPage(request) \in Pagings /\ FirstPage(request) # NoPaging
  BY <1>1, Bounds DEF FirstPage, Pagings, NoPaging
<1> QED BY <1>1, <1>2, <1>3, EmptyRun, Bounds DEF NewList, FirstPage

LEMMA RequestIs ==
    ASSUME HistoryInv, NEW request \in Requests, RequestInitial(request), archive' = archive
    PROVE  ListPart'
<1>1. CASE queue.active
  <2>1. /\ queue' = [queue EXCEPT !.next = request, !.typed = request.filter]
        /\ list' = list /\ paging' = paging /\ asked' = [asked EXCEPT !.loads = @ + 1]
    BY <1>1 DEF RequestInitial, Waiting
  <2>2. QueueShape' /\ AskedShape' /\ asked'.met = asked.met /\ queue'.next = request /\ queue'.active
        /\ queue'.typed = request.filter
    <3>1. request \in Requests \cup {NoRequest} /\ request.filter \in Filters
      BY NewListIs
    <3>2. QueueShape' /\ queue'.next = request /\ queue'.active /\ queue'.typed = request.filter
      BY <2>1, <1>1, <3>1, Parts DEF QueueShape
    <3>3. AskedShape' /\ asked'.met = asked.met
      BY <2>1, Parts DEF AskedShape
    <3> QED BY <3>2, <3>3
  <2>3. ListShape' /\ PagingShape' /\ Listed'
    BY <2>1, Parts DEF ListShape, PagingShape, Listed
  <2>4. ~ asked'.met => ListInv'
    BY <2>1, <2>2, <1>1, Parts, NewListIs DEF ListInv
  <2> QED BY <2>2, <2>3, <2>4 DEF ListPart
<1>2. CASE ~ queue.active
  <2>1. /\ list' = NewList(request.filter)
        /\ asked' = [loads |-> asked.loads + 1, met |-> asked.met \/ paging # NoPaging]
        /\ paging' = IF paging = NoPaging THEN FirstPage(request) ELSE paging
        /\ queue' = [active |-> paging = NoPaging, next |-> NoRequest, typed |-> request.filter]
    BY <1>2 DEF RequestInitial
  <2>2. /\ queue'.active = (paging = NoPaging) /\ queue'.next = NoRequest /\ queue'.typed = request.filter
        /\ asked'.met = (asked.met \/ paging # NoPaging)
    BY <2>1
  <2>3. QueueShape' /\ AskedShape'
    <3>1. request.filter \in Filters /\ NoRequest \in Requests \cup {NoRequest}
      BY NewListIs
    <3>2. QueueShape'
      BY <2>1, <3>1 DEF QueueShape
    <3>3. AskedShape'
      BY <2>1, Parts DEF AskedShape
    <3> QED BY <3>2, <3>3
  <2>4. ListShape'
    BY <2>1, NewListIs DEF ListShape
  <2>5. PagingShape'
    BY <2>1, Parts, NewListIs DEF PagingShape
  <2>6. Listed'
    <3>1. list'.items = <<>>
      BY <2>1, NewListIs
    <3> QED BY <3>1 DEF Listed
  <2>7. ASSUME ~ asked'.met PROVE ListInv'
    <3>1. paging = NoPaging /\ paging' = FirstPage(request) /\ queue'.active
      BY <2>1, <2>2, <2>7
    <3>2. /\ list'.items = <<>> /\ list'.filter = request.filter /\ list'.more = TRUE /\ list'.before = 0
          /\ paging' # NoPaging /\ paging'.kind = "first" /\ paging'.filter = request.filter /\ paging'.before = 0
      BY <2>1, <3>1, NewListIs
    <3> QED BY <3>1, <3>2, <2>2, EmptyRun DEF ListInv
  <2> QED BY <2>3, <2>4, <2>5, <2>6, <2>7 DEF ListPart
<1> QED BY <1>1, <1>2

LEMMA EndIs ==
    ASSUME HistoryInv, NEW l, Sound(l), EndInitial(l), archive' = archive, asked' = asked,
           paging # NoPaging, paging.kind # "more"
    PROVE  ListPart'
<1>1. CASE queue.next = NoRequest
  <2>1. list' = l /\ paging' = NoPaging /\ queue' = [queue EXCEPT !.active = FALSE]
    BY <1>1 DEF EndInitial
  <2>2. QueueShape' /\ ~ queue'.active /\ queue'.next = NoRequest /\ queue'.typed = queue.typed
    BY <2>1, <1>1, Parts DEF QueueShape
  <2>3. ListShape' /\ PagingShape' /\ Listed' /\ AskedShape'
    BY <2>1, Parts DEF Sound, ListShape, PagingShape, Listed, AskedShape
  <2>4. ~ asked'.met => ListInv'
    BY <2>1, <2>2, <1>1, Parts DEF ListInv, Sound
  <2> QED BY <2>2, <2>3, <2>4 DEF ListPart
<1>2. CASE queue.next # NoRequest
  <2>1. /\ list' = NewList(queue.next.filter) /\ paging' = FirstPage(queue.next)
        /\ queue' = [queue EXCEPT !.next = NoRequest]
    BY <1>2 DEF EndInitial
  <2>2. queue.next \in Requests
    BY <1>2, Parts DEF QueueShape
  <2>3. /\ QueueShape' /\ queue'.active = queue.active /\ queue'.next = NoRequest /\ queue'.typed = queue.typed
    BY <2>1, Parts DEF QueueShape
  <2>4. ListShape' /\ PagingShape' /\ AskedShape'
    BY <2>1, <2>2, Parts, NewListIs DEF ListShape, PagingShape, AskedShape
  <2>5. Listed'
    <3>1. list'.items = <<>>
      BY <2>1, <2>2, NewListIs
    <3> QED BY <3>1 DEF Listed
  <2>6. ASSUME ~ asked'.met PROVE ListInv'
    <3>1. queue.active /\ queue.typed = queue.next.filter
      BY <2>6, <1>2, Parts DEF ListInv
    <3>2. /\ list'.items = <<>> /\ list'.filter = queue.next.filter /\ list'.more = TRUE /\ list'.before = 0
          /\ paging' # NoPaging /\ paging'.kind = "first" /\ paging'.filter = queue.next.filter /\ paging'.before = 0
      BY <2>1, <2>2, NewListIs
    <3> QED BY <3>1, <3>2, <2>3, EmptyRun DEF ListInv
  <2> QED BY <2>3, <2>4, <2>5, <2>6 DEF ListPart
<1> QED BY <1>1, <1>2

(* The day that is chosen does not change what is listed. *)
LEMMA ChosenIs ==
    ASSUME NEW l, Sound(l), NEW preferred \in 0..MaxDay
    PROVE  Sound(Chosen(l, preferred))
<1> DEFINE day == IF preferred \in ToSet(l.items) THEN preferred ELSE IF l.items = <<>> THEN 0 ELSE Head(l.items)
<1>1. Chosen(l, preferred) = [l EXCEPT !.selected = day]
  BY DEF Chosen
<1>2. day \in 0..MaxDay
  <2>1. l.items # <<>> => Head(l.items) \in DayNo
    BY DEF Sound
  <2> QED BY <2>1, Bounds DEF DayNo
<1> HIDE DEF day
<1>3. LET c == [l EXCEPT !.selected = day]
      IN  /\ c \in [items : Seq(DayNo), can : SUBSET DayNo, more : BOOLEAN, before : 0..MaxDay, selected : 0..MaxDay,
                    filter : Filters]
          /\ c.items = l.items /\ c.filter = l.filter /\ c.more = l.more /\ c.before = l.before
  BY <1>2 DEF Sound
<1> QED BY <1>1, <1>3 DEF Sound

LEMMA ListSound ==
    ASSUME HistoryInv
    PROVE  Sound(list)
BY Parts DEF Sound, ListShape, Listed, ListInv

LEMMA PageArrivesList ==
    ASSUME HistoryInv, PageArrives
    PROVE  ListPart'
<1> DEFINE page == Page(paging.filter, paging.before)
           old == IF paging.kind = "first" THEN <<>> ELSE list.items
           t == AtPlaces(page.items, {n \in 1..Len(page.items) : page.items[n] \notin ToSet(old)})
           can == list.can \cup {d \in ToSet(page.items) : Correctable(d)}
           l == [list EXCEPT !.items = old \o t, !.can = can, !.more = page.more, !.before = page.before]
<1>1. /\ paging # NoPaging /\ archive' = archive /\ asked' = asked
      /\ IF paging.kind = "more" THEN list' = l /\ paging' = NoPaging /\ UNCHANGED queue
         ELSE IF paging.preferred # 0 /\ paging.preferred \notin ToSet(l.items) /\ l.more /\ paging.pages < SearchPages
         THEN /\ list' = l /\ UNCHANGED queue
              /\ paging' = [paging EXCEPT !.kind = "search", !.before = l.before, !.pages = @ + 1]
         ELSE EndInitial(Chosen(l, paging.preferred))
  BY DEF PageArrives
<1>2. paging \in Pagings /\ paging.filter \in Filters /\ paging.before \in 0..MaxDay /\ paging.preferred \in 0..MaxDay
  BY <1>1, Parts DEF PagingShape, Pagings
<1>3. old \in Seq(DayNo) /\ \A i \in 1..Len(old) : old[i] <= archive.last
  BY Parts DEF ListShape, Listed
<1>4. /\ page.items \in Seq(DayNo) /\ Falls(page.items)
      /\ \A i \in 1..Len(page.items) : page.items[i] <= archive.last
      /\ page.more \in BOOLEAN /\ page.before = LastDay(page.items)
  BY <1>2, Parts, PageIsRun
<1>5. page.before \in 0..MaxDay
  <2>1. page.items # <<>> => page.items[Len(page.items)] \in DayNo
    BY <1>4
  <2> QED BY <2>1, <1>4, Bounds DEF LastDay, DayNo
<1>6. can \subseteq DayNo
  BY <1>4, Parts DEF ListShape, ToSet
<1>7. ASSUME ~ asked.met
      PROVE  /\ paging.filter = list.filter /\ paging.before = LastDay(list.items) /\ old = list.items
             /\ IsRun(list.items, list.filter)
  BY <1>1, <1>7, Parts DEF ListInv
<1> HIDE DEF page, old
<1>8. /\ t \in Seq(DayNo)
      /\ \A i \in 1..Len(t) : \E n \in 1..Len(page.items) : t[i] = page.items[n]
  <2> DEFINE places == {n \in 1..Len(page.items) : page.items[n] \notin ToSet(old)}
  <2>1. places \in SUBSET (1..Len(page.items)) /\ \A n \in 1..Len(page.items) : n \in places <=> page.items[n] \notin ToSet(old)
    OBVIOUS
  <2>2. t = AtPlaces(page.items, places)
    OBVIOUS
  <2> HIDE DEF places, t
  <2>3. /\ AtPlaces(page.items, places) \in Seq(DayNo)
        /\ \A i \in 1..Len(AtPlaces(page.items, places)) : \E n \in 1..Len(page.items) : AtPlaces(page.items, places)[i] = page.items[n]
    BY <2>1, <1>3, <1>4, FilteredPage
  <2> QED BY <2>2, <2>3, Zenon
<1>9. ASSUME ~ asked.met PROVE IsRun(old \o t, list.filter) /\ (page.more => page.before = LastDay(old \o t))
  <2>1. page = Page(list.filter, LastDay(old))
    BY <1>7, <1>9 DEF page
  <2>2. IsRun(old, list.filter) /\ list.filter \in Filters
    BY <1>2, <1>7, <1>9
  <2>3. LET page1 == Page(list.filter, LastDay(old))
            t1 == AtPlaces(page1.items, {n \in 1..Len(page1.items) : page1.items[n] \notin ToSet(old)})
        IN  IsRun(old \o t1, list.filter) /\ (page1.more => page1.before = LastDay(old \o t1))
    BY <2>2, <1>3, Parts, PageExtends
  <2> QED BY <2>1, <2>3, Zenon
<1> HIDE DEF t
<1>10. /\ old \o t \in Seq(DayNo) /\ \A i \in 1..Len(old \o t) : (old \o t)[i] <= archive.last
  <2>1. \A i \in 1..Len(t) : t[i] <= archive.last
    BY <1>4, <1>8
  <2> QED BY <2>1, <1>3, <1>8
<1> HIDE DEF can
<1>11. /\ l \in [items : Seq(DayNo), can : SUBSET DayNo, more : BOOLEAN, before : 0..MaxDay, selected : 0..MaxDay,
                filter : Filters]
       /\ l.items = old \o t /\ l.more = page.more /\ l.before = page.before /\ l.filter = list.filter
  BY <1>4, <1>5, <1>6, <1>10, Parts DEF ListShape
<1> HIDE DEF l
<1>12. Sound(l)
  BY <1>9, <1>10, <1>11 DEF Sound
<1>13. CASE paging.kind = "more"
  <2>1. list' = l /\ paging' = NoPaging /\ queue' = queue
    BY <1>1, <1>13
  <2>2. ListShape' /\ PagingShape' /\ QueueShape' /\ AskedShape' /\ Listed'
    BY <2>1, <1>1, <1>12, Parts DEF Sound, ListShape, PagingShape, QueueShape, AskedShape, Listed
  <2>3. ~ asked'.met => ListInv'
    BY <2>1, <1>1, <1>12, <1>13, Parts DEF Sound, ListInv
  <2> QED BY <2>2, <2>3 DEF ListPart
<1>14. CASE /\ list' = l /\ queue' = queue /\ l.more /\ paging.kind # "more"
            /\ paging' = [paging EXCEPT !.kind = "search", !.before = l.before, !.pages = @ + 1]
  <2>1. /\ paging' \in Pagings /\ paging'.kind = "search" /\ paging'.before = l.before /\ paging'.filter = paging.filter
        /\ paging' # NoPaging
    <3> DEFINE before == l.before
               pages == paging.pages + 1
               next == [paging EXCEPT !.kind = "search", !.before = before, !.pages = pages]
    <3>1. before \in 0..MaxDay /\ pages \in Nat /\ paging \in Pagings
      BY <1>2, <1>5, <1>11 DEF Pagings
    <3>2. paging' = next
      BY <1>14
    <3> HIDE DEF before, pages
    <3>3. next \in Pagings /\ next.kind = "search" /\ next.before = before /\ next.filter = paging.filter
      BY <3>1 DEF Pagings
    <3> HIDE DEF next
    <3> QED BY <3>2, <3>3 DEF NoPaging, before
  <2>2. ListShape' /\ PagingShape' /\ QueueShape' /\ AskedShape' /\ Listed'
    BY <2>1, <1>1, <1>12, <1>14, Parts DEF Sound, ListShape, PagingShape, QueueShape, AskedShape, Listed
  <2>3. ~ asked'.met => ListInv'
    BY <2>1, <1>1, <1>12, <1>14, Parts DEF Sound, ListInv
  <2> QED BY <2>2, <2>3 DEF ListPart
<1>15. CASE EndInitial(Chosen(l, paging.preferred)) /\ paging.kind # "more"
  BY <1>1, <1>2, <1>12, <1>15, ChosenIs, EndIs
<1> QED BY <1>1, <1>13, <1>14, <1>15

LEMMA PageFailsList ==
    ASSUME HistoryInv, PageFails
    PROVE  ListPart'
<1>1. paging # NoPaging /\ archive' = archive /\ asked' = asked /\ paging \in Pagings
      /\ paging.preferred \in 0..MaxDay /\ paging.kind \in {"first", "more", "search"}
  BY Parts DEF PageFails, PagingShape, Pagings
<1>2. CASE paging.kind = "more"
  <2>1. paging' = NoPaging /\ list' = list /\ queue' = queue
    BY <1>2 DEF PageFails
  <2>2. ListShape' /\ PagingShape' /\ QueueShape' /\ AskedShape' /\ Listed'
    BY <2>1, <1>1, Parts DEF ListShape, PagingShape, QueueShape, AskedShape, Listed
  <2>3. ~ asked'.met => ListInv'
    BY <2>1, <1>1, <1>2, Parts DEF ListInv
  <2> QED BY <2>2, <2>3 DEF ListPart
<1>3. CASE paging.kind = "first"
  <2>1. EndInitial(list)
    BY <1>3 DEF PageFails
  <2> QED BY <2>1, <1>1, <1>3, ListSound, EndIs
<1>4. CASE paging.kind = "search"
  <2>1. EndInitial(Chosen(list, paging.preferred))
    BY <1>4 DEF PageFails
  <2> QED BY <2>1, <1>1, <1>4, ListSound, ChosenIs, EndIs
<1> QED BY <1>1, <1>2, <1>3, <1>4

LEMMA LoadMoreList ==
    ASSUME HistoryInv, LoadMore
    PROVE  ListPart'
<1>1. /\ paging = NoPaging /\ list.more /\ list' = list /\ queue' = queue /\ asked' = asked /\ archive' = archive
      /\ paging' = [kind |-> "more", preferred |-> 0, filter |-> list.filter, before |-> list.before, pages |-> 0]
  BY DEF LoadMore
<1>2. paging' \in Pagings /\ paging' # NoPaging /\ paging'.kind = "more" /\ paging'.filter = list.filter
      /\ paging'.before = list.before
  BY <1>1, Bounds, Parts DEF Pagings, NoPaging, ListShape
<1>3. ListShape' /\ PagingShape' /\ QueueShape' /\ AskedShape' /\ Listed'
  BY <1>1, <1>2, Parts DEF ListShape, PagingShape, QueueShape, AskedShape, Listed
<1>4. ~ asked'.met => ListInv'
  BY <1>1, <1>2, Parts DEF ListInv
<1> QED BY <1>3, <1>4 DEF ListPart

LEMMA SelectDayList ==
    ASSUME HistoryInv, NEW d \in 1..MaxDay, SelectDay(d)
    PROVE  ListPart'
<1>1. list' = [list EXCEPT !.selected = d] /\ paging' = paging /\ queue' = queue /\ asked' = asked /\ archive' = archive
  BY DEF SelectDay
<1>2. /\ ListShape' /\ list'.items = list.items /\ list'.filter = list.filter /\ list'.more = list.more
      /\ list'.before = list.before
  BY <1>1, Bounds, Parts DEF ListShape
<1>3. PagingShape' /\ QueueShape' /\ AskedShape' /\ Listed'
  BY <1>1, <1>2, Parts DEF PagingShape, QueueShape, AskedShape, Listed
<1>4. ~ asked'.met => ListInv'
  BY <1>1, <1>2, Parts DEF ListInv
<1> QED BY <1>2, <1>3, <1>4 DEF ListPart

(* What leaves the list alone may let the last day grow. *)
LEMMA ListStays ==
    ASSUME HistoryInv, UNCHANGED <<listVars, asked>>,
           archive'.last = archive.last \/ (ArchiveShape' /\ archive'.last >= archive.last)
    PROVE  ListPart'
<1>1. list' = list /\ paging' = paging /\ queue' = queue /\ asked' = asked
  BY DEF listVars
<1>2. Listed'
  <2>1. \A i \in 1..Len(list.items) : list.items[i] \in DayNo /\ list.items[i] <= archive.last /\ archive.last \in DayNo
    BY Parts DEF Listed, ListShape, ArchiveShape
  <2>2. archive'.last = archive.last \/ (archive'.last \in DayNo /\ archive'.last >= archive.last)
    BY DEF ArchiveShape
  <2> QED BY <2>1, <2>2, <1>1, Bounds DEF Listed, DayNo
<1> QED BY <1>1, <1>2, Parts DEF ListPart, ListShape, PagingShape, QueueShape, AskedShape, ListInv

-----------------------------------------------------------------------------
(* What each action does to the dialog, the requests and the archive. *)

LEMMA RecordStays ==
    ASSUME HistoryInv, archive' = archive, editor' = editor, loads' \subseteq loads, saves' \subseteq saves
    PROVE  RecordPart'
BY Parts DEF RecordPart, ArchiveShape, EditorShape, LoadsShape, SavesShape, SnapshotTellsRows, FormHeld, SeenInv, Knows

LEMMA TheForm ==
    ASSUME HistoryInv, editor.form # NoForm
    PROVE  /\ editor.form \in Forms /\ editor.form.now \in Content /\ Knows(editor.form)
           /\ editor.form.seen \in Content /\ editor.form.locked \subseteq Cast /\ Holds(editor.form)
BY Parts DEF EditorShape, Forms, FormHeld, SeenInv

LEMMA IsAForm ==
    ASSUME NEW form \in Forms
    PROVE  form # NoForm
<1>1. form.day # 0
  BY Bounds DEF Forms, DayNo
<1> QED BY <1>1 DEF NoForm

(* The dialog changes, but not its form. *)
LEMMA DialogMoves ==
    ASSUME HistoryInv, archive' = archive, EditorShape', editor'.form = editor.form \/ editor'.form = NoForm,
           LoadsShape', saves' = saves
    PROVE  RecordPart'
<1>1. ArchiveShape' /\ SavesShape' /\ SnapshotTellsRows'
  BY Parts DEF ArchiveShape, SavesShape, SnapshotTellsRows
<1>2. FormHeld'
  BY Parts DEF FormHeld, NoForm
<1>3. SeenInv'
  BY Parts DEF SeenInv, Knows
<1> QED BY <1>1, <1>2, <1>3 DEF RecordPart

LEMMA FillRecord ==
    ASSUME HistoryInv, NEW content \in Content, NEW locked \in SUBSET Cast, Fill(content, locked),
           Missing(content) \subseteq Missing(editor.form.seen), content.att \ locked \subseteq Missing(editor.form.seen)
    PROVE  RecordPart' /\ archive' = archive /\ UNCHANGED <<listVars, asked>>
<1>1. /\ archive' = archive /\ UNCHANGED <<listVars, asked>> /\ loads' = loads /\ saves' = saves
      /\ editor.form # NoForm /\ editor' = [editor EXCEPT !.form.now = content, !.form.locked = locked]
  BY DEF Fill
<1> DEFINE form == [editor.form EXCEPT !.now = content, !.locked = locked]
<1>2. /\ form \in Forms /\ form.now = content /\ form.locked = locked
      /\ form.day = editor.form.day /\ form.version = editor.form.version /\ form.seen = editor.form.seen
  <2>1. editor.form \in Forms
    BY <1>1, TheForm
  <2> DEFINE before == editor.form
  <2> HIDE DEF before
  <2>2. before \in Forms
    BY <2>1 DEF before
  <2>3. LET f == [before EXCEPT !.now = content, !.locked = locked]
        IN  /\ f \in Forms /\ f.now = content /\ f.locked = locked
            /\ f.day = before.day /\ f.version = before.version /\ f.seen = before.seen
    BY <2>2 DEF Forms
  <2> QED BY <2>3, Zenon DEF before
<1>3. editor' = [editor EXCEPT !.form = form]
  BY <1>1, Parts DEF EditorShape
<1> HIDE DEF form
<1>4. EditorShape' /\ editor'.form = form
  BY <1>2, <1>3, Parts DEF EditorShape
<1>5. ArchiveShape' /\ SavesShape' /\ LoadsShape' /\ SnapshotTellsRows'
  BY <1>1, Parts DEF ArchiveShape, SavesShape, LoadsShape, SnapshotTellsRows
<1>6. FormHeld'
  BY <1>2, <1>4 DEF FormHeld, Holds
<1>7. SeenInv'
  BY <1>1, <1>2, <1>4, TheForm, Parts DEF SeenInv, Knows
<1> QED BY <1>1, <1>4, <1>5, <1>6, <1>7 DEF RecordPart

LEMMA ToggleCastRecord ==
    ASSUME HistoryInv, NEW c \in Cast, ToggleCast(c)
    PROVE  RecordPart' /\ archive' = archive /\ UNCHANGED <<listVars, asked>>
<1> DEFINE now == editor.form.now
           att == IF c \in now.att THEN now.att \ {c} ELSE now.att \cup {c}
           next == Synced([now EXCEPT !.att = att])
<1>1. editor.form # NoForm /\ Fill(next, att)
  BY DEF ToggleCast
<1>2. now \in Content
  BY <1>1, TheForm
<1> HIDE DEF now
<1>3. att \in SUBSET Cast
  BY <1>2 DEF Content
<1> HIDE DEF att
<1>4. next \in Content /\ next.att = att /\ Missing(next) = {}
  BY <1>2, <1>3 DEF Content, Synced, Missing
<1> HIDE DEF next
<1>5. next.att \ att = {}
  BY <1>4
<1> QED BY <1>1, <1>3, <1>4, <1>5, FillRecord

LEMMA ToggleBackRecord ==
    ASSUME HistoryInv, NEW c \in Cast, ToggleBack(c)
    PROVE  RecordPart' /\ archive' = archive /\ UNCHANGED <<listVars, asked>>
<1> DEFINE now == editor.form.now
           locked == editor.form.locked
           seen == editor.form.seen
           back == IF c \in now.back THEN now.back \ {c} ELSE now.back \cup {c}
           next == [now EXCEPT !.back = back]
<1>1. editor.form # NoForm /\ c \notin locked /\ Fill(next, locked)
  BY DEF ToggleBack
<1>2. /\ now \in Content /\ locked \in SUBSET Cast
      /\ Missing(now) \subseteq Missing(seen) /\ now.att \ locked \subseteq Missing(seen)
  BY <1>1, TheForm DEF Holds
<1> HIDE DEF now, locked
<1>3. back \in SUBSET Cast /\ now.att \ back \subseteq (now.att \ now.back) \cup {c}
  BY <1>2 DEF Content
<1>4. c \in now.att => c \in Missing(seen)
  BY <1>1, <1>2
<1>5. now.att \ back \subseteq Missing(seen)
  BY <1>2, <1>3, <1>4 DEF Missing
<1> HIDE DEF back
<1>6. next \in Content /\ next.att = now.att /\ next.back = back
  BY <1>2, <1>3 DEF Content
<1> HIDE DEF next
<1>7. Missing(next) \subseteq Missing(seen) /\ next.att \ locked \subseteq Missing(seen)
  BY <1>2, <1>5, <1>6 DEF Missing
<1> QED BY <1>1, <1>2, <1>6, <1>7, FillRecord

LEMMA ChangeRestRecord ==
    ASSUME HistoryInv, NEW value \in Rest, ChangeRest(value)
    PROVE  RecordPart' /\ archive' = archive /\ UNCHANGED <<listVars, asked>>
<1> DEFINE now == editor.form.now
           locked == editor.form.locked
           seen == editor.form.seen
           next == [now EXCEPT !.rest = value]
<1>1. editor.form # NoForm /\ Fill(next, locked)
  BY DEF ChangeRest
<1>2. /\ now \in Content /\ locked \in SUBSET Cast
      /\ Missing(now) \subseteq Missing(seen) /\ now.att \ locked \subseteq Missing(seen)
  BY <1>1, TheForm DEF Holds
<1> HIDE DEF now, locked
<1>3. next \in Content /\ next.att = now.att /\ next.back = now.back
  BY <1>2 DEF Content
<1> HIDE DEF next
<1>4. Missing(next) \subseteq Missing(seen) /\ next.att \ locked \subseteq Missing(seen)
  BY <1>2, <1>3 DEF Missing
<1> QED BY <1>1, <1>2, <1>3, <1>4, FillRecord

LEMMA OpenDialogRecord ==
    ASSUME HistoryInv, OpenDialog
    PROVE  RecordPart'
<1>1. /\ list.selected \in list.can /\ archive' = archive /\ saves' = saves
      /\ editor' = [shown |-> TRUE, day |-> list.selected, form |-> NoForm, op |-> editor.op + 1, ready |-> FALSE]
      /\ loads' = loads \cup {[op |-> editor.op + 1, day |-> list.selected]}
  BY DEF OpenDialog
<1>2. list.selected \in DayNo /\ list.selected \in 0..MaxDay /\ editor.op + 1 \in Nat
  BY <1>1, Parts, Bounds DEF ListShape, EditorShape, DayNo
<1>3. EditorShape' /\ editor'.form = NoForm
  BY <1>1, <1>2 DEF EditorShape
<1>4. LoadsShape'
  BY <1>1, <1>2, Parts DEF LoadsShape
<1> QED BY <1>1, <1>3, <1>4, DialogMoves

LEMMA EditorArrivesRecord ==
    ASSUME HistoryInv, NEW load \in loads, EditorArrives(load)
    PROVE  RecordPart'
<1>1. archive' = archive /\ saves' = saves /\ loads' = loads \ {load}
  BY DEF EditorArrives
<1>2. CASE ~ Correctable(load.day)
  <2>1. editor' = editor
    BY <1>2 DEF EditorArrives
  <2> QED BY <2>1, <1>1, RecordStays
<1>3. CASE Correctable(load.day)
  <2> DEFINE day == load.day
             form == Filled(day, archive.days[day].rows)
  <2>1. editor' = [editor EXCEPT !.ready = TRUE, !.form = form]
    BY <1>3 DEF EditorArrives
  <2>2. day \in DayNo /\ archive.days[day] \in Days /\ archive.days[day].version > 0 /\ DOMAIN archive.days = DayNo
    BY <1>3, Parts DEF LoadsShape, ArchiveShape, Correctable
  <2> HIDE DEF day
  <2>3. form \in Forms /\ Knows(form) /\ Holds(form)
    <3> DEFINE rows == archive.days[day].rows
    <3>1. rows \in Content /\ archive.days[day].version \in Nat
      BY <2>2 DEF Days
    <3> HIDE DEF rows
    <3>2. form = [day |-> day, version |-> archive.days[day].version, seen |-> rows, now |-> rows,
                  locked |-> rows.att \cap rows.back]
      BY DEF Filled, rows
    <3>3. form \in Forms
      BY <2>2, <3>1, <3>2 DEF Forms, Content
    <3>4. Knows(form)
      BY <3>1, <3>2 DEF Knows, rows
    <3>5. Holds(form)
      BY <3>2 DEF Holds, Missing
    <3> QED BY <3>3, <3>4, <3>5
  <2> HIDE DEF form
  <2>4. EditorShape' /\ editor'.form = form
    BY <2>1, <2>3, Parts DEF EditorShape
  <2>5. ArchiveShape' /\ SavesShape' /\ LoadsShape' /\ SnapshotTellsRows'
    BY <1>1, Parts DEF ArchiveShape, SavesShape, LoadsShape, SnapshotTellsRows
  <2>6. FormHeld'
    BY <2>3, <2>4 DEF FormHeld
  <2>7. SeenInv'
    BY <1>1, <2>3, <2>4, Parts DEF SeenInv, Knows
  <2> QED BY <2>4, <2>5, <2>6, <2>7 DEF RecordPart
<1> QED BY <1>2, <1>3

LEMMA SubmitRecord ==
    ASSUME HistoryInv, Submit
    PROVE  RecordPart'
<1> DEFINE save == [state |-> "going", op |-> editor.op, day |-> editor.form.day,
                    version |-> editor.form.version, seen |-> editor.form.seen, content |-> editor.form.now]
<1>1. /\ archive' = archive /\ loads' = loads /\ editor.form # NoForm /\ editor' = [editor EXCEPT !.ready = FALSE]
      /\ saves' = saves \cup {save}
  BY DEF Submit
<1>2. save \in Saves /\ Knows(save)
  BY <1>1, TheForm, Parts DEF Forms, Saves, EditorShape, Knows
<1> HIDE DEF save
<1>3. EditorShape' /\ editor'.form = editor.form
  BY <1>1, Parts DEF EditorShape
<1>4. ArchiveShape' /\ SavesShape' /\ LoadsShape' /\ SnapshotTellsRows'
  BY <1>1, <1>2, Parts DEF ArchiveShape, SavesShape, LoadsShape, SnapshotTellsRows
<1>5. FormHeld'
  BY <1>3, Parts DEF FormHeld
<1>6. SeenInv'
  BY <1>1, <1>2, <1>3, Parts DEF SeenInv, Knows
<1> QED BY <1>3, <1>4, <1>5, <1>6 DEF RecordPart

LEMMA NotSavedRecord ==
    ASSUME HistoryInv, NEW save \in saves, NotSaved(save)
    PROVE  RecordPart'
<1> DEFINE left == [save EXCEPT !.state = "late"]
<1>1. /\ archive' = archive /\ loads' = loads /\ editor' = [editor EXCEPT !.ready = TRUE]
      /\ saves' \subseteq saves \cup {left}
  BY DEF NotSaved
<1>2. left \in Saves /\ Knows(left)
  <2>1. save \in Saves /\ Knows(save)
    BY Parts DEF SavesShape, SeenInv
  <2>2. /\ left \in Saves /\ left.day = save.day /\ left.version = save.version /\ left.seen = save.seen
    BY <2>1 DEF Saves
  <2> HIDE DEF left
  <2> QED BY <2>1, <2>2 DEF Knows
<1> HIDE DEF left
<1>3. EditorShape' /\ editor'.form = editor.form
  BY <1>1, Parts DEF EditorShape
<1>4. ArchiveShape' /\ SavesShape' /\ LoadsShape' /\ SnapshotTellsRows'
  BY <1>1, <1>2, Parts DEF ArchiveShape, SavesShape, LoadsShape, SnapshotTellsRows
<1>5. FormHeld'
  BY <1>3, Parts DEF FormHeld
<1>6. SeenInv'
  BY <1>1, <1>2, <1>3, Parts DEF SeenInv, Knows
<1> QED BY <1>3, <1>4, <1>5, <1>6 DEF RecordPart

(* A day is corrected: its version grows, and what is known of it is known  *)
(* to be old.                                                               *)
LEMMA DayCorrected ==
    ASSUME HistoryInv, NEW d \in DayNo, NEW content \in Content,
           archive'.days = [archive.days EXCEPT ![d] = Corrected(@, content)]
    PROVE  /\ archive'.days \in [DayNo -> Days] /\ SnapshotTellsRows'
           /\ \A x : x.day \in DayNo /\ x.version \in Nat /\ Knows(x) =>
                /\ x.version <= archive'.days[x.day].version
                /\ x.version = archive'.days[x.day].version => x.seen = archive'.days[x.day].rows
<1>1. archive.days \in [DayNo -> Days] /\ archive.days[d] \in Days
  BY Parts DEF ArchiveShape
<1>2. /\ archive'.days[d] = [version |-> archive.days[d].version + 1, rows |-> content, snapshot |-> content]
      /\ \A e \in DayNo : e # d => archive'.days[e] = archive.days[e]
      /\ DOMAIN archive'.days = DayNo
  BY <1>1 DEF Corrected
<1>3. archive.days[d].version + 1 \in Nat
  BY <1>1 DEF Days
<1>4. archive'.days[d] \in Days /\ archive'.days[d].version = archive.days[d].version + 1
      /\ archive'.days[d].rows = content /\ archive'.days[d].snapshot = content
  BY <1>2, <1>3 DEF Days
<1>5. archive'.days \in [DayNo -> Days]
  <2>1. archive'.days = [archive.days EXCEPT ![d] = archive'.days[d]]
    BY <1>1, <1>2
  <2> QED BY <2>1, <1>1, <1>4
<1>6. SnapshotTellsRows'
  <2> SUFFICES ASSUME NEW e \in DayNo, archive'.days[e].version > 0
               PROVE  archive'.days[e].snapshot = archive'.days[e].rows
    BY <1>2 DEF SnapshotTellsRows
  <2>1. CASE e = d
    BY <2>1, <1>4
  <2>2. CASE e # d
    <3>1. archive'.days[e] = archive.days[e] /\ e \in DOMAIN archive.days
      BY <2>2, <1>1, <1>2
    <3> QED BY <3>1, Parts DEF SnapshotTellsRows
  <2> QED BY <2>1, <2>2
<1>7. ASSUME NEW x, x.day \in DayNo, x.version \in Nat, Knows(x)
      PROVE  /\ x.version <= archive'.days[x.day].version
             /\ x.version = archive'.days[x.day].version => x.seen = archive'.days[x.day].rows
  <2>1. CASE x.day = d
    <3>1. x.version <= archive.days[d].version /\ archive.days[d].version \in Nat
      BY <2>1, <1>1, <1>7 DEF Knows, Days
    <3>2. archive'.days[x.day].version = archive.days[d].version + 1
      BY <2>1, <1>4
    <3> QED BY <3>1, <3>2, <1>7
  <2>2. CASE x.day # d
    <3>1. archive'.days[x.day] = archive.days[x.day]
      BY <2>2, <1>2, <1>7
    <3> QED BY <3>1, <1>7 DEF Knows
  <2> QED BY <2>1, <2>2
<1> QED BY <1>5, <1>6, <1>7

(* The archive changes at most by the correction of a day, the dialog and   *)
(* what it sends at most by an answer.                                      *)
LEMMA ArchiveRecord ==
    ASSUME HistoryInv, editor' = editor, loads' = loads,
           SavesShape',
           \A save \in saves' : \E s \in saves : save.day = s.day /\ save.version = s.version /\ save.seen = s.seen,
           archive' \in [days : {archive'.days}, last : DayNo, date : DayNo, answers : SUBSET Answers],
           \/ archive'.days = archive.days
           \/ \E d \in DayNo, content \in Content : archive'.days = [archive.days EXCEPT ![d] = Corrected(@, content)]
    PROVE  RecordPart'
<1>1. /\ archive'.days \in [DayNo -> Days] /\ SnapshotTellsRows'
      /\ \A x : x.day \in DayNo /\ x.version \in Nat /\ Knows(x) =>
           /\ x.version <= archive'.days[x.day].version
           /\ x.version = archive'.days[x.day].version => x.seen = archive'.days[x.day].rows
  <2>1. CASE archive'.days = archive.days
    BY <2>1, Parts DEF ArchiveShape, SnapshotTellsRows, Knows
  <2>2. ASSUME NEW d \in DayNo, NEW content \in Content,
               archive'.days = [archive.days EXCEPT ![d] = Corrected(@, content)]
        PROVE  /\ archive'.days \in [DayNo -> Days] /\ SnapshotTellsRows'
               /\ \A x : x.day \in DayNo /\ x.version \in Nat /\ Knows(x) =>
                    /\ x.version <= archive'.days[x.day].version
                    /\ x.version = archive'.days[x.day].version => x.seen = archive'.days[x.day].rows
    BY <2>2, DayCorrected
  <2> QED BY <2>1, <2>2
<1>2. ArchiveShape'
  BY <1>1 DEF ArchiveShape
<1>3. EditorShape' /\ LoadsShape' /\ FormHeld'
  BY Parts DEF EditorShape, LoadsShape, FormHeld
<1>4. editor'.form # NoForm => Knows(editor.form)'
  <2> SUFFICES ASSUME editor.form # NoForm PROVE Knows(editor.form)'
    OBVIOUS
  <2> DEFINE form == editor.form
  <2>1. form.day \in DayNo /\ form.version \in Nat /\ Knows(form) /\ form' = form
    BY TheForm DEF Forms
  <2> HIDE DEF form
  <2>2. Knows(form)'
    BY <2>1, <1>1 DEF Knows
  <2> QED BY <2>2 DEF form
<1>5. ASSUME NEW save \in saves' PROVE Knows(save)'
  <2>1. PICK s \in saves : save.day = s.day /\ save.version = s.version /\ save.seen = s.seen
    OBVIOUS
  <2>2. s \in Saves /\ Knows(s)
    BY Parts DEF SavesShape, SeenInv
  <2>3. s.day \in DayNo /\ s.version \in Nat
    BY <2>2 DEF Saves
  <2> QED BY <2>1, <2>2, <2>3, <1>1 DEF Knows
<1>6. SeenInv'
  BY <1>4, <1>5 DEF SeenInv
<1> QED BY <1>1, <1>2, <1>3, <1>6 DEF RecordPart

LEMMA CorrectElsewhereRecord ==
    ASSUME HistoryInv, NEW d \in 1..archive.last, NEW content \in Content, CorrectElsewhere(d, content)
    PROVE  RecordPart' /\ archive'.last = archive.last
<1>1. /\ archive' = [archive EXCEPT !.days[d] = Corrected(@, content)]
      /\ editor' = editor /\ loads' = loads /\ saves' = saves
  BY DEF CorrectElsewhere, editorVars
<1>2. d \in DayNo
  BY Parts, Bounds DEF ArchiveShape, DayNo
<1>3. /\ archive' \in [days : {archive'.days}, last : DayNo, date : DayNo, answers : SUBSET Answers]
      /\ archive'.days = [archive.days EXCEPT ![d] = Corrected(@, content)] /\ archive'.last = archive.last
  BY <1>1, Parts DEF ArchiveShape
<1>4. SavesShape'
  BY <1>1, Parts DEF SavesShape
<1>5. \E e \in DayNo, c \in Content : archive'.days = [archive.days EXCEPT ![e] = Corrected(@, c)]
  BY <1>1, <1>2, <1>3
<1> QED BY <1>1, <1>3, <1>4, <1>5, ArchiveRecord

LEMMA CloseDayRecord ==
    ASSUME HistoryInv, NEW content \in Content, CloseDay(content)
    PROVE  RecordPart' /\ archive'.last = archive.last
<1> DEFINE d == archive.last
<1>1. /\ archive' = [archive EXCEPT !.days[d] = Corrected(@, content)]
      /\ editor' = editor /\ loads' = loads /\ saves' = saves
  BY DEF CloseDay, editorVars
<1>2. d \in DayNo
  BY Parts DEF ArchiveShape
<1> HIDE DEF d
<1>3. /\ archive' \in [days : {archive'.days}, last : DayNo, date : DayNo, answers : SUBSET Answers]
      /\ archive'.days = [archive.days EXCEPT ![d] = Corrected(@, content)] /\ archive'.last = archive.last
  BY <1>1, Parts DEF ArchiveShape
<1>4. SavesShape'
  BY <1>1, Parts DEF SavesShape
<1>5. \E e \in DayNo, c \in Content : archive'.days = [archive.days EXCEPT ![e] = Corrected(@, c)]
  BY <1>1, <1>2, <1>3
<1> QED BY <1>1, <1>3, <1>4, <1>5, ArchiveRecord

LEMMA TurnDateRecord ==
    ASSUME HistoryInv, TurnDate
    PROVE  RecordPart' /\ archive'.last = archive.last
<1>1. /\ archive' = [archive EXCEPT !.date = @ + 1] /\ archive.date < MaxDay
      /\ editor' = editor /\ loads' = loads /\ saves' = saves
  BY DEF TurnDate, editorVars
<1>2. archive.date + 1 \in DayNo
  BY <1>1, Parts, Bounds DEF ArchiveShape, DayNo
<1>3. /\ archive' \in [days : {archive'.days}, last : DayNo, date : DayNo, answers : SUBSET Answers]
      /\ archive'.days = archive.days /\ archive'.last = archive.last
  BY <1>1, <1>2, Parts DEF ArchiveShape
<1>4. SavesShape'
  BY <1>1, Parts DEF SavesShape
<1> QED BY <1>1, <1>3, <1>4, ArchiveRecord

LEMMA OpenDayRecord ==
    ASSUME HistoryInv, OpenDay
    PROVE  RecordPart' /\ archive'.last >= archive.last
<1>1. /\ archive' = [archive EXCEPT !.last = archive.date] /\ archive.last < archive.date
      /\ editor' = editor /\ loads' = loads /\ saves' = saves
  BY DEF OpenDay, editorVars
<1>2. /\ archive' \in [days : {archive'.days}, last : DayNo, date : DayNo, answers : SUBSET Answers]
      /\ archive'.days = archive.days /\ archive'.last = archive.date
  BY <1>1, Parts DEF ArchiveShape
<1>3. archive.date >= archive.last
  BY <1>1, Parts, Bounds DEF ArchiveShape, DayNo
<1>4. SavesShape'
  BY <1>1, Parts DEF SavesShape
<1> QED BY <1>1, <1>2, <1>3, <1>4, ArchiveRecord

(* What the server answers is stored with the request it answers. *)
LEMMA ServeIs ==
    ASSUME HistoryInv, NEW save \in saves, NEW ok \in BOOLEAN, ServeCorrection(save, ok)
    PROVE  LET replayed == StoredAnswers(save) # {}
               status == IF replayed THEN Replay(save) ELSE Outcome(save, ok)
               told == [save EXCEPT !.state = IF status = "failed" THEN "rejected" ELSE status]
           IN  /\ save \in Saves /\ save.state \in {"going", "late"}
               /\ status \in {"confirmed", "unchanged", "rejected", "failed"}
               /\ told \in Saves /\ told.day = save.day /\ told.version = save.version /\ told.seen = save.seen
               /\ saves' = (saves \ {save}) \cup (IF save.state = "late" THEN {} ELSE {told})
               /\ editor' = editor /\ loads' = loads /\ UNCHANGED <<listVars, asked>>
               /\ replayed => archive' = archive
                              /\ (status = "rejected" => \A a \in StoredAnswers(save) : a.body # Body(save))
               /\ ~ replayed =>
                    /\ status = "confirmed" => Fresh(save) /\ Covered(archive.days[save.day].rows, save.content)
                    /\ archive' = [archive EXCEPT
                         !.answers = @ \cup (IF status \in {"confirmed", "unchanged"}
                                             THEN {[op |-> save.op, body |-> Body(save), status |-> status]} ELSE {}),
                         !.days[save.day] = CASE status = "confirmed" -> Corrected(@, save.content)
                                              [] status = "failed" -> Undone(@, save.content)
                                              [] OTHER -> @]
<1> DEFINE replayed == StoredAnswers(save) # {}
           status == IF replayed THEN Replay(save) ELSE Outcome(save, ok)
           told == [save EXCEPT !.state = IF status = "failed" THEN "rejected" ELSE status]
<1>1. save \in Saves /\ save.state \in {"going", "late"}
  BY Parts DEF SavesShape, ServeCorrection
<1>2. /\ saves' = (saves \ {save}) \cup (IF save.state = "late" THEN {} ELSE {told})
      /\ editor' = editor /\ loads' = loads /\ UNCHANGED <<listVars, asked>>
      /\ replayed => archive' = archive
      /\ ~ replayed =>
           archive' = [archive EXCEPT
             !.answers = @ \cup (IF status \in {"confirmed", "unchanged"}
                                 THEN {[op |-> save.op, body |-> Body(save), status |-> status]} ELSE {}),
             !.days[save.day] = CASE status = "confirmed" -> Corrected(@, save.content)
                                  [] status = "failed" -> Undone(@, save.content)
                                  [] OTHER -> @]
  BY DEF ServeCorrection
<1>3. ASSUME replayed
      PROVE  /\ status \in {"confirmed", "unchanged", "rejected"}
             /\ status = "rejected" => \A a \in StoredAnswers(save) : a.body # Body(save)
  <2> DEFINE same == {a \in StoredAnswers(save) : a.body = Body(save)}
  <2>1. status = IF same = {} THEN "rejected" ELSE (CHOOSE a \in same : TRUE).status
    BY <1>3 DEF Replay
  <2>2. CASE same = {}
    BY <2>1, <2>2
  <2>3. CASE same # {}
    <3>1. (CHOOSE a \in same : TRUE) \in same
      BY <2>3
    <3>2. \A a \in same : a.status \in {"confirmed", "unchanged"}
      BY Parts DEF StoredAnswers, ArchiveShape, Answers
    <3> HIDE DEF same
    <3> QED BY <2>1, <2>3, <3>1, <3>2
  <2> QED BY <2>2, <2>3
<1>4. ASSUME ~ replayed
      PROVE  /\ status \in {"confirmed", "unchanged", "rejected", "failed"}
             /\ status = "confirmed" => Fresh(save) /\ Covered(archive.days[save.day].rows, save.content)
  <2>1. status = Outcome(save, ok)
    BY <1>4
  <2>2. status \in {"confirmed", "unchanged", "rejected", "failed"}
    BY <2>1 DEF Outcome
  <2>3. ASSUME status = "confirmed" PROVE Fresh(save) /\ Covered(archive.days[save.day].rows, save.content)
    BY <2>1, <2>3 DEF Outcome
  <2> QED BY <2>2, <2>3
<1>5. status \in {"confirmed", "unchanged", "rejected", "failed"}
  BY <1>3, <1>4
<1> HIDE DEF status, replayed
<1>6. told \in Saves /\ told.day = save.day /\ told.version = save.version /\ told.seen = save.seen
  <2> DEFINE state == IF status = "failed" THEN "rejected" ELSE status
  <2>1. state \in {"going", "late", "confirmed", "unchanged", "rejected"}
    BY <1>5
  <2> HIDE DEF state
  <2>2. LET x == [save EXCEPT !.state = state]
        IN  x \in Saves /\ x.day = save.day /\ x.version = save.version /\ x.seen = save.seen
    BY <1>1, <2>1 DEF Saves
  <2> QED BY <2>2, Zenon DEF state
<1> HIDE DEF told
<1> QED BY <1>1, <1>2, <1>3, <1>4, <1>5, <1>6 DEF told, status, replayed

LEMMA ServeRecord ==
    ASSUME HistoryInv, NEW save \in saves, NEW ok \in BOOLEAN, ServeCorrection(save, ok)
    PROVE  RecordPart' /\ archive'.last = archive.last
<1> DEFINE replayed == StoredAnswers(save) # {}
           status == IF replayed THEN Replay(save) ELSE Outcome(save, ok)
           told == [save EXCEPT !.state = IF status = "failed" THEN "rejected" ELSE status]
           answer == [op |-> save.op, body |-> Body(save), status |-> status]
           new == IF status \in {"confirmed", "unchanged"} THEN {answer} ELSE {}
<1>1. /\ save \in Saves /\ save.state \in {"going", "late"}
      /\ status \in {"confirmed", "unchanged", "rejected", "failed"}
      /\ told \in Saves /\ told.day = save.day /\ told.version = save.version /\ told.seen = save.seen
      /\ saves' = (saves \ {save}) \cup (IF save.state = "late" THEN {} ELSE {told})
      /\ editor' = editor /\ loads' = loads
      /\ replayed => archive' = archive
      /\ ~ replayed =>
           /\ archive' = [archive EXCEPT !.answers = @ \cup new,
                !.days[save.day] = CASE status = "confirmed" -> Corrected(@, save.content)
                                     [] status = "failed" -> Undone(@, save.content)
                                     [] OTHER -> @]
  BY ServeIs, ZenonT(60)
<1>2. save.day \in DayNo /\ save.content \in Content /\ save.version \in Nat /\ save.op \in Nat
  BY <1>1 DEF Saves
<1>3. new \subseteq Answers
  <2>1. Body(save) \in Bodies
    BY <1>2, Parts DEF Body, Bodies, ArchiveShape
  <2> HIDE DEF status
  <2> QED BY <2>1, <1>2 DEF Answers
<1> HIDE DEF status, replayed, told, new
<1>4. SavesShape'
  BY <1>1, Parts DEF SavesShape
<1>5. \A s \in saves' : \E o \in saves : s.day = o.day /\ s.version = o.version /\ s.seen = o.seen
  BY <1>1
<1>6. /\ archive' \in [days : {archive'.days}, last : DayNo, date : DayNo, answers : SUBSET Answers]
      /\ archive'.last = archive.last
  <2>1. CASE replayed
    BY <2>1, <1>1, Parts DEF ArchiveShape
  <2>2. CASE ~ replayed
    BY <2>2, <1>1, <1>3, Parts DEF ArchiveShape
  <2> QED BY <2>1, <2>2
<1>7. \/ archive'.days = archive.days
      \/ \E d \in DayNo, content \in Content : archive'.days = [archive.days EXCEPT ![d] = Corrected(@, content)]
  <2>1. CASE replayed
    BY <2>1, <1>1
  <2>2. CASE ~ replayed /\ status = "confirmed"
    <3>1. archive'.days = [archive.days EXCEPT ![save.day] = Corrected(@, save.content)]
      BY <2>2, <1>1, Parts DEF ArchiveShape
    <3> QED BY <3>1, <2>2, <1>1, <1>2
  <2>3. CASE ~ replayed /\ status # "confirmed"
    <3>1. archive'.days = [archive.days EXCEPT ![save.day] = archive.days[save.day]]
      BY <2>3, <1>1, Parts DEF ArchiveShape, Undone
    <3>2. archive'.days = archive.days
      BY <3>1, <1>2, Parts DEF ArchiveShape
    <3> QED BY <3>2
  <2> QED BY <2>1, <2>2, <2>3
<1> QED BY <1>1, <1>4, <1>5, <1>6, <1>7, ArchiveRecord

-----------------------------------------------------------------------------
(* The invariant. *)

LEMMA HistoryStarts ==
    ASSUME HistoryInit
    PROVE  HistoryInv
<1>1. PICK k \in 1..MaxDay, content \in Content, filter \in Filters : \E preferred \in 0..k :
        /\ archive = [days |-> [d \in 1..MaxDay |-> IF d <= k THEN Closed(content)
                                                    ELSE [Closed(content) EXCEPT !.version = 0]],
                      last |-> k, date |-> k, answers |-> {}]
        /\ list = NewList(filter)
        /\ paging = FirstPage([preferred |-> preferred, filter |-> filter])
        /\ queue = [active |-> TRUE, next |-> NoRequest, typed |-> filter]
        /\ editor = [shown |-> FALSE, day |-> 0, form |-> NoForm, op |-> 0, ready |-> FALSE]
        /\ loads = {} /\ saves = {} /\ hides = FALSE /\ asked = [loads |-> 0, met |-> FALSE]
  BY DEF HistoryInit
<1>2. PICK preferred \in 0..k :
        /\ archive = [days |-> [d \in 1..MaxDay |-> IF d <= k THEN Closed(content)
                                                    ELSE [Closed(content) EXCEPT !.version = 0]],
                      last |-> k, date |-> k, answers |-> {}]
        /\ list = NewList(filter)
        /\ paging = FirstPage([preferred |-> preferred, filter |-> filter])
        /\ queue = [active |-> TRUE, next |-> NoRequest, typed |-> filter]
        /\ editor = [shown |-> FALSE, day |-> 0, form |-> NoForm, op |-> 0, ready |-> FALSE]
        /\ loads = {} /\ saves = {} /\ hides = FALSE /\ asked = [loads |-> 0, met |-> FALSE]
  BY <1>1
<1> DEFINE request == [preferred |-> preferred, filter |-> filter]
<1>3. request \in Requests /\ request.filter = filter
  BY Bounds DEF Requests
<1> HIDE DEF request
<1>4. ArchiveShape /\ SnapshotTellsRows
  <2> DEFINE days == [d \in 1..MaxDay |-> IF d <= k THEN Closed(content) ELSE [Closed(content) EXCEPT !.version = 0]]
  <2>1. \A d \in DayNo : days[d] \in Days /\ days[d].snapshot = content /\ days[d].rows = content
    BY DEF DayNo, Days, Closed
  <2>2. days \in [DayNo -> Days]
    BY <2>1 DEF DayNo
  <2> HIDE DEF days
  <2>3. archive.days = days /\ archive = [days |-> days, last |-> k, date |-> k, answers |-> {}]
    BY <1>2 DEF days
  <2>4. ArchiveShape
    BY <2>2, <2>3 DEF ArchiveShape, DayNo
  <2>5. SnapshotTellsRows
    BY <1>2, <2>1, <2>2, <2>3 DEF SnapshotTellsRows
  <2> QED BY <2>4, <2>5
<1>5. EditorShape /\ LoadsShape /\ SavesShape /\ FormHeld /\ SeenInv
  BY <1>2, Bounds DEF EditorShape, LoadsShape, SavesShape, FormHeld, SeenInv
<1>6. /\ list.items = <<>> /\ list.filter = filter /\ list.more = TRUE /\ list.before = 0 /\ ListShape
      /\ paging # NoPaging /\ paging.kind = "first" /\ paging.filter = filter /\ paging.before = 0 /\ PagingShape
  <2>1. list = NewList(request.filter) /\ paging = FirstPage(request)
    BY <1>2, <1>3 DEF request
  <2> QED BY <2>1, <1>3, NewListIs DEF ListShape, PagingShape
<1>7. QueueShape /\ AskedShape
  BY <1>2 DEF QueueShape, AskedShape
<1>8. Listed
  BY <1>6 DEF Listed
<1>9. ListInv
  BY <1>2, <1>6, EmptyRun DEF ListInv
<1> QED BY <1>4, <1>5, <1>6, <1>7, <1>8, <1>9 DEF HistoryInv, RecordPart, ListPart

LEMMA HistoryKept ==
    ASSUME HistoryInv, [HistoryNext]_historyVars
    PROVE  HistoryInv'
<1> SUFFICES RecordPart' /\ ListPart'
  BY DEF HistoryInv
<1>1. CASE UNCHANGED historyVars
  <2>1. archive' = archive /\ editor' = editor /\ loads' = loads /\ saves' = saves /\ UNCHANGED <<listVars, asked>>
    BY <1>1 DEF historyVars, listVars
  <2> QED BY <2>1, RecordStays, ListStays
<1>2. ASSUME NEW filter \in Filters, SubmitFilter(filter) PROVE RecordPart' /\ ListPart'
  <2> DEFINE request == [preferred |-> 0, filter |-> filter]
  <2>1. /\ archive' = archive /\ editor' = editor /\ loads' = loads /\ saves' = saves /\ RequestInitial(request)
    BY <1>2 DEF SubmitFilter, editorVars
  <2>2. request \in Requests
    BY Bounds DEF Requests
  <2> HIDE DEF request
  <2> QED BY <2>1, <2>2, RecordStays, RequestIs
<1>3. CASE LoadMore
  <2>1. archive' = archive /\ editor' = editor /\ loads' = loads /\ saves' = saves
    BY <1>3 DEF LoadMore, editorVars
  <2> QED BY <2>1, <1>3, RecordStays, LoadMoreList
<1>4. CASE PageArrives
  <2>1. archive' = archive /\ editor' = editor /\ loads' = loads /\ saves' = saves
    BY <1>4 DEF PageArrives, editorVars
  <2> QED BY <2>1, <1>4, RecordStays, PageArrivesList
<1>5. CASE PageFails
  <2>1. archive' = archive /\ editor' = editor /\ loads' = loads /\ saves' = saves
    BY <1>5 DEF PageFails, editorVars
  <2> QED BY <2>1, <1>5, RecordStays, PageFailsList
<1>6. ASSUME NEW d \in 1..MaxDay, SelectDay(d) PROVE RecordPart' /\ ListPart'
  <2>1. archive' = archive /\ editor' = editor /\ loads' = loads /\ saves' = saves
    BY <1>6 DEF SelectDay, editorVars
  <2> QED BY <2>1, <1>6, RecordStays, SelectDayList
<1>7. CASE OpenDialog
  <2>1. archive' = archive /\ UNCHANGED <<listVars, asked>>
    BY <1>7 DEF OpenDialog
  <2> QED BY <2>1, <1>7, OpenDialogRecord, ListStays
<1>8. CASE CloseDialog
  <2>1. archive' = archive /\ saves' = saves /\ loads' = loads /\ UNCHANGED <<listVars, asked>>
        /\ editor' = [editor EXCEPT !.shown = FALSE]
    BY <1>8 DEF CloseDialog
  <2>2. EditorShape' /\ editor'.form = editor.form /\ LoadsShape'
    BY <2>1, Parts DEF EditorShape, LoadsShape
  <2> QED BY <2>1, <2>2, DialogMoves, ListStays
<1>9. CASE Submit
  <2>1. archive' = archive /\ UNCHANGED <<listVars, asked>>
    BY <1>9 DEF Submit
  <2> QED BY <2>1, <1>9, SubmitRecord, ListStays
<1>10. CASE HideTimer
  <2>1. archive' = archive /\ saves' = saves /\ loads' = loads /\ UNCHANGED <<listVars, asked>>
        /\ editor' = [editor EXCEPT !.shown = FALSE]
    BY <1>10 DEF HideTimer
  <2>2. EditorShape' /\ editor'.form = editor.form /\ LoadsShape'
    BY <2>1, Parts DEF EditorShape, LoadsShape
  <2> QED BY <2>1, <2>2, DialogMoves, ListStays
<1>11. ASSUME NEW load \in loads, EditorArrives(load) PROVE RecordPart' /\ ListPart'
  <2>1. archive' = archive /\ UNCHANGED <<listVars, asked>>
    BY <1>11 DEF EditorArrives
  <2> QED BY <2>1, <1>11, EditorArrivesRecord, ListStays
<1>12. ASSUME NEW load \in loads, EditorFails(load) PROVE RecordPart' /\ ListPart'
  <2>1. archive' = archive /\ editor' = editor /\ loads' \subseteq loads /\ saves' = saves /\ UNCHANGED <<listVars, asked>>
    BY <1>12 DEF EditorFails
  <2> QED BY <2>1, RecordStays, ListStays
<1>13. ASSUME NEW c \in Cast, ToggleCast(c) PROVE RecordPart' /\ ListPart'
  BY <1>13, ToggleCastRecord, ListStays
<1>14. ASSUME NEW c \in Cast, ToggleBack(c) PROVE RecordPart' /\ ListPart'
  BY <1>14, ToggleBackRecord, ListStays
<1>15. ASSUME NEW value \in Rest, ChangeRest(value) PROVE RecordPart' /\ ListPart'
  BY <1>15, ChangeRestRecord, ListStays
<1>16. ASSUME NEW save \in saves, NEW filter \in Filters, Saved(save, filter) PROVE RecordPart' /\ ListPart'
  <2> DEFINE request == [preferred |-> save.day, filter |-> filter]
  <2>1. /\ archive' = archive /\ editor' = editor /\ loads' = loads /\ saves' \subseteq saves /\ RequestInitial(request)
    BY <1>16 DEF Saved
  <2>2. request \in Requests
    <3>1. save.day \in 0..MaxDay
      BY Parts, Bounds DEF SavesShape, Saves, DayNo
    <3> QED BY <3>1 DEF Requests
  <2> HIDE DEF request
  <2> QED BY <2>1, <2>2, RecordStays, RequestIs
<1>17. ASSUME NEW save \in saves, NotSaved(save) PROVE RecordPart' /\ ListPart'
  <2>1. archive' = archive /\ UNCHANGED <<listVars, asked>>
    BY <1>17 DEF NotSaved
  <2> QED BY <2>1, <1>17, NotSavedRecord, ListStays
<1>18. ASSUME NEW save \in saves, NEW ok \in BOOLEAN, ServeCorrection(save, ok) PROVE RecordPart' /\ ListPart'
  <2>1. UNCHANGED <<listVars, asked>>
    BY <1>18 DEF ServeCorrection
  <2> QED BY <2>1, <1>18, ServeRecord, ListStays
<1>19. ASSUME NEW d \in 1..archive.last, NEW content \in Content, CorrectElsewhere(d, content)
       PROVE  RecordPart' /\ ListPart'
  <2>1. UNCHANGED <<listVars, asked>>
    BY <1>19 DEF CorrectElsewhere
  <2> QED BY <2>1, <1>19, CorrectElsewhereRecord, ListStays
<1>20. CASE TurnDate
  <2>1. UNCHANGED <<listVars, asked>>
    BY <1>20 DEF TurnDate
  <2> QED BY <2>1, <1>20, TurnDateRecord, ListStays
<1>21. CASE OpenDay
  <2>1. UNCHANGED <<listVars, asked>>
    BY <1>21 DEF OpenDay
  <2>2. RecordPart' /\ archive'.last >= archive.last /\ ArchiveShape'
    BY <1>21, OpenDayRecord DEF RecordPart
  <2> QED BY <2>1, <2>2, ListStays
<1>22. ASSUME NEW content \in Content, CloseDay(content) PROVE RecordPart' /\ ListPart'
  <2>1. UNCHANGED <<listVars, asked>>
    BY <1>22 DEF CloseDay
  <2> QED BY <2>1, <1>22, CloseDayRecord, ListStays
<1> QED BY <1>1, <1>2, <1>3, <1>4, <1>5, <1>6, <1>7, <1>8, <1>9, <1>10, <1>11, <1>12, <1>13, <1>14, <1>15, <1>16,
           <1>17, <1>18, <1>19, <1>20, <1>21, <1>22 DEF HistoryNext

(* The strengthening holds at every moment. *)
THEOREM HistoryInvariant == HistorySpec => []HistoryInv
<1>1. HistoryInit => HistoryInv
  BY HistoryStarts
<1>2. HistoryInv /\ [HistoryNext]_historyVars => HistoryInv'
  BY HistoryKept
<1> QED BY <1>1, <1>2, PTL DEF HistorySpec

(* The list of the sales history shows, when nothing is being loaded, the   *)
(* days of the dates typed in last, newest first and without a gap, however *)
(* pages failed, were searched or waited, as long as no load was asked for  *)
(* while a page was under way (sales-history.js, loadHistoryPage).          *)
THEOREM HistoryListsMatch == HistorySpec => []ListMatches
<1>1. HistoryInv => ListMatches
  <2> SUFFICES ASSUME HistoryInv, paging = NoPaging, ~ asked.met PROVE MatchesFilter
    BY DEF ListMatches
  <2>1. list.items \in Seq(DayNo) /\ IsRun(list.items, list.filter) /\ queue.typed = list.filter
    BY Parts DEF ListShape, ListInv
  <2>2. \A i, j \in DOMAIN list.items : i < j => list.items[i] > list.items[j]
    BY <2>1 DEF IsRun, Falls
  <2>3. ASSUME list.items # <<>>
        PROVE  ToSet(list.items) = {d \in queue.typed : Last(list.items) <= d /\ d <= Head(list.items)}
    <3>1. ToSet(list.items) = {list.items[i] : i \in 1..Len(list.items)}
      BY <2>1 DEF ToSet
    <3>2. Last(list.items) = list.items[Len(list.items)] /\ Head(list.items) = list.items[1]
      BY <2>1, <2>3 DEF Last
    <3>3. {list.items[i] : i \in 1..Len(list.items)} =
            {d \in list.filter : list.items[Len(list.items)] <= d /\ d <= list.items[1]}
      BY <2>1, <2>3 DEF IsRun
    <3> QED BY <2>1, <3>1, <3>2, <3>3, Zenon
  <2> QED BY <2>2, <2>3 DEF MatchesFilter
<1> QED BY <1>1, HistoryInvariant, PTL

(* Only an answer of the server stores one. *)
LEMMA AnswersFromServer ==
    ASSUME [HistoryNext]_historyVars, archive'.answers # archive.answers, HistoryInv
    PROVE  \E save \in saves, ok \in BOOLEAN : ServeCorrection(save, ok)
<1>1. ASSUME NEW d, NEW content, archive' = [archive EXCEPT !.days[d] = content] PROVE archive'.answers = archive.answers
  BY <1>1, Parts DEF ArchiveShape
<1>2. ~ UNCHANGED historyVars
  BY DEF historyVars
<1>3. ~ TurnDate /\ ~ OpenDay
  BY Parts DEF TurnDate, OpenDay, ArchiveShape
<1>4. \A d, content : ~ CorrectElsewhere(d, content) /\ ~ CloseDay(content)
  BY <1>1 DEF CorrectElsewhere, CloseDay
<1>5. ~ LoadMore /\ ~ PageArrives /\ ~ PageFails /\ ~ OpenDialog /\ ~ CloseDialog /\ ~ Submit /\ ~ HideTimer
  BY DEF LoadMore, PageArrives, PageFails, OpenDialog, CloseDialog, Submit, HideTimer
<1>6. \A x, y : ~ SubmitFilter(x) /\ ~ SelectDay(x) /\ ~ EditorArrives(x) /\ ~ EditorFails(x) /\ ~ ToggleCast(x)
                /\ ~ ToggleBack(x) /\ ~ ChangeRest(x) /\ ~ Saved(x, y) /\ ~ NotSaved(x)
  BY DEF SubmitFilter, SelectDay, EditorArrives, EditorFails, ToggleCast, ToggleBack, ChangeRest, Fill, Saved, NotSaved
<1> QED BY <1>2, <1>3, <1>4, <1>5, <1>6, Zenon DEF HistoryNext

LEMMA CorrectsWhatItSaw ==
    ASSUME HistoryInv, [HistoryNext]_historyVars, NEW a \in archive'.answers \ archive.answers, a.status = "confirmed"
    PROVE  \E save \in saves : /\ save.op = a.op /\ save.day = a.body.day /\ save.version = a.body.version
                               /\ save.content = a.body.content /\ save.seen = archive.days[a.body.day].rows
<1>1. PICK save \in saves, ok \in BOOLEAN : ServeCorrection(save, ok)
  BY AnswersFromServer
<1> DEFINE replayed == StoredAnswers(save) # {}
           status == IF replayed THEN Replay(save) ELSE Outcome(save, ok)
           answer == [op |-> save.op, body |-> Body(save), status |-> status]
           new == IF status \in {"confirmed", "unchanged"} THEN {answer} ELSE {}
<1>2. /\ replayed => archive' = archive
      /\ ~ replayed =>
           /\ status = "confirmed" => Fresh(save)
           /\ archive' = [archive EXCEPT !.answers = @ \cup new,
                !.days[save.day] = CASE status = "confirmed" -> Corrected(@, save.content)
                                     [] status = "failed" -> Undone(@, save.content)
                                     [] OTHER -> @]
  BY <1>1, ServeIs, ZenonT(30)
<1> HIDE DEF replayed, status, new
<1>3. ~ replayed /\ archive'.answers = archive.answers \cup new
  BY <1>2, Parts DEF ArchiveShape
<1>4. a = answer
  BY <1>3 DEF new
<1>5. status = "confirmed" /\ a.op = save.op /\ a.body = Body(save)
  BY <1>4
<1>6. Fresh(save)
  BY <1>2, <1>3, <1>5
<1>7. Knows(save)
  BY Parts DEF SeenInv
<1> QED BY <1>5, <1>6, <1>7 DEF Body, Fresh, Knows

LEMMA TellsAsApplied ==
    ASSUME HistoryInv, [HistoryNext]_historyVars, NEW save \in saves, save.state = "going",
           [save EXCEPT !.state = "rejected"] \in saves' \ saves,
           NEW a \in archive.answers, a.op = save.op
    PROVE  a.body # Body(save)
<1> DEFINE refused == [save EXCEPT !.state = "rejected"]
<1>1. save \in Saves /\ refused.state = "rejected" /\ refused \in saves' /\ refused \notin saves
  BY Parts DEF SavesShape, Saves
<1> HIDE DEF refused
<1>2. ~ UNCHANGED historyVars
  BY <1>1 DEF historyVars
<1>3. ~ TurnDate /\ ~ OpenDay /\ \A d, content : ~ CorrectElsewhere(d, content) /\ ~ CloseDay(content)
  BY <1>1 DEF TurnDate, OpenDay, CorrectElsewhere, CloseDay, editorVars
<1>4. ~ LoadMore /\ ~ PageArrives /\ ~ PageFails /\ ~ OpenDialog /\ ~ CloseDialog /\ ~ HideTimer
  BY <1>1 DEF LoadMore, PageArrives, PageFails, OpenDialog, CloseDialog, HideTimer, editorVars
<1>5. \A x, y : ~ SubmitFilter(x) /\ ~ SelectDay(x) /\ ~ EditorArrives(x) /\ ~ EditorFails(x) /\ ~ ToggleCast(x)
                /\ ~ ToggleBack(x) /\ ~ ChangeRest(x) /\ ~ Saved(x, y)
  BY <1>1 DEF SubmitFilter, SelectDay, EditorArrives, EditorFails, ToggleCast, ToggleBack, ChangeRest, Fill, Saved,
              editorVars
<1>6. ~ Submit
  BY <1>1 DEF Submit
<1>7. \A x \in saves : ~ NotSaved(x)
  <2> SUFFICES ASSUME NEW x \in saves, NotSaved(x) PROVE FALSE
    OBVIOUS
  <2>1. refused = [x EXCEPT !.state = "late"] /\ x \in Saves
    BY <1>1, Parts DEF NotSaved, SavesShape
  <2> QED BY <2>1, <1>1 DEF Saves
<1>8. \E s \in saves, ok \in BOOLEAN : ServeCorrection(s, ok)
  BY <1>2, <1>3, <1>4, <1>5, <1>6, <1>7, Zenon DEF HistoryNext
<1>9. PICK s \in saves, ok \in BOOLEAN : ServeCorrection(s, ok)
  BY <1>8
<1> DEFINE replayed == StoredAnswers(s) # {}
           status == IF replayed THEN Replay(s) ELSE Outcome(s, ok)
           state == IF status = "failed" THEN "rejected" ELSE status
           told == [s EXCEPT !.state = state]
<1>10. /\ s \in Saves /\ s.state \in {"going", "late"}
       /\ status \in {"confirmed", "unchanged", "rejected", "failed"}
       /\ saves' = (saves \ {s}) \cup (IF s.state = "late" THEN {} ELSE {told})
       /\ replayed => (status = "rejected" => \A b \in StoredAnswers(s) : b.body # Body(s))
  BY <1>9, ServeIs
<1>11. replayed => status # "failed"
  <2>1. ASSUME replayed PROVE Replay(s) \in {"confirmed", "unchanged", "rejected"}
    <3> DEFINE same == {b \in StoredAnswers(s) : b.body = Body(s)}
    <3>1. Replay(s) = IF same = {} THEN "rejected" ELSE (CHOOSE b \in same : TRUE).status
      BY DEF Replay
    <3>2. same # {} => (CHOOSE b \in same : TRUE) \in same
      OBVIOUS
    <3>3. \A b \in same : b.status \in {"confirmed", "unchanged"}
      BY Parts DEF StoredAnswers, ArchiveShape, Answers
    <3> HIDE DEF same
    <3> QED BY <3>1, <3>2, <3>3
  <2> QED BY <2>1
<1> HIDE DEF status, replayed
<1>12. s.state = "going" /\ refused = told
  BY <1>1, <1>10
<1>13. state = "rejected"
  BY <1>1, <1>10, <1>12 DEF Saves
<1>14. s = save
  <2>1. [s EXCEPT !.state = "rejected"] = [save EXCEPT !.state = "rejected"]
    BY <1>12, <1>13 DEF refused
  <2>2. s.state = save.state
    BY <1>12
  <2> QED BY <2>1, <2>2, <1>1, <1>10 DEF Saves
<1>15. CASE replayed
  <2>1. status = "rejected"
    BY <1>11, <1>13, <1>15
  <2>2. a \in StoredAnswers(save)
    BY DEF StoredAnswers
  <2> QED BY <2>1, <2>2, <1>10, <1>14, <1>15
<1>16. CASE ~ replayed
  BY <1>14, <1>16 DEF replayed, StoredAnswers
<1> QED BY <1>15, <1>16

(* A day that was closed changes only by a correction that is allowed, here *)
(* or elsewhere.                                                            *)
LEMMA DaysByCorrection ==
    ASSUME HistoryInv, [HistoryNext]_historyVars, NEW d \in DayNo, archive.days[d].version > 0
    PROVE  \/ archive'.days[d] = archive.days[d]
           \/ \E content \in Content : Covered(archive.days[d].rows, content) /\ archive'.days[d].rows = content
<1> DEFINE Same == archive'.days[d] = archive.days[d]
           Allowed == \E content \in Content :
                        Covered(archive.days[d].rows, content) /\ archive'.days[d].rows = content
<1> HIDE DEF Same, Allowed
<1>1. DOMAIN archive.days = DayNo
  BY Parts DEF ArchiveShape
<1>2. ASSUME archive'.days = archive.days PROVE Same
  BY <1>2 DEF Same
<1>3. UNCHANGED historyVars \/ LoadMore \/ PageArrives \/ PageFails \/ OpenDialog \/ CloseDialog \/ Submit \/ HideTimer
      => archive' = archive
  BY DEF historyVars, LoadMore, PageArrives, PageFails, OpenDialog, CloseDialog, Submit, HideTimer
<1>4. \A x, y : SubmitFilter(x) \/ SelectDay(x) \/ EditorArrives(x) \/ EditorFails(x) \/ ToggleCast(x)
                \/ ToggleBack(x) \/ ChangeRest(x) \/ Saved(x, y) \/ NotSaved(x) => archive' = archive
  BY DEF SubmitFilter, SelectDay, EditorArrives, EditorFails, ToggleCast, ToggleBack, ChangeRest, Fill, Saved, NotSaved
<1>5. TurnDate \/ OpenDay => archive'.days = archive.days
  BY Parts DEF TurnDate, OpenDay, ArchiveShape
<1>6. ASSUME NEW e \in 1..archive.last, NEW content \in Content, CorrectElsewhere(e, content)
      PROVE  Same \/ Allowed
  <2>1. archive'.days = [archive.days EXCEPT ![e] = Corrected(@, content)] /\ Covered(archive.days[e].rows, content)
    BY <1>6, Parts DEF CorrectElsewhere, ArchiveShape
  <2>2. CASE e = d
    <3>1. archive'.days[d].rows = content
      BY <2>1, <2>2, <1>1 DEF Corrected
    <3> QED BY <3>1, <2>1, <2>2 DEF Allowed
  <2>3. CASE e # d
    BY <2>1, <2>3, <1>1 DEF Same
  <2> QED BY <2>2, <2>3
<1>7. ASSUME NEW content \in Content, CloseDay(content) PROVE Same
  <2>1. archive'.days = [archive.days EXCEPT ![archive.last] = Corrected(@, content)] /\ archive.last # d
    BY <1>7, Parts DEF CloseDay, ArchiveShape
  <2> QED BY <2>1, <1>1 DEF Same
<1>8. ASSUME NEW save \in saves, NEW ok \in BOOLEAN, ServeCorrection(save, ok) PROVE Same \/ Allowed
  <2> DEFINE replayed == StoredAnswers(save) # {}
             status == IF replayed THEN Replay(save) ELSE Outcome(save, ok)
             new == IF status \in {"confirmed", "unchanged"}
                    THEN {[op |-> save.op, body |-> Body(save), status |-> status]} ELSE {}
             change == CASE status = "confirmed" -> Corrected(archive.days[save.day], save.content)
                         [] status = "failed" -> Undone(archive.days[save.day], save.content)
                         [] OTHER -> archive.days[save.day]
  <2>1. /\ replayed => archive' = archive
        /\ ~ replayed =>
             /\ status = "confirmed" => Covered(archive.days[save.day].rows, save.content)
             /\ archive' = [archive EXCEPT !.answers = @ \cup new,
                  !.days[save.day] = CASE status = "confirmed" -> Corrected(@, save.content)
                                       [] status = "failed" -> Undone(@, save.content)
                                       [] OTHER -> @]
    BY <1>8, ServeIs, ZenonT(60)
  <2>2. save.content \in Content /\ save.day \in DayNo
    BY Parts DEF SavesShape, Saves
  <2> HIDE DEF replayed, status, new
  <2>3. CASE replayed
    BY <2>1, <2>3, <1>2
  <2>4. CASE ~ replayed
    <3>1. archive'.days = [archive.days EXCEPT ![save.day] = change]
      BY <2>1, <2>4, Parts DEF ArchiveShape
    <3>2. CASE save.day # d
      BY <3>1, <3>2, <1>1 DEF Same
    <3>3. CASE save.day = d /\ status = "confirmed"
      <4>1. archive'.days[d].rows = save.content
        BY <3>1, <3>3, <1>1 DEF Corrected
      <4> QED BY <4>1, <3>3, <2>1, <2>2, <2>4 DEF Allowed
    <3>4. CASE save.day = d /\ status # "confirmed"
      <4>1. change = archive.days[d]
        BY <3>4 DEF Undone
      <4> QED BY <4>1, <3>1, <3>4, <1>1 DEF Same
    <3> QED BY <3>2, <3>3, <3>4
  <2> QED BY <2>3, <2>4
<1>9. archive' = archive => Same
  BY DEF Same
<1>10. Same \/ Allowed
  <2>1. CASE archive'.days = archive.days
    BY <2>1, <1>2
  <2>2. CASE archive'.days # archive.days
    <3>1. archive' # archive
      BY <2>2
    <3> QED BY <3>1, <2>2, <1>3, <1>4, <1>5, <1>6, <1>7, <1>8, Zenon DEF HistoryNext
  <2> QED BY <2>1, <2>2
<1> QED BY <1>10 DEF Same, Allowed

LEMMA OnlyGains ==
    ASSUME HistoryInv, [HistoryNext]_historyVars, NEW d \in DOMAIN archive.days, archive.days[d].version > 0
    PROVE  Missing(archive'.days[d].rows) \subseteq Missing(archive.days[d].rows)
<1>1. d \in DayNo
  BY Parts DEF ArchiveShape
<1>2. ASSUME NEW content \in Content, Covered(archive.days[d].rows, content), archive'.days[d].rows = content
      PROVE  Missing(content) \subseteq Missing(archive.days[d].rows)
  BY <1>2 DEF Covered, Missing
<1>3. CASE archive'.days[d] = archive.days[d]
  BY <1>3
<1> QED BY <1>1, <1>2, <1>3, DaysByCorrection

(* A correction of a closed day is applied to the rows it was filled with,  *)
(* is never told to be refused when the same request was applied, leaves a  *)
(* snapshot that tells the rows, and never takes the drink back of a cast   *)
(* who attended, nor adds one without it, also when the day was closed with *)
(* some missing; the form has no more of them missing than it was filled    *)
(* with (31_sales_history.sql, save_sales_history_correction_v1).           *)
THEOREM CorrectionsKept == HistorySpec => CorrectionsHold
<1>1. HistoryInv => SnapshotTellsRows /\ FormCovers
  BY Parts DEF FormHeld, Holds, FormCovers
<1>2. HistoryInv /\ [HistoryNext]_historyVars =>
        [\A a \in archive'.answers \ archive.answers : a.status = "confirmed" =>
           \E save \in saves : /\ save.op = a.op /\ save.day = a.body.day /\ save.version = a.body.version
                               /\ save.content = a.body.content /\ save.seen = archive.days[a.body.day].rows]_historyVars
  BY CorrectsWhatItSaw
<1>3. HistoryInv /\ [HistoryNext]_historyVars =>
        [\A save \in saves : save.state = "going" /\ [save EXCEPT !.state = "rejected"] \in saves' \ saves =>
           \A a \in archive.answers : a.op = save.op => a.body # Body(save)]_historyVars
  BY TellsAsApplied
<1>4. HistoryInv /\ [HistoryNext]_historyVars =>
        [\A d \in DOMAIN archive.days : archive.days[d].version > 0 =>
           Missing(archive'.days[d].rows) \subseteq Missing(archive.days[d].rows)]_historyVars
  BY OnlyGains
<1> QED BY <1>1, <1>2, <1>3, <1>4, HistoryInvariant, PTL
           DEF HistorySpec, CorrectionsHold, NoLostCorrection, CorrectionTold, NeverUncovered
=============================================================================
