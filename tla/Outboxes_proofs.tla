-------------------------- MODULE Outboxes_proofs --------------------------
(***************************************************************************)
(* The two pages with an outbox of MCOutboxes, for every value of the       *)
(* constants: the order page (OrderEntry) and the receipt page              *)
(* (ReceiptQueue).  Each has an invariant of its own.                       *)
(***************************************************************************)
EXTENDS OrderEntry, ReceiptQueue, WellFoundedInduction, TLAPS
-----------------------------------------------------------------------------
(***************************************************************************)
(* Orders. What is put into the order queue is ordered once or still there, *)
(* for any number of slips, items, days, pieces, commands and reloads, as   *)
(* long as the page does not send while it waits for an answer.             *)
(***************************************************************************)

Lines == [key : Slip \X Item, id : LineId, n : Nat \ {0}]
Commands == [op : 1..MaxOp, day : 1..MaxDay, rev : Int, lines : SUBSET Lines]
Drafts == [lines : SUBSET Lines, cmd : SUBSET Commands, selected : Slip \cup {NoSlip}]
Ordered == [op : 1..MaxOp, id : LineId, n : Nat]
Answers == [op : 1..MaxOp, status : {"confirmed", "rejected"}, inserted : SUBSET LineId, day : 0..MaxDay,
            rev : Int, slips : SUBSET Slip]
Options == [day : 0..MaxDay, rev : Int, slips : SUBSET Slip]
Days == [day : 0..MaxDay, days : 1..MaxDay, rev : Nat, open : SUBSET Slip, seen : SUBSET Slip,
         over : SUBSET Slip, lines : SUBSET Ordered, answers : SUBSET Answers]
Pages == [day : 0..MaxDay, rev : Int, slips : SUBSET Slip, key : 0..MaxDay, restored : 0..MaxDay,
          queue : SUBSET Lines, cmd : SUBSET Commands, selected : Slip \cup {NoSlip}, asked : SUBSET Options,
          busy : BOOLEAN, form : BOOLEAN]
Calls == [n : Int, cmd : Commands, answer : SUBSET Answers, mine : BOOLEAN]

(* The shape of the variables, as far as the steps rely on it. *)
OrderShape ==
    /\ db \in Days
    /\ page \in Pages
    /\ stored \in [1..MaxDay -> Drafts]
    /\ calls \subseteq Calls
    /\ due \in [LineId -> Nat]

(* A slip of a day that is over: no other slip stays closed for ever.       *)
Gone(s) == s \in db.over

(* Days are opened one after the other; nobody knows a later one, and a day *)
(* that is over has no open slips.                                          *)
DaysInOrder ==
    /\ db.day \in {NoDay, db.days} /\ db.open \subseteq db.seen
    /\ db.over \subseteq db.seen /\ db.open \cap db.over = {}
    /\ db.day = NoDay => db.open = {}
    /\ page.day <= db.days /\ page.key <= db.days
    /\ page.slips \subseteq db.seen
    /\ \A c \in page.asked : /\ c.day <= db.days /\ c.slips \subseteq db.seen
                             /\ c.day = NoDay => c.slips = {}
                             /\ c.day # NoDay => page.key <= c.day
    /\ \A a \in db.answers : a.day <= db.days /\ a.slips \subseteq db.seen

(* The draft of the page's day is what the page shows; other drafts are of  *)
(* days that no page will be on.                                            *)
DraftIsPage ==
    /\ page.key = NoDay => page.queue = {} /\ page.cmd = {} /\ page.slips = {}
    /\ page.key # NoDay => /\ page.restored = page.key
                           /\ stored[page.key].lines = page.queue /\ stored[page.key].cmd = page.cmd
    /\ \A d \in 1..MaxDay : d = page.key \/ (stored[d].lines = {} /\ stored[d].cmd = {})
                            \/ (d <= db.days /\ d # db.day /\ \A c \in page.asked : c.day = NoDay \/ d < c.day)

(* A queue has one line for an id and for what is ordered, in the quantity  *)
(* the user wants.                                                          *)
QueueAsWanted ==
    /\ \A x, y \in page.queue : x.id = y.id \/ x.key = y.key => x = y
    /\ \A l \in page.queue : due[l.id] = l.n

(* While a result is not known, there is one command, of the whole queue.   *)
Locked ==
    /\ \A c, e \in page.cmd : c = e
    /\ \A c \in page.cmd : c.lines = page.queue /\ c.lines # {}
    /\ \A d \in 1..MaxDay : \A c \in stored[d].cmd : c.lines = stored[d].lines

LiveCommands == page.cmd \cup {call.cmd : call \in calls}

(* An operation id is one command, of a day that has been.                  *)
OneCommandPerId ==
    /\ \A c, e \in LiveCommands : c.op = e.op => c = e
    /\ \A c \in LiveCommands : c.day <= db.days
    /\ \A c \in LiveCommands : \A x, y \in c.lines : x.id = y.id => x = y
    /\ \A call \in calls : call.mine => page.cmd = {call.cmd}

IdsOf(lines) == {l.id : l \in lines}

(* There is one answer to a command, which says what was inserted.          *)
OrderAnswersTrue ==
    /\ \A a, b \in db.answers : a.op = b.op => a = b
    /\ \A call \in calls : \A a \in call.answer : a \in db.answers /\ a.op = call.cmd.op
    /\ \A c \in LiveCommands : \A a \in db.answers : a.op = c.op /\ a.status = "confirmed" =>
        /\ a.inserted = IdsOf(c.lines)
        /\ \A l \in c.lines : [op |-> c.op, id |-> l.id, n |-> l.n] \in db.lines
        /\ \A l \in c.lines : l.key[1] \in db.seen /\ (c.day = db.day \/ Gone(l.key[1]))
    /\ \A x \in db.lines : \E a \in db.answers : a.op = x.op /\ a.status = "confirmed"

(* A command that may still be carried out: it has no answer, and neither   *)
(* its day nor one of its slips is over.                                    *)
Pending(c) ==
    /\ \A a \in db.answers : a.op # c.op
    /\ c.day = db.day /\ \A l \in c.lines : ~ Gone(l.key[1])

(* A piece that was ordered is in no command that may still be carried out, *)
(* and in the queue only under its command, or for a slip that is gone.     *)
OrderedApart ==
    /\ NothingTwice
    /\ \A x \in db.lines, call \in calls : Pending(call.cmd) => x.id \notin IdsOf(call.cmd.lines)
    /\ \A x \in db.lines, l \in page.queue : x.id = l.id =>
        Gone(l.key[1]) \/ \E c \in page.cmd : c.op = x.op

(* A command that may still be carried out is the one of the page, or has   *)
(* none of its pieces, nor those of another one.                            *)
PendingApart ==
    \A call \in calls : Pending(call.cmd) =>
        /\ \A l \in call.cmd.lines : due[l.id] > 0
        /\ call.cmd \in page.cmd \/ IdsOf(call.cmd.lines) \cap IdsOf(page.queue) = {}
        /\ \A other \in calls : Pending(other.cmd) /\ other.cmd # call.cmd =>
            IdsOf(call.cmd.lines) \cap IdsOf(other.cmd.lines) = {}

OrderInv ==
    /\ OrderShape /\ DaysInOrder /\ DraftIsPage /\ QueueAsWanted /\ Locked /\ OneCommandPerId
    /\ OrderAnswersTrue /\ OrderedApart /\ PendingApart /\ NothingLost

-----------------------------------------------------------------------------
LEMMA NoDraftIsDraft == NoDraft \in Drafts
  BY DEF NoDraft, Drafts

(* What is shown is put into the draft of the page's day, and into no other.*)
LEMMA ShowGives ==
    ASSUME stored \in [1..MaxDay -> Drafts], NEW p \in Pages, Show(p)
    PROVE  /\ page' = p
           /\ stored' \in [1..MaxDay -> Drafts]
           /\ \A d \in 1..MaxDay : d # p.key => stored'[d] = stored[d]
           /\ p.key # NoDay => /\ p.key \in 1..MaxDay
                               /\ stored'[p.key].lines = p.queue /\ stored'[p.key].cmd = p.cmd
  <1>1. page' = p /\ stored' = Persist(p)
    BY DEF Show
  <1>2. CASE p.key = NoDay
    BY <1>1, <1>2 DEF Persist, NoDay
  <1>3. CASE p.key # NoDay
    <2> DEFINE draft == IF p.queue = {} /\ p.cmd = {} THEN NoDraft
                        ELSE [lines |-> p.queue, cmd |-> p.cmd, selected |-> p.selected]
    <2>1. draft \in Drafts /\ draft.lines = p.queue /\ draft.cmd = p.cmd
      BY NoDraftIsDraft DEF Pages, Drafts, NoDraft
    <2>2. p.key \in 1..MaxDay
      BY <1>3, OrderAssumption DEF Pages, NoDay
    <2>3. stored' = [stored EXCEPT ![p.key] = draft]
      BY <1>1, <1>3 DEF Persist
    <2> HIDE DEF draft
    <2> QED
      BY <1>1, <2>1, <2>2, <2>3
  <1> QED
    BY <1>2, <1>3

(* What a page takes over from the draft of a day it comes to. *)
Restores(p) == p.key # NoDay /\ p.restored # p.key /\ p.queue = {}

LEMMA RestoreGives ==
    ASSUME stored \in [1..MaxDay -> Drafts], NEW p \in Pages
    PROVE  /\ Restore(p) \in Pages
           /\ Restore(p).key = p.key /\ Restore(p).day = p.day /\ Restore(p).slips = p.slips
           /\ Restore(p).asked = p.asked /\ Restore(p).form = p.form
           /\ Restore(p).restored = IF p.key = NoDay THEN p.restored ELSE p.key
           /\ Restore(p).queue = IF Restores(p) THEN stored[p.key].lines ELSE p.queue
           /\ \A c \in Restore(p).cmd : c \in p.cmd \/ (Restores(p) /\ c \in stored[p.key].cmd /\ c.day = p.day)
           /\ Restores(p) => \A c \in stored[p.key].cmd : c.day = p.day => c \in Restore(p).cmd
           /\ ~ Restores(p) => Restore(p).cmd = p.cmd
  <1> DEFINE draft == stored[p.key]
             kept == {c \in draft.cmd : c.day = p.day}
  <1>1. CASE p.key = NoDay \/ p.restored = p.key
    <2>1. Restore(p) = p
      BY <1>1 DEF Restore
    <2> QED
      BY <1>1, <2>1 DEF Restores
  <1>2. CASE p.key # NoDay /\ p.restored # p.key
    <2>0. p.key \in 1..MaxDay /\ draft \in Drafts
      BY <1>2, OrderAssumption DEF Pages, NoDay
    <2>1. CASE p.queue # {} \/ draft = NoDraft
      <3>1. Restore(p) = [p EXCEPT !.restored = p.key]
        BY <1>2, <2>1 DEF Restore
      <3>2. Restore(p) \in Pages
        BY <3>1 DEF Pages
      <3>3. draft = NoDraft => draft.lines = {} /\ draft.cmd = {}
        BY DEF NoDraft
      <3> QED
        BY <1>2, <2>1, <3>1, <3>2, <3>3 DEF Restores, Pages
    <2>2. CASE p.queue = {} /\ draft # NoDraft
      <3>1. Restore(p) = [p EXCEPT !.restored = p.key, !.queue = draft.lines,
                                   !.cmd = IF kept # {} THEN kept ELSE @,
                                   !.selected = IF @ = NoSlip THEN draft.selected ELSE @]
        BY <1>2, <2>2 DEF Restore
      <3>2. draft.lines \in SUBSET Lines /\ kept \in SUBSET Commands /\ draft.selected \in Slip \cup {NoSlip}
        BY <2>0 DEF Drafts
      <3>3. Restores(p) /\ \A c \in kept : c \in draft.cmd /\ c.day = p.day
        BY <1>2, <2>2 DEF Restores
      <3> HIDE DEF kept
      <3>4. Restore(p) \in Pages
        BY <3>1, <3>2 DEF Pages
      <3>5. /\ Restore(p).key = p.key /\ Restore(p).day = p.day /\ Restore(p).slips = p.slips
            /\ Restore(p).asked = p.asked /\ Restore(p).form = p.form /\ Restore(p).restored = p.key
            /\ Restore(p).queue = draft.lines /\ Restore(p).cmd = IF kept # {} THEN kept ELSE p.cmd
        BY <3>1 DEF Pages
      <3>6. \A c \in draft.cmd : c.day = p.day => c \in kept
        BY DEF kept
      <3> QED
        BY <1>2, <3>3, <3>4, <3>5, <3>6
    <2> QED
      BY <2>1, <2>2
  <1> QED
    BY <1>1, <1>2

LEMMA DeselectGives ==
    ASSUME NEW p \in Pages
    PROVE  /\ Deselect(p) \in Pages
           /\ \A f \in {"day", "slips", "key", "restored", "queue", "cmd", "asked", "form"} : Deselect(p)[f] = p[f]
  BY DEF Deselect, Pages

(* Which draft belongs to the page, when it stays on its day. *)
LEMMA SameDay ==
    ASSUME OrderInv, NEW p \in Pages, Show(p), db' = db,
           p.key = page.key, p.restored = page.restored, p.asked \subseteq page.asked,
           p.day <= db.days, p.slips \subseteq db.seen,
           p.key = NoDay => p.queue = {} /\ p.cmd = {} /\ p.slips = {}
    PROVE  DaysInOrder' /\ DraftIsPage'
  <1>1. /\ page' = p
        /\ \A d \in 1..MaxDay : d # p.key => stored'[d] = stored[d]
        /\ p.key # NoDay => stored'[p.key].lines = p.queue /\ stored'[p.key].cmd = p.cmd
    BY ShowGives DEF OrderInv, OrderShape
  <1>2. DaysInOrder'
    BY <1>1 DEF OrderInv, DaysInOrder
  <1>3. DraftIsPage'
    BY <1>1 DEF OrderInv, DraftIsPage
  <1> QED
    BY <1>2, <1>3

(* A step that changes neither what is ordered nor what is in the queue.    *)
LEMMA NothingMoves ==
    ASSUME OrderInv, OrderShape', DaysInOrder', DraftIsPage', db' = db, due' = due,
           page'.queue = page.queue, page'.cmd = page.cmd,
           \A d \in 1..MaxDay : /\ stored[d].lines \subseteq page'.queue \cup stored'[d].lines
                                /\ \A c \in stored'[d].cmd : c.lines = stored'[d].lines,
           \A call \in calls' : /\ \E e \in calls : call.cmd = e.cmd /\ (call.mine => e.mine)
                               /\ \A a \in call.answer : a \in db.answers /\ a.op = call.cmd.op
    PROVE  OrderInv'
  <1>1. QueueAsWanted' /\ Locked'
    BY DEF OrderInv, QueueAsWanted, Locked
  <1>2. LiveCommands' \subseteq LiveCommands
    BY DEF LiveCommands
  <1>3. OneCommandPerId'
    BY <1>2 DEF OrderInv, OneCommandPerId
  <1>4. OrderAnswersTrue'
    BY <1>2 DEF Gone, OrderInv, OrderAnswersTrue, IdsOf
  <1>5. \A c : Pending(c)' = Pending(c)
    BY DEF Pending, Gone
  <1>6. OrderedApart'
    BY <1>5 DEF OrderInv, OrderedApart, NothingTwice, Gone, IdsOf
  <1>7. PendingApart'
    BY <1>5 DEF OrderInv, PendingApart, IdsOf
  <1>8. NothingLost'
    <2> SUFFICES ASSUME NEW i \in DOMAIN due, due[i] > 0
                 PROVE  \E l \in (db.lines \cup page.queue \cup UNION {stored[d].lines : d \in DOMAIN stored})' :
                            l.id = i /\ l.n = due[i]
      BY DEF NothingLost
    <2>1. PICK l \in db.lines \cup page.queue \cup UNION {stored[d].lines : d \in DOMAIN stored} :
              l.id = i /\ l.n = due[i]
      BY DEF OrderInv, NothingLost
    <2>2. l \in (db.lines \cup page.queue \cup UNION {stored[d].lines : d \in DOMAIN stored})'
      BY DEF OrderInv, OrderShape
    <2> QED
      BY <2>1, <2>2
  <1> QED
    BY <1>1, <1>3, <1>4, <1>6, <1>7, <1>8 DEF OrderInv

(* What a redrawn page keeps, as long as it stays on its day. *)
LEMMA Redrawn ==
    ASSUME OrderInv, NEW p \in Pages, Show(p), db' = db, due' = due, calls' = calls,
           p.key = page.key, p.restored = page.restored, p.queue = page.queue, p.cmd = page.cmd,
           p.asked \subseteq page.asked, p.day <= db.days, p.slips \subseteq db.seen,
           p.key = NoDay => p.slips = {}
    PROVE  OrderInv'
  <1>1. /\ page' = p /\ stored' \in [1..MaxDay -> Drafts]
        /\ \A d \in 1..MaxDay : d # p.key => stored'[d] = stored[d]
        /\ p.key # NoDay => stored'[p.key].lines = p.queue /\ stored'[p.key].cmd = p.cmd
    BY ShowGives DEF OrderInv, OrderShape
  <1>2. OrderShape'
    BY <1>1 DEF OrderInv, OrderShape
  <1>3. DaysInOrder' /\ DraftIsPage'
    BY SameDay DEF OrderInv, DraftIsPage
  <1>4. ASSUME NEW d \in 1..MaxDay
        PROVE  /\ stored[d].lines \subseteq page'.queue \cup stored'[d].lines
               /\ \A c \in stored'[d].cmd : c.lines = stored'[d].lines
    <2>1. CASE d = p.key
      BY <1>1, <2>1, OrderAssumption DEF OrderInv, DraftIsPage, Locked, NoDay
    <2>2. CASE d # p.key
      BY <1>1, <2>2 DEF OrderInv, Locked
    <2> QED
      BY <2>1, <2>2
  <1>5. \A call \in calls' : /\ \E e \in calls : call.cmd = e.cmd /\ (call.mine => e.mine)
                             /\ \A a \in call.answer : a \in db.answers /\ a.op = call.cmd.op
    BY DEF OrderInv, OrderAnswersTrue
  <1> QED
    BY <1>1, <1>2, <1>3, <1>4, <1>5, NothingMoves

LEMMA SelectStep ==
    ASSUME OrderInv, NEW s \in Slip, Select(s)
    PROVE  OrderInv'
  <1> DEFINE p == [page EXCEPT !.selected = s]
  <1>1. /\ p \in Pages /\ p.key = page.key /\ p.restored = page.restored /\ p.queue = page.queue
        /\ p.cmd = page.cmd /\ p.asked = page.asked /\ p.day = page.day /\ p.slips = page.slips
    BY DEF OrderInv, OrderShape, Pages
  <1>2. Show(p) /\ db' = db /\ due' = due /\ calls' = calls
    BY DEF Select
  <1> HIDE DEF p
  <1> QED
    BY <1>1, <1>2, Redrawn DEF OrderInv, DaysInOrder, DraftIsPage

(* A step of the page that is not seen in the queue. *)
LEMMA Unseen ==
    ASSUME OrderInv, db' = db, due' = due, stored' = stored, page' \in Pages, DaysInOrder', DraftIsPage',
           page'.queue = page.queue, page'.cmd = page.cmd, calls' \subseteq Calls,
           \A call \in calls' : /\ \E e \in calls : call.cmd = e.cmd /\ (call.mine => e.mine)
                               /\ \A a \in call.answer : a \in db.answers /\ a.op = call.cmd.op
    PROVE  OrderInv'
  <1>1. OrderShape'
    BY DEF OrderInv, OrderShape
  <1>2. \A d \in 1..MaxDay : /\ stored[d].lines \subseteq page'.queue \cup stored'[d].lines
                             /\ \A c \in stored'[d].cmd : c.lines = stored'[d].lines
    BY DEF OrderInv, Locked
  <1> QED
    BY <1>1, <1>2, NothingMoves

LEMMA FailStep ==
    ASSUME OrderInv, NEW call \in calls, Fail(call)
    PROVE  OrderInv'
  <1>1. /\ page' = [page EXCEPT !.busy = FALSE] /\ db' = db /\ stored' = stored /\ due' = due
    BY DEF Fail
  <1>2. PICK lost \in IF call.answer = {} THEN {{}, {[call EXCEPT !.mine = FALSE]}} ELSE {{}} :
            calls' = (calls \ {call}) \cup lost
    BY DEF Fail
  <1>3. call \in Calls
    BY DEF OrderInv, OrderShape
  <1> DEFINE left == [call EXCEPT !.mine = FALSE]
  <1>4. left \in Calls /\ left.cmd = call.cmd /\ ~ left.mine /\ left.answer = call.answer
    BY <1>3 DEF Calls
  <1>5. lost \subseteq {left} /\ (lost # {} => call.answer = {})
    BY <1>2
  <1> HIDE DEF left
  <1>6. page' \in Pages /\ DaysInOrder' /\ DraftIsPage' /\ page'.queue = page.queue /\ page'.cmd = page.cmd
    BY <1>1 DEF OrderInv, OrderShape, Pages, DaysInOrder, DraftIsPage
  <1>7. calls' \subseteq Calls
    BY <1>2, <1>4, <1>5 DEF OrderInv, OrderShape
  <1>8. \A e \in calls' : /\ \E f \in calls : e.cmd = f.cmd /\ (e.mine => f.mine)
                          /\ \A a \in e.answer : a \in db.answers /\ a.op = e.cmd.op
    BY <1>2, <1>4, <1>5 DEF OrderInv, OrderAnswersTrue
  <1> QED
    BY <1>1, <1>6, <1>7, <1>8, Unseen

LEMMA AskOptionsStep ==
    ASSUME OrderInv, AskOptions
    PROVE  OrderInv'
  <1> DEFINE c == Candidates(db)
  <1>1. page' = [page EXCEPT !.asked = {c}] /\ db' = db /\ stored' = stored /\ due' = due /\ calls' = calls
    BY DEF AskOptions
  <1>2. c \in Options /\ c.day = db.day /\ c.slips = db.open
    BY DEF OrderInv, OrderShape, Days, Options, Candidates, Nothing
  <1> HIDE DEF c
  <1>3. /\ page' \in Pages /\ page'.asked = {c}
        /\ \A f \in {"day", "slips", "key", "restored", "queue", "cmd"} : page'[f] = page[f]
    BY <1>1, <1>2 DEF OrderInv, OrderShape, Pages
  <1>4. DaysInOrder'
    BY <1>1, <1>2, <1>3 DEF OrderInv, OrderShape, Days, Pages, DaysInOrder, NoDay
  <1>5. DraftIsPage'
    BY <1>1, <1>2, <1>3 DEF OrderInv, OrderShape, Days, DaysInOrder, DraftIsPage, NoDay
  <1>6. calls' \subseteq Calls
    BY <1>1 DEF OrderInv, OrderShape
  <1>7. \A call \in calls' : /\ \E e \in calls : call.cmd = e.cmd /\ (call.mine => e.mine)
                             /\ \A a \in call.answer : a \in db.answers /\ a.op = call.cmd.op
    BY <1>1 DEF OrderInv, OrderAnswersTrue
  <1> QED
    BY <1>1, <1>3, <1>4, <1>5, <1>6, <1>7, Unseen

LEMMA LoadFailsStep ==
    ASSUME OrderInv, LoadFails
    PROVE  OrderInv'
  <1>1. page' = [page EXCEPT !.asked = {}] /\ db' = db /\ stored' = stored /\ due' = due /\ calls' = calls
    BY DEF LoadFails
  <1>2. /\ page' \in Pages /\ page'.asked = {}
        /\ \A f \in {"day", "slips", "key", "restored", "queue", "cmd"} : page'[f] = page[f]
    BY <1>1 DEF OrderInv, OrderShape, Pages
  <1>3. DaysInOrder' /\ DraftIsPage'
    BY <1>1, <1>2 DEF OrderInv, DaysInOrder, DraftIsPage
  <1>4. calls' \subseteq Calls
    BY <1>1 DEF OrderInv, OrderShape
  <1>5. \A call \in calls' : /\ \E e \in calls : call.cmd = e.cmd /\ (call.mine => e.mine)
                             /\ \A a \in call.answer : a \in db.answers /\ a.op = call.cmd.op
    BY <1>1 DEF OrderInv, OrderAnswersTrue
  <1> QED
    BY <1>1, <1>2, <1>3, <1>4, <1>5, Unseen

(* An answer with the list of slips brings the page to a later day, with    *)
(* the queue and the command it has, or leaves it on its own.               *)
LEMMA LoadOptionsStep ==
    ASSUME OrderInv, LoadOptions
    PROVE  OrderInv'
  <1> DEFINE Base(c) == [page EXCEPT !.asked = {}, !.day = c.day, !.rev = c.rev, !.busy = FALSE]
             Moved(c) == [Base(c) EXCEPT !.key = c.day]
             On(c) == IF c.day = NoDay THEN Base(c) ELSE Restore(Moved(c))
             Listed(c) == [On(c) EXCEPT !.slips = c.slips]
  <1>1. db' = db /\ due' = due /\ calls' = calls
    BY DEF LoadOptions
  <1>2. PICK c \in page.asked : Show(Deselect(Listed(c)))
    BY DEF LoadOptions
  <1>3. c \in Options /\ page \in Pages /\ stored \in [1..MaxDay -> Drafts]
    BY DEF OrderInv, OrderShape, Pages
  <1> DEFINE base == Base(c)
             moved == Moved(c)
             on == On(c)
             listed == Listed(c)
             p == Deselect(listed)
  <1>4. /\ base \in Pages /\ base.key = page.key /\ base.restored = page.restored /\ base.queue = page.queue
        /\ base.cmd = page.cmd /\ base.asked = {} /\ base.day = c.day
    BY <1>3 DEF Options, Pages
  <1>5. /\ moved \in Pages /\ moved.key = c.day /\ moved.restored = page.restored /\ moved.queue = page.queue
        /\ moved.cmd = page.cmd /\ moved.asked = {} /\ moved.day = c.day
    BY <1>3, <1>4 DEF Options, Pages
  <1>6. on = IF c.day = NoDay THEN base ELSE Restore(moved)
    OBVIOUS
  <1> HIDE DEF Base, Moved, base, moved, On, on
  <1>7. /\ c.day # NoDay /\ c.day # page.key => stored[c.day].lines = {} /\ stored[c.day].cmd = {}
        /\ page.key = NoDay => page.queue = {} /\ page.cmd = {} /\ page.slips = {}
        /\ page.key # NoDay => page.restored = page.key
        /\ c.day <= db.days /\ c.slips \subseteq db.seen /\ (c.day = NoDay => c.slips = {})
        /\ c.day # NoDay => c.day \in 1..MaxDay /\ page.key <= c.day
    BY <1>3, OrderAssumption DEF OrderInv, OrderShape, DaysInOrder, DraftIsPage, Options, NoDay
  <1>8. /\ on \in Pages /\ on.queue = page.queue /\ on.cmd = page.cmd /\ on.asked = {} /\ on.day = c.day
        /\ on.key = IF c.day = NoDay THEN page.key ELSE c.day
        /\ on.key # NoDay => on.restored = on.key
    <2>1. CASE c.day = NoDay
      BY <1>4, <1>6, <1>7, <2>1
    <2>2. CASE c.day # NoDay
      <3>1. Restores(moved) => c.day # page.key /\ page.queue = {} /\ page.cmd = {}
        BY <1>5, <1>7, <2>2 DEF Restores, OrderInv, Locked
      <3>2. /\ on \in Pages /\ on.key = c.day /\ on.day = c.day /\ on.asked = {} /\ on.restored = c.day
            /\ on.queue = IF Restores(moved) THEN stored[c.day].lines ELSE page.queue
            /\ \A e \in on.cmd : e \in page.cmd \/ (Restores(moved) /\ e \in stored[c.day].cmd)
            /\ ~ Restores(moved) => on.cmd = page.cmd
        BY <1>3, <1>5, <1>6, <2>2, RestoreGives
      <3>3. on.queue = page.queue /\ on.cmd = page.cmd
        BY <1>7, <2>2, <3>1, <3>2
      <3> QED
        BY <2>2, <3>2, <3>3
    <2> QED
      BY <2>1, <2>2
  <1>9. /\ listed \in Pages /\ listed.slips = c.slips /\ listed.queue = on.queue /\ listed.cmd = on.cmd
        /\ listed.asked = {} /\ listed.day = c.day /\ listed.key = on.key /\ listed.restored = on.restored
    BY <1>3, <1>8 DEF Options, Pages, on
  <1> HIDE DEF Listed, listed
  <1>10. /\ p \in Pages /\ p.slips = c.slips /\ p.queue = page.queue /\ p.cmd = page.cmd /\ p.asked = {}
         /\ p.day = c.day /\ p.key = on.key /\ p.restored = on.restored
    BY <1>8, <1>9, DeselectGives
  <1>11. Show(p)
    BY <1>2 DEF listed
  <1> HIDE DEF p
  <1>12. CASE p.key = page.key
    <2>1. p.restored = page.restored \/ p.key = NoDay
      BY <1>7, <1>8, <1>10, <1>12
    <2>2. p.restored = page.restored
      <3>1. CASE c.day = NoDay
        BY <1>4, <1>6, <1>9, <1>10, <3>1 DEF listed
      <3>2. CASE c.day # NoDay
        BY <1>8, <1>10, <2>1, <3>2
      <3> QED
        BY <3>1, <3>2
    <2>3. p.key = NoDay => p.slips = {}
      BY <1>7, <1>8, <1>10
    <2> QED
      BY <1>1, <1>7, <1>10, <1>11, <1>12, <2>2, <2>3, Redrawn
  <1>13. CASE p.key # page.key
    <2>1. p.key = c.day /\ c.day # NoDay /\ page.key < c.day
      BY <1>3, <1>7, <1>8, <1>10, <1>13 DEF Pages, Options, NoDay
    <2>2. /\ page' = p /\ stored' \in [1..MaxDay -> Drafts]
          /\ \A d \in 1..MaxDay : d # p.key => stored'[d] = stored[d]
          /\ stored'[p.key].lines = page.queue /\ stored'[p.key].cmd = page.cmd
      BY <1>3, <1>10, <1>11, <2>1, ShowGives
    <2>3. OrderShape'
      BY <1>1, <1>10, <2>2 DEF OrderInv, OrderShape
    <2>4. DaysInOrder'
      BY <1>1, <1>7, <1>10, <2>1, <2>2 DEF OrderInv, DaysInOrder
    <2>5. DraftIsPage'
      <3>1. ASSUME NEW d \in 1..MaxDay, d # p.key
            PROVE  \/ stored'[d].lines = {} /\ stored'[d].cmd = {}
                   \/ d <= db.days /\ d # db.day
        BY <1>3, <1>7, <2>1, <2>2, <3>1 DEF OrderInv, OrderShape, DaysInOrder, Days, DraftIsPage, Pages, NoDay
      <3> QED
        BY <1>1, <1>8, <1>10, <2>1, <2>2, <3>1 DEF DraftIsPage
    <2>6. ASSUME NEW d \in 1..MaxDay
          PROVE  /\ stored[d].lines \subseteq page'.queue \cup stored'[d].lines
                 /\ \A e \in stored'[d].cmd : e.lines = stored'[d].lines
      BY <1>7, <1>10, <2>1, <2>2 DEF OrderInv, Locked
    <2>7. \A call \in calls' : /\ \E e \in calls : call.cmd = e.cmd /\ (call.mine => e.mine)
                               /\ \A a \in call.answer : a \in db.answers /\ a.op = call.cmd.op
      BY <1>1 DEF OrderInv, OrderAnswersTrue
    <2> QED
      BY <1>1, <1>10, <2>2, <2>3, <2>4, <2>5, <2>6, <2>7, NothingMoves
  <1> QED
    BY <1>12, <1>13

(* Who sends while nobody waits gets the answer of the command that the     *)
(* page has.                                                                *)
LEMMA ReceiveStep ==
    ASSUME OrderInv, OneSubmission, NEW call \in calls, Receive(call)
    PROVE  OrderInv'
  <1> DEFINE Confirmed(a) == [page EXCEPT !.queue = {l \in @ : l.id \notin a.inserted}, !.cmd = {},
                                          !.day = a.day, !.rev = a.rev, !.busy = FALSE]
             TurnedDown(a) == [page EXCEPT !.day = a.day, !.rev = a.rev, !.slips = a.slips, !.cmd = {}, !.busy = FALSE]
  <1>1. /\ call.mine /\ db' = db /\ due' = due /\ calls' = calls \ {call}
    BY DEF Receive
  <1>2. PICK a \in call.answer : Show(IF a.status = "confirmed" THEN Confirmed(a) ELSE Deselect(TurnedDown(a)))
    BY DEF Receive
  <1>3. page \in Pages /\ stored \in [1..MaxDay -> Drafts] /\ call \in Calls /\ a \in Answers
    BY DEF OrderInv, OrderShape, Calls
  <1>4. a \in db.answers /\ a.op = call.cmd.op /\ page.cmd = {call.cmd} /\ call.cmd.lines = page.queue
    BY <1>1 DEF OrderInv, OrderAnswersTrue, OneCommandPerId, Locked
  <1> DEFINE p == IF a.status = "confirmed" THEN Confirmed(a) ELSE Deselect(TurnedDown(a))
  <1>5. a.status = "confirmed" => a.inserted = IdsOf(page.queue)
    BY <1>4 DEF OrderInv, OrderAnswersTrue, LiveCommands
  <1>6. /\ p \in Pages /\ p.cmd = {} /\ p.key = page.key /\ p.restored = page.restored /\ p.asked = page.asked
        /\ p.day = a.day /\ p.slips \in {page.slips, a.slips}
        /\ p.queue = IF a.status = "confirmed" THEN {} ELSE page.queue
    <2>1. CASE a.status = "confirmed"
      <3>1. p = Confirmed(a)
        BY <2>1
      <3>2. {l \in page.queue : l.id \notin a.inserted} = {}
        BY <1>5, <2>1 DEF IdsOf
      <3> QED
        BY <1>3, <2>1, <3>1, <3>2 DEF Pages, Answers
    <2>2. CASE a.status # "confirmed"
      <3>1. p = Deselect(TurnedDown(a))
        BY <2>2
      <3>2. /\ TurnedDown(a) \in Pages /\ TurnedDown(a).cmd = {} /\ TurnedDown(a).key = page.key
            /\ TurnedDown(a).restored = page.restored /\ TurnedDown(a).asked = page.asked /\ TurnedDown(a).day = a.day
            /\ TurnedDown(a).slips = a.slips /\ TurnedDown(a).queue = page.queue
        BY <1>3 DEF Pages, Answers
      <3> HIDE DEF TurnedDown
      <3> QED
        BY <2>2, <3>1, <3>2, DeselectGives
    <2> QED
      BY <2>1, <2>2
  <1>7. Show(p)
    BY <1>2
  <1> HIDE DEF p, Confirmed, TurnedDown
  <1>8. page.key # NoDay /\ page.key \in 1..MaxDay
    <2>1. page.key # NoDay
      BY <1>4 DEF OrderInv, DraftIsPage
    <2> QED
      BY <1>3, <2>1, OrderAssumption DEF Pages, NoDay
  <1>9. /\ page' = p /\ stored' \in [1..MaxDay -> Drafts]
        /\ \A d \in 1..MaxDay : d # page.key => stored'[d] = stored[d]
        /\ stored'[page.key].lines = p.queue /\ stored'[page.key].cmd = {}
    BY <1>3, <1>6, <1>7, <1>8, ShowGives
  <1>10. OrderShape'
    BY <1>1, <1>6, <1>9 DEF OrderInv, OrderShape
  <1>11. DaysInOrder' /\ DraftIsPage'
    <2>1. p.day <= db.days /\ p.slips \subseteq db.seen
      BY <1>4, <1>6 DEF OrderInv, DaysInOrder
    <2> QED
      BY <1>1, <1>6, <1>7, <1>8, <2>1, SameDay
  <1>12. QueueAsWanted' /\ Locked'
    BY <1>1, <1>6, <1>8, <1>9 DEF OrderInv, QueueAsWanted, Locked
  <1>13. OneCommandPerId'
    <2>1. \A e \in calls' : ~ e.mine
      BY <1>1 DEF OneSubmission
    <2>2. LiveCommands' \subseteq LiveCommands
      BY <1>1, <1>6, <1>9 DEF LiveCommands
    <2> QED
      BY <1>1, <2>1, <2>2 DEF OrderInv, OneCommandPerId
  <1>14. OrderAnswersTrue'
    BY <1>1, <1>6, <1>9 DEF Gone, OrderInv, OrderAnswersTrue, LiveCommands, IdsOf
  <1>15. \A c : Pending(c)' = Pending(c)
    BY <1>1 DEF Pending, Gone
  <1>16. OrderedApart'
    <2>1. ASSUME NEW x \in db.lines, NEW l \in p.queue, x.id = l.id
          PROVE  Gone(l.key[1])
      <3>1. a.status # "confirmed" /\ l \in page.queue
        BY <1>6
      <3>2. x.op # a.op
        BY <1>4, <3>1 DEF OrderInv, OrderAnswersTrue
      <3> QED
        BY <1>4, <2>1, <3>1, <3>2 DEF OrderInv, OrderedApart
    <2> QED
      BY <1>1, <1>9, <1>15, <2>1 DEF OrderInv, OrderedApart, NothingTwice, Gone, IdsOf
  <1>17. PendingApart'
    <2>1. \A e \in calls : Pending(e.cmd) => e.cmd \notin page.cmd
      BY <1>4 DEF Pending
    <2>2. IdsOf(p.queue) \subseteq IdsOf(page.queue)
      BY <1>6 DEF IdsOf
    <2> QED
      BY <1>1, <1>9, <1>15, <2>1, <2>2 DEF OrderInv, PendingApart
  <1>18. NothingLost'
    <2> SUFFICES ASSUME NEW i \in DOMAIN due, due[i] > 0
                 PROVE  \E l \in (db.lines \cup page.queue \cup UNION {stored[d].lines : d \in DOMAIN stored})' :
                            l.id = i /\ l.n = due[i]
      BY <1>1 DEF NothingLost
    <2>1. PICK l \in db.lines \cup page.queue \cup UNION {stored[d].lines : d \in DOMAIN stored} :
              l.id = i /\ l.n = due[i]
      BY DEF OrderInv, NothingLost
    <2>2. CASE l \in db.lines
      BY <1>1, <2>1, <2>2
    <2>3. CASE l \in page.queue /\ a.status = "confirmed"
      <3>1. [op |-> a.op, id |-> l.id, n |-> l.n] \in db.lines
        BY <1>4, <2>3 DEF OrderInv, OrderAnswersTrue, LiveCommands
      <3> QED
        BY <1>1, <2>1, <3>1
    <2>4. CASE l \in page.queue /\ a.status # "confirmed"
      BY <1>6, <1>9, <2>1, <2>4
    <2>5. CASE l \notin page.queue /\ l \notin db.lines
      <3>1. PICK d \in DOMAIN stored : l \in stored[d].lines
        BY <2>1, <2>5
      <3>2. d \in 1..MaxDay /\ d # page.key
        BY <1>3, <1>8, <2>5, <3>1 DEF OrderInv, DraftIsPage
      <3>3. l \in stored'[d].lines /\ d \in DOMAIN stored'
        BY <1>9, <3>1, <3>2
      <3> QED
        BY <2>1, <3>3
    <2> QED
      BY <2>2, <2>3, <2>4, <2>5
  <1> QED
    BY <1>10, <1>11, <1>12, <1>13, <1>14, <1>16, <1>17, <1>18 DEF OrderInv

(* What a page starts from. *)
LEMMA FreshGives ==
    ASSUME DayPassed, stored \in [1..MaxDay -> Drafts], db \in Days
    PROVE  /\ Fresh \in Pages
           /\ Fresh.key = db.day /\ Fresh.day = db.day /\ Fresh.slips = {} /\ Fresh.asked = {}
           /\ Fresh.restored = db.day
           /\ Fresh.queue = IF db.day = NoDay THEN {} ELSE stored[db.day].lines
           /\ db.day = NoDay => Fresh.cmd = {}
           /\ db.day # NoDay => \A c : c \in Fresh.cmd <=> c \in stored[db.day].cmd /\ c.day = db.day
  <1> DEFINE p == [day |-> db.day, rev |-> Nothing, slips |-> {}, key |-> db.day, restored |-> NoDay, queue |-> {},
                   cmd |-> {}, selected |-> NoSlip, asked |-> {}, busy |-> FALSE, form |-> db.day # NoDay]
  <1>1. /\ p \in Pages /\ p.key = db.day /\ p.day = db.day /\ p.slips = {} /\ p.asked = {} /\ p.queue = {}
        /\ p.cmd = {} /\ p.restored = NoDay
    BY OrderAssumption DEF Days, Pages, Nothing, NoDay
  <1>2. Fresh = Restore(p)
    BY DEF Fresh, Rendered
  <1> HIDE DEF p
  <1>3. Restores(p) <=> db.day # NoDay
    BY <1>1 DEF Restores
  <1>4. /\ Fresh \in Pages /\ Fresh.key = p.key /\ Fresh.day = p.day /\ Fresh.slips = p.slips
        /\ Fresh.asked = p.asked /\ Fresh.restored = IF p.key = NoDay THEN p.restored ELSE p.key
        /\ Fresh.queue = IF Restores(p) THEN stored[p.key].lines ELSE p.queue
        /\ \A c \in Fresh.cmd : c \in p.cmd \/ (Restores(p) /\ c \in stored[p.key].cmd /\ c.day = p.day)
        /\ Restores(p) => \A c \in stored[p.key].cmd : c.day = p.day => c \in Fresh.cmd
        /\ ~ Restores(p) => Fresh.cmd = p.cmd
    BY <1>1, <1>2, RestoreGives
  <1>5. Fresh.restored = db.day
    BY <1>1, <1>4
  <1>6. db.day # NoDay => \A c : c \in Fresh.cmd <=> c \in stored[db.day].cmd /\ c.day = db.day
    BY <1>1, <1>3, <1>4
  <1> QED
    BY <1>1, <1>3, <1>4, <1>5, <1>6

LEMMA ReloadStep ==
    ASSUME DayPassed, OrderInv, Reload
    PROVE  OrderInv'
  <1>1. Show(Fresh) /\ db' = db /\ due' = due
        /\ calls' = {[c EXCEPT !.mine = FALSE] : c \in {c \in calls : c.answer = {}}}
    BY DEF Reload
  <1>2. page \in Pages /\ stored \in [1..MaxDay -> Drafts] /\ db \in Days /\ calls \subseteq Calls
    BY DEF OrderInv, OrderShape
  <1> DEFINE p == Fresh
  <1>3. /\ p \in Pages /\ p.key = db.day /\ p.day = db.day /\ p.slips = {} /\ p.asked = {}
        /\ p.restored = db.day
        /\ p.queue = IF db.day = NoDay THEN {} ELSE stored[db.day].lines
        /\ db.day = NoDay => p.cmd = {}
        /\ db.day # NoDay => \A c : c \in p.cmd <=> c \in stored[db.day].cmd /\ c.day = db.day
    BY <1>2, FreshGives
  <1>4. Show(p)
    BY <1>1
  <1> HIDE DEF p
  <1>5. \A call \in calls' : /\ call \in Calls /\ ~ call.mine /\ call.answer = {}
                             /\ \E e \in calls : call.cmd = e.cmd
    <2> SUFFICES ASSUME NEW e \in calls, e.answer = {}, NEW call, call = [e EXCEPT !.mine = FALSE]
                 PROVE  call \in Calls /\ ~ call.mine /\ call.answer = {} /\ call.cmd = e.cmd
      BY <1>1
    <2>1. e \in Calls
      BY <1>2
    <2> QED
      BY <2>1 DEF Calls
  <1>6. db.day # NoDay => db.day \in 1..MaxDay /\ db.day = db.days
    BY <1>2, OrderAssumption DEF Days, NoDay, OrderInv, DaysInOrder
  <1>7. /\ page' = p /\ stored' \in [1..MaxDay -> Drafts]
        /\ \A d \in 1..MaxDay : d # db.day => stored'[d] = stored[d]
        /\ db.day # NoDay => stored'[db.day].lines = p.queue /\ stored'[db.day].cmd = p.cmd
    BY <1>2, <1>3, <1>4, ShowGives
  <1>8. OrderShape'
    BY <1>1, <1>3, <1>5, <1>7 DEF OrderInv, OrderShape
  <1>9. db.day # NoDay /\ db.day # page.key => stored[db.day].lines = {} /\ stored[db.day].cmd = {}
    BY <1>6 DEF OrderInv, DraftIsPage
  <1>10. db.day # NoDay /\ db.day = page.key => stored[db.day].lines = page.queue /\ stored[db.day].cmd = page.cmd
    BY DEF OrderInv, DraftIsPage
  <1>11. \/ p.queue = {} /\ p.cmd = {}
         \/ /\ db.day # NoDay /\ db.day = page.key /\ p.queue = page.queue
            /\ \A c : c \in p.cmd <=> c \in page.cmd /\ c.day = db.day
    BY <1>3, <1>9, <1>10
  <1>12. p.cmd \subseteq page.cmd
    BY <1>11
  <1>13. DaysInOrder'
    BY <1>1, <1>2, <1>3, <1>6, <1>7 DEF OrderInv, DaysInOrder, Days, NoDay
  <1>14. DraftIsPage'
    <2>1. ASSUME NEW d \in 1..MaxDay, d # db.day
          PROVE  (stored[d].lines = {} /\ stored[d].cmd = {}) \/ d <= db.days
      BY DEF OrderInv, DraftIsPage, DaysInOrder
    <2>2. db.day = NoDay => p.queue = {} /\ p.cmd = {} /\ p.slips = {}
      BY <1>3 DEF OrderInv, DaysInOrder
    <2> QED
      BY <1>1, <1>3, <1>7, <2>1, <2>2 DEF DraftIsPage
  <1>15. QueueAsWanted'
    BY <1>1, <1>7, <1>11 DEF OrderInv, QueueAsWanted
  <1>16. Locked'
    <2>1. \A c \in p.cmd : c.lines = p.queue /\ c.lines # {}
      BY <1>11 DEF OrderInv, Locked
    <2>2. \A d \in 1..MaxDay : \A c \in stored'[d].cmd : c.lines = stored'[d].lines
      <3> SUFFICES ASSUME NEW d \in 1..MaxDay, NEW c \in stored'[d].cmd
                   PROVE  c.lines = stored'[d].lines
        OBVIOUS
      <3>1. CASE d = db.day
        BY <1>7, <2>1, <3>1, OrderAssumption DEF NoDay
      <3>2. CASE d # db.day
        BY <1>7, <3>2 DEF OrderInv, Locked
      <3> QED
        BY <3>1, <3>2
    <2> QED
      BY <1>7, <1>12, <2>1, <2>2 DEF OrderInv, Locked
  <1>17. LiveCommands' \subseteq LiveCommands
    BY <1>5, <1>7, <1>12 DEF LiveCommands
  <1>18. OneCommandPerId'
    BY <1>1, <1>5, <1>17 DEF OrderInv, OneCommandPerId
  <1>19. OrderAnswersTrue'
    <2>1. \A call \in calls' : call.answer = {}
      BY <1>5
    <2> QED
      BY <1>1, <1>17, <2>1 DEF Gone, OrderInv, OrderAnswersTrue
  <1>20. \A c : Pending(c)' = Pending(c)
    BY <1>1 DEF Pending, Gone
  <1>21. OrderedApart'
    <2>1. ASSUME NEW x \in db.lines, NEW l \in p.queue, x.id = l.id
          PROVE  Gone(l.key[1]) \/ \E c \in p.cmd : c.op = x.op
      <3>1. /\ db.day # NoDay /\ db.day = page.key /\ p.queue = page.queue
            /\ \A c : c \in p.cmd <=> c \in page.cmd /\ c.day = db.day
        BY <1>11
      <3>2. CASE Gone(l.key[1])
        BY <3>2
      <3>3. CASE \E c \in page.cmd : c.op = x.op
        <4>1. PICK c \in page.cmd : c.op = x.op
          BY <3>3
        <4>2. c.lines = page.queue
          BY DEF OrderInv, Locked
        <4>3. PICK a \in db.answers : a.op = x.op /\ a.status = "confirmed"
          BY DEF OrderInv, OrderAnswersTrue
        <4>4. c.day = db.day \/ Gone(l.key[1])
          BY <3>1, <4>1, <4>2, <4>3 DEF OrderInv, OrderAnswersTrue, LiveCommands
        <4> QED
          BY <3>1, <4>1, <4>4
      <3> QED
        BY <2>1, <3>1, <3>2, <3>3 DEF OrderInv, OrderedApart
    <2>2. \A x \in db.lines, call \in calls' : Pending(call.cmd) => x.id \notin IdsOf(call.cmd.lines)
      BY <1>5 DEF OrderInv, OrderedApart
    <2> QED
      BY <1>1, <1>7, <1>20, <2>1, <2>2 DEF OrderInv, OrderedApart, NothingTwice, Gone, IdsOf
  <1>22. PendingApart'
    <2>1. ASSUME NEW e \in calls, Pending(e.cmd), e.cmd \in page.cmd
          PROVE  e.cmd \in p.cmd \/ p.queue = {}
      <3>1. e.cmd.day = db.day
        BY <2>1 DEF Pending
      <3> QED
        BY <1>11, <2>1, <3>1
    <2>2. IdsOf(p.queue) \subseteq IdsOf(page.queue) /\ IdsOf({}) = {}
      BY <1>11 DEF IdsOf
    <2>3. \A e \in calls : Pending(e.cmd) => e.cmd \in p.cmd \/ IdsOf(e.cmd.lines) \cap IdsOf(p.queue) = {}
      BY <2>1, <2>2 DEF OrderInv, PendingApart
    <2> SUFFICES ASSUME NEW call \in calls', Pending(call.cmd)
                 PROVE  /\ \A l \in call.cmd.lines : due[l.id] > 0
                        /\ call.cmd \in p.cmd \/ IdsOf(call.cmd.lines) \cap IdsOf(p.queue) = {}
                        /\ \A other \in calls' : Pending(other.cmd) /\ other.cmd # call.cmd =>
                            IdsOf(call.cmd.lines) \cap IdsOf(other.cmd.lines) = {}
      BY <1>1, <1>7, <1>20 DEF PendingApart, IdsOf
    <2>4. PICK e \in calls : call.cmd = e.cmd
      BY <1>5
    <2>5. \A other \in calls' : Pending(other.cmd) /\ other.cmd # call.cmd =>
              IdsOf(call.cmd.lines) \cap IdsOf(other.cmd.lines) = {}
      BY <1>5, <2>4 DEF OrderInv, PendingApart
    <2> QED
      BY <2>3, <2>4, <2>5 DEF OrderInv, PendingApart
  <1>23. NothingLost'
    <2> SUFFICES ASSUME NEW i \in DOMAIN due, due[i] > 0
                 PROVE  \E l \in (db.lines \cup page.queue \cup UNION {stored[d].lines : d \in DOMAIN stored})' :
                            l.id = i /\ l.n = due[i]
      BY <1>1 DEF NothingLost
    <2>1. PICK l \in db.lines \cup page.queue \cup UNION {stored[d].lines : d \in DOMAIN stored} :
              l.id = i /\ l.n = due[i]
      BY DEF OrderInv, NothingLost
    <2>2. CASE l \in db.lines
      BY <1>1, <2>1, <2>2
    <2>3. CASE l \notin db.lines
      <3>1. PICK d \in 1..MaxDay : l \in stored[d].lines
        <4>1. l \in page.queue => page.key \in 1..MaxDay /\ l \in stored[page.key].lines
          BY <1>2, OrderAssumption DEF OrderInv, DraftIsPage, Pages, NoDay
        <4> QED
          BY <1>2, <2>1, <2>3, <4>1
      <3>2. CASE d = db.day
        BY <1>3, <1>7, <2>1, <3>1, <3>2, OrderAssumption DEF NoDay
      <3>3. CASE d # db.day
        BY <1>7, <2>1, <3>1, <3>3
      <3> QED
        BY <3>2, <3>3
    <2> QED
      BY <2>2, <2>3
  <1> QED
    BY <1>8, <1>13, <1>14, <1>15, <1>16, <1>18, <1>19, <1>21, <1>22, <1>23 DEF OrderInv

(* A late answer: the stored one, or one for lines that are in nothing else.*)
LEMMA ServeStep ==
    ASSUME OrderInv, NEW call \in calls, NEW ok \in BOOLEAN, Serve(call, ok)
    PROVE  OrderInv'
  <1> DEFINE done == Acceptable(call.cmd, ok)
             added == {[op |-> call.cmd.op, id |-> l.id, n |-> l.n] : l \in call.cmd.lines}
             after == IF done THEN [db EXCEPT !.rev = @ + 1, !.lines = @ \cup added] ELSE db
             new == [op |-> call.cmd.op, status |-> IF done THEN "confirmed" ELSE "rejected",
                     inserted |-> IF done THEN {l.id : l \in call.cmd.lines} ELSE {},
                     day |-> Candidates(after).day, rev |-> Candidates(after).rev, slips |-> after.open]
             answer == IF StoredAnswer(call.cmd.op) # {} THEN StoredAnswer(call.cmd.op) ELSE {new}
  <1>1. /\ page' = page /\ stored' = stored /\ due' = due
        /\ db' = IF StoredAnswer(call.cmd.op) # {} THEN db ELSE [after EXCEPT !.answers = @ \cup {new}]
        /\ calls' = (calls \ {call}) \cup IF call.mine THEN {[call EXCEPT !.answer = answer]} ELSE {}
    BY DEF Serve
  <1>2. page \in Pages /\ db \in Days /\ calls \subseteq Calls /\ call \in Calls
    BY DEF OrderInv, OrderShape
  <1>3. after \in Days /\ after.day = db.day /\ after.days = db.days /\ after.open = db.open /\ after.seen = db.seen
        /\ after.over = db.over
        /\ after.answers = db.answers /\ after.lines = IF done THEN db.lines \cup added ELSE db.lines
    <2>1. added \subseteq Ordered
      BY <1>2 DEF Calls, Commands, Lines, Ordered
    <2>2. done => after = [db EXCEPT !.rev = @ + 1, !.lines = @ \cup added]
      OBVIOUS
    <2>3. ~ done => after = db
      OBVIOUS
    <2> HIDE DEF added, done, after
    <2>4. CASE done
      <3>1. after = [db EXCEPT !.rev = db.rev + 1, !.lines = db.lines \cup added]
        BY <2>2, <2>4
      <3>2. /\ after \in Days /\ after.day = db.day /\ after.days = db.days /\ after.open = db.open
            /\ after.seen = db.seen /\ after.over = db.over /\ after.answers = db.answers /\ after.lines = db.lines \cup added
        <4>1. db.lines \cup added \in SUBSET Ordered /\ db.rev + 1 \in Nat
          BY <1>2, <2>1 DEF Days
        <4> DEFINE more == db.lines \cup added
        <4>2. more \in SUBSET Ordered /\ after = [db EXCEPT !.rev = db.rev + 1, !.lines = more]
          BY <3>1, <4>1
        <4>3. more = db.lines \cup added
          OBVIOUS
        <4> HIDE DEF more
        <4>4. /\ after \in Days /\ after.day = db.day /\ after.days = db.days /\ after.open = db.open
              /\ after.seen = db.seen /\ after.over = db.over /\ after.answers = db.answers /\ after.lines = more
          BY <1>2, <4>1, <4>2 DEF Days
        <4> QED
          BY <4>3, <4>4
      <3> QED
        BY <2>4, <3>2
    <2>5. CASE ~ done
      <3>1. after = db
        BY <2>3, <2>5
      <3> QED
        BY <1>2, <2>5, <3>1
    <2> QED
      BY <2>4, <2>5
  <1> HIDE DEF after
  <1>4. new \in Answers /\ new.op = call.cmd.op /\ (new.status = "confirmed" <=> done) /\ new.day = db.day
        /\ new.slips = db.open /\ (done => new.inserted = IdsOf(call.cmd.lines))
    <2>1. {l.id : l \in call.cmd.lines} \subseteq LineId
      BY <1>2 DEF Calls, Commands, Lines
    <2> HIDE DEF done
    <2> QED
      BY <1>2, <1>3, <2>1 DEF Answers, Candidates, Nothing, Days, Calls, Commands, IdsOf
  <1> HIDE DEF new
  <1>5. \A a \in answer : a.op = call.cmd.op /\ a \in Answers
    BY <1>2, <1>4 DEF StoredAnswer, Days
  <1> DEFINE answered == [call EXCEPT !.answer = answer]
  <1>6. answered \in Calls /\ answered.cmd = call.cmd /\ answered.mine = call.mine /\ answered.answer = answer
    <2> HIDE DEF answer
    <2> QED
      BY <1>2, <1>5 DEF Calls
  <1> HIDE DEF answered
  <1>7. /\ calls' \subseteq (calls \ {call}) \cup {answered}
        /\ \A e \in calls' : e \in Calls /\ \E f \in calls : e.cmd = f.cmd /\ (e.mine => f.mine)
    BY <1>1, <1>2, <1>6 DEF answered
  <1>8. LiveCommands' \subseteq LiveCommands
    BY <1>1, <1>7 DEF LiveCommands
  <1>9. /\ db'.day = db.day /\ db'.days = db.days /\ db'.open = db.open /\ db'.seen = db.seen /\ db' \in Days
        /\ db'.over = db.over /\ \A s : Gone(s)' = Gone(s)
        /\ db.answers \subseteq db'.answers /\ db.lines \subseteq db'.lines
    <2>1. CASE StoredAnswer(call.cmd.op) # {}
      BY <1>1, <1>2, <2>1 DEF Gone
    <2>2. CASE StoredAnswer(call.cmd.op) = {}
      <3>1. db' = [after EXCEPT !.answers = @ \cup {new}]
        BY <1>1, <2>2
      <3> HIDE DEF done, added
      <3> QED
        BY <1>3, <1>4, <3>1 DEF Days, Gone
    <2> QED
      BY <2>1, <2>2
  <1>10. OrderShape'
    BY <1>1, <1>7, <1>9 DEF OrderInv, OrderShape
  <1>11. DraftIsPage' /\ QueueAsWanted' /\ Locked'
    BY <1>1, <1>9 DEF OrderInv, DraftIsPage, QueueAsWanted, Locked
  <1>12. OneCommandPerId'
    BY <1>1, <1>7, <1>8, <1>9 DEF OrderInv, OneCommandPerId
  <1>13. \A c : Pending(c)' => Pending(c)
    BY <1>9 DEF Pending
  <1>14. PendingApart'
    BY <1>1, <1>7, <1>13 DEF OrderInv, PendingApart, IdsOf
  <1>15. NothingLost'
    BY <1>1, <1>9 DEF OrderInv, NothingLost
  <1>16. CASE StoredAnswer(call.cmd.op) # {}
    <2>1. db' = db /\ \A a \in answer : a \in db.answers
      BY <1>1, <1>16 DEF StoredAnswer
    <2>2. DaysInOrder'
      BY <1>1, <2>1 DEF OrderInv, DaysInOrder
    <2>3. OrderAnswersTrue'
      <3> HIDE DEF answer
      <3>1. \A e \in calls' : \A a \in e.answer : a \in db.answers /\ a.op = e.cmd.op
        BY <1>5, <1>6, <1>7, <2>1 DEF OrderInv, OrderAnswersTrue
      <3> QED
        BY <1>8, <2>1, <3>1 DEF Gone, OrderInv, OrderAnswersTrue
    <2>4. OrderedApart'
      BY <1>1, <1>7, <1>9, <1>13, <2>1 DEF OrderInv, OrderedApart, NothingTwice, IdsOf
    <2> QED
      BY <1>10, <1>11, <1>12, <1>14, <1>15, <2>2, <2>3, <2>4 DEF OrderInv
  <1>17. CASE StoredAnswer(call.cmd.op) = {}
    <2>1. /\ db'.answers = db.answers \cup {new} /\ answer = {new}
          /\ db'.lines = IF done THEN db.lines \cup added ELSE db.lines
      <3>1. db' = [after EXCEPT !.answers = @ \cup {new}]
        BY <1>1, <1>17
      <3> HIDE DEF done, added
      <3> QED
        BY <1>3, <1>17, <3>1 DEF Days
    <2>2. \A a \in db.answers : a.op # call.cmd.op
      BY <1>17 DEF StoredAnswer
    <2>3. DaysInOrder'
      <3>1. db.day <= db.days
        BY <1>2 DEF OrderInv, DaysInOrder, Days, NoDay
      <3> HIDE DEF done, added
      <3>2. \A a \in db'.answers : a.day <= db.days /\ a.slips \subseteq db.seen
        BY <1>4, <2>1, <3>1 DEF OrderInv, DaysInOrder
      <3> QED
        BY <1>1, <1>9, <3>2 DEF OrderInv, DaysInOrder
    <2>4. done => Pending(call.cmd) /\ call.cmd.day = db.day /\ \A l \in call.cmd.lines : l.key[1] \in db.open
      BY <2>2 DEF Acceptable, Pending, Gone, OrderInv, DaysInOrder
    <2>5. /\ \A x \in db'.lines : x \in db.lines \/ (done /\ x \in added)
          /\ \A x \in added : x.op = call.cmd.op /\ x.id \in IdsOf(call.cmd.lines)
          /\ \A l \in call.cmd.lines : done => [op |-> call.cmd.op, id |-> l.id, n |-> l.n] \in db'.lines
      BY <2>1 DEF IdsOf
    <2>6. \A x, y \in added : x.id = y.id => x = y
      BY DEF OrderInv, OneCommandPerId, LiveCommands
    <2> HIDE DEF done, added, answer
    <2>7. OrderAnswersTrue'
      <3>1. \A a, b \in db'.answers : a.op = b.op => a = b
        BY <1>4, <2>1, <2>2 DEF OrderInv, OrderAnswersTrue
      <3>2. \A e \in calls' : \A a \in e.answer : a \in db'.answers /\ a.op = e.cmd.op
        BY <1>4, <1>6, <1>7, <2>1 DEF OrderInv, OrderAnswersTrue
      <3>3. ASSUME NEW c \in LiveCommands, NEW a \in db'.answers, a.op = c.op, a.status = "confirmed"
            PROVE  /\ a.inserted = IdsOf(c.lines)
                   /\ \A l \in c.lines : [op |-> c.op, id |-> l.id, n |-> l.n] \in db'.lines
                   /\ \A l \in c.lines : l.key[1] \in db'.seen /\ (c.day = db'.day \/ Gone(l.key[1])')
        <4>1. CASE a = new
          <5>1. c = call.cmd /\ done
            BY <1>4, <3>3, <4>1 DEF OrderInv, OneCommandPerId, LiveCommands
          <5> QED
            BY <1>4, <1>9, <2>4, <2>5, <4>1, <5>1 DEF OrderInv, DaysInOrder
        <4>2. CASE a \in db.answers
          BY <1>9, <3>3, <4>2 DEF OrderInv, OrderAnswersTrue
        <4> QED
          BY <2>1, <4>1, <4>2
      <3>4. \A x \in db'.lines : \E a \in db'.answers : a.op = x.op /\ a.status = "confirmed"
        BY <1>4, <2>1, <2>5 DEF OrderInv, OrderAnswersTrue
      <3> QED
        BY <1>8, <3>1, <3>2, <3>3, <3>4 DEF OrderAnswersTrue, IdsOf
    <2>8. OrderedApart'
      <3>1. \A x, y \in db'.lines : x.id = y.id => x = y
        <4>1. \A x \in db.lines, y \in added : done => x.id # y.id
          BY <2>4, <2>5 DEF OrderInv, OrderedApart
        <4> QED
          BY <2>5, <2>6, <4>1 DEF OrderInv, OrderedApart, NothingTwice
      <3>2. ASSUME NEW x \in db'.lines, NEW e \in calls, Pending(e.cmd)'
            PROVE  x.id \notin IdsOf(e.cmd.lines)
        <4>1. Pending(e.cmd) /\ e.cmd.op # call.cmd.op
          BY <1>4, <1>13, <2>1, <3>2 DEF Pending
        <4>2. CASE x \in db.lines
          BY <4>1, <4>2 DEF OrderInv, OrderedApart
        <4>3. CASE done /\ x \in added
          BY <2>4, <2>5, <4>1, <4>3 DEF OrderInv, PendingApart
        <4> QED
          BY <2>5, <4>2, <4>3
      <3>3. ASSUME NEW x \in db'.lines, NEW l \in page.queue, x.id = l.id
            PROVE  Gone(l.key[1]) \/ \E c \in page.cmd : c.op = x.op
        <4>1. CASE x \in db.lines
          BY <3>3, <4>1 DEF OrderInv, OrderedApart
        <4>2. CASE done /\ x \in added
          <5>1. x.id \in IdsOf(page.queue)
            BY <3>3 DEF IdsOf
          <5> QED
            BY <2>4, <2>5, <4>2, <5>1 DEF OrderInv, PendingApart
        <4> QED
          BY <2>5, <4>1, <4>2
      <3> QED
        BY <1>1, <1>7, <1>9, <3>1, <3>2, <3>3 DEF OrderedApart, NothingTwice, IdsOf
    <2> QED
      BY <1>10, <1>11, <1>12, <1>14, <1>15, <2>3, <2>7, <2>8 DEF OrderInv
  <1> QED
    BY <1>16, <1>17

(* What other terminals do never makes a command of a day possible again    *)
(* when that day is over.                                                   *)
LEMMA OtherTerminalStep ==
    ASSUME OrderInv, OtherTerminal
    PROVE  OrderInv'
  <1>1. /\ page' = page /\ stored' = stored /\ calls' = calls /\ due' = due
    BY DEF OtherTerminal
  <1>2. /\ db \in Days /\ db.day \in {NoDay, db.days} /\ db.open \subseteq db.seen
        /\ db.over \subseteq db.seen /\ db.open \cap db.over = {} /\ (db.day = NoDay => db.open = {})
    BY DEF OrderInv, OrderShape, DaysInOrder
  <1>3. /\ db' \in Days /\ db'.lines = db.lines /\ db'.answers = db.answers /\ db.days <= db'.days
        /\ db.seen \subseteq db'.seen /\ db'.open \subseteq db'.seen /\ db'.day \in {NoDay, db'.days}
        /\ db'.over \subseteq db'.seen /\ db'.open \cap db'.over = {} /\ db.over \subseteq db'.over
        /\ db'.day = NoDay => db'.open = {}
        /\ \/ db'.day = db.day /\ db'.days = db.days
           \/ db'.day = NoDay /\ db'.days = db.days /\ db'.over = db.seen
           \/ db.day = NoDay /\ db'.day = db.days + 1
    <2>1. CASE db.day # NoDay /\ \E s \in Slip \ db.over :
                  db' = [db EXCEPT !.open = IF s \in @ THEN @ \ {s} ELSE @ \cup {s},
                                   !.seen = @ \cup {s}, !.rev = @ + 1]
      <3>1. PICK s \in Slip \ db.over :
                db' = [db EXCEPT !.open = IF s \in db.open THEN db.open \ {s} ELSE db.open \cup {s},
                                 !.seen = db.seen \cup {s}, !.rev = db.rev + 1]
        BY <2>1
      <3> DEFINE open == IF s \in db.open THEN db.open \ {s} ELSE db.open \cup {s}
                 seen == db.seen \cup {s}
      <3>2. /\ open \in SUBSET Slip /\ seen \in SUBSET Slip /\ open \subseteq seen /\ open \cap db.over = {}
            /\ db.rev + 1 \in Nat /\ db.seen \subseteq seen
        BY <1>2, <3>1 DEF Days
      <3>3. db' = [db EXCEPT !.open = open, !.seen = seen, !.rev = db.rev + 1]
        BY <3>1
      <3> HIDE DEF open, seen
      <3>4. /\ db' \in Days /\ db'.lines = db.lines /\ db'.answers = db.answers /\ db'.days = db.days
            /\ db'.day = db.day /\ db'.open = open /\ db'.seen = seen /\ db'.over = db.over
        BY <1>2, <3>2, <3>3 DEF Days
      <3> QED
        BY <1>2, <2>1, <3>2, <3>4 DEF Days
    <2>2. CASE db.day # NoDay /\ db.open = {} /\ db' = [db EXCEPT !.day = NoDay, !.over = db.seen]
      <3>1. /\ db' \in Days /\ db'.lines = db.lines /\ db'.answers = db.answers /\ db'.days = db.days
            /\ db'.day = NoDay /\ db'.open = db.open /\ db'.seen = db.seen /\ db'.over = db.seen
        <4> DEFINE over == db.seen
                   none == NoDay
        <4>1. over \in SUBSET Slip /\ none \in 0..MaxDay
          BY <1>2, OrderAssumption DEF Days, NoDay
        <4>2. db' = [db EXCEPT !.day = none, !.over = over]
          BY <2>2
        <4> HIDE DEF over, none
        <4>3. /\ db' \in Days /\ db'.lines = db.lines /\ db'.answers = db.answers /\ db'.days = db.days
              /\ db'.day = none /\ db'.open = db.open /\ db'.seen = db.seen /\ db'.over = over
          BY <1>2, <4>1, <4>2 DEF Days
        <4> QED
          BY <4>3 DEF over, none
      <3> QED
        BY <1>2, <2>2, <3>1 DEF Days
    <2>3. CASE db.day = NoDay /\ db.days < MaxDay
               /\ db' = [db EXCEPT !.day = db.days + 1, !.days = @ + 1, !.rev = 0]
      <3>1. /\ db' \in Days /\ db'.lines = db.lines /\ db'.answers = db.answers /\ db'.days = db.days + 1
            /\ db'.day = db.days + 1 /\ db'.open = db.open /\ db'.seen = db.seen /\ db'.over = db.over
        <4> DEFINE next == db.days + 1
        <4>1. next \in 1..MaxDay /\ next \in 0..MaxDay
          BY <1>2, <2>3, OrderAssumption DEF Days
        <4>2. db' = [db EXCEPT !.day = next, !.days = next, !.rev = 0]
          BY <2>3
        <4> HIDE DEF next
        <4>3. /\ db' \in Days /\ db'.lines = db.lines /\ db'.answers = db.answers /\ db'.days = next
              /\ db'.day = next /\ db'.open = db.open /\ db'.seen = db.seen /\ db'.over = db.over
          BY <1>2, <4>1, <4>2 DEF Days
        <4> QED
          BY <4>3 DEF next
      <3>2. db'.day \in {NoDay, db'.days} /\ db.days <= db'.days /\ (db'.day = NoDay => db'.open = {})
        BY <1>2, <2>3, <3>1 DEF Days
      <3> QED
        BY <1>2, <2>3, <3>1, <3>2
    <2> QED
      BY <2>1, <2>2, <2>3 DEF OtherTerminal
  <1>4. \A s : Gone(s) => Gone(s)'
    BY <1>3 DEF Gone
  <1>5. ASSUME NEW c \in LiveCommands, Pending(c)'
        PROVE  Pending(c)
    <2>1. c \in Commands /\ c.day \in 1..MaxDay /\ c.day <= db.days
      BY DEF OrderInv, OrderShape, LiveCommands, Pages, Calls, Commands, OneCommandPerId
    <2>2. db'.day = db.day
      BY <1>2, <1>3, <1>5, <2>1, OrderAssumption DEF Pending, NoDay, Days
    <2> QED
      BY <1>3, <1>4, <1>5, <2>2 DEF Pending
  <1>6. OrderShape'
    BY <1>1, <1>3 DEF OrderInv, OrderShape
  <1>7. DaysInOrder'
    <2>1. \A n \in Int : n <= db.days => n <= db'.days
      BY <1>2, <1>3 DEF Days
    <2>2. page.day \in Int /\ page.key \in Int /\ \A c \in page.asked : c.day \in Int
      BY OrderAssumption DEF OrderInv, OrderShape, Pages, Options
    <2>3. \A a \in db.answers : a.day \in Int
      BY <1>2, OrderAssumption DEF Days, Answers
    <2>4. page.day <= db'.days /\ page.key <= db'.days /\ page.slips \subseteq db'.seen
      BY <1>3, <2>1, <2>2 DEF OrderInv, DaysInOrder
    <2>5. \A c \in page.asked : c.day <= db'.days /\ c.slips \subseteq db'.seen
      BY <1>3, <2>1, <2>2 DEF OrderInv, DaysInOrder
    <2>6. \A a \in db.answers : a.day <= db'.days /\ a.slips \subseteq db'.seen
      BY <1>3, <2>1, <2>3 DEF OrderInv, DaysInOrder
    <2> QED
      BY <1>1, <1>3, <2>4, <2>5, <2>6 DEF OrderInv, DaysInOrder
  <1>8. DraftIsPage'
    <2>1. ASSUME NEW d \in 1..MaxDay, d <= db.days, d # db.day
          PROVE  d <= db'.days /\ d # db'.day
      BY <1>2, <1>3, <2>1, OrderAssumption DEF Days, NoDay
    <2> QED
      BY <1>1, <2>1 DEF OrderInv, DraftIsPage
  <1>9. QueueAsWanted' /\ Locked'
    BY <1>1 DEF OrderInv, QueueAsWanted, Locked
  <1>10. LiveCommands' = LiveCommands
    BY <1>1 DEF LiveCommands
  <1>11. OneCommandPerId'
    <2>1. \A c \in LiveCommands : c.day <= db'.days
      BY <1>2, <1>3 DEF OrderInv, OrderShape, LiveCommands, Pages, Calls, Commands, OneCommandPerId, Days
    <2> QED
      BY <1>1, <1>10, <2>1 DEF OrderInv, OneCommandPerId
  <1>12. OrderAnswersTrue'
    <2>1. ASSUME NEW c \in LiveCommands, NEW l \in c.lines, l.key[1] \in db.seen,
                 c.day = db.day \/ Gone(l.key[1])
          PROVE  l.key[1] \in db'.seen /\ (c.day = db'.day \/ Gone(l.key[1])')
      <3>1. c.day # NoDay
        BY OrderAssumption DEF OrderInv, OrderShape, LiveCommands, Pages, Calls, Commands, NoDay
      <3> QED
        BY <1>3, <1>4, <2>1, <3>1 DEF Gone
    <2> QED
      BY <1>1, <1>3, <1>10, <2>1 DEF OrderInv, OrderAnswersTrue, IdsOf
  <1>13. OrderedApart'
    <2>1. \A x \in db.lines, call \in calls : Pending(call.cmd)' => x.id \notin IdsOf(call.cmd.lines)
      BY <1>5 DEF OrderInv, OrderedApart, LiveCommands
    <2>2. \A x \in db.lines, l \in page.queue : x.id = l.id => Gone(l.key[1])' \/ \E c \in page.cmd : c.op = x.op
      BY <1>4 DEF OrderInv, OrderedApart
    <2> QED
      BY <1>1, <1>3, <2>1, <2>2 DEF OrderInv, OrderedApart, NothingTwice, Gone, IdsOf
  <1>14. PendingApart'
    <2>1. \A call \in calls : Pending(call.cmd)' => Pending(call.cmd)
      BY <1>5 DEF LiveCommands
    <2> QED
      BY <1>1, <2>1 DEF OrderInv, PendingApart, IdsOf
  <1>15. NothingLost'
    BY <1>1, <1>3 DEF OrderInv, NothingLost
  <1> QED
    BY <1>6, <1>7, <1>8, <1>9, <1>11, <1>12, <1>13, <1>14, <1>15 DEF OrderInv

(* A change of the queue while there is no command. *)
LEMMA QueueChanges ==
    ASSUME OrderInv, page.cmd = {}, page.key # NoDay, db' = db, calls' = calls,
           due' \in [LineId -> Nat],
           NEW p \in Pages, Show(p), p.key = page.key, p.restored = page.restored, p.asked = page.asked,
           p.day = page.day, p.slips = page.slips, p.cmd = {},
           \A x, y \in p.queue : x.id = y.id \/ x.key = y.key => x = y,
           \A l \in p.queue : due'[l.id] = l.n,
           \A l \in p.queue : (\E k \in page.queue : k.id = l.id /\ k.key = l.key)
                              \/ (due[l.id] = 0 /\ \A x \in db.lines : x.id # l.id),
           \A i \in LineId : due'[i] = due[i] \/ \E l \in p.queue \cup page.queue : l.id = i,
           \A i \in LineId : due'[i] > 0 => \/ due'[i] = due[i] /\ \A l \in page.queue : l.id # i
                                            \/ \E l \in p.queue : l.id = i /\ l.n = due'[i]
    PROVE  OrderInv'
  <1>1. page \in Pages /\ stored \in [1..MaxDay -> Drafts] /\ due \in [LineId -> Nat] /\ calls \subseteq Calls
        /\ page.key \in 1..MaxDay
    BY OrderAssumption DEF OrderInv, OrderShape, Pages, NoDay
  <1>2. /\ page' = p /\ stored' \in [1..MaxDay -> Drafts]
        /\ \A d \in 1..MaxDay : d # page.key => stored'[d] = stored[d]
        /\ stored'[page.key].lines = p.queue /\ stored'[page.key].cmd = {}
    BY <1>1, ShowGives
  <1>3. OrderShape'
    BY <1>2 DEF OrderInv, OrderShape
  <1>4. DaysInOrder' /\ DraftIsPage'
    BY SameDay DEF OrderInv, DaysInOrder
  <1>5. QueueAsWanted' /\ Locked'
    BY <1>2 DEF OrderInv, QueueAsWanted, Locked
  <1>6. LiveCommands' = LiveCommands
    BY <1>2 DEF LiveCommands
  <1>7. OneCommandPerId' /\ OrderAnswersTrue'
    <2>1. OneCommandPerId'
      BY <1>2, <1>6 DEF OrderInv, OneCommandPerId
    <2>2. OrderAnswersTrue'
      BY <1>2, <1>6 DEF Gone, OrderInv, OrderAnswersTrue, IdsOf
    <2> QED
      BY <2>1, <2>2
  <1>8. \A c : Pending(c)' = Pending(c)
    BY DEF Pending, Gone
  <1>9. OrderedApart'
    <2>1. ASSUME NEW x \in db.lines, NEW l \in p.queue, x.id = l.id
          PROVE  Gone(l.key[1])
      <3>1. PICK k \in page.queue : k.id = l.id /\ k.key = l.key
        BY <2>1
      <3> QED
        BY <2>1, <3>1 DEF OrderInv, OrderedApart
    <2> QED
      BY <1>2, <1>8, <2>1 DEF OrderInv, OrderedApart, NothingTwice, Gone, IdsOf
  <1>10. ASSUME NEW call \in calls, Pending(call.cmd), NEW k \in call.cmd.lines
         PROVE  /\ k.id \in LineId /\ due[k.id] > 0
                /\ \A l \in p.queue \cup page.queue : l.id # k.id
    <2>1. k.id \in LineId /\ due[k.id] > 0
      BY <1>1, <1>10 DEF OrderInv, PendingApart, Calls, Commands, Lines
    <2>2. \A l \in page.queue : l.id # k.id
      BY <1>10 DEF OrderInv, PendingApart, IdsOf
    <2>3. \A l \in p.queue : l.id # k.id
      BY <2>1, <2>2
    <2> QED
      BY <2>1, <2>2, <2>3
  <1>11. PendingApart'
    <2>1. \A call \in calls : Pending(call.cmd) => IdsOf(call.cmd.lines) \cap IdsOf(p.queue) = {}
      BY <1>10 DEF IdsOf
    <2>2. \A call \in calls : Pending(call.cmd) => \A k \in call.cmd.lines : due'[k.id] > 0
      BY <1>10
    <2> QED
      BY <1>2, <1>8, <2>1, <2>2 DEF OrderInv, PendingApart, IdsOf
  <1>12. NothingLost'
    <2> SUFFICES ASSUME NEW i \in LineId, due'[i] > 0
                 PROVE  \E l \in (db.lines \cup page.queue \cup UNION {stored[d].lines : d \in DOMAIN stored})' :
                            l.id = i /\ l.n = due'[i]
      BY DEF NothingLost
    <2>1. CASE \E l \in p.queue : l.id = i /\ l.n = due'[i]
      BY <1>2, <2>1
    <2>2. CASE due'[i] = due[i] /\ \A l \in page.queue : l.id # i
      <3>1. PICK l \in db.lines \cup page.queue \cup UNION {stored[d].lines : d \in DOMAIN stored} :
                l.id = i /\ l.n = due[i]
        BY <1>1, <2>2 DEF OrderInv, NothingLost
      <3>2. CASE l \in db.lines
        BY <2>2, <3>1, <3>2
      <3>3. CASE l \notin db.lines
        <4>1. PICK d \in 1..MaxDay : l \in stored[d].lines
          BY <1>1, <2>2, <3>1, <3>3
        <4>2. d # page.key
          BY <2>2, <3>1, <4>1, <1>1 DEF OrderInv, DraftIsPage
        <4>3. l \in stored'[d].lines /\ d \in DOMAIN stored'
          BY <1>2, <4>1, <4>2
        <4> QED
          BY <2>2, <3>1, <4>3
      <3> QED
        BY <3>2, <3>3
    <2> QED
      BY <2>1, <2>2
  <1> QED
    BY <1>3, <1>4, <1>5, <1>7, <1>9, <1>11, <1>12 DEF OrderInv

LEMMA AddToQueueStep ==
    ASSUME OrderInv, NEW item \in Item, AddToQueue(item)
    PROVE  OrderInv'
  <1>1. page.cmd = {} /\ page.selected \in page.slips /\ db' = db /\ calls' = calls
    BY DEF AddToQueue, MayChange
  <1>2. PICK line \in LineFor(item) :
            /\ Show([page EXCEPT !.queue = (@ \ Same(item)) \cup {line}, !.busy = FALSE])
            /\ due' = [due EXCEPT ![line.id] = line.n]
    BY DEF AddToQueue
  <1>3. page \in Pages /\ due \in [LineId -> Nat] /\ page.selected \in Slip /\ page.queue \subseteq Lines
    BY <1>1 DEF OrderInv, OrderShape, Pages
  <1> DEFINE key == <<page.selected, item>>
  <1>4. /\ line \in Lines /\ line.key = key
        /\ \/ Same(item) = {} /\ line.id \notin Used
           \/ \E l \in Same(item) : Same(item) = {l} /\ l.id = line.id
    <2>1. CASE Same(item) # {}
      <3>1. PICK l \in Same(item) : line = [l EXCEPT !.n = @ + 1]
        BY <1>2, <2>1 DEF LineFor
      <3>2. l \in Lines /\ l \in page.queue /\ l.key = key
        BY <1>3, <3>1 DEF Same
      <3>3. line \in Lines /\ line.key = l.key /\ line.id = l.id
        BY <3>1, <3>2 DEF Lines
      <3>4. Same(item) = {l}
        BY <3>1 DEF Same, OrderInv, QueueAsWanted
      <3> QED
        BY <3>1, <3>2, <3>3, <3>4
    <2>2. CASE Same(item) = {}
      <3>1. PICK i \in NewId : line = [key |-> key, id |-> i, n |-> 1]
        BY <1>2, <2>2 DEF LineFor
      <3>2. i \in LineId /\ i \notin Used
        BY <3>1 DEF NewId
      <3> QED
        BY <1>3, <2>2, <3>1, <3>2 DEF Lines
    <2> QED
      BY <2>1, <2>2
  <1>5. line.id \in LineId /\ line.n \in Nat /\ line.n > 0
    BY <1>4 DEF Lines
  <1> HIDE DEF key
  <1> DEFINE queue == (page.queue \ Same(item)) \cup {line}
             p == [page EXCEPT !.queue = queue, !.busy = FALSE]
  <1>6. queue \in SUBSET Lines /\ \A l \in queue : l = line \/ (l \in page.queue /\ l \notin Same(item))
    BY <1>3, <1>4
  <1>7. line \in queue /\ \A l \in page.queue : l \in queue \/ l \in Same(item)
    OBVIOUS
  <1>8. Show(p)
    BY <1>2
  <1> HIDE DEF queue
  <1>9. /\ p \in Pages /\ p.key = page.key /\ p.restored = page.restored /\ p.asked = page.asked
        /\ p.day = page.day /\ p.slips = page.slips /\ p.cmd = {} /\ p.queue = queue
    BY <1>1, <1>3, <1>6 DEF Pages
  <1> HIDE DEF p
  <1>10. due' \in [LineId -> Nat] /\ due'[line.id] = line.n /\ \A i \in LineId : i # line.id => due'[i] = due[i]
    BY <1>2, <1>3, <1>5
  <1>11. \A l \in page.queue : l.id = line.id \/ l.key = line.key => l \in Same(item)
    <2>1. ASSUME NEW l \in page.queue, l.key = line.key
          PROVE  l \in Same(item)
      BY <1>4, <2>1 DEF Same, key
    <2>2. ASSUME NEW l \in page.queue, l.id = line.id
          PROVE  l \in Same(item)
      <3>1. l.id \in Used
        BY DEF Used
      <3>2. PICK k \in Same(item) : k.id = line.id
        BY <1>4, <2>2, <3>1
      <3>3. k = l
        BY <2>2, <3>2 DEF Same, OrderInv, QueueAsWanted
      <3> QED
        BY <3>2, <3>3
    <2> QED
      BY <2>1, <2>2
  <1>12. \A l \in Same(item) : l \in page.queue /\ l.id = line.id /\ l.key = line.key
    BY <1>4 DEF Same, key
  <1>13. \A x, y \in queue : x.id = y.id \/ x.key = y.key => x = y
    BY <1>6, <1>11 DEF OrderInv, QueueAsWanted
  <1>14. \A l \in queue : l.id \in LineId /\ due'[l.id] = l.n
    <2> SUFFICES ASSUME NEW l \in queue
                 PROVE  l.id \in LineId /\ due'[l.id] = l.n
      OBVIOUS
    <2>1. CASE l = line
      BY <1>5, <1>10, <2>1
    <2>2. CASE l # line
      <3>1. l \in page.queue /\ l.id # line.id
        BY <1>6, <1>11, <2>2
      <3>2. l.id \in LineId /\ due[l.id] = l.n
        BY <1>3, <3>1 DEF Lines, OrderInv, QueueAsWanted
      <3> QED
        BY <1>10, <3>1, <3>2
    <2> QED
      BY <2>1, <2>2
  <1>15. \A l \in queue : (\E k \in page.queue : k.id = l.id /\ k.key = l.key)
                          \/ (due[l.id] = 0 /\ \A x \in db.lines : x.id # l.id)
    <2>1. CASE Same(item) = {}
      <3>1. due[line.id] = 0 /\ \A x \in db.lines : x.id # line.id
        BY <1>3, <1>4, <1>5, <2>1 DEF Used
      <3> QED
        BY <1>6, <3>1
    <2>2. CASE Same(item) # {}
      BY <1>6, <1>12, <2>2
    <2> QED
      BY <2>1, <2>2
  <1>16. \A i \in LineId : due'[i] = due[i] \/ \E l \in queue \cup page.queue : l.id = i
    BY <1>7, <1>10
  <1>17. ASSUME NEW i \in LineId, due'[i] > 0
         PROVE  \/ due'[i] = due[i] /\ \A l \in page.queue : l.id # i
                \/ \E l \in queue : l.id = i /\ l.n = due'[i]
    <2>1. CASE i = line.id
      BY <1>7, <1>10, <2>1
    <2>2. CASE i # line.id /\ \E l \in page.queue : l.id = i
      <3>1. PICK l \in page.queue : l.id = i
        BY <2>2
      <3>2. l \in queue
        BY <1>7, <1>12, <2>2, <3>1
      <3> QED
        BY <1>14, <3>1, <3>2
    <2>3. CASE i # line.id /\ \A l \in page.queue : l.id # i
      BY <1>10, <2>3
    <2> QED
      BY <2>1, <2>2, <2>3
  <1>18. page.key # NoDay
    BY <1>1 DEF OrderInv, DraftIsPage
  <1> QED
    BY <1>1, <1>8, <1>9, <1>10, <1>13, <1>14, <1>15, <1>16, <1>17, <1>18, QueueChanges

LEMMA TakeOutStep ==
    ASSUME OrderInv, NEW lines, TakeOut(lines)
    PROVE  OrderInv'
  <1>1. /\ page.cmd = {} /\ Rows # {} /\ db' = db /\ calls' = calls
        /\ lines = page.queue \/ \E l \in Rows : lines = {l}
        /\ Show([page EXCEPT !.queue = @ \ lines, !.busy = FALSE])
        /\ due' = [i \in LineId |-> IF \E l \in lines : l.id = i THEN 0 ELSE due[i]]
    BY DEF TakeOut, MayChange
  <1>2. page \in Pages /\ due \in [LineId -> Nat] /\ page.queue \subseteq Lines
    BY DEF OrderInv, OrderShape, Pages
  <1>3. lines \subseteq page.queue
    BY <1>1 DEF Rows
  <1> DEFINE queue == page.queue \ lines
             p == [page EXCEPT !.queue = queue, !.busy = FALSE]
  <1>4. queue \in SUBSET Lines /\ \A l : l \in queue <=> l \in page.queue /\ l \notin lines
    BY <1>2
  <1>5. Show(p)
    BY <1>1
  <1> HIDE DEF queue
  <1>6. /\ p \in Pages /\ p.key = page.key /\ p.restored = page.restored /\ p.asked = page.asked
        /\ p.day = page.day /\ p.slips = page.slips /\ p.cmd = {} /\ p.queue = queue
    BY <1>1, <1>2, <1>4 DEF Pages
  <1> HIDE DEF p
  <1>7. /\ due' \in [LineId -> Nat]
        /\ \A i \in LineId : due'[i] = IF \E l \in lines : l.id = i THEN 0 ELSE due[i]
    BY <1>1, <1>2
  <1>8. \A x, y \in queue : x.id = y.id \/ x.key = y.key => x = y
    BY <1>4 DEF OrderInv, QueueAsWanted
  <1>9. \A l \in queue : l.id \in LineId /\ due'[l.id] = l.n
    <2> SUFFICES ASSUME NEW l \in queue
                 PROVE  l.id \in LineId /\ due'[l.id] = l.n
      OBVIOUS
    <2>1. l \in page.queue /\ l.id \in LineId /\ due[l.id] = l.n
      BY <1>2, <1>4 DEF Lines, OrderInv, QueueAsWanted
    <2>2. \A k \in lines : k.id # l.id
      BY <1>3, <1>4, <2>1 DEF OrderInv, QueueAsWanted
    <2> QED
      BY <1>7, <2>1, <2>2
  <1>10. \A l \in queue : \E k \in page.queue : k.id = l.id /\ k.key = l.key
    BY <1>4
  <1>11. \A i \in LineId : due'[i] = due[i] \/ \E l \in queue \cup page.queue : l.id = i
    BY <1>3, <1>7
  <1>12. ASSUME NEW i \in LineId, due'[i] > 0
         PROVE  \/ due'[i] = due[i] /\ \A l \in page.queue : l.id # i
                \/ \E l \in queue : l.id = i /\ l.n = due'[i]
    <2>1. due'[i] = due[i] /\ \A l \in lines : l.id # i
      BY <1>7, <1>12
    <2>2. CASE \E l \in page.queue : l.id = i
      BY <1>4, <1>9, <2>1, <2>2
    <2> QED
      BY <2>1, <2>2
  <1>13. page.key # NoDay
    BY <1>1 DEF Rows, OrderInv, DraftIsPage
  <1> QED
    BY <1>1, <1>5, <1>6, <1>7, <1>8, <1>9, <1>10, <1>11, <1>12, <1>13, QueueChanges

(* A command is sent again as it is, or a new one is made for the whole     *)
(* queue; none of its lines was ordered if it can be carried out.           *)
LEMMA SubmitStep ==
    ASSUME OrderInv, Submit
    PROVE  OrderInv'
  <1>1. /\ page.day # NoDay /\ (page.cmd # {} \/ Rows # {}) /\ db' = db /\ due' = due
    BY DEF Submit
  <1>2. PICK cmd \in CommandToSend, n \in NewCall :
            /\ Show([page EXCEPT !.cmd = {cmd}, !.busy = TRUE])
            /\ calls' = calls \cup {[n |-> n, cmd |-> cmd, answer |-> {}, mine |-> TRUE]}
    BY DEF Submit
  <1>3. page \in Pages /\ stored \in [1..MaxDay -> Drafts] /\ calls \subseteq Calls /\ db \in Days
    BY DEF OrderInv, OrderShape
  <1>4. page.key # NoDay /\ page.key \in 1..MaxDay
    <2>1. page.key # NoDay
      BY <1>1 DEF Rows, OrderInv, DraftIsPage
    <2> QED
      BY <1>3, <2>1, OrderAssumption DEF Pages, NoDay
  <1>5. /\ cmd \in Commands /\ cmd.lines = page.queue /\ page.queue # {} /\ page.cmd \subseteq {cmd}
        /\ cmd.day <= db.days
        /\ \/ page.cmd = {cmd}
           \/ /\ page.cmd = {} /\ \A c \in LiveCommands : c.op # cmd.op
              /\ \A a \in db.answers : a.op # cmd.op
    <2>1. CASE page.cmd # {}
      <3>1. cmd \in page.cmd
        BY <1>2, <2>1 DEF CommandToSend
      <3>2. cmd \in LiveCommands
        BY <3>1 DEF LiveCommands
      <3> QED
        BY <1>3, <3>1, <3>2 DEF Pages, OrderInv, Locked, OneCommandPerId
    <2>2. CASE page.cmd = {}
      <3>1. PICK op \in NextOp : cmd = [op |-> op, day |-> page.day, rev |-> page.rev, lines |-> page.queue]
        BY <1>2, <2>2 DEF CommandToSend
      <3>2. op \in 1..MaxOp /\ op \notin Ops
        BY <3>1 DEF NextOp
      <3>3. cmd.op = op /\ cmd.day = page.day /\ cmd.lines = page.queue
        BY <3>1
      <3>4. page.day \in 1..MaxDay
        BY <1>1, <1>3, OrderAssumption DEF Pages, NoDay
      <3>5. cmd \in Commands
        BY <1>3, <3>1, <3>2, <3>4 DEF Pages, Commands
      <3>6. page.queue # {}
        BY <1>1, <2>2 DEF Rows
      <3>7. \A c \in LiveCommands : c.op # op
        BY <3>2 DEF Ops, LiveCommands
      <3>8. \A a \in db.answers : a.op # op
        BY <3>2 DEF Ops
      <3>9. cmd.day <= db.days
        BY <3>3 DEF OrderInv, DaysInOrder
      <3> QED
        BY <2>2, <3>3, <3>5, <3>6, <3>7, <3>8, <3>9
    <2> QED
      BY <2>1, <2>2
  <1> DEFINE p == [page EXCEPT !.cmd = {cmd}, !.busy = TRUE]
             sent == [n |-> n, cmd |-> cmd, answer |-> {}, mine |-> TRUE]
  <1>6. /\ p \in Pages /\ p.cmd = {cmd} /\ p.key = page.key /\ p.restored = page.restored
        /\ p.asked = page.asked /\ p.day = page.day /\ p.slips = page.slips /\ p.queue = page.queue
    BY <1>3, <1>5 DEF Pages
  <1>7. Show(p) /\ calls' = calls \cup {sent}
    BY <1>2
  <1>8. sent \in Calls /\ sent.cmd = cmd /\ sent.answer = {} /\ sent.mine
    <2>1. n \in Int
      BY <1>2, OrderAssumption DEF NewCall
    <2> QED
      BY <1>5, <2>1 DEF Calls
  <1> HIDE DEF p, sent
  <1>9. /\ page' = p /\ stored' \in [1..MaxDay -> Drafts]
        /\ \A d \in 1..MaxDay : d # page.key => stored'[d] = stored[d]
        /\ stored'[page.key].lines = page.queue /\ stored'[page.key].cmd = {cmd}
    BY <1>3, <1>4, <1>6, <1>7, ShowGives
  <1>10. OrderShape'
    BY <1>1, <1>6, <1>7, <1>8, <1>9 DEF OrderInv, OrderShape
  <1>11. DaysInOrder' /\ DraftIsPage'
    BY <1>1, <1>4, <1>6, <1>7, SameDay DEF OrderInv, DaysInOrder
  <1>12. QueueAsWanted' /\ Locked'
    <2>1. QueueAsWanted'
      BY <1>1, <1>6, <1>9 DEF OrderInv, QueueAsWanted
    <2>2. ASSUME NEW d \in 1..MaxDay, NEW c \in stored'[d].cmd
          PROVE  c.lines = stored'[d].lines
      <3>1. CASE d = page.key
        BY <1>5, <1>9, <2>2, <3>1
      <3>2. CASE d # page.key
        BY <1>9, <2>2, <3>2 DEF OrderInv, Locked
      <3> QED
        BY <3>1, <3>2
    <2> QED
      BY <1>5, <1>6, <1>9, <2>1, <2>2 DEF Locked
  <1>13. LiveCommands' = LiveCommands \cup {cmd}
    BY <1>5, <1>6, <1>7, <1>8, <1>9 DEF LiveCommands
  <1>14. page.cmd = {cmd} => cmd \in LiveCommands
    BY DEF LiveCommands
  <1>15. OneCommandPerId'
    <2>1. \A c, e \in LiveCommands \cup {cmd} : c.op = e.op => c = e
      BY <1>5, <1>14 DEF OrderInv, OneCommandPerId
    <2>2. \A c \in LiveCommands \cup {cmd} : \A x, y \in c.lines : x.id = y.id => x = y
      BY <1>5 DEF OrderInv, OneCommandPerId, QueueAsWanted
    <2>3. \A call \in calls' : call.mine => {cmd} = {call.cmd}
      BY <1>5, <1>7, <1>8 DEF OrderInv, OneCommandPerId
    <2> QED
      BY <1>1, <1>5, <1>6, <1>9, <1>13, <2>1, <2>2, <2>3 DEF OrderInv, OneCommandPerId
  <1>16. OrderAnswersTrue'
    <2>1. ASSUME NEW c \in LiveCommands \cup {cmd}, NEW a \in db.answers, a.op = c.op
          PROVE  c \in LiveCommands
      BY <1>5, <1>14, <2>1
    <2>2. \A call \in calls' : \A a \in call.answer : a \in db.answers /\ a.op = call.cmd.op
      BY <1>7, <1>8 DEF OrderInv, OrderAnswersTrue
    <2> QED
      BY <1>1, <1>13, <2>1, <2>2 DEF Gone, OrderInv, OrderAnswersTrue, IdsOf
  <1>17. \A c : Pending(c)' = Pending(c)
    BY <1>1 DEF Pending, Gone
  <1>18. OrderedApart'
    <2>1. ASSUME NEW x \in db.lines, Pending(cmd)
          PROVE  x.id \notin IdsOf(page.queue)
      <3> SUFFICES ASSUME NEW l \in page.queue, x.id = l.id
                   PROVE  FALSE
        BY DEF IdsOf
      <3>1. ~ Gone(l.key[1])
        BY <1>5, <2>1 DEF Pending
      <3>2. PICK c \in page.cmd : c.op = x.op
        BY <3>1 DEF OrderInv, OrderedApart
      <3>3. \E a \in db.answers : a.op = cmd.op
        BY <1>5, <3>2 DEF OrderInv, OrderAnswersTrue
      <3> QED
        BY <2>1, <3>3 DEF Pending
    <2>2. \A x \in db.lines, call \in calls' : Pending(call.cmd) => x.id \notin IdsOf(call.cmd.lines)
      BY <1>5, <1>7, <1>8, <2>1 DEF OrderInv, OrderedApart
    <2>3. \A x \in db.lines, l \in page.queue : x.id = l.id => Gone(l.key[1]) \/ \E c \in {cmd} : c.op = x.op
      BY <1>5 DEF OrderInv, OrderedApart
    <2> QED
      BY <1>1, <1>6, <1>9, <1>17, <2>2, <2>3 DEF OrderInv, OrderedApart, NothingTwice, Gone, IdsOf
  <1>19. PendingApart'
    <2>1. \A l \in cmd.lines : due[l.id] > 0
      BY <1>3, <1>5 DEF OrderInv, QueueAsWanted, Pages, Lines
    <2>2. \A e \in calls : Pending(e.cmd) => e.cmd = cmd \/ IdsOf(e.cmd.lines) \cap IdsOf(cmd.lines) = {}
      BY <1>5 DEF OrderInv, PendingApart
    <2>3. \A e \in calls' : e \in calls \/ e.cmd = cmd
      BY <1>7, <1>8
    <2> SUFFICES ASSUME NEW call \in calls', Pending(call.cmd)
                 PROVE  /\ \A l \in call.cmd.lines : due[l.id] > 0
                        /\ call.cmd \in {cmd} \/ IdsOf(call.cmd.lines) \cap IdsOf(page.queue) = {}
                        /\ \A other \in calls' : Pending(other.cmd) /\ other.cmd # call.cmd =>
                            IdsOf(call.cmd.lines) \cap IdsOf(other.cmd.lines) = {}
      BY <1>1, <1>6, <1>9, <1>17 DEF PendingApart, IdsOf
    <2>4. CASE call.cmd = cmd
      <3>1. ASSUME NEW other \in calls', Pending(other.cmd), other.cmd # cmd
            PROVE  IdsOf(cmd.lines) \cap IdsOf(other.cmd.lines) = {}
        BY <2>2, <2>3, <3>1
      <3> QED
        BY <2>1, <2>4, <3>1
    <2>5. CASE call.cmd # cmd
      <3>1. call \in calls /\ IdsOf(call.cmd.lines) \cap IdsOf(cmd.lines) = {}
        BY <2>2, <2>3, <2>5
      <3>2. ASSUME NEW other \in calls', Pending(other.cmd), other.cmd # call.cmd
            PROVE  IdsOf(call.cmd.lines) \cap IdsOf(other.cmd.lines) = {}
        BY <2>3, <3>1, <3>2 DEF OrderInv, PendingApart
      <3> QED
        BY <1>5, <3>1, <3>2 DEF OrderInv, PendingApart
    <2> QED
      BY <2>4, <2>5
  <1>20. NothingLost'
    <2> SUFFICES ASSUME NEW i \in DOMAIN due, due[i] > 0
                 PROVE  \E l \in (db.lines \cup page.queue \cup UNION {stored[d].lines : d \in DOMAIN stored})' :
                            l.id = i /\ l.n = due[i]
      BY <1>1 DEF NothingLost
    <2>1. PICK l \in db.lines \cup page.queue \cup UNION {stored[d].lines : d \in DOMAIN stored} :
              l.id = i /\ l.n = due[i]
      BY DEF OrderInv, NothingLost
    <2>2. \A d \in 1..MaxDay : stored[d].lines \subseteq page.queue \cup stored'[d].lines
      BY <1>4, <1>9 DEF OrderInv, DraftIsPage
    <2>3. l \in (db.lines \cup page.queue \cup UNION {stored[d].lines : d \in DOMAIN stored})'
      BY <1>1, <1>3, <1>6, <1>9, <2>2
    <2> QED
      BY <2>1, <2>3
  <1> QED
    BY <1>10, <1>11, <1>12, <1>15, <1>16, <1>18, <1>19, <1>20 DEF OrderInv

LEMMA OrderStarts ==
    ASSUME DayPassed, OrderInit
    PROVE  OrderInv
  <1>1. PICK open \in SUBSET Slip \ {{}} :
            db = [day |-> 1, days |-> 1, rev |-> 0, open |-> open, seen |-> open, over |-> {}, lines |-> {}, answers |-> {}]
    BY DEF OrderInit
  <1>2. db \in Days /\ db.day = 1 /\ db.days = 1 /\ db.open = db.seen /\ db.over = {} /\ db.lines = {} /\ db.answers = {}
    BY <1>1, OrderAssumption DEF Days
  <1>3. /\ stored = [d \in 1..MaxDay |-> NoDraft] /\ calls = {} /\ due = [i \in LineId |-> 0] /\ page = Fresh
    BY DEF OrderInit
  <1>4. /\ stored \in [1..MaxDay -> Drafts]
        /\ \A d \in 1..MaxDay : stored[d].lines = {} /\ stored[d].cmd = {}
    BY <1>3, NoDraftIsDraft DEF NoDraft
  <1>5. /\ page \in Pages /\ page.key = 1 /\ page.day = 1 /\ page.slips = {} /\ page.asked = {}
        /\ page.restored = 1 /\ page.queue = {} /\ page.cmd = {}
    <2>1. 1 \in 1..MaxDay /\ 1 # NoDay
      BY OrderAssumption DEF NoDay
    <2> QED
      BY <1>2, <1>3, <1>4, <2>1, FreshGives
  <1>6. OrderShape
    BY <1>2, <1>3, <1>4, <1>5 DEF OrderShape
  <1>7. DaysInOrder /\ DraftIsPage
    <2>1. DaysInOrder
      BY <1>2, <1>5 DEF DaysInOrder, NoDay
    <2>2. DraftIsPage
      BY <1>4, <1>5, OrderAssumption DEF DraftIsPage, NoDay
    <2> QED
      BY <2>1, <2>2
  <1>8. QueueAsWanted /\ Locked
    BY <1>4, <1>5 DEF QueueAsWanted, Locked
  <1>9. OneCommandPerId /\ OrderAnswersTrue
    BY <1>2, <1>3, <1>5 DEF OneCommandPerId, OrderAnswersTrue, LiveCommands
  <1>10. OrderedApart /\ PendingApart /\ NothingLost
    BY <1>2, <1>3, <1>5 DEF OrderedApart, PendingApart, NothingLost, NothingTwice
  <1> QED
    BY <1>6, <1>7, <1>8, <1>9, <1>10 DEF OrderInv

LEMMA OrderStands ==
    ASSUME OrderInv, UNCHANGED orderVars
    PROVE  OrderInv'
  <1>1. OrderShape' /\ DaysInOrder' /\ DraftIsPage' /\ QueueAsWanted' /\ Locked'
    BY DEF orderVars, OrderInv, OrderShape, DaysInOrder, DraftIsPage, QueueAsWanted, Locked
  <1>2. OneCommandPerId' /\ OrderAnswersTrue'
    BY DEF Gone, orderVars, OrderInv, OneCommandPerId, LiveCommands, OrderAnswersTrue, IdsOf
  <1>3. OrderedApart'
    BY DEF orderVars, OrderInv, OrderedApart, NothingTwice, Pending, Gone, IdsOf
  <1>4. \A c : Pending(c)' = Pending(c)
    BY DEF orderVars, Pending, Gone
  <1>5. PendingApart'
    BY <1>4 DEF orderVars, OrderInv, PendingApart, IdsOf
  <1>6. NothingLost'
    BY DEF orderVars, OrderInv, NothingLost
  <1> QED
    BY <1>1, <1>2, <1>3, <1>5, <1>6 DEF OrderInv

LEMMA OrderStep ==
    ASSUME DayPassed, OrderInv, OneSubmission, [OrderNext]_orderVars
    PROVE  OrderInv'
  BY SelectStep, AddToQueueStep, TakeOutStep, SubmitStep, ReceiveStep, FailStep, AskOptionsStep, LoadOptionsStep,
     LoadFailsStep, ReloadStep, ServeStep, OtherTerminalStep, OrderStands DEF OrderNext

(* Without a day passed to the page nothing can be typed, so that there is  *)
(* nothing to order and nothing to lose.                                    *)
Idle ==
    /\ db \in Days /\ page \in Pages /\ db.lines = {} /\ calls = {}
    /\ ~ page.form /\ page.queue = {} /\ page.cmd = {}
    /\ stored \in [1..MaxDay -> Drafts] /\ \A d \in 1..MaxDay : stored[d] = NoDraft
    /\ due \in [LineId -> {0}]

(* What an idle page shows leaves it idle. *)
LEMMA IdleShows ==
    ASSUME Idle, db' \in Days, db'.lines = db.lines, calls' = calls, due' = due,
           NEW p \in Pages, Show(p), ~ p.form, p.queue = {}, p.cmd = {}
    PROVE  Idle'
  <1>1. page' = p /\ stored' = Persist(p)
    BY DEF Show
  <1>2. stored' \in [1..MaxDay -> Drafts] /\ \A d \in 1..MaxDay : stored'[d] = NoDraft
    BY <1>1, NoDraftIsDraft DEF Idle, Persist
  <1> QED
    BY <1>1, <1>2 DEF Idle

LEMMA IdleRestores ==
    ASSUME Idle, NEW p \in Pages, ~ p.form, p.queue = {}, p.cmd = {}
    PROVE  Restore(p) \in Pages /\ ~ Restore(p).form /\ Restore(p).queue = {} /\ Restore(p).cmd = {}
  <1>1. p.key # NoDay => stored[p.key] = NoDraft
    BY OrderAssumption DEF Idle, Pages, NoDay
  <1>2. Restore(p) \in {p, [p EXCEPT !.restored = p.key]}
    BY <1>1 DEF Restore
  <1> QED
    BY <1>2 DEF Pages

LEMMA IdleFresh ==
    ASSUME ~ DayPassed
    PROVE  /\ Fresh \in Pages /\ Fresh.queue = {} /\ Fresh.cmd = {} /\ ~ Fresh.form
  <1> DEFINE p == [day |-> NoDay, rev |-> Nothing, slips |-> {}, key |-> NoDay, restored |-> NoDay, queue |-> {},
                   cmd |-> {}, selected |-> NoSlip, asked |-> {}, busy |-> FALSE, form |-> FALSE]
  <1>1. p \in Pages
    BY OrderAssumption DEF Pages, Nothing, NoDay
  <1>2. Fresh = p
    BY DEF Fresh, Rendered, Restore
  <1> QED
    BY <1>1, <1>2

LEMMA IdleDays ==
    ASSUME db \in Days, OtherTerminal
    PROVE  db' \in Days /\ db'.lines = db.lines
  <1>1. ASSUME NEW s \in Slip,
               db' = [db EXCEPT !.open = IF s \in @ THEN @ \ {s} ELSE @ \cup {s},
                                !.seen = @ \cup {s}, !.rev = @ + 1]
        PROVE  db' \in Days /\ db'.lines = db.lines
    <2> DEFINE open == IF s \in db.open THEN db.open \ {s} ELSE db.open \cup {s}
               seen == db.seen \cup {s}
    <2>1. open \in SUBSET Slip /\ seen \in SUBSET Slip /\ db.rev + 1 \in Nat
      BY DEF Days
    <2>2. db' = [db EXCEPT !.open = open, !.seen = seen, !.rev = db.rev + 1]
      BY <1>1
    <2> HIDE DEF open, seen
    <2> QED
      BY <2>1, <2>2 DEF Days
  <1>2. ASSUME db' = [db EXCEPT !.day = NoDay, !.over = db.seen]
        PROVE  db' \in Days /\ db'.lines = db.lines
    <2> DEFINE over == db.seen
               none == NoDay
    <2>1. over \in SUBSET Slip /\ none \in 0..MaxDay
      BY OrderAssumption DEF Days, NoDay
    <2>2. db' = [db EXCEPT !.day = none, !.over = over]
      BY <1>2
    <2> HIDE DEF over, none
    <2> QED
      BY <2>1, <2>2 DEF Days
  <1>3. ASSUME db.days < MaxDay, db' = [db EXCEPT !.day = db.days + 1, !.days = @ + 1, !.rev = 0]
        PROVE  db' \in Days /\ db'.lines = db.lines
    <2> DEFINE next == db.days + 1
    <2>1. next \in 1..MaxDay /\ next \in 0..MaxDay
      BY <1>3, OrderAssumption DEF Days
    <2>2. db' = [db EXCEPT !.day = next, !.days = next, !.rev = 0]
      BY <1>3
    <2> HIDE DEF next
    <2> QED
      BY <2>1, <2>2 DEF Days
  <1> QED
    BY <1>1, <1>2, <1>3 DEF OtherTerminal

LEMMA IdleStep ==
    ASSUME ~ DayPassed, Idle, [OrderNext]_orderVars
    PROVE  Idle'
  <1>1. CASE AskOptions
    <2>1. Candidates(db) \in Options
      BY OrderAssumption DEF Idle, Candidates, Options, Days, Nothing
    <2> QED
      BY <1>1, <2>1 DEF AskOptions, Idle, Pages
  <1>2. CASE LoadOptions
    <2>1. PICK c \in page.asked :
              LET p == [page EXCEPT !.asked = {}, !.day = c.day, !.rev = c.rev, !.busy = FALSE]
                  q == IF c.day = NoDay THEN p ELSE Restore([p EXCEPT !.key = c.day])
              IN  Show(Deselect([q EXCEPT !.slips = c.slips]))
      BY <1>2 DEF LoadOptions
    <2>2. c \in Options /\ page \in Pages /\ ~ page.form /\ page.queue = {} /\ page.cmd = {}
      BY DEF Idle, Pages
    <2> DEFINE p == [page EXCEPT !.asked = {}, !.day = c.day, !.rev = c.rev, !.busy = FALSE]
               moved == [p EXCEPT !.key = c.day]
               q == IF c.day = NoDay THEN p ELSE Restore(moved)
               listed == [q EXCEPT !.slips = c.slips]
    <2>3. p \in Pages /\ ~ p.form /\ p.queue = {} /\ p.cmd = {}
      BY <2>2 DEF Pages, Options
    <2>4. moved \in Pages /\ ~ moved.form /\ moved.queue = {} /\ moved.cmd = {}
      BY <2>2 DEF Pages, Options
    <2>5. Show(Deselect(listed))
      BY <2>1
    <2> HIDE DEF p, moved
    <2>6. q \in Pages /\ ~ q.form /\ q.queue = {} /\ q.cmd = {}
      BY <2>3, <2>4, IdleRestores
    <2> HIDE DEF q
    <2>7. listed \in Pages /\ ~ listed.form /\ listed.queue = {} /\ listed.cmd = {}
      BY <2>2, <2>6 DEF Pages, Options
    <2> HIDE DEF listed
    <2>8. /\ Deselect(listed) \in Pages /\ ~ Deselect(listed).form
          /\ Deselect(listed).queue = {} /\ Deselect(listed).cmd = {}
      BY <2>7 DEF Deselect, Pages
    <2> QED
      BY <1>2, <2>5, <2>8, IdleShows DEF LoadOptions, Idle
  <1>3. CASE LoadFails
    BY <1>3 DEF LoadFails, Idle, Pages
  <1>4. CASE Reload
    <2>1. calls' = calls
      BY <1>4 DEF Reload, Idle
    <2> QED
      BY <1>4, <2>1, IdleFresh, IdleShows DEF Reload, Idle
  <1>5. CASE OtherTerminal
    <2>1. /\ page' = page /\ stored' = stored /\ calls' = calls /\ due' = due
      BY <1>5 DEF OtherTerminal
    <2>2. db' \in Days /\ db'.lines = {}
      BY <1>5, IdleDays DEF Idle
    <2> QED
      BY <2>1, <2>2 DEF Idle
  <1>6. CASE UNCHANGED orderVars
    BY <1>6 DEF orderVars, Idle
  <1>7. ~ \E s \in Slip : Select(s)
    BY DEF Idle, Select
  <1>8. ~ \E item \in Item : AddToQueue(item)
    BY DEF Idle, AddToQueue
  <1>9. ~ \E lines \in {page.queue} \cup {{l} : l \in page.queue} : TakeOut(lines)
    BY DEF Idle, TakeOut
  <1>10. ~ Submit
    BY DEF Idle, Submit
  <1>11. calls = {}
    BY DEF Idle
  <1> QED
    BY <1>1, <1>2, <1>3, <1>4, <1>5, <1>6, <1>7, <1>8, <1>9, <1>10, <1>11 DEF OrderNext

LEMMA IdleStarts ==
    ASSUME ~ DayPassed, OrderInit
    PROVE  Idle
  <1>1. PICK open \in SUBSET Slip \ {{}} :
            db = [day |-> 1, days |-> 1, rev |-> 0, open |-> open, seen |-> open, over |-> {}, lines |-> {},
                  answers |-> {}]
    BY DEF OrderInit
  <1>2. db \in Days /\ db.lines = {}
    BY <1>1, OrderAssumption DEF Days
  <1>3. stored \in [1..MaxDay -> Drafts] /\ \A d \in 1..MaxDay : stored[d] = NoDraft
    BY NoDraftIsDraft DEF OrderInit
  <1> QED
    BY <1>2, <1>3, IdleFresh DEF OrderInit, Idle

(* What the user puts into the order queue is ordered once or still there,  *)
(* in the quantity shown, and the queue is locked while a result is not     *)
(* known: as long as the page does not send while it waits for an answer    *)
(* (order-entry.js, persistDraft and the submit listener).                  *)
THEOREM PiecesOrderedOnce == OrderSpec /\ []OneSubmission => []OrderedOnce
  <1>1. CASE DayPassed
    <2>1. OrderInit => OrderInv
      BY <1>1, OrderStarts
    <2>2. OrderInv /\ OneSubmission /\ [OrderNext]_orderVars => OrderInv'
      BY <1>1, OrderStep
    <2>3. OrderInv => OrderedOnce
      BY DEF OrderInv, OrderedApart, Locked, OrderShape, OrderedOnce, LockedWhileUnknown
    <2> QED
      BY <2>1, <2>2, <2>3, PTL DEF OrderSpec
  <1>2. CASE ~ DayPassed
    <2>1. OrderInit => Idle
      BY <1>2, IdleStarts
    <2>2. Idle /\ [OrderNext]_orderVars => Idle'
      BY <1>2, IdleStep
    <2>3. Idle => OrderedOnce
      BY DEF Idle, OrderedOnce, NothingLost, NothingTwice, LockedWhileUnknown, NoDraft
    <2> QED
      BY <2>1, <2>2, <2>3, PTL DEF OrderSpec
  <1> QED
    BY <1>1, <1>2

-----------------------------------------------------------------------------
(***************************************************************************)
(* Receipts, for any number of receipts, commands, versions and faults, and *)
(* any window of an answer. The invariant has four parts. OnceInv: what was *)
(* processed by a command is not open, so that no second command finds it   *)
(* open. ReachInv: an answer that waits to be shown still lists every open  *)
(* receipt within its reach; a receipt that it does not list was sent or    *)
(* processed since. KeptInv, while no write has failed: the command under   *)
(* way is the head of the outbox, and what waits for a write or was kept is *)
(* in the outbox until it is answered. TrueInv, while no answer was         *)
(* deleted: a command that was carried out has the one answer that says so, *)
(* and a failed one an answer that refuses.                                 *)
(***************************************************************************)

Status == {"open", "done"}
SomeCommand == [id : Nat, doc : Doc, version : Nat, formed : BOOLEAN]
SomeItem == [doc : Doc, version : Nat]
SomePayload == [items : SUBSET SomeItem, cursor : Nat]
SomeAnswer == [id : Nat, status : {"confirmed", "rejected"}, payload : SomePayload]
Box == [pending : Seq(SomeCommand), failed : Seq(SomeCommand)]
SomeView == [current : {NoItem} \cup SomeItem, buffer : SUBSET SomeItem, cursor : Nat, editing : Nat, started : BOOLEAN]
SomeLoad ==
    {NoLoad} \cup [state : {"going"}, cursor : Nat] \cup [state : {"answered"}, cursor : Nat, payload : SomePayload]
SomeFlight ==
    {NoFlight} \cup [state : {"going"}, command : SomeCommand] \cup [state : {"saving"}]
        \cup [state : {"answered"}, command : SomeCommand, answer : SomeAnswer]
SomeWrite == [kind : {"queue"}, id : Nat, before : Box, editing : Nat] \cup [kind : {"pump", "withdraw"}]
History ==
    [faults : Nat, made : Nat, accepted : SUBSET Nat, answered : SUBSET Nat, unwritten : BOOLEAN, forgotten : BOOLEAN]

TypeInv ==
    /\ receipts \in [docs : [Doc -> [version : Nat, status : Status]], done : SUBSET SomeCommand, answers : SUBSET SomeAnswer]
    /\ disk \in Box /\ outbox \in Box
    /\ view \in SomeView /\ load \in SomeLoad /\ flight \in SomeFlight
    /\ timer \in BOOLEAN /\ writes \in Seq(SomeWrite) /\ late \in SUBSET SomeCommand
    /\ hist \in History

-----------------------------------------------------------------------------
(* The queue of receipts. *)

LEMMA LeastListed ==
    ASSUME NEW items, items \subseteq SomeItem, items # {}
    PROVE  Least(items) \in items
<1> DEFINE docs == DocsOf(items)
<1>1. docs \subseteq Nat /\ docs # {}
  BY DEF DocsOf, SomeItem, Doc
<1>2. PICK d \in docs : \A e \in docs : ~ (<<e, d>> \in OpToRel(<, Nat))
  BY <1>1, WFMin, NatLessThanWellFounded
<1>3. ASSUME NEW e \in docs PROVE d <= e
  <2>1. e \in Nat /\ d \in Nat
    BY <1>1
  <2>2. ~ e < d
    BY <1>2, <2>1 DEF OpToRel
  <2>q. QED BY <2>1, <2>2
<1>4. PICK item \in items : item.doc = d
  BY DEF DocsOf
<1>5. \A other \in items : item.doc <= other.doc
  BY <1>3, <1>4 DEF DocsOf
<1>q. QED BY <1>5 DEF Least

LEMMA PayloadTyped ==
    ASSUME NEW docs \in [Doc -> [version : Nat, status : Status]], NEW cursor \in Nat
    PROVE  Payload(docs, cursor) \in SomePayload
<1> DEFINE open == {d \in Doc : d > cursor /\ docs[d].status = "open"}
           last == {d \in open : Cardinality({e \in open : e <= d}) = Window}
           resume == IF last = {} THEN 0 ELSE CHOOSE d \in last : TRUE
           items == {[doc |-> d, version |-> docs[d].version] : d \in {d \in open : resume = 0 \/ d <= resume}}
<1>1. resume \in Nat
  <2>1. last \subseteq Nat
    BY DEF Doc
  <2> HIDE DEF last
  <2>q. QED BY <2>1
<1>2. items \subseteq SomeItem
  <2> SUFFICES ASSUME NEW d \in Doc PROVE [doc |-> d, version |-> docs[d].version] \in SomeItem
    OBVIOUS
  <2>q. QED BY DEF SomeItem
<1>3. Payload(docs, cursor) = [items |-> items, cursor |-> resume]
  BY DEF Payload
<1> HIDE DEF items, resume
<1>q. QED BY <1>1, <1>2, <1>3 DEF SomePayload

(* An answer lists every open receipt that it reaches. *)
Reaches(cursor, payload) == \A d \in Doc : Open(d) /\ ~ OutOfReach(d, cursor, payload) => d \in DocsOf(payload.items)

LEMMA PayloadReaches ==
    ASSUME NEW docs, NEW cursor, NEW d \in Doc, docs[d].status = "open", ~ OutOfReach(d, cursor, Payload(docs, cursor)), cursor \in Nat
    PROVE  d \in DocsOf(Payload(docs, cursor).items)
<1> DEFINE open == {e \in Doc : e > cursor /\ docs[e].status = "open"}
           last == {e \in open : Cardinality({x \in open : x <= e}) = Window}
           resume == IF last = {} THEN 0 ELSE CHOOSE e \in last : TRUE
           first == {e \in open : resume = 0 \/ e <= resume}
           items == {[doc |-> e, version |-> docs[e].version] : e \in first}
<1>1. Payload(docs, cursor) = [items |-> items, cursor |-> resume]
  BY DEF Payload
<1>2. resume \in Nat
  <2>1. last \subseteq Nat
    BY DEF Doc
  <2> HIDE DEF last
  <2>q. QED BY <2>1
<1> HIDE DEF items, resume
<1>3. Payload(docs, cursor).cursor = resume /\ Payload(docs, cursor).items = items
  BY <1>1
<1>4. d > cursor /\ (resume = 0 \/ d <= resume)
  BY <1>2, <1>3 DEF OutOfReach, Doc
<1>5. d \in first
  BY <1>4
<1>6. [doc |-> d, version |-> docs[d].version] \in items
  BY <1>5 DEF items
<1>q. QED BY <1>3, <1>6 DEF DocsOf

-----------------------------------------------------------------------------
(* Every value has its type. *)

LEMMA ShowTyped ==
    ASSUME NEW v \in SomeView, NEW items, items \subseteq SomeItem
    PROVE  TakeFirst(v, items) \in SomeView
<1>1. CASE items = {}
  BY <1>1 DEF TakeFirst, SomeView
<1>2. CASE items # {}
  <2>1. Least(items) \in SomeItem
    BY <1>2, LeastListed
  <2>2. TakeFirst(v, items) = [v EXCEPT !.current = Least(items), !.buffer = items \ {Least(items)}]
    BY <1>2 DEF TakeFirst
  <2>q. QED BY <2>1, <2>2 DEF SomeView
<1>q. QED BY <1>1, <1>2

LEMMA MergeTyped ==
    ASSUME NEW v \in SomeView, NEW box, NEW payload \in SomePayload
    PROVE  Merge(v, box, payload) \in SomeView
<1> DEFINE unavailable == Docs(box.pending) \cup Docs(box.failed)
           items == {item \in payload.items : item.doc \notin unavailable /\ item.doc # v.current.doc}
           next == [v EXCEPT !.buffer = items, !.cursor = payload.cursor]
<1>1. items \subseteq SomeItem /\ payload.cursor \in Nat
  BY DEF SomePayload
<1>2. Merge(v, box, payload) = next \/ Merge(v, box, payload) = TakeFirst(next, items)
  BY DEF Merge
<1> HIDE DEF items
<1>3. next \in SomeView
  BY <1>1 DEF SomeView
<1>q. QED BY <1>1, <1>2, <1>3, ShowTyped

LEMMA PumpTyped ==
    ASSUME NEW box \in Box, NEW now \in SomeFlight
    PROVE  Pump(box, now) \in SomeFlight
<1>1. box.pending # <<>> => Head(box.pending) \in SomeCommand
  BY DEF Box
<1>q. QED BY <1>1 DEF Pump, SomeFlight

LEMMA NotFlying == NoFlight \in SomeFlight /\ NoLoad \in SomeLoad
BY DEF SomeFlight, SomeLoad

LEMMA LoadQueueTyped ==
    ASSUME NEW cursor \in Nat, load \in SomeLoad
    PROVE  LoadQueue(cursor) \in SomeLoad
BY DEF LoadQueue, SomeLoad

LEMMA Removed ==
    ASSUME NEW S, NEW s \in Seq(S), NEW i \in DOMAIN s
    PROVE  RemoveAt(s, i) \in Seq(S) /\ ToSet(RemoveAt(s, i)) \subseteq ToSet(s)
<1> DEFINE front == SubSeq(s, 1, i - 1)
           back == SubSeq(s, i + 1, Len(s))
<1>1. i \in 1..Len(s) /\ Len(s) \in Nat
  OBVIOUS
<1>2. /\ front \in Seq(S) /\ Len(front) = i - 1 /\ \A j \in 1..(i - 1) : front[j] = s[j]
      /\ back \in Seq(S) /\ Len(back) = Len(s) - i /\ \A j \in 1..(Len(s) - i) : back[j] = s[i + j]
  BY <1>1
<1> HIDE DEF front, back
<1>3. RemoveAt(s, i) = front \o back
  BY DEF RemoveAt, front, back
<1>4. ASSUME NEW j \in DOMAIN (front \o back) PROVE (front \o back)[j] \in ToSet(s)
  <2>1. j \in 1..(Len(s) - 1)
    BY <1>1, <1>2
  <2>2. CASE j <= i - 1
    <3>1. (front \o back)[j] = s[j] /\ j \in DOMAIN s
      BY <1>1, <1>2, <2>1, <2>2
    <3>q. QED BY <3>1 DEF ToSet
  <2>3. CASE j > i - 1
    <3>1. (front \o back)[j] = s[j + 1] /\ j + 1 \in DOMAIN s
      BY <1>1, <1>2, <2>1, <2>3
    <3>q. QED BY <3>1 DEF ToSet
  <2>q. QED BY <1>1, <2>1, <2>2, <2>3
<1>q. QED BY <1>2, <1>3, <1>4 DEF ToSet

LEMMA SplicedRemoves ==
    ASSUME NEW failed \in Seq(SomeCommand), NEW i
    PROVE  Spliced(failed, i) \in Seq(SomeCommand) /\ ToSet(Spliced(failed, i)) \subseteq ToSet(failed)
BY Removed DEF Spliced

(* What the procedure does with a command. *)
LEMMA AdvanceGives ==
    ASSUME TypeInv, NEW command \in SomeCommand, NEW ok \in BOOLEAN, Stored(command) = {}
    PROVE  \E docs, answer :
             /\ Advance(command, ok).docs = docs /\ docs \in [Doc -> [version : Nat, status : Status]]
             /\ Advance(command, ok).answers = receipts.answers \cup {answer} /\ answer \in SomeAnswer
             /\ DOMAIN Advance(command, ok) = {"docs", "done", "answers"}
             /\ answer.id = command.id /\ answer.payload = Payload(docs, 0)
             /\ \/ /\ answer.status = "confirmed" /\ Open(command.doc)
                   /\ Advance(command, ok).done = receipts.done \cup {command}
                   /\ docs[command.doc].status = "done" /\ \A d \in Doc : d # command.doc => docs[d] = receipts.docs[d]
                \/ answer.status = "rejected" /\ docs = receipts.docs /\ Advance(command, ok).done = receipts.done
<1> DEFINE accepted == receipts.docs[command.doc].version = command.version /\ PendingReceipt(command.doc) /\ ok
<1>1. PICK docs : docs = IF accepted THEN [receipts.docs EXCEPT ![command.doc].status = "done"] ELSE receipts.docs
  OBVIOUS
<1>2. PICK answer : answer = [id |-> command.id, status |-> IF accepted THEN "confirmed" ELSE "rejected", payload |-> Payload(docs, 0)]
  OBVIOUS
<1>3. Advance(command, ok) = [docs |-> docs, done |-> IF accepted THEN receipts.done \cup {command} ELSE receipts.done,
                              answers |-> receipts.answers \cup {answer}]
  BY <1>1, <1>2 DEF Advance
<1>4. receipts.docs \in [Doc -> [version : Nat, status : Status]] /\ command.doc \in Doc /\ command.id \in Nat
  BY DEF TypeInv, SomeCommand
<1>5. docs \in [Doc -> [version : Nat, status : Status]]
  <2>1. "done" \in Status
    BY DEF Status
  <2>2. CASE accepted
    BY <1>1, <1>4, <2>1, <2>2
  <2>3. CASE ~ accepted
    BY <1>1, <1>4, <2>3
  <2>q. QED BY <2>2, <2>3
<1>6. answer \in SomeAnswer
  <2>1. Payload(docs, 0) \in SomePayload
    BY <1>5, PayloadTyped
  <2>q. QED BY <1>2, <1>4, <2>1 DEF SomeAnswer
<1>7. /\ Advance(command, ok).docs = docs /\ Advance(command, ok).answers = receipts.answers \cup {answer}
      /\ DOMAIN Advance(command, ok) = {"docs", "done", "answers"}
      /\ answer.id = command.id /\ answer.payload = Payload(docs, 0)
  BY <1>2, <1>3
<1>8. CASE accepted
  <2>1. Advance(command, ok).done = receipts.done \cup {command} /\ answer.status = "confirmed" /\ Open(command.doc)
    BY <1>2, <1>3, <1>8 DEF PendingReceipt
  <2>2. docs[command.doc].status = "done" /\ \A d \in Doc : d # command.doc => docs[d] = receipts.docs[d]
    BY <1>1, <1>4, <1>8
  <2>q. QED BY <1>5, <1>6, <1>7, <2>1, <2>2
<1>9. CASE ~ accepted
  <2>1. Advance(command, ok).done = receipts.done /\ answer.status = "rejected" /\ docs = receipts.docs
    BY <1>1, <1>2, <1>3, <1>9
  <2>q. QED BY <1>5, <1>6, <1>7, <2>1
<1>q. QED BY <1>8, <1>9

LEMMA WriteTyped ==
    /\ \A id \in Nat, before \in Box, editing \in Nat : [kind |-> "queue", id |-> id, before |-> before, editing |-> editing] \in SomeWrite
    /\ [kind |-> "pump"] \in SomeWrite /\ [kind |-> "withdraw"] \in SomeWrite
BY DEF SomeWrite

LEMMA Types ==
    ASSUME TypeInv
    PROVE  /\ receipts.docs \in [Doc -> [version : Nat, status : Status]] /\ receipts.done \subseteq SomeCommand /\ receipts.answers \subseteq SomeAnswer
           /\ DOMAIN receipts = {"docs", "done", "answers"}
           /\ outbox.pending \in Seq(SomeCommand) /\ outbox.failed \in Seq(SomeCommand) /\ DOMAIN outbox = {"pending", "failed"}
           /\ disk.pending \in Seq(SomeCommand) /\ disk.failed \in Seq(SomeCommand)
           /\ view.current \in {NoItem} \cup SomeItem /\ view.buffer \subseteq SomeItem /\ view.cursor \in Nat /\ view.editing \in Nat
           /\ DOMAIN view = {"current", "buffer", "cursor", "editing", "started"}
           /\ hist.made \in Nat /\ hist.faults \in Nat /\ hist.accepted \subseteq Nat /\ hist.answered \subseteq Nat
           /\ DOMAIN hist = {"faults", "made", "accepted", "answered", "unwritten", "forgotten"}
BY DEF TypeInv, Box, SomeView, History

LEMMA PressTyped == ASSUME TypeInv, NEW formed \in BOOLEAN, Press(formed) PROVE TypeInv'
<1>1. PICK command : command = [id |-> NextId, doc |-> view.current.doc, version |-> view.current.version, formed |-> formed]
  OBVIOUS
<1>2. /\ outbox' = [pending |-> Append(outbox.pending, command), failed |-> Spliced(outbox.failed, view.editing)]
      /\ writes' = Append(writes, [kind |-> "queue", id |-> NextId, before |-> outbox, editing |-> view.editing])
      /\ hist' = [hist EXCEPT !.made = @ + 1]
      /\ UNCHANGED <<receipts, disk, view, load, flight, timer, late>>
  BY <1>1 DEF Press
<1>3. command \in SomeCommand
  <2>1. view.current \in SomeItem /\ NextId \in Nat
    BY Types DEF Press, NextId
  <2>q. QED BY <1>1, <2>1 DEF SomeCommand, SomeItem
<1>4. outbox' \in Box
  <2>1. Append(outbox.pending, command) \in Seq(SomeCommand)
    BY <1>3, Types
  <2>q. QED BY <1>2, <2>1, Types, SplicedRemoves DEF Box
<1>5. writes' \in Seq(SomeWrite)
  <2>1. NextId \in Nat /\ outbox \in Box /\ view.editing \in Nat
    BY Types DEF TypeInv, NextId
  <2>2. [kind |-> "queue", id |-> NextId, before |-> outbox, editing |-> view.editing] \in SomeWrite
    BY <2>1, WriteTyped
  <2>q. QED BY <1>2, <2>2 DEF TypeInv
<1>6. hist' \in History
  <2>1. hist' = [hist EXCEPT !.made = @ + 1]
    BY <1>2
  <2>2. hist \in History
    BY DEF TypeInv
  <2>q. QED BY <2>1, <2>2 DEF History
<1>q. QED BY <1>2, <1>4, <1>5, <1>6 DEF TypeInv

LEMMA MoveTyped == ASSUME TypeInv, NEW v \in SomeView, MoveNext(v) PROVE view' \in SomeView /\ load' \in SomeLoad
<1>1. v.buffer \subseteq SomeItem /\ v.cursor \in Nat
  BY DEF SomeView
<1>q. QED BY <1>1, ShowTyped, LoadQueueTyped DEF MoveNext, TypeInv

LEMMA NotEditing == ASSUME TypeInv PROVE [view EXCEPT !.editing = 0] \in SomeView
BY DEF TypeInv, SomeView

LEMMA SkipTyped == ASSUME TypeInv, Skip PROVE TypeInv'
<1>1. view' \in SomeView /\ load' \in SomeLoad
  BY MoveTyped, NotEditing DEF Skip
<1>q. QED BY <1>1 DEF Skip, TypeInv

LEMMA EditTyped == ASSUME TypeInv, NEW i \in 1..MaxCommand, EditFailed(i) PROVE TypeInv'
<1>1. i \in DOMAIN outbox.failed /\ i \in Nat
  BY DEF EditFailed
<1>2. outbox.failed[i] \in SomeCommand
  BY <1>1, Types
<1>3. PICK item : item = [doc |-> outbox.failed[i].doc, version |-> outbox.failed[i].version]
  OBVIOUS
<1>4. item \in SomeItem
  BY <1>2, <1>3 DEF SomeCommand, SomeItem
<1>5. view' = [view EXCEPT !.editing = i, !.current = item]
  BY <1>3 DEF EditFailed
<1>6. view' \in SomeView
  BY <1>1, <1>4, <1>5 DEF TypeInv, SomeView
<1>q. QED BY <1>6 DEF EditFailed, TypeInv

LEMMA WithdrawTyped == ASSUME TypeInv, NEW i, WithdrawFailed(i) PROVE TypeInv'
<1>1. RemoveAt(outbox.failed, i) \in Seq(SomeCommand)
  BY Types, Removed DEF WithdrawFailed
<1>2. outbox' \in Box
  BY <1>1, Types DEF WithdrawFailed, TypeInv, Box
<1>3. writes' \in Seq(SomeWrite)
  BY WriteTyped DEF WithdrawFailed, TypeInv
<1>q. QED BY <1>2, <1>3 DEF WithdrawFailed, TypeInv

LEMMA StopTyped == ASSUME TypeInv, Stop(outbox) PROVE timer' \in BOOLEAN /\ flight' \in SomeFlight
BY PumpTyped, NotFlying DEF Stop, TypeInv

LEMMA HeadTyped == ASSUME TypeInv, writes # <<>> PROVE Head(writes) \in SomeWrite /\ Tail(writes) \in Seq(SomeWrite)
BY DEF TypeInv

LEMMA WroteTyped == ASSUME TypeInv, Wrote PROVE TypeInv'
<1>1. PICK w \in SomeWrite : w = Head(writes)
  BY HeadTyped DEF Wrote
<1>2. writes' \in Seq(SomeWrite) /\ disk' = outbox /\ UNCHANGED <<receipts, outbox, late>>
  BY HeadTyped DEF Wrote
<1>3. CASE w.kind = "queue"
  <2>1. /\ MoveNext([view EXCEPT !.editing = 0]) /\ flight' = Pump(outbox, flight) /\ timer' = timer
        /\ hist' = [hist EXCEPT !.accepted = @ \cup {w.id}]
    BY <1>1, <1>3 DEF Wrote
  <2>2. view' \in SomeView /\ load' \in SomeLoad
    BY <2>1, MoveTyped, NotEditing
  <2>3. flight' \in SomeFlight
    BY <2>1, PumpTyped DEF TypeInv
  <2>4. w.id \in Nat
    BY <1>3 DEF SomeWrite
  <2>5. hist' \in History
    BY <2>1, <2>4 DEF TypeInv, History
  <2>q. QED BY <1>2, <2>1, <2>2, <2>3, <2>5 DEF TypeInv
<1>4. CASE w.kind = "pump"
  <2>1. Stop(outbox) /\ UNCHANGED <<view, load, hist>>
    BY <1>1, <1>4 DEF Wrote
  <2>q. QED BY <1>2, <2>1, StopTyped DEF TypeInv
<1>5. CASE w.kind = "withdraw"
  <2>1. UNCHANGED <<view, load, flight, timer, hist>>
    BY <1>1, <1>5 DEF Wrote
  <2>q. QED BY <1>2, <2>1 DEF TypeInv
<1>6. w.kind \in {"queue", "pump", "withdraw"}
  BY DEF SomeWrite
<1>q. QED BY <1>3, <1>4, <1>5, <1>6

LEMMA FaultTyped ==
    ASSUME TypeInv
    PROVE  /\ FaultCounted(hist) => hist' \in History
           /\ FaultCounted([hist EXCEPT !.unwritten = TRUE]) => hist' \in History /\ hist'.unwritten
           /\ FaultCounted([hist EXCEPT !.forgotten = TRUE]) => hist' \in History /\ hist'.forgotten
<1>1. ASSUME NEW h \in History, FaultCounted(h)
      PROVE  hist' \in History /\ hist'.unwritten = h.unwritten /\ hist'.forgotten = h.forgotten
  <2>1. hist' = [h EXCEPT !.faults = h.faults + 1]
    BY <1>1 DEF FaultCounted
  <2>2. h.faults \in Nat
    BY DEF History
  <2>q. QED BY <2>1, <2>2 DEF History
<1>2. /\ hist \in History
      /\ [hist EXCEPT !.unwritten = TRUE] \in History /\ [hist EXCEPT !.unwritten = TRUE].unwritten
      /\ [hist EXCEPT !.forgotten = TRUE] \in History /\ [hist EXCEPT !.forgotten = TRUE].forgotten
  BY DEF TypeInv, History
<1>q. QED BY <1>1, <1>2

LEMMA WriteFailedTyped == ASSUME TypeInv, WriteFailed PROVE TypeInv'
<1>1. PICK w \in SomeWrite : w = Head(writes)
  BY HeadTyped DEF WriteFailed
<1>2. writes' \in Seq(SomeWrite) /\ hist' \in History /\ UNCHANGED <<receipts, disk, load, late>>
  BY HeadTyped, FaultTyped DEF WriteFailed
<1>3. CASE w.kind = "queue"
  <2>1. outbox' = w.before /\ view' = [view EXCEPT !.editing = w.editing] /\ UNCHANGED <<flight, timer>>
    BY <1>1, <1>3 DEF WriteFailed
  <2>2. w.before \in Box /\ w.editing \in Nat
    BY <1>3 DEF SomeWrite
  <2>3. view' \in SomeView
    BY <2>1, <2>2 DEF TypeInv, SomeView
  <2>q. QED BY <1>2, <2>1, <2>2, <2>3, FaultTyped DEF TypeInv
<1>4. CASE w.kind = "pump"
  <2>1. /\ timer' = Retry(outbox) /\ flight' = IF timer' THEN NoFlight ELSE Pump(outbox, NoFlight)
        /\ UNCHANGED <<outbox, view>>
    BY <1>1, <1>4 DEF WriteFailed
  <2>2. timer' \in BOOLEAN /\ flight' \in SomeFlight
    BY <2>1, PumpTyped, NotFlying DEF TypeInv, Retry
  <2>q. QED BY <1>2, <2>1, <2>2, FaultTyped DEF TypeInv
<1>5. CASE w.kind = "withdraw"
  <2>1. UNCHANGED <<outbox, view, flight, timer>>
    BY <1>1, <1>5 DEF WriteFailed
  <2>q. QED BY <1>2, <2>1, FaultTyped DEF TypeInv
<1>6. w.kind \in {"queue", "pump", "withdraw"}
  BY DEF SomeWrite
<1>q. QED BY <1>3, <1>4, <1>5, <1>6

LEMMA AdvanceTyped ==
    ASSUME TypeInv, NEW command \in SomeCommand, NEW ok \in BOOLEAN
    PROVE  Advance(command, ok) \in [docs : [Doc -> [version : Nat, status : Status]], done : SUBSET SomeCommand, answers : SUBSET SomeAnswer]
<1>1. CASE Stored(command) # {}
  BY <1>1 DEF Advance, TypeInv
<1>2. CASE Stored(command) = {}
  <2>1. PICK docs, answer :
             /\ Advance(command, ok).docs = docs /\ docs \in [Doc -> [version : Nat, status : Status]]
             /\ Advance(command, ok).answers = receipts.answers \cup {answer} /\ answer \in SomeAnswer
             /\ Advance(command, ok).done = receipts.done \cup {command} \/ Advance(command, ok).done = receipts.done
    BY <1>2, AdvanceGives
  <2>2. \E done, answers : Advance(command, ok) = [docs |-> Advance(command, ok).docs, done |-> done, answers |-> answers]
    BY <1>2 DEF Advance
  <2>3. Advance(command, ok).done \subseteq SomeCommand /\ Advance(command, ok).answers \subseteq SomeAnswer
    BY <2>1, Types
  <2>q. QED BY <2>1, <2>2, <2>3
<1>q. QED BY <1>1, <1>2

LEMMA GoingTyped ==
    ASSUME TypeInv
    PROVE  /\ flight.state = "going" => flight.command \in SomeCommand
           /\ flight.state = "answered" => flight.command \in SomeCommand /\ flight.answer \in SomeAnswer
           /\ load.state = "going" => load.cursor \in Nat
           /\ load.state = "answered" => load.cursor \in Nat /\ load.payload \in SomePayload
BY DEF TypeInv, SomeFlight, SomeLoad, NoFlight, NoLoad

LEMMA ServeTyped == ASSUME TypeInv, NEW ok \in BOOLEAN, ServeHead(ok) PROVE TypeInv'
<1>1. flight.command \in SomeCommand
  BY GoingTyped DEF ServeHead
<1>2. receipts' \in [docs : [Doc -> [version : Nat, status : Status]], done : SUBSET SomeCommand, answers : SUBSET SomeAnswer]
  BY <1>1, AdvanceTyped DEF ServeHead
<1>3. PICK answer \in receipts'.answers : flight' = [state |-> "answered", command |-> flight.command, answer |-> answer]
  BY DEF ServeHead
<1>4. flight' \in SomeFlight
  BY <1>1, <1>2, <1>3 DEF SomeFlight
<1>q. QED BY <1>2, <1>4 DEF ServeHead, TypeInv

LEMMA ServeLateTyped == ASSUME TypeInv, NEW ok \in BOOLEAN, ServeLate(ok) PROVE TypeInv'
<1>1. PICK command \in late : receipts' = Advance(command, ok) /\ late' = late \ {command}
  BY DEF ServeLate
<1>2. command \in SomeCommand
  BY DEF TypeInv
<1>3. receipts' \in [docs : [Doc -> [version : Nat, status : Status]], done : SUBSET SomeCommand, answers : SUBSET SomeAnswer]
  BY <1>1, <1>2, AdvanceTyped
<1>q. QED BY <1>1, <1>3 DEF ServeLate, TypeInv

LEMMA SettleTyped ==
    ASSUME TypeInv, NEW status, NEW merged \in SomeView, flight.command \in SomeCommand, Settle(status, merged)
    PROVE  TypeInv'
<1>1. Shifted(outbox.pending) \in Seq(SomeCommand)
  BY Types DEF Shifted
<1>2. Append(outbox.failed, flight.command) \in Seq(SomeCommand)
  BY Types
<1>3. outbox' \in Box
  BY <1>1, <1>2, Types DEF Settle, Box
<1>4. flight' \in SomeFlight
  BY DEF Settle, SomeFlight
<1>5. writes' \in Seq(SomeWrite)
  BY WriteTyped DEF Settle, TypeInv
<1>6. hist' \in History
  <2>1. flight.command.id \in Nat
    BY DEF SomeCommand
  <2>2. hist' = [hist EXCEPT !.answered = @ \cup {flight.command.id}]
    BY DEF Settle
  <2>3. hist \in History
    BY DEF TypeInv
  <2>q. QED BY <2>1, <2>2, <2>3 DEF History
<1>q. QED BY <1>3, <1>4, <1>5, <1>6 DEF Settle, TypeInv

LEMMA ReceiveTyped == ASSUME TypeInv, ReceiveAnswer PROVE TypeInv'
<1>1. flight.command \in SomeCommand /\ flight.answer.payload \in SomePayload
  BY GoingTyped DEF ReceiveAnswer, SomeAnswer
<1>2. Merge(view, outbox, flight.answer.payload) \in SomeView
  BY <1>1, MergeTyped DEF TypeInv
<1>q. QED BY <1>1, <1>2, SettleTyped DEF ReceiveAnswer

LEMMA RefusedTyped == ASSUME TypeInv, Refused PROVE TypeInv'
<1>1. flight.command \in SomeCommand /\ view \in SomeView
  BY GoingTyped DEF Refused, TypeInv
<1>q. QED BY <1>1, SettleTyped DEF Refused

LEMMA LostTyped == ASSUME TypeInv, Lost PROVE TypeInv'
<1>1. timer' \in BOOLEAN /\ flight' \in SomeFlight
  BY PumpTyped, NotFlying DEF Lost, TypeInv, Retry
<1>2. late' \in SUBSET SomeCommand
  BY GoingTyped DEF Lost, TypeInv
<1>q. QED BY <1>1, <1>2, FaultTyped DEF Lost, TypeInv

LEMMA RetryTyped == ASSUME TypeInv, RetryFires PROVE TypeInv'
BY PumpTyped DEF RetryFires, TypeInv

LEMMA WakeTyped == ASSUME TypeInv, Wake PROVE TypeInv'
<1>1. flight' \in SomeFlight /\ load' \in SomeLoad
  BY PumpTyped, LoadQueueTyped DEF Wake, TypeInv
<1>q. QED BY <1>1 DEF Wake, TypeInv

LEMMA ServeLoadTyped == ASSUME TypeInv, ServeLoad PROVE TypeInv'
<1>1. load.cursor \in Nat /\ Payload(receipts.docs, load.cursor) \in SomePayload
  BY GoingTyped, PayloadTyped, Types DEF ServeLoad
<1>2. load' \in SomeLoad
  BY <1>1 DEF ServeLoad, SomeLoad
<1>q. QED BY <1>2 DEF ServeLoad, TypeInv

LEMMA LoadedTyped == ASSUME TypeInv, NEW ok \in BOOLEAN, Loaded(ok) PROVE TypeInv'
<1>1. PICK v : v = IF ok THEN Merge(view, outbox, load.payload) ELSE view
  OBVIOUS
<1>2. v \in SomeView
  BY <1>1, GoingTyped, MergeTyped DEF Loaded, TypeInv
<1>3. view' = [v EXCEPT !.started = TRUE]
  BY <1>1 DEF Loaded
<1>4. view' \in SomeView
  BY <1>2, <1>3 DEF SomeView
<1>5. flight' \in SomeFlight /\ load' \in SomeLoad
  BY PumpTyped, NotFlying DEF Loaded, TypeInv
<1>6. hist' \in History
  BY FaultTyped DEF Loaded, TypeInv
<1>q. QED BY <1>4, <1>5, <1>6 DEF Loaded, TypeInv

LEMMA NewViewTyped == NewView \in SomeView
BY DEF NewView, SomeView

LEMMA ReloadTyped == ASSUME TypeInv, Reopen PROVE TypeInv'
<1>1. late' \in SUBSET SomeCommand
  BY GoingTyped DEF Reopen, TypeInv
<1>2. load' \in SomeLoad /\ flight' \in SomeFlight
  BY NotFlying DEF Reopen, SomeLoad
<1>3. writes' \in Seq(SomeWrite)
  BY DEF Reopen
<1>q. QED BY <1>1, <1>2, <1>3, NewViewTyped, FaultTyped DEF Reopen, TypeInv

LEMMA OtherTyped == ASSUME TypeInv, NEW doc \in Doc, EditElsewhere(doc) PROVE TypeInv'
<1>1. PICK status \in Status : receipts' = [receipts EXCEPT !.docs[doc] = [version |-> @.version + 1, status |-> status]]
  BY DEF EditElsewhere, Status
<1>2. [version |-> receipts.docs[doc].version + 1, status |-> status] \in [version : Nat, status : Status]
  BY Types
<1>3. receipts' \in [docs : [Doc -> [version : Nat, status : Status]], done : SUBSET SomeCommand, answers : SUBSET SomeAnswer]
  BY <1>1, <1>2 DEF TypeInv
<1>q. QED BY <1>3 DEF EditElsewhere, TypeInv

LEMMA ForgetTyped == ASSUME TypeInv, Forget PROVE TypeInv'
<1>1. receipts' \in [docs : [Doc -> [version : Nat, status : Status]], done : SUBSET SomeCommand, answers : SUBSET SomeAnswer]
  BY DEF Forget, TypeInv
<1>q. QED BY <1>1, FaultTyped DEF Forget, TypeInv

LEMMA TypeSteps == TypeInv /\ [ReceiptNext]_receiptVars => TypeInv'
<1> SUFFICES ASSUME TypeInv, [ReceiptNext]_receiptVars PROVE TypeInv'
  OBVIOUS
<1>1. CASE \E formed \in BOOLEAN : Press(formed)
  BY <1>1, PressTyped
<1>2. CASE Skip
  BY <1>2, SkipTyped
<1>3. CASE \E i \in 1..MaxCommand : EditFailed(i) \/ WithdrawFailed(i)
  BY <1>3, EditTyped, WithdrawTyped
<1>4. CASE Wrote \/ WriteFailed
  BY <1>4, WroteTyped, WriteFailedTyped
<1>5. CASE \E ok \in BOOLEAN : ServeHead(ok) \/ ServeLate(ok) \/ Loaded(ok)
  BY <1>5, ServeTyped, ServeLateTyped, LoadedTyped
<1>6. CASE ReceiveAnswer \/ Refused \/ Lost \/ RetryFires
  BY <1>6, ReceiveTyped, RefusedTyped, LostTyped, RetryTyped
<1>7. CASE Wake \/ ServeLoad \/ Reopen
  BY <1>7, WakeTyped, ServeLoadTyped, ReloadTyped
<1>8. CASE (\E doc \in Doc : EditElsewhere(doc)) \/ Forget
  BY <1>8, OtherTyped, ForgetTyped
<1>9. CASE UNCHANGED receiptVars
  BY <1>9 DEF receiptVars, TypeInv
<1>q. QED BY <1>1, <1>2, <1>3, <1>4, <1>5, <1>6, <1>7, <1>8, <1>9 DEF ReceiptNext

LEMMA TypeInit == ReceiptInit => TypeInv
<1> SUFFICES ASSUME ReceiptInit PROVE TypeInv
  OBVIOUS
<1>1. receipts \in [docs : [Doc -> [version : Nat, status : Status]], done : SUBSET SomeCommand, answers : SUBSET SomeAnswer]
  BY DEF ReceiptInit, Status
<1>2. EmptyOutbox \in Box
  BY DEF EmptyOutbox, Box
<1>3. load \in SomeLoad /\ flight \in SomeFlight
  BY NotFlying DEF ReceiptInit, SomeLoad
<1>4. writes \in Seq(SomeWrite) /\ late = {} /\ timer = FALSE
  <2>1. writes = <<>>
    BY DEF ReceiptInit
  <2>q. QED BY <2>1 DEF ReceiptInit
<1>5. hist \in History
  BY DEF ReceiptInit, History
<1>q. QED BY <1>1, <1>2, <1>3, <1>4, <1>5, NewViewTyped DEF ReceiptInit, TypeInv

-----------------------------------------------------------------------------
(* A receipt that was processed stays closed, so that no command processes  *)
(* it again; and an answer lists what it reaches of the receipts that are   *)
(* still open, however late it comes.                                       *)
OnceInv == ProcessedOnce /\ \A c \in receipts.done : ~ Open(c.doc)

ReachInv ==
    /\ \A a \in receipts.answers : Reaches(0, a.payload)
    /\ flight.state = "answered" => Reaches(0, flight.answer.payload)
    /\ load.state = "answered" => Reaches(load.cursor, load.payload)

(* No receipt opens again. *)
Closes == \A d \in Doc : Open(d)' => Open(d)

(* The step of FormStays. *)
FormStep ==
    /\ flight.state = "answered" /\ flight'.state = "saving" => Kept(0, flight.answer.payload)
    /\ load.state = "answered" /\ load' = NoLoad => Kept(load.cursor, load.payload)

LEMMA ReachStays ==
    ASSUME NEW cursor, NEW payload, Reaches(cursor, payload), Closes
    PROVE  Reaches(cursor, payload)'
BY DEF Reaches, Closes

(* Steps that take no answer. *)
Calm ==
    /\ flight' = flight \/ flight'.state \in {"none", "going"}
    /\ load' = load \/ load'.state = "going"

LEMMA CalmForm == Calm => FormStep
BY DEF Calm, FormStep, NoLoad

LEMMA CalmKeeps ==
    ASSUME OnceInv, ReachInv, Calm, Closes, receipts'.done = receipts.done, receipts'.answers \subseteq receipts.answers, TypeInv
    PROVE  OnceInv' /\ ReachInv'
<1>1. OnceInv'
  BY Types DEF OnceInv, ProcessedOnce, Closes, SomeCommand
<1>2. \A a \in receipts'.answers : Reaches(0, a.payload)'
  BY ReachStays DEF ReachInv
<1>3. ASSUME flight'.state = "answered" PROVE Reaches(0, flight.answer.payload)'
  <2>1. flight' = flight /\ Reaches(0, flight.answer.payload)
    BY <1>3 DEF ReachInv, Calm
  <2>q. QED BY <2>1, ReachStays
<1>4. ASSUME load'.state = "answered" PROVE Reaches(load.cursor, load.payload)'
  <2>1. load' = load /\ Reaches(load.cursor, load.payload)
    BY <1>4 DEF ReachInv, Calm
  <2>q. QED BY <2>1, ReachStays
<1>q. QED BY <1>1, <1>2, <1>3, <1>4 DEF ReachInv

LEMMA PumpCalm == ASSUME NEW box, NEW now PROVE Pump(box, now) = now \/ Pump(box, now).state \in {"none", "going"}
BY DEF Pump

LEMMA LoadCalm == ASSUME NEW cursor PROVE LoadQueue(cursor) = load \/ LoadQueue(cursor).state = "going"
BY DEF LoadQueue

LEMMA NoneCalm == NoFlight.state = "none"
BY DEF NoFlight

LEMMA MoveCalm == ASSUME NEW v, MoveNext(v) PROVE load' = load \/ load'.state = "going"
BY LoadCalm DEF MoveNext

(* What the user does, writes, lost answers, timers, and page loads. *)
Undisturbed ==
    \/ (\E formed \in BOOLEAN : Press(formed)) \/ Skip
    \/ (\E i \in 1..MaxCommand : EditFailed(i) \/ WithdrawFailed(i))
    \/ Wrote \/ WriteFailed \/ Lost \/ RetryFires \/ Wake \/ Reopen \/ UNCHANGED receiptVars

LEMMA UndisturbedCalm == ASSUME TypeInv, Undisturbed PROVE Calm /\ receipts' = receipts
<1>1. CASE \E formed \in BOOLEAN : Press(formed)
  BY <1>1 DEF Press, Calm
<1>2. CASE Skip
  BY <1>2, MoveCalm DEF Skip, Calm
<1>3. CASE \E i \in 1..MaxCommand : EditFailed(i) \/ WithdrawFailed(i)
  BY <1>3 DEF EditFailed, WithdrawFailed, Calm
<1>4. CASE Wrote
  <2>1. PICK w \in SomeWrite : w = Head(writes)
    BY <1>4, HeadTyped DEF Wrote
  <2>2. CASE w.kind = "queue"
    <3>1. MoveNext([view EXCEPT !.editing = 0]) /\ flight' = Pump(outbox, flight)
      BY <1>4, <2>1, <2>2 DEF Wrote
    <3>q. QED BY <1>4, <3>1, MoveCalm, PumpCalm DEF Wrote, Calm
  <2>3. CASE w.kind = "pump"
    <3>1. Stop(outbox) /\ load' = load
      BY <1>4, <2>1, <2>3 DEF Wrote
    <3>2. flight' = NoFlight \/ flight' = Pump(outbox, NoFlight)
      BY <3>1 DEF Stop
    <3>q. QED BY <1>4, <3>1, <3>2, PumpCalm, NoneCalm DEF Wrote, Calm
  <2>4. CASE w.kind = "withdraw"
    BY <1>4, <2>1, <2>4 DEF Wrote, Calm
  <2>q. QED BY <2>2, <2>3, <2>4 DEF SomeWrite
<1>5. CASE WriteFailed
  <2>1. PICK w \in SomeWrite : w = Head(writes)
    BY <1>5, HeadTyped DEF WriteFailed
  <2>2. CASE w.kind = "pump"
    <3>1. flight' = NoFlight \/ flight' = Pump(outbox, NoFlight)
      BY <1>5, <2>1, <2>2 DEF WriteFailed
    <3>q. QED BY <1>5, <3>1, PumpCalm, NoneCalm DEF WriteFailed, Calm
  <2>3. CASE w.kind \in {"queue", "withdraw"}
    BY <1>5, <2>1, <2>3 DEF WriteFailed, Calm
  <2>q. QED BY <2>2, <2>3 DEF SomeWrite
<1>6. CASE Lost
  <2>1. flight' = NoFlight \/ flight' = Pump(outbox, NoFlight)
    BY <1>6 DEF Lost
  <2>q. QED BY <1>6, <2>1, PumpCalm, NoneCalm DEF Lost, Calm
<1>7. CASE RetryFires
  BY <1>7, PumpCalm DEF RetryFires, Calm
<1>8. CASE Wake
  BY <1>8, PumpCalm, LoadCalm DEF Wake, Calm
<1>9. CASE Reopen
  BY <1>9, NoneCalm DEF Reopen, Calm
<1>10. CASE UNCHANGED receiptVars
  BY <1>10 DEF receiptVars, Calm
<1>q. QED BY <1>1, <1>2, <1>3, <1>4, <1>5, <1>6, <1>7, <1>8, <1>9, <1>10 DEF Undisturbed

(* Another terminal, or the clean-up of stored answers *)
Elsewhere == (\E doc \in Doc : EditElsewhere(doc)) \/ Forget

LEMMA ElsewhereCloses ==
    ASSUME TypeInv, Elsewhere
    PROVE  Calm /\ Closes /\ receipts'.done = receipts.done /\ receipts'.answers \subseteq receipts.answers
<1>1. ASSUME NEW doc \in Doc, EditElsewhere(doc) PROVE Calm /\ Closes /\ receipts'.done = receipts.done /\ receipts'.answers = receipts.answers
  <2>1. PICK status : receipts' = [receipts EXCEPT !.docs[doc] = [version |-> @.version + 1, status |-> status]]
    BY <1>1 DEF EditElsewhere
  <2>2. /\ receipts'.done = receipts.done /\ receipts'.answers = receipts.answers
        /\ receipts'.docs = [receipts.docs EXCEPT ![doc] = [version |-> receipts.docs[doc].version + 1, status |-> status]]
    BY <2>1, Types
  <2>3. \A d \in Doc : d # doc => receipts'.docs[d] = receipts.docs[d]
    BY <2>2, Types
  <2>4. Closes
    BY <1>1, <2>3 DEF Closes, Open, EditElsewhere
  <2>q. QED BY <1>1, <2>2, <2>4 DEF EditElsewhere, Calm
<1>2. CASE Forget
  <2>1. PICK a \in receipts.answers : receipts' = [receipts EXCEPT !.answers = @ \ {a}]
    BY <1>2 DEF Forget
  <2>2. receipts'.done = receipts.done /\ receipts'.answers = receipts.answers \ {a} /\ receipts'.docs = receipts.docs
    BY <2>1, Types
  <2>q. QED BY <1>2, <2>2 DEF Forget, Calm, Closes, Open
<1>q. QED BY <1>1, <1>2 DEF Elsewhere

(* A command at the server: its answer reaches as far as it says. *)
LEMMA AdvanceOnce ==
    ASSUME TypeInv, OnceInv, ReachInv, NEW command \in SomeCommand, NEW ok \in BOOLEAN, receipts' = Advance(command, ok)
    PROVE  OnceInv' /\ Closes /\ \A a \in receipts'.answers : Reaches(0, a.payload)'
<1>1. CASE Stored(command) # {}
  <2>1. receipts' = receipts
    BY <1>1 DEF Advance
  <2>2. Closes /\ OnceInv'
    BY <2>1 DEF Closes, Open, OnceInv, ProcessedOnce
  <2>q. QED BY <2>1, <2>2, ReachStays DEF ReachInv
<1>2. CASE Stored(command) = {}
  <2>1. PICK docs, answer :
             /\ receipts'.docs = docs /\ docs \in [Doc -> [version : Nat, status : Status]]
             /\ receipts'.answers = receipts.answers \cup {answer} /\ answer.payload = Payload(docs, 0)
             /\ \/ /\ Open(command.doc) /\ receipts'.done = receipts.done \cup {command}
                   /\ docs[command.doc].status = "done" /\ \A d \in Doc : d # command.doc => docs[d] = receipts.docs[d]
                \/ docs = receipts.docs /\ receipts'.done = receipts.done
    BY <1>2, AdvanceGives
  <2>2. command.doc \in Doc /\ \A c \in receipts.done : c.doc \in Doc
    BY Types DEF SomeCommand
  <2>3. Closes
    BY <2>1, <2>2 DEF Closes, Open
  <2>4. OnceInv'
    BY <2>1, <2>2, <2>3 DEF OnceInv, ProcessedOnce, Closes, Open
  <2>5. Reaches(0, answer.payload)'
    BY <2>1, PayloadReaches DEF Reaches, Open
  <2>6. \A a \in receipts.answers : Reaches(0, a.payload)'
    BY <2>3, ReachStays DEF ReachInv
  <2>q. QED BY <2>1, <2>3, <2>4, <2>5, <2>6
<1>q. QED BY <1>1, <1>2

LEMMA AnswersOnce ==
    ASSUME TypeInv, OnceInv, ReachInv, NEW ok \in BOOLEAN, ServeHead(ok) \/ ServeLate(ok)
    PROVE  OnceInv' /\ ReachInv' /\ FormStep
<1>1. PICK command \in SomeCommand : receipts' = Advance(command, ok)
  BY GoingTyped DEF ServeHead, ServeLate, TypeInv
<1>2. OnceInv' /\ Closes /\ \A a \in receipts'.answers : Reaches(0, a.payload)'
  BY <1>1, AdvanceOnce
<1>3. load' = load /\ (flight' = flight \/ (flight'.state = "answered" /\ flight'.answer \in receipts'.answers))
  BY DEF ServeHead, ServeLate
<1>4. FormStep
  BY <1>3 DEF FormStep, NoLoad
<1>5. ASSUME flight'.state = "answered" PROVE Reaches(0, flight.answer.payload)'
  <2>1. CASE flight' = flight
    BY <1>2, <1>5, <2>1, ReachStays DEF ReachInv
  <2>2. CASE flight'.answer \in receipts'.answers
    BY <1>2, <2>2
  <2>q. QED BY <1>3, <2>1, <2>2
<1>6. ASSUME load'.state = "answered" PROVE Reaches(load.cursor, load.payload)'
  BY <1>2, <1>3, <1>6, ReachStays DEF ReachInv
<1>q. QED BY <1>2, <1>4, <1>5, <1>6 DEF ReachInv

(* The page after an answer: the receipt that the user is at stays. *)
LEMMA MergeKeeps ==
    ASSUME TypeInv, NEW cursor, NEW payload \in SomePayload, Reaches(cursor, payload),
           view'.current = Merge(view, outbox, payload).current
    PROVE  Kept(cursor, payload)
<1> DEFINE unavailable == Docs(outbox.pending) \cup Docs(outbox.failed)
           items == {item \in payload.items : item.doc \notin unavailable /\ item.doc # view.current.doc}
           next == [view EXCEPT !.buffer = items, !.cursor = payload.cursor]
<1>1. CASE view.current.doc \in unavailable
  BY <1>1 DEF Kept
<1>2. CASE StillListed(view, payload) /\ view.current.doc \notin unavailable
  <2>1. Merge(view, outbox, payload) = next
    BY <1>2 DEF Merge
  <2>2. next.current = view.current
    BY Types
  <2>q. QED BY <2>1, <2>2 DEF Kept
<1>3. CASE ~ StillListed(view, payload)
  <2>1. view.current = NoItem \/ view.current.doc \in Doc
    BY Types DEF SomeItem
  <2>q. QED BY <1>3, <2>1 DEF Kept, Reaches, StillListed
<1>q. QED BY <1>1, <1>2, <1>3

LEMMA TakenOnce ==
    ASSUME TypeInv, OnceInv, ReachInv, ReceiveAnswer \/ Refused
    PROVE  OnceInv' /\ ReachInv' /\ FormStep
<1>1. UNCHANGED <<receipts, load>> /\ flight' = [state |-> "saving"]
  BY DEF ReceiveAnswer, Refused, Settle
<1>2. OnceInv' /\ Closes
  BY <1>1 DEF OnceInv, ProcessedOnce, Open, Closes
<1>3. (load'.state = "answered" => Reaches(load.cursor, load.payload)') /\ \A a \in receipts'.answers : Reaches(0, a.payload)'
  BY <1>1, <1>2, ReachStays DEF ReachInv
<1>4. flight'.state = "saving"
  BY <1>1
<1>5. ASSUME flight.state = "answered" PROVE Kept(0, flight.answer.payload)
  <2>1. view' = Merge(view, outbox, flight.answer.payload)
    BY <1>5 DEF ReceiveAnswer, Refused, Settle
  <2>2. flight.answer.payload \in SomePayload /\ Reaches(0, flight.answer.payload)
    BY <1>5, GoingTyped DEF SomeAnswer, ReachInv
  <2>q. QED BY <2>1, <2>2, MergeKeeps
<1>q. QED BY <1>1, <1>2, <1>3, <1>4, <1>5 DEF ReachInv, FormStep, NoLoad

LEMMA ServeLoadOnce ==
    ASSUME TypeInv, OnceInv, ReachInv, ServeLoad
    PROVE  OnceInv' /\ ReachInv' /\ FormStep
<1>1. /\ UNCHANGED <<receipts, flight>> /\ load.cursor \in Nat /\ load.state = "going"
      /\ load' = [state |-> "answered", cursor |-> load.cursor, payload |-> Payload(receipts.docs, load.cursor)]
  BY GoingTyped DEF ServeLoad
<1>2. OnceInv' /\ Closes
  BY <1>1 DEF OnceInv, ProcessedOnce, Open, Closes
<1>3. (flight'.state = "answered" => Reaches(0, flight.answer.payload)') /\ \A a \in receipts'.answers : Reaches(0, a.payload)'
  BY <1>1, <1>2, ReachStays DEF ReachInv
<1>4. Reaches(load.cursor, load.payload)'
  <2>1. load'.cursor = load.cursor /\ load'.payload = Payload(receipts.docs, load.cursor)
    BY <1>1
  <2>q. QED BY <1>1, <2>1, PayloadReaches DEF Reaches, Open
<1>5. FormStep
  BY <1>1 DEF FormStep, NoLoad
<1>q. QED BY <1>2, <1>3, <1>4, <1>5 DEF ReachInv

LEMMA LoadedOnce ==
    ASSUME TypeInv, OnceInv, ReachInv, NEW ok \in BOOLEAN, Loaded(ok)
    PROVE  OnceInv' /\ ReachInv' /\ FormStep
<1>1. /\ UNCHANGED receipts /\ load' = NoLoad /\ (flight' = flight \/ flight'.state \in {"none", "going"})
      /\ view' = [IF ok THEN Merge(view, outbox, load.payload) ELSE view EXCEPT !.started = TRUE]
  BY PumpCalm DEF Loaded
<1>2. OnceInv' /\ Closes
  BY <1>1 DEF OnceInv, ProcessedOnce, Open, Closes
<1>3. (flight'.state = "answered" => Reaches(0, flight.answer.payload)') /\ \A a \in receipts'.answers : Reaches(0, a.payload)'
  BY <1>1, <1>2, ReachStays DEF ReachInv
<1>4. ASSUME load.state = "answered" PROVE Kept(load.cursor, load.payload)
  <2>1. load.payload \in SomePayload /\ Reaches(load.cursor, load.payload)
    BY <1>4, GoingTyped DEF ReachInv
  <2>2. Merge(view, outbox, load.payload) \in SomeView /\ view \in SomeView
    BY <2>1, MergeTyped DEF TypeInv
  <2>3. CASE ok
    <3>1. view'.current = Merge(view, outbox, load.payload).current
      BY <1>1, <2>2, <2>3 DEF SomeView
    <3>q. QED BY <2>1, <3>1, MergeKeeps
  <2>4. CASE ~ ok
    <3>1. view'.current = view.current
      BY <1>1, <2>2, <2>4 DEF SomeView
    <3>q. QED BY <3>1 DEF Kept
  <2>q. QED BY <2>3, <2>4
<1>5. load'.state # "answered"
  BY <1>1 DEF NoLoad
<1>6. FormStep
  BY <1>1, <1>4 DEF FormStep
<1>q. QED BY <1>2, <1>3, <1>5, <1>6 DEF ReachInv

LEMMA OnceSteps ==
    ASSUME TypeInv, OnceInv, ReachInv, [ReceiptNext]_receiptVars
    PROVE  OnceInv' /\ ReachInv' /\ FormStep
<1>1. CASE Undisturbed
  <2>1. Calm /\ receipts' = receipts
    BY <1>1, UndisturbedCalm
  <2>q. QED BY <2>1, CalmForm, CalmKeeps DEF Closes, Open
<1>2. CASE Elsewhere
  BY <1>2, ElsewhereCloses, CalmForm, CalmKeeps
<1>3. CASE \E ok \in BOOLEAN : ServeHead(ok) \/ ServeLate(ok) \/ Loaded(ok)
  BY <1>3, AnswersOnce, LoadedOnce
<1>4. CASE ReceiveAnswer \/ Refused
  BY <1>4, TakenOnce
<1>5. CASE ServeLoad
  BY <1>5, ServeLoadOnce
<1>q. QED BY <1>1, <1>2, <1>3, <1>4, <1>5 DEF ReceiptNext, Undisturbed, Elsewhere

-----------------------------------------------------------------------------
(* What was kept is in the outbox, in memory and in IndexedDB, until it is  *)
(* answered: an answer takes the head, which is the command it answers.     *)
Heads == flight.state \in {"going", "answered"} => outbox.pending # <<>> /\ Head(outbox.pending) = flight.command

WritesKept == \A i \in DOMAIN writes : writes[i].kind = "queue" => writes[i].id \in Ids(outbox.pending) \cup hist.answered

KeptInv == Heads /\ WritesKept /\ AcceptedKept

LEMMA Appended ==
    ASSUME NEW S, NEW s \in Seq(S), NEW x \in S
    PROVE  /\ Append(s, x) # <<>> /\ (s # <<>> => Head(Append(s, x)) = Head(s))
           /\ \A i \in DOMAIN Append(s, x) : (i \in DOMAIN s /\ Append(s, x)[i] = s[i]) \/ Append(s, x)[i] = x
           /\ \A i \in DOMAIN s : i \in DOMAIN Append(s, x) /\ Append(s, x)[i] = s[i]
           /\ \E i \in DOMAIN Append(s, x) : Append(s, x)[i] = x
<1> DEFINE more == Append(s, x)
<1>1. /\ Len(s) \in Nat /\ DOMAIN s = 1..Len(s) /\ DOMAIN more = 1..(Len(s) + 1) /\ more[Len(s) + 1] = x
      /\ \A i \in 1..Len(s) : more[i] = s[i]
      /\ more # <<>> /\ Head(more) = more[1] /\ (s # <<>> => Head(s) = s[1] /\ Len(s) > 0)
  OBVIOUS
<1> HIDE DEF more
<1>2. more # <<>> /\ (s # <<>> => Head(more) = Head(s))
  BY <1>1
<1>3. \A i \in DOMAIN more : i \in DOMAIN s \/ i = Len(s) + 1
  BY <1>1
<1>4. \A i \in DOMAIN s : i \in DOMAIN more
  BY <1>1
<1>5. Len(s) + 1 \in DOMAIN more
  BY <1>1
<1>q. QED BY <1>1, <1>2, <1>3, <1>4, <1>5 DEF more

LEMMA Tailed ==
    ASSUME NEW S, NEW s \in Seq(S), s # <<>>
    PROVE  /\ Head(s) \in S
           /\ \A i \in DOMAIN s : s[i] = Head(s) \/ \E j \in DOMAIN Tail(s) : Tail(s)[j] = s[i]
           /\ \A j \in DOMAIN Tail(s) : \E i \in DOMAIN s : Tail(s)[j] = s[i]
<1> DEFINE rest == Tail(s)
<1>1. /\ Len(s) \in Nat /\ Len(s) > 0 /\ DOMAIN s = 1..Len(s) /\ DOMAIN rest = 1..(Len(s) - 1)
      /\ Head(s) = s[1] /\ \A j \in 1..(Len(s) - 1) : rest[j] = s[j + 1]
  OBVIOUS
<1> HIDE DEF rest
<1>2. ASSUME NEW i \in DOMAIN s, i # 1 PROVE i - 1 \in DOMAIN rest /\ rest[i - 1] = s[i]
  <2>1. i \in Int /\ i >= 1 /\ i <= Len(s)
    BY <1>1
  <2>2. i - 1 \in 1..(Len(s) - 1) /\ (i - 1) + 1 = i
    BY <1>1, <1>2, <2>1
  <2>q. QED BY <1>1, <2>2
<1>3. ASSUME NEW j \in DOMAIN rest PROVE j + 1 \in DOMAIN s /\ rest[j] = s[j + 1]
  BY <1>1
<1>4. Head(s) \in S
  BY <1>1
<1>q. QED BY <1>1, <1>2, <1>3, <1>4 DEF rest

LEMMA IdsAppended ==
    ASSUME NEW s \in Seq(SomeCommand), NEW c \in SomeCommand
    PROVE  Ids(Append(s, c)) = Ids(s) \cup {c.id} /\ ToSet(Append(s, c)) = ToSet(s) \cup {c}
BY Appended DEF Ids, ToSet

LEMMA IdsTailed ==
    ASSUME NEW s \in Seq(SomeCommand), s # <<>>
    PROVE  Ids(s) \subseteq Ids(Tail(s)) \cup {Head(s).id} /\ Ids(Tail(s)) \subseteq Ids(s)
BY Tailed DEF Ids

LEMMA PumpHeads == ASSUME NEW box, NEW now PROVE
    LET f == Pump(box, now) IN
    \/ f = now
    \/ box.pending # <<>> /\ f.command = Head(box.pending) /\ f.state = "going"
BY DEF Pump

(* The requests of a page that sends its head, or none *)
Sends == flight' = flight \/ flight' = NoFlight \/ flight' = Pump(outbox, flight) \/ flight' = Pump(outbox, NoFlight)

LEMMA SendsHeads ==
    ASSUME Heads, Sends
    PROVE  flight'.state \in {"going", "answered"} => outbox.pending # <<>> /\ Head(outbox.pending) = flight'.command
<1>1. NoFlight.state = "none"
  BY DEF NoFlight
<1>q. QED BY <1>1, PumpHeads DEF Heads, Sends

(* No command leaves the outbox, and no write is made that waits for an     *)
(* answer.                                                                  *)
LEMMA SendsKept ==
    ASSUME TypeInv, KeptInv, Sends, outbox'.pending = outbox.pending, hist'.answered = hist.answered,
           disk'.pending = outbox.pending \/ (disk'.pending = disk.pending /\ hist'.accepted = hist.accepted),
           \A id \in hist'.accepted : id \in hist.accepted \/ \E i \in DOMAIN writes : writes[i].kind = "queue" /\ writes[i].id = id,
           \A i \in DOMAIN writes' : writes'[i].kind = "queue" => \E j \in DOMAIN writes : writes'[i] = writes[j]
    PROVE  KeptInv'
<1>1. Heads'
  BY SendsHeads DEF KeptInv, Heads
<1>2. WritesKept'
  BY DEF KeptInv, WritesKept
<1>3. \A id \in hist'.accepted \ hist'.answered : id \in Ids(outbox.pending)
  BY DEF KeptInv, WritesKept, AcceptedKept
<1>4. ASSUME NEW id \in hist'.accepted \ hist'.answered PROVE id \in Ids(disk'.pending)
  <2>1. CASE disk'.pending = outbox.pending
    BY <1>3, <1>4, <2>1
  <2>2. CASE disk'.pending = disk.pending /\ hist'.accepted = hist.accepted
    BY <1>4, <2>2 DEF KeptInv, AcceptedKept
  <2>q. QED BY <2>1, <2>2
<1>q. QED BY <1>1, <1>2, <1>3, <1>4 DEF KeptInv, AcceptedKept

LEMMA PressKept == ASSUME TypeInv, KeptInv, NEW formed \in BOOLEAN, Press(formed) PROVE KeptInv'
<1>1. PICK command : command = [id |-> NextId, doc |-> view.current.doc, version |-> view.current.version, formed |-> formed]
  OBVIOUS
<1>2. PICK w : w = [kind |-> "queue", id |-> command.id, before |-> outbox, editing |-> view.editing]
  OBVIOUS
<1>3. /\ outbox'.pending = Append(outbox.pending, command) /\ writes' = Append(writes, w)
      /\ hist'.accepted = hist.accepted /\ hist'.answered = hist.answered /\ UNCHANGED <<disk, flight>>
  BY <1>1, <1>2, Types DEF Press
<1>4. command \in SomeCommand
  <2>1. view.current \in SomeItem /\ NextId \in Nat
    BY Types DEF Press, NextId
  <2>q. QED BY <1>1, <2>1 DEF SomeCommand, SomeItem
<1>5. Ids(outbox'.pending) = Ids(outbox.pending) \cup {command.id}
  BY <1>3, <1>4, IdsAppended, Types
<1>6. Heads'
  <2>1. outbox.pending \in Seq(SomeCommand)
    BY Types
  <2>2. outbox'.pending # <<>> /\ (outbox.pending # <<>> => Head(outbox'.pending) = Head(outbox.pending))
    BY <1>3, <1>4, <2>1, Appended
  <2>q. QED BY <1>3, <2>2 DEF KeptInv, Heads
<1>7. WritesKept'
  <2>1. w.id = command.id /\ w \in SomeWrite
    <3>1. command.id \in Nat /\ outbox \in Box /\ view.editing \in Nat
      BY <1>4, Types DEF SomeCommand, TypeInv
    <3>q. QED BY <1>2, <3>1 DEF SomeWrite
  <2>2. \A i \in DOMAIN writes' : (i \in DOMAIN writes /\ writes'[i] = writes[i]) \/ writes'[i] = w
    BY <1>3, <2>1, Appended DEF TypeInv
  <2>q. QED BY <1>3, <1>5, <2>1, <2>2 DEF KeptInv, WritesKept
<1>q. QED BY <1>3, <1>5, <1>6, <1>7 DEF KeptInv, AcceptedKept

LEMMA AppendedWrite ==
    ASSUME TypeInv, NEW w \in SomeWrite, w.kind # "queue", writes' = Append(writes, w)
    PROVE  \A i \in DOMAIN writes' : writes'[i].kind = "queue" => \E j \in DOMAIN writes : writes'[i] = writes[j]
BY Appended DEF TypeInv

LEMMA SettleKept ==
    ASSUME TypeInv, KeptInv, NEW status, NEW merged, flight.state \in {"going", "answered"}, Settle(status, merged)
    PROVE  KeptInv'
<1>1. outbox.pending # <<>> /\ Head(outbox.pending) = flight.command
  BY DEF KeptInv, Heads
<1>2. /\ outbox'.pending = Tail(outbox.pending) /\ writes' = Append(writes, [kind |-> "pump"])
      /\ flight' = [state |-> "saving"] /\ disk' = disk
      /\ hist'.accepted = hist.accepted /\ hist'.answered = hist.answered \cup {flight.command.id}
  BY <1>1, Types DEF Settle, Shifted
<1>3. Ids(outbox.pending) \subseteq Ids(outbox'.pending) \cup {flight.command.id}
  BY <1>1, <1>2, IdsTailed, Types
<1>4. Heads'
  BY <1>2 DEF Heads
<1>5. WritesKept'
  <2>1. \A i \in DOMAIN writes' : writes'[i].kind = "queue" => \E j \in DOMAIN writes : writes'[i] = writes[j]
    BY <1>2, AppendedWrite, WriteTyped
  <2>q. QED BY <1>2, <1>3, <2>1 DEF KeptInv, WritesKept
<1>q. QED BY <1>2, <1>3, <1>4, <1>5 DEF KeptInv, AcceptedKept

LEMMA ReloadKept == ASSUME TypeInv, KeptInv, Reopen PROVE KeptInv'
<1>1. /\ outbox' = disk /\ disk' = disk /\ flight'.state = "none" /\ writes' = <<>>
      /\ hist'.accepted = hist.accepted /\ hist'.answered = hist.answered
  BY Types DEF Reopen, FaultCounted, NoFlight
<1>2. \A i \in DOMAIN writes' : FALSE
  BY <1>1
<1>q. QED BY <1>1, <1>2 DEF KeptInv, Heads, WritesKept, AcceptedKept

LEMMA WrittenBefore ==
    ASSUME TypeInv, writes # <<>>, writes' = Tail(writes)
    PROVE  \A i \in DOMAIN writes' : \E j \in DOMAIN writes : writes'[i] = writes[j]
BY Tailed DEF TypeInv

LEMMA WroteKept == ASSUME TypeInv, KeptInv, Wrote PROVE KeptInv'
<1>1. PICK w \in SomeWrite : w = Head(writes)
  BY HeadTyped DEF Wrote
<1>2. writes # <<>> /\ writes' = Tail(writes) /\ disk' = outbox /\ outbox' = outbox
  BY DEF Wrote
<1>3. \E i \in DOMAIN writes : writes[i] = w
  BY <1>1, <1>2 DEF TypeInv
<1>4. /\ Sends /\ hist'.answered = hist.answered
      /\ \A id \in hist'.accepted : id \in hist.accepted \/ (w.kind = "queue" /\ id = w.id)
  <2>1. CASE w.kind = "queue"
    <3>1. flight' = Pump(outbox, flight) /\ hist' = [hist EXCEPT !.accepted = @ \cup {w.id}]
      BY <1>1, <2>1 DEF Wrote
    <3>q. QED BY <2>1, <3>1, Types DEF Sends
  <2>2. CASE w.kind = "pump"
    <3>1. Stop(outbox) /\ hist' = hist
      BY <1>1, <2>2 DEF Wrote
    <3>q. QED BY <3>1 DEF Stop, Sends
  <2>3. CASE w.kind = "withdraw"
    <3>1. UNCHANGED <<flight, hist>>
      BY <1>1, <2>3 DEF Wrote
    <3>q. QED BY <3>1 DEF Sends
  <2>q. QED BY <2>1, <2>2, <2>3 DEF SomeWrite
<1>q. QED BY <1>2, <1>3, <1>4, WrittenBefore, SendsKept

(* The other steps leave the commands where they are. *)
LEMMA RestKept ==
    ASSUME TypeInv, KeptInv,
           \/ Skip \/ (\E i \in 1..MaxCommand : EditFailed(i) \/ WithdrawFailed(i))
           \/ (\E ok \in BOOLEAN : ServeLate(ok) \/ Loaded(ok))
           \/ Lost \/ RetryFires \/ Wake \/ ServeLoad \/ Elsewhere \/ UNCHANGED receiptVars
    PROVE  KeptInv'
<1>1. /\ Sends /\ outbox'.pending = outbox.pending /\ disk' = disk
      /\ hist'.accepted = hist.accepted /\ hist'.answered = hist.answered
      /\ writes' = writes \/ writes' = Append(writes, [kind |-> "withdraw"])
  <2>1. CASE Skip \/ ServeLoad \/ RetryFires \/ Wake \/ UNCHANGED receiptVars
    BY <2>1 DEF Skip, ServeLoad, RetryFires, Wake, receiptVars, Sends
  <2>2. CASE \E i \in 1..MaxCommand : EditFailed(i) \/ WithdrawFailed(i)
    BY <2>2, Types DEF EditFailed, WithdrawFailed, Sends
  <2>3. CASE \E ok \in BOOLEAN : ServeLate(ok) \/ Loaded(ok)
    BY <2>3, Types DEF ServeLate, Loaded, FaultCounted, Sends
  <2>4. CASE Lost
    BY <2>4, Types DEF Lost, FaultCounted, Sends
  <2>5. CASE Elsewhere
    BY <2>5, Types DEF Elsewhere, EditElsewhere, Forget, FaultCounted, Sends
  <2>q. QED BY <2>1, <2>2, <2>3, <2>4, <2>5
<1>2. \A i \in DOMAIN writes' : writes'[i].kind = "queue" => \E j \in DOMAIN writes : writes'[i] = writes[j]
  BY <1>1, AppendedWrite, WriteTyped
<1>q. QED BY <1>1, <1>2, SendsKept

LEMMA ServeKept == ASSUME KeptInv, NEW ok, ServeHead(ok) PROVE KeptInv'
<1>1. /\ flight.state = "going" /\ flight'.command = flight.command /\ UNCHANGED <<disk, outbox, writes, hist>>
  BY DEF ServeHead
<1>q. QED BY <1>1 DEF KeptInv, Heads, WritesKept, AcceptedKept

LEMMA KeptSteps == ASSUME ~ hist'.unwritten, TypeInv, KeptInv, [ReceiptNext]_receiptVars PROVE KeptInv'
<1>1. CASE \E formed \in BOOLEAN : Press(formed)
  BY <1>1, PressKept
<1>2. CASE Wrote
  BY <1>2, WroteKept
<1>3. CASE WriteFailed
  BY <1>3, FaultTyped DEF WriteFailed
<1>4. CASE \E ok \in BOOLEAN : ServeHead(ok)
  BY <1>4, ServeKept
<1>5. CASE ReceiveAnswer \/ Refused
  BY <1>5, SettleKept DEF ReceiveAnswer, Refused
<1>6. CASE Reopen
  BY <1>6, ReloadKept
<1>7. CASE \/ Skip \/ (\E i \in 1..MaxCommand : EditFailed(i) \/ WithdrawFailed(i))
           \/ (\E ok \in BOOLEAN : ServeLate(ok) \/ Loaded(ok))
           \/ Lost \/ RetryFires \/ Wake \/ ServeLoad \/ Elsewhere \/ UNCHANGED receiptVars
  BY <1>7, RestKept
<1>q. QED BY <1>1, <1>2, <1>3, <1>4, <1>5, <1>6, <1>7 DEF ReceiptNext, Elsewhere

-----------------------------------------------------------------------------
(* What is stored is the truth: a command that was carried out has an       *)
(* answer that confirms it, and no other; a failed one has an answer that   *)
(* rejects it, or never reached the procedure.                              *)
AnswersTrue ==
    /\ \A a, b \in receipts.answers : a.id = b.id => a = b
    /\ \A c \in receipts.done : c.formed /\ \E a \in receipts.answers : a.id = c.id /\ a.status = "confirmed"

FlightTrue == flight.state = "answered" => flight.answer \in receipts.answers /\ flight.answer.id = flight.command.id

Rejected(c) == ~ c.formed \/ \E a \in receipts.answers : a.id = c.id /\ a.status = "rejected"

(* The failed commands, with those that a write that fails puts back. *)
Restorable == UNION {ToSet(w.before.failed) : w \in {w \in ToSet(writes) : w.kind = "queue"}}
Refusals == ToSet(outbox.failed) \cup ToSet(disk.failed) \cup Restorable

FailedTrue == \A c \in Refusals : Rejected(c)

TrueInv == AnswersTrue /\ FlightTrue /\ FailedTrue

LEMMA TrueGives == TrueInv => NoFalseFailure
BY DEF TrueInv, AnswersTrue, FailedTrue, Rejected, Refusals, NoFalseFailure

(* Nothing fails, and nothing is stored. *)
LEMMA QuietTrue ==
    ASSUME TrueInv, receipts' = receipts, flight' = flight \/ flight'.state # "answered",
           Refusals' \subseteq Refusals
    PROVE  TrueInv'
BY DEF TrueInv, AnswersTrue, FlightTrue, FailedTrue, Rejected

(* Writes are appended, and taken off at the head. *)
LEMMA RestorableGrows ==
    ASSUME TypeInv, NEW w \in SomeWrite, writes' = Append(writes, w)
    PROVE  \A c \in Restorable' : c \in Restorable \/ (w.kind = "queue" /\ c \in ToSet(w.before.failed))
<1>1. \A i \in DOMAIN writes' : (i \in DOMAIN writes /\ writes'[i] = writes[i]) \/ writes'[i] = w
  BY Appended DEF TypeInv
<1>2. \A x \in ToSet(writes') : x \in ToSet(writes) \/ x = w
  BY <1>1 DEF ToSet
<1>q. QED BY <1>2 DEF Restorable

LEMMA RestorableShrinks == ASSUME TypeInv, writes # <<>>, writes' = Tail(writes) PROVE Restorable' \subseteq Restorable
<1>1. \A i \in DOMAIN writes' : \E j \in DOMAIN writes : writes'[i] = writes[j]
  BY WrittenBefore
<1>2. ToSet(writes') \subseteq ToSet(writes)
  BY <1>1 DEF ToSet
<1>q. QED BY <1>2 DEF Restorable

LEMMA PressTrue == ASSUME TypeInv, NEW formed \in BOOLEAN, Press(formed) PROVE Refusals' \subseteq Refusals
<1>1. PICK w : /\ w = [kind |-> "queue", id |-> NextId, before |-> outbox, editing |-> view.editing]
               /\ writes' = Append(writes, w)
  BY DEF Press
<1>2. w \in SomeWrite /\ w.before = outbox
  <2>1. NextId \in Nat /\ outbox \in Box /\ view.editing \in Nat
    BY Types DEF NextId, TypeInv
  <2>q. QED BY <1>1, <2>1 DEF SomeWrite
<1>3. outbox'.failed = Spliced(outbox.failed, view.editing) /\ disk' = disk
  BY DEF Press
<1>4. ToSet(outbox'.failed) \subseteq ToSet(outbox.failed)
  BY <1>3, SplicedRemoves, Types
<1>5. \A c \in Restorable' : c \in Restorable \/ c \in ToSet(outbox.failed)
  BY <1>1, <1>2, RestorableGrows
<1>q. QED BY <1>3, <1>4, <1>5 DEF Refusals

LEMMA WithdrawTrue == ASSUME TypeInv, NEW i \in 1..MaxCommand, WithdrawFailed(i) PROVE Refusals' \subseteq Refusals
<1>1. /\ outbox'.failed = RemoveAt(outbox.failed, i) /\ i \in DOMAIN outbox.failed /\ disk' = disk
      /\ writes' = Append(writes, [kind |-> "withdraw"])
  BY Types DEF WithdrawFailed
<1>2. ToSet(outbox'.failed) \subseteq ToSet(outbox.failed)
  BY <1>1, Removed, Types
<1>3. Restorable' \subseteq Restorable
  BY <1>1, WriteTyped, RestorableGrows
<1>q. QED BY <1>1, <1>2, <1>3 DEF Refusals

LEMMA WriteFailedTrue == ASSUME TypeInv, WriteFailed PROVE Refusals' \subseteq Refusals
<1>1. PICK w \in SomeWrite : w = Head(writes)
  BY HeadTyped DEF WriteFailed
<1>2. writes # <<>> /\ writes' = Tail(writes) /\ disk' = disk
  BY DEF WriteFailed
<1>3. w \in ToSet(writes)
  <2>1. w = writes[1] /\ 1 \in DOMAIN writes
    BY <1>1, <1>2 DEF TypeInv
  <2>q. QED BY <2>1 DEF ToSet
<1>4. outbox' = outbox \/ (w.kind = "queue" /\ outbox' = w.before)
  <2>1. CASE w.kind = "queue"
    BY <1>1, <2>1 DEF WriteFailed
  <2>2. CASE w.kind = "pump"
    BY <1>1, <2>2 DEF WriteFailed
  <2>3. CASE w.kind = "withdraw"
    BY <1>1, <2>3 DEF WriteFailed
  <2>q. QED BY <2>1, <2>2, <2>3 DEF SomeWrite
<1>5. ToSet(outbox'.failed) \subseteq ToSet(outbox.failed) \cup Restorable
  BY <1>3, <1>4 DEF Restorable
<1>6. Restorable' \subseteq Restorable
  BY <1>2, RestorableShrinks
<1>q. QED BY <1>2, <1>5, <1>6 DEF Refusals

LEMMA UndisturbedTrue == ASSUME TypeInv, TrueInv, Undisturbed PROVE TrueInv'
<1>1. receipts' = receipts /\ (flight' = flight \/ flight'.state # "answered")
  BY UndisturbedCalm DEF Calm
<1>2. Refusals' \subseteq Refusals
  <2>1. CASE Wrote
    <3>1. writes # <<>> /\ writes' = Tail(writes) /\ disk' = outbox /\ outbox' = outbox
      BY <2>1 DEF Wrote
    <3>2. Restorable' \subseteq Restorable
      BY <3>1, RestorableShrinks
    <3>q. QED BY <3>1, <3>2 DEF Refusals
  <2>2. CASE Reopen
    <3>1. outbox' = disk /\ disk' = disk /\ writes' = <<>>
      BY <2>2 DEF Reopen
    <3>2. ToSet(writes') = {}
      BY <3>1 DEF ToSet
    <3>q. QED BY <3>1, <3>2 DEF Refusals, Restorable
  <2>3. CASE Skip \/ Lost \/ RetryFires \/ Wake \/ (\E i \in 1..MaxCommand : EditFailed(i)) \/ UNCHANGED receiptVars
    BY <2>3 DEF Skip, Lost, RetryFires, Wake, EditFailed, receiptVars, Refusals, Restorable
  <2>q. QED BY <2>1, <2>2, <2>3, PressTrue, WithdrawTrue, WriteFailedTrue DEF Undisturbed
<1>q. QED BY <1>1, <1>2, QuietTrue

LEMMA OtherTrue == ASSUME TypeInv, TrueInv, NEW doc \in Doc, EditElsewhere(doc) PROVE TrueInv'
<1>1. receipts'.answers = receipts.answers /\ receipts'.done = receipts.done /\ UNCHANGED <<flight, outbox, disk, writes>>
  BY Types DEF EditElsewhere
<1>q. QED BY <1>1 DEF TrueInv, AnswersTrue, FlightTrue, FailedTrue, Rejected, Refusals, Restorable

LEMMA AdvanceTrue ==
    ASSUME TypeInv, AnswersTrue, NEW command \in SomeCommand, command.formed, NEW ok \in BOOLEAN, receipts' = Advance(command, ok)
    PROVE  AnswersTrue' /\ receipts.answers \subseteq receipts'.answers
<1>1. CASE Stored(command) # {}
  <2>1. receipts' = receipts
    BY <1>1 DEF Advance
  <2>q. QED BY <2>1 DEF AnswersTrue
<1>2. CASE Stored(command) = {}
  <2>1. PICK answer : /\ receipts'.answers = receipts.answers \cup {answer} /\ answer.id = command.id
                      /\ \/ answer.status = "confirmed" /\ receipts'.done = receipts.done \cup {command}
                         \/ answer.status = "rejected" /\ receipts'.done = receipts.done
    BY <1>2, AdvanceGives
  <2>2. \A a \in receipts.answers : a.id # answer.id
    BY <1>2, <2>1 DEF Stored
  <2>q. QED BY <2>1, <2>2 DEF AnswersTrue
<1>q. QED BY <1>1, <1>2

LEMMA ServeTrue ==
    ASSUME TypeInv, TrueInv, NEW ok \in BOOLEAN, ServeHead(ok) \/ ServeLate(ok)
    PROVE  TrueInv'
<1>1. PICK command \in SomeCommand : receipts' = Advance(command, ok) /\ command.formed
  BY GoingTyped DEF ServeHead, ServeLate, TypeInv
<1>2. AnswersTrue' /\ receipts.answers \subseteq receipts'.answers
  BY <1>1, AdvanceTrue DEF TrueInv
<1>3. UNCHANGED <<outbox, disk, writes>>
  BY DEF ServeHead, ServeLate
<1>4. FailedTrue'
  BY <1>2, <1>3 DEF TrueInv, FailedTrue, Rejected, Refusals, Restorable
<1>5. FlightTrue'
  BY <1>2 DEF ServeHead, ServeLate, TrueInv, FlightTrue
<1>q. QED BY <1>2, <1>4, <1>5 DEF TrueInv

LEMMA SettleTrue ==
    ASSUME TypeInv, TrueInv, NEW status, NEW merged, Settle(status, merged),
           flight.command \in SomeCommand, status = "rejected" => Rejected(flight.command)
    PROVE  TrueInv'
<1>1. UNCHANGED <<receipts, disk>> /\ flight' = [state |-> "saving"]
  BY DEF Settle
<1>2. outbox'.failed = IF status = "rejected" THEN Append(outbox.failed, flight.command) ELSE outbox.failed
  BY DEF Settle
<1>3. \A c \in ToSet(outbox'.failed) : c \in ToSet(outbox.failed) \/ (c = flight.command /\ Rejected(c))
  BY <1>2, IdsAppended, Types
<1>4. Restorable' \subseteq Restorable
  BY WriteTyped, RestorableGrows DEF Settle
<1>5. \A c \in Refusals' : c \in Refusals \/ Rejected(c)
  BY <1>1, <1>3, <1>4 DEF Refusals
<1>q. QED BY <1>1, <1>5 DEF TrueInv, AnswersTrue, FlightTrue, FailedTrue, Rejected

LEMMA TakenTrue == ASSUME TypeInv, TrueInv, ReceiveAnswer \/ Refused PROVE TrueInv'
<1>1. flight.command \in SomeCommand
  BY GoingTyped DEF ReceiveAnswer, Refused
<1>2. CASE ReceiveAnswer
  <2>1. flight.answer \in receipts.answers /\ flight.answer.id = flight.command.id
    BY <1>2 DEF ReceiveAnswer, TrueInv, FlightTrue
  <2>2. flight.answer.status = "rejected" => Rejected(flight.command)
    BY <2>1 DEF Rejected
  <2>q. QED BY <1>1, <1>2, <2>2, SettleTrue DEF ReceiveAnswer
<1>3. CASE Refused
  <2>1. Rejected(flight.command)
    BY <1>3 DEF Refused, Rejected
  <2>q. QED BY <1>1, <1>3, <2>1, SettleTrue DEF Refused
<1>q. QED BY <1>2, <1>3

LEMMA LoadsTrue == ASSUME TypeInv, TrueInv, ServeLoad \/ \E ok \in BOOLEAN : Loaded(ok) PROVE TrueInv'
<1>1. UNCHANGED <<receipts, outbox, disk, writes>> /\ (flight' = flight \/ flight'.state # "answered")
  BY PumpCalm DEF ServeLoad, Loaded
<1>2. Refusals' \subseteq Refusals
  BY <1>1 DEF Refusals, Restorable
<1>q. QED BY <1>1, <1>2, QuietTrue

LEMMA TrueSteps == ASSUME ~ hist'.forgotten, TypeInv, TrueInv, [ReceiptNext]_receiptVars PROVE TrueInv'
<1>1. CASE Undisturbed
  BY <1>1, UndisturbedTrue
<1>2. CASE \E doc \in Doc : EditElsewhere(doc)
  BY <1>2, OtherTrue
<1>3. CASE Forget
  BY <1>3, FaultTyped DEF Forget
<1>4. CASE \E ok \in BOOLEAN : ServeHead(ok) \/ ServeLate(ok)
  BY <1>4, ServeTrue
<1>5. CASE ReceiveAnswer \/ Refused
  BY <1>5, TakenTrue
<1>6. CASE ServeLoad \/ \E ok \in BOOLEAN : Loaded(ok)
  BY <1>6, LoadsTrue
<1>q. QED BY <1>1, <1>2, <1>3, <1>4, <1>5, <1>6 DEF ReceiptNext, Undisturbed

-----------------------------------------------------------------------------
QueueInv == TypeInv /\ OnceInv /\ ReachInv /\ (~ hist.unwritten => KeptInv) /\ (~ hist.forgotten => TrueInv)

(* What has failed once, or is forgotten, stays so. *)
LEMMA FaultsStay ==
    ASSUME TypeInv, [ReceiptNext]_receiptVars
    PROVE  (hist.unwritten => hist'.unwritten) /\ (hist.forgotten => hist'.forgotten)
<1>1. \A h : (FaultCounted(h) /\ h \in History) => hist'.unwritten = h.unwritten /\ hist'.forgotten = h.forgotten
  BY DEF FaultCounted, History
<1>2. hist \in History /\ [hist EXCEPT !.unwritten = TRUE] \in History /\ [hist EXCEPT !.forgotten = TRUE] \in History
  BY DEF TypeInv, History
<1>3. CASE WriteFailed
  BY <1>1, <1>2, <1>3 DEF WriteFailed, History
<1>4. CASE Forget
  BY <1>1, <1>2, <1>4 DEF Forget, History
<1>5. CASE Lost \/ Reopen \/ \E ok \in BOOLEAN : Loaded(ok)
  BY <1>1, <1>2, <1>5 DEF Lost, Reopen, Loaded
<1>6. CASE (\E formed \in BOOLEAN : Press(formed)) \/ ReceiveAnswer \/ Refused
  BY <1>2, <1>6 DEF Press, ReceiveAnswer, Refused, Settle, History
<1>7. CASE Wrote
  <2>1. hist' = hist \/ \E id : hist' = [hist EXCEPT !.accepted = @ \cup {id}]
    <3>1. PICK w \in SomeWrite : w = Head(writes)
      BY <1>7, HeadTyped DEF Wrote
    <3>2. CASE w.kind = "queue"
      BY <1>7, <3>1, <3>2 DEF Wrote
    <3>3. CASE w.kind # "queue"
      BY <1>7, <3>1, <3>3 DEF Wrote, SomeWrite
    <3>q. QED BY <3>2, <3>3
  <2>q. QED BY <1>2, <2>1 DEF History
<1>8. CASE Skip \/ (\E i \in 1..MaxCommand : EditFailed(i) \/ WithdrawFailed(i)) \/ RetryFires \/ Wake
          \/ (\E ok \in BOOLEAN : ServeHead(ok) \/ ServeLate(ok)) \/ ServeLoad \/ (\E doc \in Doc : EditElsewhere(doc))
          \/ UNCHANGED receiptVars
  BY <1>8 DEF Skip, EditFailed, WithdrawFailed, RetryFires, Wake, ServeHead, ServeLate, ServeLoad, EditElsewhere, receiptVars
<1>q. QED BY <1>3, <1>4, <1>5, <1>6, <1>7, <1>8 DEF ReceiptNext


LEMMA QueueInit == ReceiptInit => QueueInv
<1> SUFFICES ASSUME ReceiptInit PROVE QueueInv
  OBVIOUS
<1>1. /\ receipts.done = {} /\ receipts.answers = {} /\ flight.state = "none" /\ load.state = "going" /\ writes = <<>>
      /\ outbox = EmptyOutbox /\ disk = EmptyOutbox /\ hist.accepted = {}
  BY DEF ReceiptInit, NoFlight
<1>2. outbox.failed = <<>> /\ disk.failed = <<>> /\ DOMAIN writes = {}
  BY <1>1 DEF EmptyOutbox
<1>3. ToSet(outbox.failed) = {} /\ ToSet(disk.failed) = {} /\ ToSet(writes) = {}
  BY <1>2 DEF ToSet
<1>4. OnceInv /\ ReachInv
  BY <1>1 DEF OnceInv, ReachInv, ProcessedOnce
<1>5. KeptInv /\ TrueInv
  BY <1>1, <1>2, <1>3 DEF KeptInv, Heads, WritesKept, AcceptedKept, TrueInv, AnswersTrue, FlightTrue, FailedTrue, Refusals, Restorable
<1>q. QED BY <1>4, <1>5, TypeInit DEF QueueInv

LEMMA QueueSteps == QueueInv /\ [ReceiptNext]_receiptVars => QueueInv' /\ FormStep
BY TypeSteps, OnceSteps, FaultsStay, KeptSteps, TrueSteps DEF QueueInv

(* A receipt is processed by one command; what the user was told was kept   *)
(* is kept until it is answered, while no write has failed; no command that *)
(* was carried out is listed as failed, while no answer was deleted; and no *)
(* answer takes away the receipt the user is at.                            *)
THEOREM ReceiptsProcessedOnce == ReceiptSpec => ReceiptsOnce
<1>1. QueueInv => OutboxTrue
  BY TrueGives DEF QueueInv, OnceInv, KeptInv, OutboxTrue
<1>2. QueueInv /\ [ReceiptNext]_receiptVars =>
        [/\ flight.state = "answered" /\ flight'.state = "saving" => Kept(0, flight.answer.payload)
         /\ load.state = "answered" /\ load' = NoLoad => Kept(load.cursor, load.payload)]_receiptVars
  BY QueueSteps DEF FormStep
<1>q. QED BY <1>1, <1>2, QueueInit, QueueSteps, PTL DEF ReceiptSpec, ReceiptsOnce, FormStays
=============================================================================
