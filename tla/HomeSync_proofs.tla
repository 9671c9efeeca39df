--------------------------- MODULE HomeSync_proofs ---------------------------
(***************************************************************************)
(* For any number of operations, slips, quantities, days, revisions, faults *)
(* and steps of other staff.                                                *)
(*                                                                          *)
(* HomeInv.  The page holds what is stored (Saved), or starts over (Blank). *)
(* The queue and all batches, on their way, answered or kept, are in the    *)
(* order of typing and have no operation in common; a queued operation is   *)
(* in no batch but the kept one, and was typed after those of the others    *)
(* (Orderly): createFlushBatch takes the whole queue, and only when no      *)
(* batch is kept.  Nothing that is known of the business day is newer than  *)
(* the day (NotAfter), so a batch made for its revision was made after all  *)
(* that took effect had been answered (InTurn).  There is one answer per    *)
(* batch, the list of the day holds what answers confirm (AnswersOK), and   *)
(* what the page was told an answer says (ToldInv).                         *)
(*                                                                          *)
(* What every action does to the queue, the screen and what was told is one *)
(* of the steps Stays, Types, Loads, Receives, Restarts and Others or of    *)
(* the server's (HomeStep).  From them follow: the screen never goes back;  *)
(* the page implements EditList, and so has what its steps keep (EditInv);  *)
(* and, with SafeInv, what is typed is neither lost nor left out.           *)
(***************************************************************************)
EXTENDS HomeSync, Lists_proofs

(* The elements at some places of a sequence, in their order: which they    *)
(* are, and where each comes from.                                          *)
LEMMA Places ==
    ASSUME NEW S, NEW seq \in Seq(S), NEW places \in SUBSET DOMAIN seq
    PROVE  /\ AtPlaces(seq, places) \in Seq(S)
           /\ \E f \in [DOMAIN AtPlaces(seq, places) -> places] :
                 /\ \A n \in DOMAIN f : AtPlaces(seq, places)[n] = seq[f[n]]
                 /\ \A m, n \in DOMAIN f : m < n => f[m] < f[n]
                 /\ \A i \in places : \E n \in DOMAIN f : f[n] = i
  <1> DEFINE k == Cardinality(places)
             f == [n \in 1..k |-> Nth(places, n)]
  <1>1. places \in SUBSET (1..Len(seq))
    OBVIOUS
  <1>2. /\ AtPlaces(seq, places) \in Seq(S) /\ k \in Nat /\ Len(AtPlaces(seq, places)) = k
        /\ \A n \in 1..k : Nth(places, n) \in places /\ AtPlaces(seq, places)[n] = seq[Nth(places, n)]
        /\ \A m, n \in 1..k : m < n => Nth(places, m) < Nth(places, n)
        /\ \A i \in places : \E n \in 1..k : i = Nth(places, n)
    BY <1>1, FilterKeeps
  <1> HIDE DEF k
  <1>3. DOMAIN AtPlaces(seq, places) = 1..k /\ f \in [1..k -> places]
    BY <1>2
  <1>4. /\ \A n \in DOMAIN f : AtPlaces(seq, places)[n] = seq[f[n]]
        /\ \A m, n \in DOMAIN f : m < n => f[m] < f[n]
        /\ \A i \in places : \E n \in DOMAIN f : f[n] = i
    BY <1>2, <1>3
  <1> HIDE DEF f
  <1> QED
    BY <1>2, <1>3, <1>4

Fate == {"nothing", "confirmed", "refused"}

(* The types without the bounds that TLC needs. *)
SomeDraft == [Slip -> [n : Int, base : Int]]
SomeEdit == [id : Nat, slip : Slip, valid : BOOLEAN]
SomeView == [day : Nat, rev : Nat, status : [Slip -> {"unborn", "open", "closed", "past"}],
             count : [Slip -> Int], log : Seq(Nat)]
SomeBatch == [id : Nat, day : Nat, rev : Nat, ops : Seq(SomeEdit), lines : SomeDraft]
SomeKept == [ops : Seq(SomeEdit), draft : SomeDraft, batch : SomeBatch]
SomeAnswer == [batch : SomeBatch, confirmed : BOOLEAN, view : SomeView]
SomePage == [shown : SomeView, outbox : Seq(SomeEdit), draft : SomeDraft, batch : SomeBatch,
             stored : SomeKept, restored : BOOLEAN, flying : BOOLEAN, timer : BOOLEAN,
             rearm : BOOLEAN, waiting : SUBSET Slip, dialog : SUBSET Slip]

-----------------------------------------------------------------------------
(* What the page holds is what is stored; a page that starts over holds    *)
(* nothing, and its queue and its batch are the stored ones.                *)
Saved(p) ==
    /\ p.restored
    /\ p.shown.day > 0
    /\ p.stored.ops = p.outbox
    /\ p.stored.batch = p.batch \/ (p.outbox = <<>> /\ p.stored.batch = NoBatch)
    /\ p.flying => p.batch # NoBatch

Blank(p) ==
    /\ ~ p.restored /\ p = FreshPage(p.stored)

Queue(p) == IF p.restored THEN p.outbox ELSE p.stored.ops
Held(p) == IF p.restored THEN p.batch ELSE p.stored.batch

(* The order of typing. *)
Ascending(ops) == \A i, j \in DOMAIN ops : i < j => ops[i].id < ops[j].id

(* The batches: those on their way or answered, and the one the page holds. *)
All(b, C) == (C \cup {b}) \ {NoBatch}

(* The queue and the batches hold operations that were typed, in the order  *)
(* of typing; two batches have no operation in common, a queued operation   *)
(* is in no batch but the one the page holds, and it was typed after those  *)
(* of every batch it is not in.                                             *)
Orderly(q, b, C, n, m) ==
    /\ Ascending(q) /\ Ids(q) \subseteq 1..n
    /\ \A c \in All(b, C) : c.id \in 1..m /\ Ascending(c.ops) /\ Ids(c.ops) \subseteq 1..n
    /\ \A c, d \in All(b, C) : (c.id = d.id \/ Ids(c.ops) \cap Ids(d.ops) # {}) => c = d
    /\ \A c \in All(b, C), y \in Ids(q) :
          /\ y \in Ids(c.ops) => c = b
          /\ \A x \in Ids(c.ops) : y < x => y \in Ids(c.ops)

(* The same of a queue: nothing else is in it, and it stays in the order of *)
(* typing.                                                                  *)
LEMMA Filtered ==
    ASSUME NEW ops \in Seq(SomeEdit), NEW places \in SUBSET DOMAIN ops
    PROVE  /\ AtPlaces(ops, places) \in Seq(SomeEdit)
           /\ Range(AtPlaces(ops, places)) = {ops[i] : i \in places}
           /\ Ascending(ops) => Ascending(AtPlaces(ops, places))
  <1> DEFINE rest == AtPlaces(ops, places)
  <1>1. rest \in Seq(SomeEdit)
    BY Places
  <1>2. PICK f \in [DOMAIN rest -> places] :
            /\ \A n \in DOMAIN f : rest[n] = ops[f[n]]
            /\ \A m, n \in DOMAIN f : m < n => f[m] < f[n]
            /\ \A i \in places : \E n \in DOMAIN f : f[n] = i
    BY Places
  <1> HIDE DEF rest
  <1>3. DOMAIN f = DOMAIN rest /\ \A n \in DOMAIN rest : f[n] \in places
    BY <1>2
  <1>4. Range(rest) = {ops[i] : i \in places}
    BY <1>2, <1>3 DEF Range
  <1>5. Ascending(ops) => Ascending(rest)
    BY <1>2, <1>3 DEF Ascending
  <1> QED
    BY <1>1, <1>4, <1>5 DEF rest

(* What Without leaves of a queue. *)
LEMMA WithoutLeaves ==
    ASSUME NEW ops \in Seq(SomeEdit), NEW ids
    PROVE  /\ WithoutIds(ops, ids) \in Seq(SomeEdit)
           /\ Range(WithoutIds(ops, ids)) = {e \in Range(ops) : e.id \notin ids}
           /\ Ascending(ops) => Ascending(WithoutIds(ops, ids))
  <1> DEFINE places == {i \in DOMAIN ops : ops[i].id \notin ids}
  <1>1. places \in SUBSET DOMAIN ops /\ WithoutIds(ops, ids) = AtPlaces(ops, places)
    BY DEF WithoutIds
  <1>2. {ops[i] : i \in places} = {e \in Range(ops) : e.id \notin ids}
    BY DEF Range
  <1> HIDE DEF places
  <1> QED
    BY <1>1, <1>2, Filtered

(* The ids of a queue are those of its elements. *)
LEMMA IdsOfRange ==
    ASSUME NEW ops PROVE Ids(ops) = {e.id : e \in Range(ops)}
  BY DEF Ids, Range

(* No batch holds no operation. *)
LEMMA NoBatchEmpty == NoBatch \in SomeBatch /\ Ids(NoBatch.ops) = {} /\ NoBatch.id = 0
  <1>1. NoDrafts \in SomeDraft
    BY DEF NoDrafts, SomeDraft, Clean
  <1> QED
    BY <1>1 DEF NoBatch, SomeBatch, Ids

(* An operation typed after all others leaves everything in order. *)
LEMMA OrderlyTyped ==
    ASSUME NEW q \in Seq(SomeEdit), NEW b, NEW C, NEW n \in Nat, NEW m \in Nat,
           NEW e \in SomeEdit, e.id = n + 1, Orderly(q, b, C, n, m)
    PROVE  Orderly(Append(q, e), b, C, n + 1, m)
  <1> DEFINE r == Append(q, e)
  <1>1. /\ Len(q) \in Nat /\ DOMAIN q = 1..Len(q) /\ DOMAIN r = 1..(Len(q) + 1)
        /\ \A i \in DOMAIN q : r[i] = q[i]
        /\ r[Len(q) + 1] = e
    OBVIOUS
  <1> HIDE DEF r
  <1>2. Ids(r) = Ids(q) \cup {n + 1}
    BY <1>1 DEF Ids
  <1>3. \A i \in DOMAIN q : q[i].id \in 1..n
    BY DEF Orderly, Ids
  <1>4. Ascending(r)
    BY <1>1, <1>3 DEF Orderly, Ascending
  <1>5. \A c \in All(b, C) : c.id \in 1..m /\ Ascending(c.ops) /\ Ids(c.ops) \subseteq 1..n
    BY DEF Orderly
  <1>6. Ids(r) \subseteq 1..(n + 1)
    BY <1>2 DEF Orderly
  <1>7. \A c \in All(b, C) : c.id \in 1..m /\ Ascending(c.ops) /\ Ids(c.ops) \subseteq 1..(n + 1)
    <2>1. 1..n \subseteq 1..(n + 1)
      OBVIOUS
    <2> QED
      BY <1>5, <2>1
  <1>8. \A c \in All(b, C), y \in Ids(r) :
          /\ y \in Ids(c.ops) => c = b
          /\ \A x \in Ids(c.ops) : y < x => y \in Ids(c.ops)
    <2> SUFFICES ASSUME NEW c \in All(b, C), NEW y \in Ids(r)
                 PROVE  /\ y \in Ids(c.ops) => c = b
                        /\ \A x \in Ids(c.ops) : y < x => y \in Ids(c.ops)
      OBVIOUS
    <2>1. CASE y \in Ids(q)
      BY <2>1 DEF Orderly
    <2>2. CASE y = n + 1
      <3>1. \A x \in Ids(c.ops) : x \in 1..n
        BY <1>5
      <3>2. \A x \in 1..n : x # y /\ ~ (y < x)
        BY <2>2
      <3> QED
        BY <3>1, <3>2
    <2> QED
      BY <1>2, <2>1, <2>2
  <1>9. Orderly(r, b, C, n + 1, m)
    BY <1>4, <1>6, <1>7, <1>8 DEF Orderly
  <1> QED
    BY <1>9 DEF r

(* A new batch of the whole queue leaves everything in order. *)
LEMMA OrderlyMade ==
    ASSUME NEW q, NEW C, NEW n \in Nat, NEW m \in Nat,
           NEW b, b.id = m + 1, b.ops = q, Orderly(q, NoBatch, C, n, m)
    PROVE  Orderly(q, b, C, n, m + 1)
  <1>1. All(b, C) \subseteq All(NoBatch, C) \cup {b}
    BY DEF All
  <1>2. \A c \in All(NoBatch, C) : c # NoBatch /\ c.id \in 1..m /\ c.id # b.id
    BY DEF Orderly, All
  <1>3. \A c \in All(NoBatch, C) : Ids(c.ops) \cap Ids(q) = {}
    BY <1>2 DEF Orderly
  <1>4. /\ Ascending(q) /\ Ids(q) \subseteq 1..n
        /\ \A c \in All(b, C) : c.id \in 1..(m + 1) /\ Ascending(c.ops) /\ Ids(c.ops) \subseteq 1..n
    BY <1>1, <1>2 DEF Orderly
  <1>5. \A c, d \in All(b, C) : (c.id = d.id \/ Ids(c.ops) \cap Ids(d.ops) # {}) => c = d
    BY <1>1, <1>2, <1>3 DEF Orderly
  <1>6. \A c \in All(b, C), y \in Ids(q) :
          /\ y \in Ids(c.ops) => c = b
          /\ \A x \in Ids(c.ops) : y < x => y \in Ids(c.ops)
    BY <1>1, <1>3 DEF Orderly
  <1> QED
    BY <1>4, <1>5, <1>6 DEF Orderly

(* A queue that holds less, and fewer batches, leave everything in order. *)
LEMMA OrderlyFewer ==
    ASSUME NEW q, NEW r, NEW b, NEW d, NEW C, NEW D, NEW n \in Nat, NEW m \in Nat,
           Orderly(q, b, C, n, m), Ascending(r), Ids(r) \subseteq Ids(q), All(d, D) \subseteq All(b, C),
           d = b \/ Ids(r) \cap Ids(b.ops) = {}
    PROVE  Orderly(r, d, D, n, m)
  <1>1. \A c \in All(d, D), y \in Ids(r) :
          /\ y \in Ids(c.ops) => c = d
          /\ \A x \in Ids(c.ops) : y < x => y \in Ids(c.ops)
    BY DEF Orderly
  <1>2. \A c, e \in All(d, D) : (c.id = e.id \/ Ids(c.ops) \cap Ids(e.ops) # {}) => c = e
    BY DEF Orderly
  <1> QED
    BY <1>1, <1>2 DEF Orderly

-----------------------------------------------------------------------------
(* q is p but for drafts forgotten, what is stored, and the timers. *)
Same(p, q) ==
    /\ q \in SomePage
    /\ q.shown = p.shown /\ q.outbox = p.outbox /\ q.batch = p.batch
    /\ q.restored = p.restored /\ q.flying = p.flying
    /\ q.waiting = p.waiting /\ q.dialog = p.dialog

(* Quantities are forgotten. *)
Fewer(p, q) == \A s \in Slip : q.draft[s] = p.draft[s] \/ q.draft[s] = Clean

(* The constants of the module have the types of what they stand for. *)
LEMMA ConstantsTyped ==
    /\ NoDrafts \in SomeDraft /\ Clean \in [n : Int, base : Int] /\ \A s \in Slip : NoDrafts[s] = Clean
    /\ NoBatch \in SomeBatch /\ Nothing \in SomeKept /\ Nothing.ops = <<>> /\ Nothing.batch = NoBatch
    /\ NoShot \in SomeView /\ NoShot.day = 0 /\ NoShot.rev = 0 /\ \A s \in Slip : NoShot.status[s] = "unborn"
  <1>1. NoDrafts \in SomeDraft /\ Clean \in [n : Int, base : Int] /\ \A s \in Slip : NoDrafts[s] = Clean
    BY DEF NoDrafts, SomeDraft, Clean
  <1>2. NoBatch \in SomeBatch
    BY NoBatchEmpty
  <1>3. Nothing \in SomeKept /\ Nothing.ops = <<>> /\ Nothing.batch = NoBatch
    BY <1>1, <1>2 DEF Nothing, SomeKept
  <1>4. NoShot \in SomeView /\ NoShot.day = 0 /\ NoShot.rev = 0 /\ \A s \in Slip : NoShot.status[s] = "unborn"
    BY DEF NoShot, SomeView
  <1> QED
    BY <1>1, <1>2, <1>3, <1>4

(* Persist changes what is stored alone, and then it is what the page       *)
(* holds.                                                                   *)
LEMMA Persisted ==
    ASSUME NEW p \in SomePage
    PROVE  /\ Same(p, Persist(p)) /\ Persist(p).draft = p.draft /\ Persist(p).timer = p.timer
           /\ Persist(p).rearm = p.rearm
           /\ p.restored /\ p.shown.day > 0 /\ (p.flying => p.batch # NoBatch) => Saved(Persist(p))
  <1> DEFINE kept == IF p.outbox = <<>> /\ p.draft = NoDrafts
                     THEN Nothing ELSE [ops |-> p.outbox, draft |-> p.draft, batch |-> p.batch]
             q == Persist(p)
  <1>1. kept \in SomeKept
    BY ConstantsTyped DEF SomePage, SomeKept
  <1>2. \/ kept.ops = p.outbox /\ kept.batch = p.batch
        \/ p.outbox = <<>> /\ kept.ops = <<>> /\ kept.batch = NoBatch
    BY ConstantsTyped
  <1>3. q = [p EXCEPT !.stored = kept]
    BY DEF Persist
  <1> HIDE DEF kept, q
  <1>4. /\ q \in SomePage /\ q.stored = kept
        /\ q.shown = p.shown /\ q.outbox = p.outbox /\ q.batch = p.batch /\ q.draft = p.draft
        /\ q.restored = p.restored /\ q.flying = p.flying /\ q.timer = p.timer /\ q.rearm = p.rearm
        /\ q.waiting = p.waiting /\ q.dialog = p.dialog
    BY <1>1, <1>3 DEF SomePage
  <1> QED
    BY <1>2, <1>4 DEF Same, Saved, q

(* Cleanup forgets quantities, and nothing else. *)
LEMMA CleanedUp ==
    ASSUME NEW p \in SomePage
    PROVE  /\ Same(p, Cleanup(p)) /\ Fewer(p, Cleanup(p)) /\ Cleanup(p).timer = p.timer
           /\ Cleanup(p).rearm = p.rearm
           /\ Saved(p) => Saved(Cleanup(p))
  <1> DEFINE draft == [s \in Slip |-> IF IsOpen(p, s) /\ p.draft[s].n # p.shown.count[s] THEN p.draft[s] ELSE Clean]
             q == [p EXCEPT !.draft = draft]
  <1>1. draft \in SomeDraft
    BY ConstantsTyped DEF SomePage, SomeDraft
  <1>2. \A s \in Slip : draft[s] = p.draft[s] \/ draft[s] = Clean
    OBVIOUS
  <1> HIDE DEF draft
  <1>3. /\ q \in SomePage /\ q.stored = p.stored /\ q.draft = draft
        /\ q.shown = p.shown /\ q.outbox = p.outbox /\ q.batch = p.batch
        /\ q.restored = p.restored /\ q.flying = p.flying /\ q.timer = p.timer /\ q.rearm = p.rearm
        /\ q.waiting = p.waiting /\ q.dialog = p.dialog
    BY <1>1 DEF SomePage
  <1>4. Cleanup(p) = IF draft = p.draft THEN p ELSE Persist(q)
    BY DEF Cleanup, draft
  <1> HIDE DEF q
  <1>5. CASE draft = p.draft
    BY <1>4, <1>5 DEF Same, Fewer
  <1>6. CASE draft # p.draft
    <2>1. Same(q, Persist(q)) /\ Persist(q).draft = draft /\ Persist(q).timer = p.timer /\ Persist(q).rearm = p.rearm
      BY <1>3, Persisted
    <2>2. Saved(p) => Saved(Persist(q))
      BY <1>3, Persisted DEF Saved
    <2> QED
      BY <1>2, <1>3, <1>4, <1>6, <2>1, <2>2 DEF Same, Fewer
  <1> QED
    BY <1>5, <1>6

(* ScheduleFlush sets the timer, and nothing else. *)
LEMMA Scheduled ==
    ASSUME NEW p \in SomePage
    PROVE  /\ Same(p, ScheduleFlush(p)) /\ ScheduleFlush(p).draft = p.draft /\ ScheduleFlush(p).stored = p.stored
           /\ Saved(p) => Saved(ScheduleFlush(p))
  <1> DEFINE q == [p EXCEPT !.timer = TRUE]
  <1>1. /\ q \in SomePage /\ q.stored = p.stored /\ q.draft = p.draft
        /\ q.shown = p.shown /\ q.outbox = p.outbox /\ q.batch = p.batch
        /\ q.restored = p.restored /\ q.flying = p.flying
        /\ q.waiting = p.waiting /\ q.dialog = p.dialog
    BY DEF SomePage
  <1>2. ScheduleFlush(p) = p \/ ScheduleFlush(p) = q
    BY DEF ScheduleFlush
  <1> HIDE DEF q
  <1> QED
    BY <1>1, <1>2 DEF Same, Saved

(* SetQuantity changes the quantity of one slip. *)
LEMMA QuantitySet ==
    ASSUME NEW p \in SomePage, Saved(p), NEW s \in Slip, NEW n \in Int
    PROVE  /\ Same(p, SetQuantity(p, s, n)) /\ Saved(SetQuantity(p, s, n))
           /\ \A t \in Slip : t # s => SetQuantity(p, s, n).draft[t] = p.draft[t]
  <1> DEFINE new == IF n = p.shown.count[s] THEN Clean ELSE [n |-> n, base |-> p.shown.count[s]]
             q == [p EXCEPT !.draft[s] = new]
  <1>1. p.shown.count[s] \in Int /\ p.draft \in SomeDraft
    BY DEF SomePage, SomeView
  <1>2. new \in [n : Int, base : Int]
    BY <1>1, ConstantsTyped
  <1> HIDE DEF new
  <1>3. /\ q = [p EXCEPT !.draft = [@ EXCEPT ![s] = new]]
        /\ [p.draft EXCEPT ![s] = new] \in SomeDraft
        /\ \A t \in Slip : t # s => [p.draft EXCEPT ![s] = new][t] = p.draft[t]
    BY <1>1, <1>2 DEF SomeDraft
  <1>4. /\ q \in SomePage /\ q.stored = p.stored /\ q.draft = [p.draft EXCEPT ![s] = new]
        /\ q.shown = p.shown /\ q.outbox = p.outbox /\ q.batch = p.batch
        /\ q.restored = p.restored /\ q.flying = p.flying
        /\ q.waiting = p.waiting /\ q.dialog = p.dialog
    BY <1>3 DEF SomePage
  <1>5. SetQuantity(p, s, n) = Persist(q)
    BY DEF SetQuantity, new
  <1> HIDE DEF q
  <1>6. Same(q, Persist(q)) /\ Persist(q).draft = q.draft /\ Saved(Persist(q))
    BY <1>4, Persisted DEF Saved
  <1>7. \A t \in Slip : t # s => Persist(q).draft[t] = p.draft[t]
    <2>1. Persist(q).draft = [p.draft EXCEPT ![s] = new]
      BY <1>4, <1>6
    <2>2. \A t \in Slip : t # s => [p.draft EXCEPT ![s] = new][t] = p.draft[t]
      BY <1>3
    <2> QED BY <2>1, <2>2
  <1>8. Same(p, Persist(q))
    BY <1>4, <1>6 DEF Same
  <1> QED
    BY <1>5, <1>6, <1>7, <1>8

(* MarkLines forgets quantities, and nothing else. *)
LEMMA Marked ==
    ASSUME NEW p \in SomePage, NEW lines
    PROVE  Same(p, MarkLines(p, lines)) /\ Fewer(p, MarkLines(p, lines))
  <1> DEFINE draft == [s \in Slip |-> IF p.draft[s].n = lines[s].n THEN Clean ELSE p.draft[s]]
             q == [p EXCEPT !.draft = draft]
  <1>1. draft \in SomeDraft /\ \A s \in Slip : draft[s] = p.draft[s] \/ draft[s] = Clean
    BY ConstantsTyped DEF SomePage, SomeDraft
  <1>2. MarkLines(p, lines) = q
    BY DEF MarkLines
  <1> HIDE DEF draft
  <1> QED
    BY <1>1, <1>2 DEF SomePage, Same, Fewer

(* What a page that starts over is. *)
LEMMA Blanked ==
    ASSUME NEW kept \in SomeKept
    PROVE  /\ FreshPage(kept) \in SomePage /\ Blank(FreshPage(kept)) /\ FreshPage(kept).stored = kept
           /\ FreshPage(kept).shown = NoShot /\ ~ FreshPage(kept).flying /\ FreshPage(kept).batch = NoBatch
           /\ FreshPage(kept).dialog = {} /\ FreshPage(kept).waiting = {} /\ ~ FreshPage(kept).timer
  <1> DEFINE p == FreshPage(kept)
  <1>1. /\ p.shown = NoShot /\ p.outbox = <<>> /\ p.draft = NoDrafts /\ p.batch = NoBatch /\ p.stored = kept
        /\ ~ p.restored /\ ~ p.flying /\ ~ p.timer /\ p.dialog = {} /\ p.waiting = {}
    BY DEF FreshPage
  <1>2. p \in SomePage
    BY ConstantsTyped DEF FreshPage, SomePage
  <1> QED
    BY <1>1, <1>2 DEF Blank

(* What a blank page takes back from localStorage with its first snapshot. *)
LEMMA Restored ==
    ASSUME NEW kept \in SomeKept, NEW view \in SomeView, view.day > 0,
           NEW p, p = [FreshPage(kept) EXCEPT !.shown = view]
    PROVE  /\ Restore(p) \in SomePage /\ Saved(Restore(p))
           /\ Restore(p).shown = view /\ Restore(p).batch = kept.batch /\ ~ Restore(p).flying
           /\ Range(Restore(p).outbox) = {e \in Range(kept.ops) : view.status[e.slip] = "open"}
           /\ Ascending(kept.ops) => Ascending(Restore(p).outbox)
           /\ Restore(p).dialog = {} /\ Restore(p).waiting = {}
  <1> DEFINE places == {i \in DOMAIN kept.ops : view.status[kept.ops[i].slip] = "open"}
             ops == AtPlaces(p.stored.ops, {i \in DOMAIN p.stored.ops : IsOpen(p, p.stored.ops[i].slip)})
             draft == [s \in Slip |-> IF IsOpen(p, s) /\ p.stored.draft[s].n # p.shown.count[s]
                                      THEN p.stored.draft[s] ELSE Clean]
             q == [p EXCEPT !.restored = TRUE, !.outbox = ops, !.draft = draft, !.batch = p.stored.batch]
             r == IF ops = <<>> /\ draft = NoDrafts
                  THEN [q EXCEPT !.stored = Nothing] ELSE ScheduleFlush(Persist(q))
  <1>1. /\ p \in SomePage /\ p.shown = view /\ p.stored = kept /\ ~ p.restored /\ ~ p.flying
        /\ p.dialog = {} /\ p.waiting = {}
    <2>1. FreshPage(kept) \in SomePage
      BY Blanked
    <2> QED
      BY <2>1, Blanked DEF SomePage, FreshPage
  <1>2. kept.ops \in Seq(SomeEdit) /\ kept.draft \in SomeDraft /\ kept.batch \in SomeBatch
    BY DEF SomeKept
  <1>3. Restore(p) = r
    BY <1>1 DEF Restore
  <1>4. /\ ops \in Seq(SomeEdit)
        /\ Range(ops) = {e \in Range(kept.ops) : view.status[e.slip] = "open"}
        /\ Ascending(kept.ops) => Ascending(ops)
    <2>1. {kept.ops[i] : i \in places} = {e \in Range(kept.ops) : view.status[e.slip] = "open"}
      BY DEF Range
    <2>2. places \in SUBSET DOMAIN kept.ops
      OBVIOUS
    <2>3. places = {i \in DOMAIN p.stored.ops : IsOpen(p, p.stored.ops[i].slip)}
      BY <1>1 DEF IsOpen
    <2>4. ops = AtPlaces(kept.ops, places)
      BY <1>1, <2>3
    <2> HIDE DEF places, ops
    <2> QED
      BY <1>2, <2>1, <2>2, <2>4, Filtered
  <1>5. draft \in SomeDraft
    BY <1>1, <1>2, ConstantsTyped DEF SomeDraft
  <1> HIDE DEF ops, draft
  <1>6. /\ q \in SomePage /\ q.shown = view /\ q.batch = kept.batch /\ q.restored /\ ~ q.flying
        /\ q.outbox = ops /\ q.dialog = {} /\ q.waiting = {}
    BY <1>1, <1>2, <1>4, <1>5 DEF SomePage
  <1> HIDE DEF q
  <1>7. CASE ops = <<>> /\ draft = NoDrafts
    <2> DEFINE t == [q EXCEPT !.stored = Nothing]
    <2>1. /\ t \in SomePage /\ t.shown = view /\ t.batch = kept.batch /\ t.restored /\ ~ t.flying
          /\ t.outbox = ops /\ t.dialog = {} /\ t.waiting = {} /\ t.stored = Nothing
      BY <1>6, ConstantsTyped DEF SomePage
    <2>2. r = t
      BY <1>7
    <2> HIDE DEF t, r
    <2>3. Saved(t)
      BY <1>7, <2>1, ConstantsTyped DEF Saved
    <2> QED
      BY <1>3, <1>4, <2>1, <2>2, <2>3
  <1>8. CASE ~ (ops = <<>> /\ draft = NoDrafts)
    <2> DEFINE t == ScheduleFlush(Persist(q))
    <2>1. Same(q, Persist(q)) /\ Saved(Persist(q))
      BY <1>6, Persisted
    <2>2. Same(Persist(q), t) /\ Saved(t)
      BY <2>1, Scheduled DEF Same
    <2>3. r = t
      BY <1>8
    <2> HIDE DEF t, r
    <2>4. Same(q, t)
      BY <2>1, <2>2 DEF Same
    <2> QED
      BY <1>3, <1>4, <1>6, <2>2, <2>3, <2>4 DEF Same
  <1> QED
    BY <1>7, <1>8

(* Of the operations kept, those whose slip is open. *)
TakenBack(outbox, ops, view) == Range(outbox) = {e \in Range(ops) : view.status[e.slip] = "open"}

(* The first snapshot is shown, and brings back what was kept. *)
LEMMA FirstSnapshot ==
    ASSUME NEW kept \in SomeKept, NEW view \in SomeView, view.day > 0, NEW allow,
           NEW q, q = ApplySnapshot(FreshPage(kept), view, allow)
    PROVE  /\ q \in SomePage /\ Saved(q)
           /\ q.shown = view /\ q.batch = kept.batch /\ ~ q.flying
           /\ TakenBack(q.outbox, kept.ops, view)
           /\ Ascending(kept.ops) => Ascending(q.outbox)
           /\ q.dialog = {} /\ q.waiting = {}
  <1> DEFINE p == [FreshPage(kept) EXCEPT !.shown = view]
  <1>1. FreshPage(kept).shown = NoShot /\ NoShot.day = 0 /\ NoShot.day # view.day
    BY Blanked, ConstantsTyped
  <1>2. q = Cleanup(Restore(p))
    BY <1>1 DEF ApplySnapshot
  <1>3. /\ Restore(p) \in SomePage /\ Saved(Restore(p))
        /\ Restore(p).shown = view /\ Restore(p).batch = kept.batch /\ ~ Restore(p).flying
        /\ Range(Restore(p).outbox) = {e \in Range(kept.ops) : view.status[e.slip] = "open"}
        /\ Ascending(kept.ops) => Ascending(Restore(p).outbox)
        /\ Restore(p).dialog = {} /\ Restore(p).waiting = {}
    <2> HIDE DEF p
    <2>1. p = [FreshPage(kept) EXCEPT !.shown = view]
      BY DEF p
    <2> QED
      BY <2>1, Restored
  <1> HIDE DEF p
  <1>4. Same(Restore(p), q) /\ Saved(q)
    BY <1>2, <1>3, CleanedUp
  <1> QED
    BY <1>2, <1>3, <1>4 DEF Same, TakenBack

(* w is no older revision of the same day. *)
NotBack(v, w) == w.day = v.day => w.rev >= v.rev

(* Any other snapshot is shown if it is not older, and leaves the queue and *)
(* the batch alone.                                                         *)
LEMMA SnapshotApplied ==
    ASSUME NEW p \in SomePage, p.restored, p.shown.day > 0,
           NEW view \in SomeView, view.day > 0, NEW allow
    PROVE  LET q == ApplySnapshot(p, view, allow) IN
           /\ q \in SomePage /\ q.outbox = p.outbox /\ q.batch = p.batch /\ q.restored /\ q.flying = p.flying
           /\ q.waiting = p.waiting /\ q.dialog = p.dialog /\ Fewer(p, q)
           /\ q.shown \in {p.shown, view} /\ NotBack(p.shown, q.shown)
           /\ Saved(p) => Saved(q)
  <1> DEFINE t == [p EXCEPT !.shown = view]
             q == ApplySnapshot(p, view, allow)
  <1>1. /\ t \in SomePage /\ t.outbox = p.outbox /\ t.batch = p.batch /\ t.restored /\ t.flying = p.flying
        /\ t.waiting = p.waiting /\ t.dialog = p.dialog /\ t.shown = view /\ t.draft = p.draft
        /\ t.stored = p.stored
    BY DEF SomePage
  <1>2. Saved(p) => Saved(t)
    BY <1>1 DEF Saved
  <1>3. \/ q = p
        \/ q = Cleanup(t) /\ NotBack(p.shown, view)
    <2>1. Restore(t) = t
      BY <1>1 DEF Restore
    <2>2. p.shown.rev \in Nat /\ view.rev \in Nat
      BY DEF SomePage, SomeView
    <2> QED
      BY <2>1, <2>2 DEF ApplySnapshot, NotBack
  <1> HIDE DEF q, t
  <1>4. CASE q = p
    <2>1. NotBack(p.shown, p.shown)
      BY DEF NotBack, SomePage, SomeView
    <2> QED
      BY <1>4, <2>1 DEF Fewer, q
  <1>5. CASE q = Cleanup(t) /\ NotBack(p.shown, view)
    <2>1. Same(t, q) /\ Fewer(t, q) /\ (Saved(t) => Saved(q))
      BY <1>1, <1>5, CleanedUp
    <2> QED
      BY <1>1, <1>2, <1>5, <2>1 DEF Same, Fewer, q
  <1> QED
    BY <1>3, <1>4, <1>5

-----------------------------------------------------------------------------
(* q holds the batch of p, or a new one of everything queued on p. *)
Sends(p, q) ==
    /\ q \in SomePage /\ Saved(q)
    /\ q.shown = p.shown /\ q.outbox = p.outbox
    /\ \/ q.batch = p.batch
       \/ /\ ~ p.flying /\ p.batch = NoBatch
          /\ q.batch.id = made + 1 /\ q.batch.ops = p.outbox
          /\ q.batch.day = p.shown.day /\ q.batch.rev = p.shown.rev
    /\ p.flying => q.flying

(* No checkout opens. *)
Idle(p, q) == q.waiting = p.waiting /\ q.dialog = p.dialog /\ Fewer(p, q)

(* MakeBatch keeps the batch there is, or makes one of everything queued. *)
LEMMA BatchMade ==
    ASSUME NEW p \in SomePage, Saved(p), made \in Nat
    PROVE  LET q == MakeBatch(p, made + 1) IN
           /\ q \in SomePage /\ q.restored /\ q.shown = p.shown /\ q.outbox = p.outbox
           /\ q.flying = p.flying /\ Idle(p, q)
           /\ \/ q.batch = p.batch /\ Saved(q)
              \/ /\ p.batch = NoBatch
                 /\ q.batch.id = made + 1 /\ q.batch.ops = p.outbox
                 /\ q.batch.day = p.shown.day /\ q.batch.rev = p.shown.rev
                 /\ q.batch # NoBatch
  <1> DEFINE t == Cleanup(p)
             new == [id |-> made + 1, day |-> t.shown.day, rev |-> t.shown.rev, ops |-> t.outbox, lines |-> t.draft]
             q == MakeBatch(p, made + 1)
  <1>1. Same(p, t) /\ Fewer(p, t) /\ Saved(t)
    BY CleanedUp
  <1>2. q = t \/ (t.batch = NoBatch /\ q = [t EXCEPT !.batch = new])
    BY DEF MakeBatch
  <1> HIDE DEF t
  <1>3. new \in SomeBatch /\ new # NoBatch
    BY <1>1 DEF Same, SomePage, SomeView, SomeBatch, NoBatch
  <1>4. /\ new.id = made + 1 /\ new.ops = p.outbox /\ new.day = p.shown.day /\ new.rev = p.shown.rev
    BY <1>1 DEF Same
  <1> HIDE DEF new, q
  <1>5. CASE q = t
    BY <1>1, <1>5 DEF Same, Idle, Saved, q
  <1>6. CASE t.batch = NoBatch /\ q = [t EXCEPT !.batch = new]
    <2>1. /\ q \in SomePage /\ q.batch = new /\ q.shown = t.shown /\ q.outbox = t.outbox /\ q.draft = t.draft
          /\ q.restored = t.restored /\ q.flying = t.flying /\ q.waiting = t.waiting /\ q.dialog = t.dialog
      BY <1>1, <1>3, <1>6 DEF Same, SomePage
    <2> QED
      BY <1>1, <1>3, <1>4, <1>6, <2>1 DEF Same, Idle, Saved, Fewer, q
  <1> QED
    BY <1>2, <1>5, <1>6

(* The same of Flush, which starts the flight. *)
LEMMA Flushed ==
    ASSUME NEW p \in SomePage, Saved(p), made \in Nat
    PROVE  Sends(p, Flush(p)) /\ Idle(p, Flush(p)) /\ (Flush(p).flying \/ Flush(p).batch = NoBatch)
  <1> DEFINE q == MakeBatch(p, made + 1)
             t == [q EXCEPT !.flying = TRUE]
  <1>1. CASE p.flying
    <2>1. Flush(p) = p
      BY <1>1 DEF Flush
    <2> QED
      BY <1>1, <2>1 DEF Sends, Idle, Fewer
  <1>2. CASE ~ p.flying
    <2>1. Flush(p) = IF q.batch = NoBatch THEN q ELSE Persist(t)
      BY <1>2 DEF Flush
    <2>2. /\ q \in SomePage /\ q.restored /\ q.shown = p.shown /\ q.outbox = p.outbox
          /\ q.flying = p.flying /\ Idle(p, q)
          /\ \/ q.batch = p.batch /\ Saved(q)
             \/ /\ p.batch = NoBatch
                /\ q.batch.id = made + 1 /\ q.batch.ops = p.outbox
                /\ q.batch.day = p.shown.day /\ q.batch.rev = p.shown.rev
                /\ q.batch # NoBatch
      BY BatchMade
    <2> HIDE DEF q
    <2>3. CASE q.batch = NoBatch
      BY <1>2, <2>1, <2>2, <2>3 DEF Sends
    <2>4. CASE q.batch # NoBatch
      <3>1. /\ t \in SomePage /\ t.flying /\ t.batch = q.batch /\ t.shown = q.shown /\ t.outbox = q.outbox
            /\ t.restored /\ t.draft = q.draft /\ t.waiting = q.waiting /\ t.dialog = q.dialog
        BY <2>2 DEF SomePage
      <3> HIDE DEF t
      <3>2. Same(t, Persist(t)) /\ Persist(t).draft = t.draft
        BY <3>1, Persisted
      <3>3. Saved(Persist(t))
        BY <2>2, <2>4, <3>1, Persisted DEF Saved
      <3> DEFINE r == Persist(t)
      <3>4. Flush(p) = r
        BY <2>1, <2>4
      <3> HIDE DEF r
      <3>5. /\ r \in SomePage /\ Saved(r) /\ r.flying /\ r.batch = q.batch /\ r.shown = p.shown /\ r.outbox = p.outbox
            /\ r.draft = q.draft /\ r.waiting = q.waiting /\ r.dialog = q.dialog
        BY <2>2, <3>1, <3>2, <3>3 DEF Same, r
      <3>6. Idle(p, r)
        BY <2>2, <3>5 DEF Idle, Fewer
      <3>7. Sends(p, r)
        BY <1>2, <2>2, <3>5 DEF Sends
      <3> QED
        BY <3>4, <3>5, <3>6, <3>7
    <2> QED
      BY <2>3, <2>4
  <1> QED
    BY <1>1, <1>2

(* A checkout opens only when nothing waits to be saved. *)
LEMMA WaitedOn ==
    ASSUME NEW p \in SomePage, Saved(p), made \in Nat
    PROVE  /\ Sends(p, WaitOn(p)) /\ Fewer(p, WaitOn(p))
           /\ \/ WaitOn(p).dialog = p.dialog
              \/ WaitOn(p).outbox = <<>> /\ WaitOn(p).draft = NoDrafts
  <1> DEFINE q == [p EXCEPT !.waiting = {}, !.dialog = {s \in p.waiting : IsOpen(p, s)}]
  <1>1. CASE p.waiting = {}
    <2>1. WaitOn(p) = p
      BY <1>1 DEF WaitOn
    <2> QED
      BY <2>1 DEF Sends, Fewer
  <1>2. CASE p.waiting # {} /\ Unconfirmed(p)
    <2>1. WaitOn(p) = Flush(p)
      BY <1>2 DEF WaitOn
    <2> QED
      BY <2>1, Flushed DEF Idle
  <1>3. CASE p.waiting # {} /\ ~ Unconfirmed(p)
    <2>1. WaitOn(p) = q
      BY <1>3 DEF WaitOn
    <2>2. {s \in p.waiting : IsOpen(p, s)} \in SUBSET Slip
      BY DEF SomePage
    <2>3. /\ q \in SomePage /\ q.shown = p.shown /\ q.outbox = p.outbox /\ q.batch = p.batch /\ q.stored = p.stored
          /\ q.restored = p.restored /\ q.flying = p.flying /\ q.draft = p.draft
      BY <2>2 DEF SomePage
    <2> HIDE DEF q
    <2> QED
      BY <1>3, <2>1, <2>3 DEF Sends, Saved, Fewer, Unconfirmed
  <1> QED
    BY <1>1, <1>2, <1>3

(* The same after a flight, whoever goes on first. *)
LEMMA LandedOn ==
    ASSUME NEW p \in SomePage, Saved(p), made \in Nat, NEW timerFirst
    PROVE  /\ Sends(p, Landed(p, timerFirst)) /\ Fewer(p, Landed(p, timerFirst))
           /\ \/ Landed(p, timerFirst).dialog = p.dialog
              \/ Landed(p, timerFirst).outbox = <<>> /\ Landed(p, timerFirst).draft = NoDrafts
  <1> DEFINE q == [p EXCEPT !.rearm = FALSE]
             t == IF p.rearm /\ Unconfirmed(p) /\ (timerFirst \/ p.waiting = {}) THEN ScheduleFlush(q) ELSE q
  <1>1. /\ q \in SomePage /\ q.shown = p.shown /\ q.outbox = p.outbox /\ q.batch = p.batch /\ q.stored = p.stored
        /\ q.restored = p.restored /\ q.flying = p.flying /\ q.draft = p.draft
        /\ q.waiting = p.waiting /\ q.dialog = p.dialog
    BY DEF SomePage
  <1>2. Landed(p, timerFirst) = WaitOn(t) /\ t \in {q, ScheduleFlush(q)}
    BY DEF Landed
  <1> HIDE DEF q, t
  <1>3. t \in SomePage /\ Saved(t) /\ Same(p, t) /\ t.draft = p.draft
    <2>1. Saved(q) /\ Same(p, q)
      BY <1>1 DEF Same, Saved
    <2>2. /\ Same(q, ScheduleFlush(q)) /\ ScheduleFlush(q).draft = q.draft /\ Saved(ScheduleFlush(q))
      BY <1>1, <2>1, Scheduled
    <2>3. Same(p, ScheduleFlush(q))
      BY <2>1, <2>2 DEF Same
    <2> QED
      BY <1>1, <1>2, <2>1, <2>2, <2>3 DEF Same
  <1> DEFINE r == WaitOn(t)
  <1>4. Sends(t, r) /\ Fewer(t, r) /\ (r.dialog = t.dialog \/ (r.outbox = <<>> /\ r.draft = NoDrafts))
    BY <1>3, WaitedOn
  <1> HIDE DEF r
  <1>5. Sends(p, r)
    BY <1>3, <1>4 DEF Sends, Same
  <1>6. Fewer(p, r) /\ (r.dialog = p.dialog \/ (r.outbox = <<>> /\ r.draft = NoDrafts))
    BY <1>3, <1>4 DEF Fewer, Same
  <1> QED
    BY <1>2, <1>5, <1>6 DEF r

(* The batch and its rows leave the page with their answer. *)
LEMMA ResultApplied ==
    ASSUME NEW p \in SomePage, Saved(p), NEW view \in SomeView, view.day > 0
    PROVE  LET q == ApplyFlushResult(p, view) IN
           /\ q \in SomePage /\ Saved(q) /\ q.outbox = WithoutIds(p.outbox, Ids(p.batch.ops))
           /\ q.batch = NoBatch /\ ~ q.flying /\ Fewer(p, q)
           /\ q.dialog = p.dialog
           /\ q.shown \in {p.shown, view} /\ NotBack(p.shown, q.shown)
  <1> DEFINE p1 == [p EXCEPT !.outbox = WithoutIds(p.outbox, Ids(p.batch.ops))]
             p2 == MarkLines(p1, p.batch.lines)
             p3 == ApplySnapshot(p2, view, FALSE)
             p4 == [p3 EXCEPT !.batch = NoBatch, !.flying = FALSE]
             q == Persist(p4)
  <1>1. ApplyFlushResult(p, view) = q
    BY DEF ApplyFlushResult
  <1>2. /\ p1 \in SomePage /\ p1.outbox = WithoutIds(p.outbox, Ids(p.batch.ops)) /\ p1.shown = p.shown
        /\ p1.restored /\ p1.draft = p.draft /\ p1.dialog = p.dialog
    <2>1. WithoutIds(p.outbox, Ids(p.batch.ops)) \in Seq(SomeEdit)
      BY WithoutLeaves DEF SomePage
    <2> QED
      BY <2>1 DEF SomePage, Saved
  <1> HIDE DEF p1
  <1>3. Same(p1, p2) /\ Fewer(p1, p2)
    BY <1>2, Marked
  <1> HIDE DEF p2
  <1>4. /\ p2 \in SomePage /\ p2.restored /\ p2.shown = p.shown /\ p2.outbox = p1.outbox /\ p2.dialog = p.dialog
        /\ p2.shown.day > 0
    BY <1>2, <1>3 DEF Same, Saved
  <1>5. /\ p3 \in SomePage /\ p3.outbox = p1.outbox /\ p3.restored
        /\ p3.dialog = p.dialog /\ Fewer(p2, p3)
        /\ p3.shown \in {p.shown, view} /\ NotBack(p.shown, p3.shown)
    BY <1>4, SnapshotApplied
  <1> HIDE DEF p3
  <1>6. /\ p4 \in SomePage /\ p4.outbox = p1.outbox /\ p4.restored /\ p4.batch = NoBatch /\ ~ p4.flying
        /\ p4.dialog = p.dialog /\ p4.draft = p3.draft /\ p4.shown = p3.shown
    BY <1>5, ConstantsTyped DEF SomePage
  <1> HIDE DEF p4
  <1>7. p4.shown.day > 0
    BY <1>5, <1>6 DEF Saved
  <1>8. Same(p4, q) /\ q.draft = p4.draft /\ Saved(q)
    BY <1>6, <1>7, Persisted
  <1> HIDE DEF q
  <1>9. Fewer(p, q)
    BY <1>2, <1>3, <1>5, <1>6, <1>8 DEF Fewer
  <1> QED
    BY <1>1, <1>2, <1>5, <1>6, <1>8, <1>9 DEF Same

(* After a failed flight the queue and the batch are what they were. *)
LEMMA FailedOn ==
    ASSUME NEW p \in SomePage
    PROVE  LET q == Failed(p) IN
           /\ q \in SomePage /\ q.shown = p.shown /\ q.outbox = p.outbox /\ q.batch = p.batch /\ q.stored = p.stored
           /\ q.restored = p.restored /\ ~ q.flying /\ q.draft = p.draft /\ q.dialog = p.dialog
           /\ Saved(p) => Saved(q)
  <1> DEFINE q == Failed(p)
  <1>1. q = [p EXCEPT !.flying = FALSE, !.rearm = FALSE, !.waiting = {}]
    BY DEF Failed
  <1> HIDE DEF q
  <1>2. /\ q \in SomePage /\ q.shown = p.shown /\ q.outbox = p.outbox /\ q.batch = p.batch /\ q.stored = p.stored
        /\ q.restored = p.restored /\ ~ q.flying /\ q.draft = p.draft /\ q.dialog = p.dialog
    BY <1>1 DEF SomePage
  <1> QED
    BY <1>2 DEF Saved, q

-----------------------------------------------------------------------------
(* A moment of the business day: its number and its revision. *)
NotAfter(m, d) == m.day < d.day \/ (m.day = d.day /\ m.rev <= d.rev)

(* A batch that the server would accept comes after all that took effect,   *)
(* but for the operations an answer was given for.                          *)
InTurn(c, d, given) ==
    c.day = d.day /\ c.rev = d.rev => \A y \in Ids(c.ops) \ given, x \in Range(d.log) : x < y

(* The page p, with the batches C on their way or answered, the day d, the  *)
(* operations an answer was given for, n typed and m batches made.          *)
PageOK(p, C, d, given, n, m) ==
    /\ p \in SomePage /\ (Saved(p) \/ Blank(p))
    /\ Orderly(Queue(p), Held(p), C, n, m)
    /\ NotAfter(p.shown, d)
    /\ \A c \in All(Held(p), C) : NotAfter(c, d) /\ InTurn(c, d, given)

(* One answer per batch, and the list of the day holds what was confirmed.  *)
AnswersOK(given, d) ==
    /\ given \subseteq SomeAnswer
    /\ \A a \in given : a.view.day > 0 /\ NotAfter(a.view, d)
    /\ \A a, o \in given : a.batch = o.batch => a = o
    /\ \A x \in Range(d.log) : \E a \in given : a.confirmed /\ x \in Ids(a.batch.ops)
    /\ \A a \in given : a.confirmed => Ids(a.batch.ops) \subseteq Range(d.log)

Out == calls \cup {a.batch : a \in answers}

PageInv == PageOK(page, Out, db, Retired, Len(typed), made)

ServerInv == db \in SomeView /\ db.day > 0 /\ AnswersOK(answers, db)

MailInv ==
    /\ calls \subseteq SomeBatch
    /\ poll \subseteq SomeView /\ \A v \in poll : v.day > 0 /\ NotAfter(v, db)
    /\ reply \subseteq answers /\ \A a \in reply : page.flying /\ a.batch = page.batch

(* What the page was told, an answer says. *)
ToldInv ==
    /\ made \in Nat /\ typed \in Seq(SomeEdit) /\ told \in Seq(Fate) /\ Len(told) = Len(typed)
    /\ \A i \in DOMAIN told : told[i] # "nothing" =>
          \E a \in answers : i \in Ids(a.batch.ops) /\ (a.confirmed <=> told[i] = "confirmed")

(* The inductive invariant. *)
HomeInv == PageInv /\ ServerInv /\ MailInv /\ ToldInv

(* No checkout opens while something waits to be saved, and nothing is      *)
(* typed for a slip whose checkout is open.                                 *)
Settles(p, q) ==
    \/ /\ q.dialog \subseteq p.dialog
       /\ \A s \in q.dialog : q.draft[s] = p.draft[s] \/ q.draft[s] = Clean
    \/ q.outbox = <<>> /\ q.draft = NoDrafts

(* A step that leaves the queue and the snapshot of the page as they are. *)
Stays ==
    /\ Saved(page) /\ Saved(page') /\ page'.shown = page.shown /\ page'.outbox = page.outbox
    /\ Settles(page, page')
    /\ UNCHANGED <<db, answers, poll, typed, told>>

(* An operation is typed for a slip that no checkout holds. *)
Types ==
    \E s \in Slip, valid \in BOOLEAN : LET edit == [id |-> Len(typed) + 1, slip |-> s, valid |-> valid] IN
        /\ Saved(page) /\ Saved(page') /\ page'.shown = page.shown
        /\ IsOpen(page, s) /\ s \notin page.dialog
        /\ page'.outbox = Append(page.outbox, edit) /\ page'.dialog = page.dialog /\ Fewer(page, page')
        /\ typed' = Append(typed, edit) /\ told' = Append(told, "nothing")
        /\ UNCHANGED <<db, answers, poll>>

(* A snapshot comes; with the first one the page takes back what it kept. *)
Loads ==
    /\ \/ /\ Saved(page) /\ page'.outbox = page.outbox /\ page'.dialog = page.dialog /\ Fewer(page, page')
          /\ page'.shown \in {page.shown} \cup poll /\ NotBack(page.shown, page'.shown)
       \/ /\ Blank(page) /\ page'.shown \in poll /\ page'.dialog = {}
          /\ TakenBack(page'.outbox, page.stored.ops, page'.shown)
    /\ Saved(page') /\ poll' = {}
    /\ UNCHANGED <<db, answers, typed, told>>

(* The answer comes to the batch that flies. *)
Receives ==
    /\ Saved(page) /\ Saved(page')
    /\ page'.outbox = WithoutIds(page.outbox, Ids(page.batch.ops)) /\ Settles(page, page')
    /\ NotBack(page.shown, page'.shown)
    /\ \E answer \in reply :
        /\ answer \in answers /\ answer.batch = page.batch
        /\ page'.shown \in {page.shown, answer.view}
        /\ told' = [i \in DOMAIN told |->
                IF i \in Ids(page.batch.ops) THEN IF answer.confirmed THEN "confirmed" ELSE "refused" ELSE told[i]]
    /\ UNCHANGED <<db, answers, poll, typed>>

(* The page starts over, with what was stored. *)
Restarts ==
    /\ \/ Blank(page') /\ page'.stored = page.stored /\ page'.shown = NoShot
       \/ /\ Saved(page') /\ page'.shown = db
          /\ TakenBack(page'.outbox, page.stored.ops, db)
    /\ page'.dialog = {} /\ poll' = {} /\ faults' = faults + 1
    /\ UNCHANGED <<db, answers, typed, told>>

(* Nothing happens that the page could see. *)
Onward == UNCHANGED <<page, poll, typed, told>>

(* Other staff change the day, never its list of operations. *)
Others == Onward /\ answers' = answers /\ db'.log = db.log

Larger(b, m) == IF b.id > m THEN b.id ELSE m

-----------------------------------------------------------------------------
(* A page that holds less than before is as it should be. *)
LEMMA FewerOK ==
    ASSUME NEW p, NEW q, NEW C, NEW D, NEW d, NEW given, NEW n \in Nat, NEW m \in Nat,
           PageOK(p, C, d, given, n, m), q \in SomePage, Saved(q) \/ Blank(q),
           Ascending(Queue(q)), Ids(Queue(q)) \subseteq Ids(Queue(p)),
           All(Held(q), D) \subseteq All(Held(p), C),
           Held(q) = Held(p) \/ Ids(Queue(q)) \cap Ids(Held(p).ops) = {},
           NotAfter(q.shown, d)
    PROVE  PageOK(q, D, d, given, n, m)
  <1>1. Orderly(Queue(q), Held(q), D, n, m)
    BY OrderlyFewer DEF PageOK
  <1> QED
    BY <1>1 DEF PageOK

(* So is a page that holds one operation more, the last one typed. *)
LEMMA TypedOK ==
    ASSUME NEW p, NEW q, NEW C, NEW d, NEW given, NEW n \in Nat, NEW m \in Nat, NEW e \in SomeEdit,
           PageOK(p, C, d, given, n, m), Saved(p), q \in SomePage, Saved(q), e.id = n + 1,
           q.outbox = Append(p.outbox, e), q.batch = p.batch, q.shown = p.shown
    PROVE  PageOK(q, C, d, given, n + 1, m)
  <1>1. Queue(p) = p.outbox /\ Held(p) = p.batch /\ Queue(q) = q.outbox /\ Held(q) = q.batch
    BY DEF Saved, Queue, Held
  <1>2. p.outbox \in Seq(SomeEdit)
    BY DEF PageOK, SomePage
  <1>3. Orderly(q.outbox, q.batch, C, n + 1, m)
    BY <1>1, <1>2, OrderlyTyped DEF PageOK
  <1> QED
    BY <1>1, <1>3 DEF PageOK

(* A new batch holds only operations without an answer, typed after all     *)
(* that took effect.                                                        *)
LEMMA SendsOK ==
    ASSUME NEW p, NEW q, NEW C, NEW d \in SomeView, NEW known, NEW n \in Nat, made \in Nat,
           {a.batch : a \in known} \subseteq C, C \subseteq SomeBatch, AnswersOK(known, d),
           PageOK(p, C, d, UNION {Ids(a.batch.ops) : a \in known}, n, made), Saved(p), Sends(p, q)
    PROVE  PageOK(q, C, d, UNION {Ids(a.batch.ops) : a \in known}, n, Larger(q.batch, made))
  <1> DEFINE given == UNION {Ids(a.batch.ops) : a \in known}
  <1> HIDE DEF given
  <1>1. /\ p \in SomePage /\ q \in SomePage /\ q.shown = p.shown /\ q.outbox = p.outbox
        /\ Queue(p) = p.outbox /\ Held(p) = p.batch /\ Queue(q) = p.outbox /\ Held(q) = q.batch
        /\ Saved(q)
    BY DEF PageOK, Saved, Queue, Held, Sends
  <1>2. /\ PageOK(p, C, d, given, n, made) /\ Orderly(p.outbox, p.batch, C, n, made)
        /\ NotAfter(p.shown, d)
        /\ \A c \in All(p.batch, C) : NotAfter(c, d) /\ InTurn(c, d, given)
    BY <1>1 DEF PageOK, given
  <1>3. CASE q.batch = p.batch
    <2>1. ~ (p.batch.id > made)
      <3>1. CASE p.batch = NoBatch
        BY <3>1, NoBatchEmpty
      <3>2. CASE p.batch # NoBatch
        <4>1. p.batch \in All(p.batch, C)
          BY <3>2 DEF All
        <4>2. p.batch.id \in 1..made
          BY <1>2, <4>1 DEF Orderly
        <4> QED
          BY <4>2
      <3> QED
        BY <3>1, <3>2
    <2>2. Larger(q.batch, made) = made
      BY <1>3, <2>1 DEF Larger
    <2>3. PageOK(q, C, d, given, n, made)
      BY <1>1, <1>2, <1>3 DEF PageOK
    <2> QED
      BY <2>2, <2>3 DEF given
  <1>4. CASE /\ p.batch = NoBatch
             /\ q.batch.id = made + 1 /\ q.batch.ops = p.outbox
             /\ q.batch.day = p.shown.day /\ q.batch.rev = p.shown.rev
    <2>1. Larger(q.batch, made) = made + 1
      BY <1>4 DEF Larger
    <2>2. Orderly(p.outbox, q.batch, C, n, made + 1)
      BY <1>2, <1>4, OrderlyMade
    <2>3. NotAfter(q.batch, d)
      BY <1>2, <1>4 DEF NotAfter
    <2>4. InTurn(q.batch, d, given)
      <3> SUFFICES ASSUME NEW y \in Ids(p.outbox), NEW x \in Range(d.log) PROVE x < y
        BY <1>4 DEF InTurn
      <3>1. PICK a \in known : x \in Ids(a.batch.ops)
        BY DEF AnswersOK
      <3>2. a.batch \in All(NoBatch, C) /\ a.batch # NoBatch
        <4>1. a.batch \in C
          BY <3>1
        <4>2. a.batch # NoBatch
          BY <3>1, NoBatchEmpty
        <4> QED
          BY <4>1, <4>2 DEF All
      <3>3. y \notin Ids(a.batch.ops)
        BY <1>2, <1>4, <3>2 DEF Orderly
      <3>4. ~ (y < x) /\ y # x
        BY <1>2, <1>4, <3>1, <3>2, <3>3 DEF Orderly
      <3>5. x \in Nat /\ y \in Nat
        <4>1. d.log \in Seq(Nat)
          BY DEF SomeView
        <4>2. y \in 1..n
          BY <1>2 DEF Orderly
        <4> QED
          BY <4>1, <4>2 DEF Range
      <3> QED
        BY <3>4, <3>5
    <2>5. \A c \in All(q.batch, C) : NotAfter(c, d) /\ InTurn(c, d, given)
      BY <1>2, <1>4, <2>3, <2>4 DEF All
    <2>6. PageOK(q, C, d, given, n, made + 1)
      BY <1>1, <1>2, <2>2, <2>5 DEF PageOK
    <2> QED
      BY <2>1, <2>6 DEF given
  <1> QED
    BY <1>3, <1>4 DEF Sends

(* After any change of the business day no batch made before is current. *)
LEMMA ChangedOK ==
    ASSUME NEW p, NEW C, NEW d \in SomeView, NEW e \in SomeView, NEW given, NEW after, NEW n, NEW m,
           PageOK(p, C, d, given, n, m), C \subseteq SomeBatch,
           e.day > d.day \/ (e.day = d.day /\ e.rev > d.rev)
    PROVE  PageOK(p, C, e, after, n, m)
  <1>1. d.day \in Nat /\ d.rev \in Nat /\ e.day \in Nat /\ e.rev \in Nat
    BY DEF SomeView
  <1>2. NotAfter(p.shown, e)
    <2>1. p.shown.day \in Nat /\ p.shown.rev \in Nat /\ NotAfter(p.shown, d)
      BY DEF PageOK, SomePage, SomeView
    <2> QED
      BY <1>1, <2>1 DEF NotAfter
  <1>3. \A c \in All(Held(p), C) : NotAfter(c, e) /\ InTurn(c, e, after)
    <2> SUFFICES ASSUME NEW c \in All(Held(p), C) PROVE NotAfter(c, e) /\ InTurn(c, e, after)
      OBVIOUS
    <2>1. Held(p) \in SomeBatch
      BY DEF Held, PageOK, SomePage, SomeKept
    <2>2. c \in SomeBatch /\ NotAfter(c, d)
      BY <2>1 DEF All, PageOK
    <2>3. c.day \in Nat /\ c.rev \in Nat
      BY <2>2 DEF SomeBatch
    <2> QED
      BY <1>1, <2>2, <2>3 DEF NotAfter, InTurn
  <1> QED
    BY <1>2, <1>3 DEF PageOK

(* A step of the page, when the page it leaves is as it should be. *)
LEMMA BecomeOK ==
    ASSUME HomeInv, NEW q, Saved(q), Become(q), db' = db, answers' = answers,
           PageOK(q, Out, db, Retired, Len(typed'), Larger(q.batch, made))
    PROVE  PageInv' /\ made' \in Nat /\ calls' \subseteq SomeBatch /\ page' = q
  <1>1. /\ page' = q /\ made' = Larger(q.batch, made)
        /\ calls' = calls \/ calls' = calls \cup {q.batch}
    BY DEF Become, Larger
  <1>2. Retired' = Retired
    BY DEF Retired
  <1>3. All(q.batch, Out') \subseteq All(q.batch, Out)
    BY <1>1 DEF Out, All
  <1>4. Queue(q) = q.outbox /\ Held(q) = q.batch
    BY DEF Saved, Queue, Held
  <1>5. PageOK(q, Out', db, Retired, Len(typed'), made')
    BY <1>1, <1>3, <1>4 DEF PageOK, Orderly
  <1>6. q.batch \in SomeBatch /\ q.batch.id \in Nat /\ made \in Nat /\ calls \subseteq SomeBatch
    BY DEF PageOK, SomePage, SomeBatch, HomeInv, MailInv, ToldInv
  <1> QED
    BY <1>1, <1>2, <1>5, <1>6 DEF PageInv, Larger

(* The types of what the state holds. *)
LEMMA StoredTyped ==
    ASSUME HomeInv
    PROVE  /\ page \in SomePage /\ page.stored \in SomeKept /\ page.batch \in SomeBatch
           /\ made \in Nat /\ Len(typed) \in Nat /\ calls \subseteq SomeBatch /\ Out \subseteq SomeBatch
           /\ db \in SomeView /\ {a.batch : a \in answers} \subseteq Out
  <1>1. answers \subseteq SomeAnswer /\ calls \subseteq SomeBatch
    BY DEF HomeInv, ServerInv, AnswersOK, MailInv
  <1>2. Out \subseteq SomeBatch
    BY <1>1 DEF Out, SomeAnswer
  <1> QED
    BY <1>1, <1>2 DEF HomeInv, PageInv, PageOK, SomePage, ToldInv, ServerInv, Out

(* A page without a snapshot shows nothing that could be pressed. *)
LEMMA BlankStill ==
    ASSUME HomeInv, Blank(page)
    PROVE  /\ page.shown = NoShot /\ ~ page.flying /\ ~ page.timer /\ page.dialog = {}
           /\ \A s \in Slip : ~ IsOpen(page, s)
  <1>1. page = FreshPage(page.stored) /\ page.stored \in SomeKept
    BY StoredTyped DEF Blank
  <1>2. page.shown = NoShot /\ ~ page.flying /\ ~ page.timer /\ page.dialog = {}
    BY <1>1, Blanked
  <1> QED
    BY <1>2, ConstantsTyped DEF IsOpen

(* The batch that the page holds was counted. *)
LEMMA HeldKnown ==
    ASSUME NEW p, NEW C, NEW d, NEW given, NEW n, NEW m \in Nat, PageOK(p, C, d, given, n, m), Saved(p)
    PROVE  Larger(p.batch, m) = m
  <1>1. CASE p.batch = NoBatch
    BY <1>1, NoBatchEmpty DEF Larger
  <1>2. CASE p.batch # NoBatch
    <2>1. p.batch \in All(Held(p), C)
      BY <1>2 DEF All, Held, Saved
    <2>2. p.batch.id \in 1..m
      BY <2>1 DEF PageOK, Orderly
    <2> QED
      BY <2>2 DEF Larger
  <1> QED
    BY <1>1, <1>2

(* A step of the page that brings no answer and types nothing. *)
LEMMA PageStep ==
    ASSUME HomeInv, NEW q, Saved(q), Become(q), db' = db, answers' = answers, typed' = typed, told' = told,
           PageOK(q, Out, db, Retired, Len(typed), Larger(q.batch, made)),
           poll' \subseteq poll, reply' \subseteq reply, reply' # {} => q.flying /\ q.batch = page.batch
    PROVE  HomeInv' /\ page' = q
  <1>1. PageInv' /\ made' \in Nat /\ calls' \subseteq SomeBatch /\ page' = q
    BY BecomeOK
  <1>2. ServerInv'
    BY DEF HomeInv, ServerInv
  <1>3. MailInv'
    BY <1>1 DEF HomeInv, MailInv
  <1>4. ToldInv'
    BY <1>1 DEF HomeInv, ToldInv
  <1> QED
    BY <1>1, <1>2, <1>3, <1>4 DEF HomeInv

(* Steps that neither type an operation nor bring news. *)
LEMMA QuietStep ==
    ASSUME HomeInv, Saved(page), NEW q, Sends(page, q), Settles(page, q), Become(q),
           UNCHANGED <<db, answers, reply, poll, typed, told>>
    PROVE  HomeInv' /\ Stays
  <1>1. PageOK(q, Out, db, Retired, Len(typed), Larger(q.batch, made))
    BY StoredTyped, SendsOK DEF HomeInv, PageInv, ServerInv, Retired
  <1>2. Saved(q) /\ (page.flying => q.flying /\ q.batch = page.batch)
    BY DEF Sends
  <1>3. reply # {} => page.flying
    BY DEF HomeInv, MailInv
  <1>4. HomeInv' /\ page' = q
    BY <1>1, <1>2, <1>3, PageStep
  <1> QED
    BY <1>4 DEF Stays, Sends

(* The page holds what is stored, or starts over. *)
LEMMA SavedOrBlank == HomeInv => Saved(page) \/ Blank(page)
  BY DEF HomeInv, PageInv, PageOK

(* A page that holds the same sends nothing. *)
LEMMA SameSends ==
    ASSUME NEW p, NEW q, Same(p, q), Saved(q) PROVE Sends(p, q)
  BY DEF Same, Sends

(* A page with fewer quantities and the same dialog opens no checkout. *)
LEMMA FewerSettles ==
    ASSUME NEW p \in SomePage, NEW q, q.dialog = p.dialog, Fewer(p, q) PROVE Settles(p, q)
  BY DEF Fewer, Settles, SomePage

-----------------------------------------------------------------------------
(* Every action keeps HomeInv, and does to the page what was said above: a  *)
(* quantity is typed;                                                       *)
LEMMA TypeQuantityOK ==
    ASSUME HomeInv, NEW s \in Slip, NEW n \in Quantity, TypeQuantity(s, n) PROVE HomeInv' /\ Stays
  <1>1. Saved(page)
    BY SavedOrBlank, BlankStill DEF TypeQuantity, CanEdit
  <1>2. n \in Int
    BY HomeAssumption DEF Quantity
  <1>3. Sends(page, SetQuantity(page, s, n))
    BY <1>1, <1>2, QuantitySet, StoredTyped, SameSends
  <1> DEFINE q == SetQuantity(page, s, n)
  <1>4. Become(q) /\ UNCHANGED <<db, answers, reply, poll, typed, told>>
    BY DEF TypeQuantity
  <1>5. /\ q.dialog = page.dialog /\ \A t \in Slip : t # s => q.draft[t] = page.draft[t]
        /\ s \notin page.dialog /\ page.dialog \subseteq Slip
    BY <1>1, <1>2, QuantitySet, StoredTyped DEF Same, TypeQuantity, CanEdit, SomePage
  <1> HIDE DEF q
  <1>6. Settles(page, q)
    BY <1>5 DEF Settles
  <1> QED
    BY <1>1, <1>3, <1>4, <1>6, QuietStep DEF q

(* the timer fires; *)
LEMMA TimerFiresOK == HomeInv /\ TimerFires => HomeInv' /\ Stays
  <1> SUFFICES ASSUME HomeInv, TimerFires PROVE HomeInv' /\ Stays
    OBVIOUS
  <1> DEFINE p == [page EXCEPT !.timer = FALSE]
             f == Flush(p)
             q == [f EXCEPT !.rearm = f.flying]
  <1>1. Saved(page)
    BY SavedOrBlank, BlankStill DEF TimerFires
  <1>2. page \in SomePage /\ made \in Nat
    BY StoredTyped
  <1>3. Become(q) /\ UNCHANGED <<db, answers, reply, poll, typed, told>>
    BY DEF TimerFires
  <1>4. /\ p \in SomePage /\ Saved(p) /\ p.shown = page.shown /\ p.outbox = page.outbox
        /\ p.batch = page.batch /\ p.flying = page.flying /\ p.draft = page.draft /\ p.dialog = page.dialog
    BY <1>1, <1>2 DEF SomePage, Saved
  <1> HIDE DEF p
  <1>5. Sends(p, f) /\ Idle(p, f)
    BY <1>2, <1>4, Flushed
  <1> HIDE DEF f
  <1>6. /\ q \in SomePage /\ q.shown = f.shown /\ q.outbox = f.outbox /\ q.batch = f.batch
        /\ q.restored = f.restored /\ q.flying = f.flying /\ q.stored = f.stored
        /\ q.draft = f.draft /\ q.dialog = f.dialog
    BY <1>5 DEF Sends, SomePage
  <1> HIDE DEF q
  <1>7. Sends(page, q)
    BY <1>4, <1>5, <1>6 DEF Sends, Saved
  <1>8. Settles(page, q)
    BY <1>2, <1>4, <1>5, <1>6, FewerSettles DEF Idle, Fewer
  <1> QED
    BY <1>1, <1>3, <1>7, <1>8, QuietStep

(* a checkout is asked for; *)
LEMMA OpenCheckoutOK == ASSUME HomeInv, NEW s \in Slip, OpenCheckout(s) PROVE HomeInv' /\ Stays
  <1> DEFINE p == [page EXCEPT !.waiting = {s}]
             q == WaitOn(p)
  <1>1. Saved(page)
    BY SavedOrBlank, BlankStill DEF OpenCheckout
  <1>2. page \in SomePage /\ made \in Nat
    BY StoredTyped
  <1>3. Become(q) /\ UNCHANGED <<db, answers, reply, poll, typed, told>>
    BY DEF OpenCheckout
  <1>4. /\ p \in SomePage /\ Saved(p) /\ p.shown = page.shown /\ p.outbox = page.outbox
        /\ p.batch = page.batch /\ p.flying = page.flying /\ p.draft = page.draft /\ p.dialog = page.dialog
    BY <1>1, <1>2 DEF SomePage, Saved
  <1> HIDE DEF p
  <1>5. Sends(p, q) /\ Fewer(p, q) /\ (q.dialog = p.dialog \/ (q.outbox = <<>> /\ q.draft = NoDrafts))
    BY <1>2, <1>4, WaitedOn
  <1> HIDE DEF q
  <1>6. Sends(page, q)
    BY <1>4, <1>5 DEF Sends
  <1>7. Settles(page, q)
    <2>1. Fewer(page, q)
      BY <1>4, <1>5 DEF Fewer
    <2> QED
      BY <1>2, <1>4, <1>5, <2>1, FewerSettles DEF Settles
  <1> QED
    BY <1>1, <1>3, <1>6, <1>7, QuietStep

(* and closed; *)
LEMMA CloseCheckoutOK == HomeInv /\ CloseCheckout => HomeInv' /\ Stays
  <1> SUFFICES ASSUME HomeInv, CloseCheckout PROVE HomeInv' /\ Stays
    OBVIOUS
  <1> DEFINE q == [page EXCEPT !.dialog = {}]
  <1>1. Saved(page)
    BY SavedOrBlank, BlankStill DEF CloseCheckout
  <1>2. page \in SomePage
    BY StoredTyped
  <1>3. Become(q) /\ UNCHANGED <<db, answers, reply, poll, typed, told>>
    BY DEF CloseCheckout
  <1>4. /\ q \in SomePage /\ Saved(q) /\ q.shown = page.shown /\ q.outbox = page.outbox
        /\ q.batch = page.batch /\ q.flying = page.flying /\ q.dialog = {}
    BY <1>1, <1>2 DEF SomePage, Saved
  <1> HIDE DEF q
  <1>5. Sends(page, q) /\ Settles(page, q)
    BY <1>4 DEF Sends, Settles
  <1> QED
    BY <1>1, <1>3, <1>5, QuietStep

(* the network is back; *)
LEMMA OnlineOK == HomeInv /\ Online => HomeInv' /\ Stays
  <1> SUFFICES ASSUME HomeInv, Online PROVE HomeInv' /\ Stays
    OBVIOUS
  <1> DEFINE p == Cleanup(page)
             q == ScheduleFlush(p)
  <1>1. Saved(page)
    BY SavedOrBlank, BlankStill DEF Online
  <1>2. Become(q) /\ UNCHANGED <<db, answers, reply, poll, typed, told>>
    BY DEF Online
  <1>3. Same(page, p) /\ Saved(p) /\ Fewer(page, p)
    BY <1>1, StoredTyped, CleanedUp
  <1> HIDE DEF p
  <1>4. Same(p, q) /\ Saved(q) /\ q.draft = p.draft
    BY <1>3, Scheduled DEF Same
  <1> HIDE DEF q
  <1>5. Sends(page, q)
    BY <1>3, <1>4 DEF Sends, Same
  <1>6. q.dialog = page.dialog /\ Fewer(page, q)
    BY <1>3, <1>4 DEF Same, Fewer
  <1> QED
    BY <1>1, <1>2, <1>5, <1>6, FewerSettles, StoredTyped, QuietStep

(* an operation is typed; *)
LEMMA TypeEditOK ==
    ASSUME HomeInv, NEW s \in Slip, NEW valid \in BOOLEAN, TypeEdit(s, valid) PROVE HomeInv' /\ Types
  <1> DEFINE edit == [id |-> Len(typed) + 1, slip |-> s, valid |-> valid]
             p == [page EXCEPT !.outbox = Append(page.outbox, edit)]
             p1 == Persist(p)
             p2 == Cleanup(p1)
             q == ScheduleFlush(p2)
  <1>0. IsOpen(page, s) /\ s \notin page.dialog
    BY DEF TypeEdit, CanEdit
  <1>1. Saved(page)
    BY SavedOrBlank, BlankStill DEF TypeEdit, CanEdit
  <1>2. page \in SomePage /\ made \in Nat /\ Len(typed) \in Nat
    BY StoredTyped
  <1>3. /\ typed' = Append(typed, edit) /\ told' = Append(told, "nothing") /\ Become(q)
        /\ UNCHANGED <<db, answers, reply, poll>>
    BY DEF TypeEdit
  <1>3a. edit = [id |-> Len(typed) + 1, slip |-> s, valid |-> valid]
    OBVIOUS
  <1>4. edit \in SomeEdit /\ edit.id = Len(typed) + 1
    BY <1>2 DEF SomeEdit
  <1> HIDE DEF edit
  <1>4a. Append(page.outbox, edit) \in Seq(SomeEdit)
    BY <1>2, <1>4 DEF SomePage
  <1>5. /\ p \in SomePage /\ p.restored /\ p.shown = page.shown /\ p.outbox = Append(page.outbox, edit)
        /\ p.batch = page.batch /\ p.flying = page.flying /\ p.shown.day > 0 /\ (p.flying => p.batch # NoBatch)
        /\ p.dialog = page.dialog /\ p.draft = page.draft
    BY <1>1, <1>2, <1>4a DEF SomePage, Saved
  <1> HIDE DEF p
  <1>6. Same(p, p1) /\ Saved(p1) /\ p1.draft = p.draft
    BY <1>5, Persisted
  <1> HIDE DEF p1
  <1>7. Same(p1, p2) /\ Saved(p2) /\ Fewer(p1, p2)
    BY <1>6, CleanedUp DEF Same
  <1> HIDE DEF p2
  <1>8. Same(p2, q) /\ Saved(q) /\ q.draft = p2.draft
    BY <1>7, Scheduled DEF Same
  <1> HIDE DEF q
  <1>9. /\ q \in SomePage /\ q.outbox = Append(page.outbox, edit) /\ q.batch = page.batch
        /\ q.shown = page.shown /\ q.flying = page.flying /\ q.dialog = page.dialog
    BY <1>5, <1>6, <1>7, <1>8 DEF Same
  <1>9a. Fewer(page, q)
    BY <1>5, <1>6, <1>7, <1>8 DEF Fewer
  <1>10. PageOK(page, Out, db, Retired, Len(typed), made)
    BY DEF HomeInv, PageInv
  <1>11. PageOK(q, Out, db, Retired, Len(typed) + 1, made)
    BY <1>1, <1>2, <1>4, <1>8, <1>9, <1>10, TypedOK
  <1>12. Larger(q.batch, made) = made
    BY <1>1, <1>2, <1>9, <1>10, HeldKnown
  <1>13. /\ typed \in Seq(SomeEdit) /\ typed' \in Seq(SomeEdit) /\ Len(typed') = Len(typed) + 1
         /\ told \in Seq(Fate) /\ Len(told) = Len(typed)
    BY <1>3, <1>4 DEF HomeInv, ToldInv
  <1>14. PageInv' /\ made' \in Nat /\ calls' \subseteq SomeBatch /\ page' = q
    BY <1>3, <1>8, <1>11, <1>12, <1>13, BecomeOK
  <1>15. ServerInv'
    BY <1>3 DEF HomeInv, ServerInv
  <1>16. MailInv'
    BY <1>3, <1>9, <1>14 DEF HomeInv, MailInv
  <1>17. ToldInv'
    <2>1. /\ told' \in Seq(Fate) /\ Len(told') = Len(typed')
          /\ \A i \in DOMAIN told' : told'[i] = "nothing" \/ (i \in DOMAIN told /\ told'[i] = told[i])
      BY <1>3, <1>13 DEF Fate
    <2> QED
      BY <1>3, <1>13, <1>14, <2>1 DEF HomeInv, ToldInv
  <1>18. Types
    BY <1>0, <1>1, <1>3, <1>3a, <1>8, <1>9, <1>9a, <1>14 DEF Types
  <1> QED
    BY <1>14, <1>15, <1>16, <1>17, <1>18 DEF HomeInv

(* a snapshot is asked for; *)
LEMMA AskSnapshotOK == HomeInv /\ AskSnapshot => HomeInv'
  <1> SUFFICES ASSUME HomeInv, AskSnapshot PROVE HomeInv'
    OBVIOUS
  <1>1. NotAfter(db, db)
    BY StoredTyped DEF NotAfter, SomeView
  <1>2. Out' = Out /\ Retired' = Retired
    BY DEF AskSnapshot, Out, Retired
  <1>3. PageInv' /\ ServerInv' /\ ToldInv'
    BY <1>2 DEF AskSnapshot, HomeInv, PageInv, ServerInv, ToldInv
  <1>4. MailInv'
    BY <1>1 DEF AskSnapshot, HomeInv, MailInv, ServerInv
  <1> QED
    BY <1>3, <1>4 DEF HomeInv

(* and comes; *)
LEMMA LoadSlipsOK == HomeInv /\ LoadSlips => HomeInv' /\ Loads
  <1> SUFFICES ASSUME HomeInv, LoadSlips PROVE HomeInv' /\ Loads
    OBVIOUS
  <1>0. PICK allow : allow = TRUE
    OBVIOUS
  <1>1. PICK view \in poll : Become(ApplySnapshot(page, view, allow))
    BY <1>0 DEF LoadSlips
  <1> DEFINE q == ApplySnapshot(page, view, allow)
  <1>2. view \in SomeView /\ view.day > 0 /\ NotAfter(view, db)
    BY DEF HomeInv, MailInv
  <1>3. /\ PageOK(page, Out, db, Retired, Len(typed), made) /\ page \in SomePage
        /\ Len(typed) \in Nat /\ made \in Nat
    BY StoredTyped DEF HomeInv, PageInv
  <1>4. UNCHANGED <<db, answers, reply, typed, told>> /\ poll' = {} /\ Become(q)
    BY <1>1 DEF LoadSlips
  <1>5. CASE Saved(page)
    <2>0. page.restored /\ page.shown.day > 0
      BY <1>5 DEF Saved
    <2>1. /\ q \in SomePage /\ Saved(q) /\ q.outbox = page.outbox /\ q.batch = page.batch /\ q.flying = page.flying
          /\ q.shown \in {page.shown, view} /\ NotBack(page.shown, q.shown)
          /\ q.dialog = page.dialog /\ Fewer(page, q)
      BY <1>2, <1>3, <1>5, <2>0, SnapshotApplied
    <2> HIDE DEF q
    <2>2. PageOK(q, Out, db, Retired, Len(typed), made)
      BY <1>2, <1>3, <1>5, <2>1 DEF PageOK, Saved, Queue, Held
    <2>3. Larger(q.batch, made) = made
      BY <1>3, <1>5, <2>1, HeldKnown
    <2>4. reply # {} => page.flying
      BY DEF HomeInv, MailInv
    <2>5. HomeInv' /\ page' = q
      BY <1>4, <2>1, <2>2, <2>3, <2>4, PageStep
    <2>6. Loads
      BY <1>4, <1>5, <2>1, <2>5 DEF Loads
    <2> QED
      BY <2>5, <2>6
  <1>6. CASE Blank(page)
    <2>1. PICK kept \in SomeKept : page = FreshPage(kept) /\ kept = page.stored
      BY <1>6, StoredTyped DEF Blank
    <2>9. q = ApplySnapshot(FreshPage(kept), view, allow)
      BY <2>1
    <2>2. /\ q \in SomePage /\ Saved(q) /\ q.shown = view /\ q.batch = kept.batch
          /\ TakenBack(q.outbox, kept.ops, view)
          /\ Ascending(kept.ops) => Ascending(q.outbox)
          /\ q.dialog = {}
      <3> HIDE DEF q
      <3> QED
        BY <1>2, <2>9, FirstSnapshot
    <2> HIDE DEF q
    <2>3. /\ Queue(page) = kept.ops /\ Held(page) = kept.batch /\ Queue(q) = q.outbox /\ Held(q) = q.batch
      BY <1>6, <2>1, <2>2 DEF Blank, Saved, Queue, Held
    <2>4. Ids(q.outbox) \subseteq Ids(kept.ops)
      BY <2>2, IdsOfRange DEF TakenBack
    <2>5. Ascending(kept.ops)
      BY <1>3, <2>3 DEF PageOK, Orderly
    <2>6. PageOK(q, Out, db, Retired, Len(typed), made)
      BY <1>2, <1>3, <2>2, <2>3, <2>4, <2>5, FewerOK
    <2>7. Larger(q.batch, made) = made
      BY <1>3, <2>2, <2>6, HeldKnown
    <2>8. reply = {}
      BY <1>6, BlankStill DEF HomeInv, MailInv
    <2>10. HomeInv' /\ page' = q
      BY <1>4, <2>2, <2>6, <2>7, <2>8, PageStep
    <2>11. Loads
      BY <1>4, <1>6, <2>1, <2>2, <2>10 DEF Loads
    <2> QED
      BY <2>10, <2>11
  <1> QED
    BY <1>5, <1>6, SavedOrBlank

(* Batches are told apart by their ids, and by any operation they hold. *)
LEMMA Apart ==
    ASSUME HomeInv, NEW c \in All(Held(page), Out), NEW d \in All(Held(page), Out),
           c.id = d.id \/ Ids(c.ops) \cap Ids(d.ops) # {}
    PROVE  c = d
  BY DEF HomeInv, PageInv, PageOK, Orderly

(* the answer comes to the batch that flies; *)
LEMMA ReceiveOK == HomeInv /\ Receive => HomeInv' /\ Receives
  <1> SUFFICES ASSUME HomeInv, Receive PROVE HomeInv' /\ Receives
    OBVIOUS
  <1>1. PICK answer \in reply :
            \E timerFirst \in BOOLEAN :
              /\ \E p \in {ApplyFlushResult(page, answer.view)} : Become(Landed(p, timerFirst))
              /\ told' = [i \in DOMAIN told |->
                    IF i \in Ids(page.batch.ops) THEN IF answer.confirmed THEN "confirmed" ELSE "refused" ELSE told[i]]
    BY DEF Receive
  <1>2. PICK timerFirst \in BOOLEAN : Become(Landed(ApplyFlushResult(page, answer.view), timerFirst))
    BY <1>1
  <1> DEFINE p == ApplyFlushResult(page, answer.view)
             q == Landed(p, timerFirst)
  <1>3. /\ answer \in answers /\ answer \in SomeAnswer /\ page.flying /\ answer.batch = page.batch
        /\ answer.view \in SomeView /\ answer.view.day > 0 /\ NotAfter(answer.view, db)
    BY DEF HomeInv, MailInv, ServerInv, AnswersOK, SomeAnswer
  <1>4. Saved(page) /\ page \in SomePage /\ made \in Nat /\ Len(typed) \in Nat
    BY <1>3, SavedOrBlank, BlankStill, StoredTyped
  <1>5. /\ p \in SomePage /\ Saved(p) /\ p.outbox = WithoutIds(page.outbox, Ids(page.batch.ops))
        /\ p.batch = NoBatch /\ p.shown \in {page.shown, answer.view} /\ NotBack(page.shown, p.shown)
        /\ p.dialog = page.dialog /\ Fewer(page, p)
    BY <1>3, <1>4, ResultApplied
  <1>6. Become(q) /\ UNCHANGED <<db, answers, poll, typed>> /\ reply' = {}
    BY <1>2 DEF Receive
  <1> HIDE DEF p
  <1>7. Sends(p, q) /\ Fewer(p, q) /\ (q.dialog = p.dialog \/ (q.outbox = <<>> /\ q.draft = NoDrafts))
    BY <1>4, <1>5, LandedOn
  <1> HIDE DEF q
  <1>8. PageOK(page, Out, db, Retired, Len(typed), made)
    BY DEF HomeInv, PageInv
  <1>9. PageOK(p, Out, db, Retired, Len(typed), made)
    <2>1. Queue(page) = page.outbox /\ Held(page) = page.batch /\ Queue(p) = p.outbox /\ Held(p) = NoBatch
      BY <1>4, <1>5 DEF Saved, Queue, Held
    <2>2. /\ Range(p.outbox) = {e \in Range(page.outbox) : e.id \notin Ids(page.batch.ops)}
          /\ Ascending(page.outbox) => Ascending(p.outbox)
      BY <1>4, <1>5, WithoutLeaves DEF SomePage
    <2>3. Ids(p.outbox) \subseteq Ids(page.outbox) /\ Ids(p.outbox) \cap Ids(page.batch.ops) = {}
      BY <2>2, IdsOfRange
    <2>4. Ascending(p.outbox)
      BY <1>8, <2>1, <2>2 DEF PageOK, Orderly
    <2>5. All(NoBatch, Out) \subseteq All(page.batch, Out)
      BY DEF All
    <2>6. NotAfter(p.shown, db)
      BY <1>3, <1>5, <1>8 DEF PageOK
    <2> QED
      BY <1>4, <1>5, <1>8, <2>1, <2>3, <2>4, <2>5, <2>6, FewerOK
  <1>10. PageOK(q, Out, db, Retired, Len(typed), Larger(q.batch, made))
    BY <1>4, <1>5, <1>7, <1>9, StoredTyped, SendsOK DEF HomeInv, ServerInv, Retired
  <1>11. PageInv' /\ made' \in Nat /\ calls' \subseteq SomeBatch /\ page' = q
    BY <1>6, <1>7, <1>10, BecomeOK DEF Sends
  <1>12. ServerInv'
    BY <1>6 DEF HomeInv, ServerInv
  <1>13. MailInv'
    BY <1>6, <1>11 DEF HomeInv, MailInv
  <1>14. ToldInv'
    <2>1. told \in Seq(Fate) /\ Len(told) = Len(typed) /\ typed \in Seq(SomeEdit)
      BY DEF HomeInv, ToldInv
    <2>2. /\ told' \in Seq(Fate) /\ Len(told') = Len(typed) /\ DOMAIN told' = DOMAIN told
          /\ \A i \in DOMAIN told :
                told'[i] = IF i \in Ids(page.batch.ops) THEN IF answer.confirmed THEN "confirmed" ELSE "refused" ELSE told[i]
      BY <1>1, <2>1 DEF Fate
    <2>3. ASSUME NEW i \in DOMAIN told, told'[i] # "nothing"
          PROVE  \E a \in answers : i \in Ids(a.batch.ops) /\ (a.confirmed <=> told'[i] = "confirmed")
      <3>1. CASE i \in Ids(page.batch.ops)
        BY <1>3, <2>2, <3>1 DEF SomeAnswer
      <3>2. CASE i \notin Ids(page.batch.ops)
        BY <2>2, <2>3, <3>2 DEF HomeInv, ToldInv
      <3> QED
        BY <3>1, <3>2
    <2> QED
      BY <1>6, <1>11, <2>1, <2>2, <2>3 DEF ToldInv
  <1>15. Settles(page, q)
    <2>1. Fewer(page, q)
      BY <1>5, <1>7 DEF Fewer
    <2> QED
      BY <1>4, <1>5, <1>7, <2>1, FewerSettles DEF Settles
  <1>16. Receives
    <2>1. q.outbox = p.outbox /\ q.shown = p.shown /\ Saved(q)
      BY <1>7 DEF Sends
    <2> QED
      BY <1>1, <1>3, <1>4, <1>5, <1>6, <1>11, <1>15, <2>1 DEF Receives
  <1> QED
    BY <1>11, <1>12, <1>13, <1>14, <1>16 DEF HomeInv

(* the page stops waiting; *)
LEMMA TimeOutOK == HomeInv /\ TimeOut => HomeInv' /\ Stays
  <1> SUFFICES ASSUME HomeInv, TimeOut PROVE HomeInv' /\ Stays
    OBVIOUS
  <1> DEFINE q == Failed(page)
  <1>1. Saved(page) /\ page \in SomePage /\ made \in Nat
    BY SavedOrBlank, BlankStill, StoredTyped DEF TimeOut
  <1>2. /\ q \in SomePage /\ Saved(q) /\ q.shown = page.shown /\ q.outbox = page.outbox /\ q.batch = page.batch
        /\ q.dialog = page.dialog /\ q.draft = page.draft
    BY <1>1, FailedOn
  <1>3. Become(q) /\ UNCHANGED <<db, answers, poll, typed, told>> /\ reply' = {}
    BY DEF TimeOut
  <1> HIDE DEF q
  <1>4. PageOK(page, Out, db, Retired, Len(typed), made)
    BY DEF HomeInv, PageInv
  <1>5. PageOK(q, Out, db, Retired, Len(typed), made)
    BY <1>1, <1>2, <1>4 DEF PageOK, Queue, Held, Saved
  <1>6. Larger(q.batch, made) = made
    BY <1>1, <1>2, <1>5, HeldKnown
  <1>7. HomeInv' /\ page' = q
    BY <1>2, <1>3, <1>5, <1>6, PageStep
  <1>8. Stays
    BY <1>1, <1>2, <1>3, <1>7 DEF Stays, Settles
  <1> QED
    BY <1>7, <1>8

(* the request or its answer is lost; *)
LEMMA LoseOK == HomeInv /\ Lose => HomeInv' /\ Stays
  <1> SUFFICES ASSUME HomeInv, Lose PROVE HomeInv' /\ Stays
    OBVIOUS
  <1> DEFINE q == Failed(page)
  <1>1. Saved(page) /\ page \in SomePage /\ made \in Nat /\ Len(typed) \in Nat
    BY SavedOrBlank, BlankStill, StoredTyped DEF Lose
  <1>2. /\ q \in SomePage /\ Saved(q) /\ q.shown = page.shown /\ q.outbox = page.outbox /\ q.batch = page.batch
        /\ q.dialog = page.dialog /\ q.draft = page.draft
    BY <1>1, FailedOn
  <1>3. page' = q /\ UNCHANGED <<db, answers, poll, made, typed, told>> /\ reply' = {} /\ calls' \subseteq calls
    BY DEF Lose
  <1> HIDE DEF q
  <1>4. Out' \subseteq Out /\ Retired' = Retired
    BY <1>3 DEF Out, Retired
  <1>5. PageOK(q, Out', db, Retired, Len(typed), made)
    <2>1. Queue(q) = Queue(page) /\ Held(q) = Held(page)
      BY <1>1, <1>2 DEF Queue, Held, Saved
    <2>2. All(Held(q), Out') \subseteq All(Held(page), Out)
      BY <1>4, <2>1 DEF All
    <2>3. PageOK(page, Out, db, Retired, Len(typed), made)
      BY DEF HomeInv, PageInv
    <2>4. Ascending(Queue(q)) /\ NotAfter(q.shown, db)
      BY <1>2, <2>1, <2>3 DEF PageOK, Orderly
    <2> QED
      BY <1>1, <1>2, <2>1, <2>2, <2>3, <2>4, FewerOK
  <1>6. PageInv'
    BY <1>3, <1>4, <1>5 DEF PageInv
  <1>7. ServerInv' /\ ToldInv'
    BY <1>3 DEF HomeInv, ServerInv, ToldInv
  <1>8. MailInv'
    BY <1>3 DEF HomeInv, MailInv
  <1>9. Stays
    BY <1>1, <1>2, <1>3 DEF Stays, Settles
  <1> QED
    BY <1>6, <1>7, <1>8, <1>9 DEF HomeInv

(* A page that starts over holds what was stored: the queue and the batch,  *)
(* or nothing at all.                                                       *)
LEMMA StartedOver ==
    ASSUME HomeInv
    PROVE  PageOK(FreshPage(page.stored), Out, db, Retired, Len(typed), made)
  <1>1. PICK kept \in SomeKept : kept = page.stored
    BY StoredTyped
  <1> DEFINE q == FreshPage(kept)
  <1>2. /\ PageOK(page, Out, db, Retired, Len(typed), made) /\ page \in SomePage /\ db \in SomeView /\ db.day > 0
        /\ made \in Nat /\ Len(typed) \in Nat
    BY StoredTyped DEF HomeInv, PageInv, ServerInv
  <1>3. q \in SomePage /\ Blank(q) /\ q.stored = kept /\ q.shown = NoShot
    BY Blanked
  <1> HIDE DEF q
  <1>4. Queue(q) = kept.ops /\ Held(q) = kept.batch
    BY <1>3 DEF Blank, Queue, Held
  <1>5. NotAfter(NoShot, db)
    BY <1>2, ConstantsTyped DEF NotAfter
  <1>6. /\ kept.ops = Queue(page)
        /\ kept.batch = Held(page) \/ (kept.ops = <<>> /\ kept.batch = NoBatch)
    BY <1>1, <1>2 DEF PageOK, Saved, Blank, Queue, Held
  <1>7. Ascending(kept.ops)
    BY <1>2, <1>6 DEF PageOK, Orderly
  <1>8. /\ All(kept.batch, Out) \subseteq All(Held(page), Out)
        /\ kept.batch = Held(page) \/ Ids(kept.ops) \cap Ids(Held(page).ops) = {}
    BY <1>6 DEF All, Ids
  <1>9. PageOK(q, Out, db, Retired, Len(typed), made)
    BY <1>2, <1>3, <1>4, <1>5, <1>6, <1>7, <1>8, FewerOK
  <1> QED
    BY <1>1, <1>9 DEF q

(* the page is loaded again. *)
LEMMA ReloadOK == HomeInv /\ Reload => HomeInv' /\ Restarts
  <1> SUFFICES ASSUME HomeInv, Reload PROVE HomeInv' /\ Restarts
    OBVIOUS
  <1>1. PICK kept \in SomeKept : kept = page.stored
    BY StoredTyped
  <1>2. PICK allow : allow = TRUE
    OBVIOUS
  <1>3. /\ page' = FreshPage(kept) \/ page' = ApplySnapshot(FreshPage(kept), db, allow)
        /\ UNCHANGED <<db, answers, calls, made, typed, told>> /\ reply' = {} /\ poll' = {} /\ faults' = faults + 1
    BY <1>1, <1>2 DEF Reload, Goes
  <1>4. PageOK(FreshPage(kept), Out, db, Retired, Len(typed), made)
    BY <1>1, StartedOver
  <1>5. PageOK(page', Out, db, Retired, Len(typed), made)
    <2> SUFFICES ASSUME page' = ApplySnapshot(FreshPage(kept), db, allow)
                 PROVE  PageOK(page', Out, db, Retired, Len(typed), made)
      BY <1>3, <1>4
    <2> DEFINE p == FreshPage(kept)
    <2>1. db \in SomeView /\ db.day > 0 /\ made \in Nat /\ Len(typed) \in Nat
      BY StoredTyped DEF HomeInv, ServerInv
    <2>2. PICK q : q = page'
      OBVIOUS
    <2>3. /\ q \in SomePage /\ Saved(q) /\ q.shown = db /\ q.batch = kept.batch
          /\ TakenBack(q.outbox, kept.ops, db)
          /\ Ascending(kept.ops) => Ascending(q.outbox)
      BY <2>1, <2>2, FirstSnapshot
    <2>4. Queue(p) = kept.ops /\ Held(p) = kept.batch /\ Queue(q) = q.outbox /\ Held(q) = kept.batch
      BY <2>3, Blanked DEF Blank, Saved, Queue, Held
    <2> HIDE DEF p
    <2>5. Ids(q.outbox) \subseteq Ids(kept.ops)
      BY <2>3, IdsOfRange DEF TakenBack
    <2>6. Ascending(kept.ops)
      BY <1>4, <2>4 DEF PageOK, Orderly, p
    <2>7. NotAfter(q.shown, db)
      BY <2>1, <2>3 DEF NotAfter, SomeView
    <2> QED
      BY <1>4, <2>1, <2>2, <2>3, <2>4, <2>5, <2>6, <2>7, FewerOK DEF p
  <1>6. Out' = Out /\ Retired' = Retired
    BY <1>3 DEF Out, Retired
  <1>7. PageInv'
    BY <1>3, <1>5, <1>6 DEF PageInv
  <1>8. ServerInv' /\ ToldInv' /\ MailInv'
    BY <1>3 DEF HomeInv, ServerInv, ToldInv, MailInv
  <1>9. Restarts
    <2>1. CASE page' = FreshPage(kept)
      <3>1. Blank(page') /\ page'.stored = kept /\ page'.shown = NoShot /\ page'.dialog = {}
        <4>1. PICK q : q = page'
          OBVIOUS
        <4> QED
          BY <2>1, <4>1, Blanked
      <3> QED
        BY <1>1, <1>3, <3>1 DEF Restarts
    <2>2. CASE page' = ApplySnapshot(FreshPage(kept), db, allow)
      <3>1. PICK q : q = page'
        OBVIOUS
      <3>2. Saved(q) /\ q.shown = db /\ TakenBack(q.outbox, kept.ops, db) /\ q.dialog = {}
        BY <2>2, <3>1, FirstSnapshot, StoredTyped DEF HomeInv, ServerInv
      <3> QED
        BY <1>1, <1>3, <3>1, <3>2 DEF Restarts
    <2> QED
      BY <1>3, <2>1, <2>2
  <1> QED
    BY <1>7, <1>8, <1>9 DEF HomeInv

-----------------------------------------------------------------------------
(* Other staff change the day: what the page knows is older, so no batch    *)
(* made before is current.                                                  *)
LEMMA StaffStep ==
    ASSUME HomeInv, db' \in SomeView, db'.log = db.log,
           db'.day > db.day \/ (db'.day = db.day /\ db'.rev > db.rev),
           UNCHANGED <<answers, page, calls, reply, poll, made, typed, told>>
    PROVE  HomeInv' /\ Others
  <1>1. Out' = Out /\ Retired' = Retired
    BY DEF Out, Retired
  <1>2. /\ db \in SomeView /\ db.day > 0 /\ AnswersOK(answers, db) /\ Out \subseteq SomeBatch
        /\ PageOK(page, Out, db, Retired, Len(typed), made)
    BY StoredTyped DEF HomeInv, PageInv, ServerInv
  <1>3. PageOK(page, Out, db', Retired, Len(typed), made)
    BY <1>2, ChangedOK
  <1>4. \A v \in SomeView : NotAfter(v, db) => NotAfter(v, db')
    BY <1>2 DEF NotAfter, SomeView
  <1>5. AnswersOK(answers, db')
    BY <1>2, <1>4 DEF AnswersOK, SomeAnswer
  <1>6. db'.day > 0
    BY <1>2 DEF SomeView
  <1>7. PageInv'
    BY <1>1, <1>3 DEF PageInv
  <1>8. ServerInv' /\ ToldInv'
    BY <1>5, <1>6 DEF HomeInv, ServerInv, ToldInv
  <1>9. MailInv'
    BY <1>4 DEF HomeInv, MailInv
  <1>10. Others
    BY DEF Others, Onward
  <1> QED
    BY <1>7, <1>8, <1>9, <1>10 DEF HomeInv

(* So do all their actions that make a new revision, *)
LEMMA ChangesOK ==
    ASSUME HomeInv, NEW d \in SomeView, d.day = db.day, d.rev = db.rev, d.log = db.log, Changes(d)
    PROVE  HomeInv' /\ Others
  <1>1. db' = [d EXCEPT !.rev = d.rev + 1]
    BY DEF Changes, Bump
  <1>2. d.rev \in Nat /\ d.rev + 1 \in Nat /\ d.rev + 1 > d.rev
    BY DEF SomeView
  <1>3. db' \in SomeView /\ db'.log = d.log /\ db'.day = d.day /\ db'.rev = d.rev + 1
    BY <1>1, <1>2 DEF SomeView
  <1> QED
    BY <1>2, <1>3, StaffStep DEF Changes

(* be it an edit, *)
LEMMA StaffEditsOK == HomeInv /\ StaffEdits => HomeInv' /\ Others
  BY StoredTyped, ChangesOK DEF StaffEdits

(* a karaoke quantity, *)
LEMMA StaffSetsOK ==
    ASSUME HomeInv, NEW s \in Slip, NEW n \in Quantity, StaffSets(s, n) PROVE HomeInv' /\ Others
  <1> DEFINE d == [db EXCEPT !.count[s] = n]
  <1>1. n \in Int
    BY HomeAssumption DEF Quantity
  <1>2. d \in SomeView /\ d.day = db.day /\ d.rev = db.rev /\ d.log = db.log
    BY <1>1, StoredTyped DEF SomeView
  <1>3. Changes(d)
    BY DEF StaffSets
  <1> HIDE DEF d
  <1> QED
    BY <1>2, <1>3, ChangesOK

(* a checkout, a slip that comes back from it or a new slip, *)
LEMMA StaffMovesOK ==
    ASSUME HomeInv, NEW s \in Slip, StaffCloses(s) \/ StaffReopens(s) \/ StaffOpens(s)
    PROVE  HomeInv' /\ Others
  <1>1. PICK status \in {"open", "closed"} : Changes([db EXCEPT !.status[s] = status])
    BY DEF StaffCloses, StaffReopens, StaffOpens
  <1> DEFINE d == [db EXCEPT !.status[s] = status]
  <1>2. d \in SomeView /\ d.day = db.day /\ d.rev = db.rev /\ d.log = db.log
    BY <1>1, StoredTyped DEF SomeView
  <1>3. Changes(d)
    BY <1>1
  <1> HIDE DEF d
  <1> QED
    BY <1>2, <1>3, ChangesOK

(* and the closing of the day with the opening of the next. *)
LEMMA NextDayOK == HomeInv /\ NextDay => HomeInv' /\ Others
  <1> SUFFICES ASSUME HomeInv, NextDay PROVE HomeInv' /\ Others
    OBVIOUS
  <1> DEFINE status == [s \in Slip |-> IF db.status[s] = "closed" THEN "past" ELSE db.status[s]]
  <1>1. db' = [db EXCEPT !.day = db.day + 1, !.rev = 0, !.status = status]
    BY DEF NextDay
  <1>2. db \in SomeView /\ db.day \in Nat /\ db.day + 1 \in Nat /\ db.day + 1 > db.day
    BY StoredTyped DEF SomeView
  <1>2a. status \in [Slip -> {"unborn", "open", "closed", "past"}]
    BY <1>2 DEF SomeView
  <1> HIDE DEF status
  <1>3. db' \in SomeView /\ db'.log = db.log /\ db'.day = db.day + 1
    BY <1>1, <1>2, <1>2a DEF SomeView
  <1> QED
    BY <1>2, <1>3, StaffStep DEF NextDay

(* A batch on its way or answered is one of the batches. *)
LEMMA InOut ==
    ASSUME HomeInv
    PROVE  \A c \in Out : c.id # 0 => c \in All(Held(page), Out)
  BY NoBatchEmpty DEF All

(* The page a batch belongs to waits for the answer of that batch alone. *)
LEMMA OwnAnswer ==
    ASSUME HomeInv, page.flying, NEW c \in Out, c.id = page.batch.id
    PROVE  c = page.batch
  <1>1. Saved(page)
    BY SavedOrBlank, BlankStill
  <1>2. page.batch \in All(Held(page), Out) /\ Held(page) = page.batch
    BY <1>1 DEF Saved, Held, All
  <1>3. page.batch.id # 0
    BY <1>2 DEF HomeInv, PageInv, PageOK, Orderly
  <1> QED
    BY <1>2, <1>3, InOut, Apart

(* The ids of a batch, appended to the list of a day. *)
LEMMA Appended ==
    ASSUME NEW log \in Seq(Nat), NEW ops \in Seq(SomeEdit)
    PROVE  LET ids == [i \in DOMAIN ops |-> ops[i].id] IN
           /\ ids \in Seq(Nat) /\ Len(ids) = Len(ops) /\ log \o ids \in Seq(Nat)
           /\ Range(log \o ids) = Range(log) \cup Ids(ops)
  <1> DEFINE ids == [i \in DOMAIN ops |-> ops[i].id]
             all == log \o ids
  <1>1. ids \in Seq(Nat) /\ Len(ids) = Len(ops) /\ DOMAIN ids = DOMAIN ops /\ DOMAIN ops = 1..Len(ops)
        /\ \A i \in DOMAIN ops : ids[i] = ops[i].id
    <2>1. DOMAIN ops = 1..Len(ops) /\ Len(ops) \in Nat /\ \A i \in 1..Len(ops) : ops[i] \in SomeEdit
      OBVIOUS
    <2>2. \A i \in 1..Len(ops) : ops[i].id \in Nat
      BY <2>1 DEF SomeEdit
    <2>3. ids = [i \in 1..Len(ops) |-> ops[i].id]
      BY <2>1
    <2>4. ids \in Seq(Nat) /\ Len(ids) = Len(ops)
      BY <2>1, <2>2, <2>3
    <2> QED
      BY <2>1, <2>3, <2>4
  <1> HIDE DEF ids
  <1>2. /\ all \in Seq(Nat) /\ DOMAIN log = 1..Len(log) /\ DOMAIN all = 1..(Len(log) + Len(ids))
        /\ Len(log) \in Nat /\ Len(ids) \in Nat
        /\ \A i \in 1..Len(log) : all[i] = log[i]
        /\ \A i \in 1..Len(ids) : all[Len(log) + i] = ids[i]
    <2>1. ids \in Seq(Nat)
      BY <1>1
    <2>2. /\ Len(log) \in Nat /\ Len(ids) \in Nat /\ DOMAIN log = 1..Len(log)
          /\ all \in Seq(Nat) /\ Len(all) = Len(log) + Len(ids)
      BY <2>1
    <2>3. DOMAIN all = 1..(Len(log) + Len(ids))
      BY <2>1
    <2>4. \A i \in 1..Len(log) : all[i] = log[i]
      BY <2>1
    <2>5. \A i \in 1..Len(ids) : all[Len(log) + i] = ids[i]
      BY <2>1
    <2> QED
      BY <2>2, <2>3, <2>4, <2>5
  <1> HIDE DEF all
  <1>3. \A i \in DOMAIN all : i \in DOMAIN log \/ \E j \in 1..Len(ids) : i = Len(log) + j
    <2> SUFFICES ASSUME NEW i \in DOMAIN all, i \notin DOMAIN log PROVE \E j \in 1..Len(ids) : i = Len(log) + j
      OBVIOUS
    <2>1. i - Len(log) \in 1..Len(ids) /\ i = Len(log) + (i - Len(log))
      BY <1>2
    <2> QED
      BY <2>1
  <1>4. Range(all) \subseteq Range(log) \cup Ids(ops)
    <2> SUFFICES ASSUME NEW i \in DOMAIN all PROVE all[i] \in Range(log) \cup Ids(ops)
      BY DEF Range
    <2>1. CASE i \in DOMAIN log
      BY <1>2, <2>1 DEF Range
    <2>2. CASE \E j \in 1..Len(ids) : i = Len(log) + j
      <3>1. PICK j \in 1..Len(ids) : i = Len(log) + j
        BY <2>2
      <3>2. all[i] = ops[j].id /\ j \in DOMAIN ops
        BY <1>1, <1>2, <3>1
      <3> QED
        BY <3>2 DEF Ids
    <2> QED
      BY <1>3, <2>1, <2>2
  <1>5. Range(log) \subseteq Range(all)
    BY <1>2 DEF Range
  <1>6. Ids(ops) \subseteq Range(all)
    <2> SUFFICES ASSUME NEW j \in DOMAIN ops PROVE ops[j].id \in Range(all)
      BY DEF Ids
    <2>1. j \in 1..Len(ids) /\ all[Len(log) + j] = ops[j].id /\ Len(log) + j \in DOMAIN all
      BY <1>1, <1>2
    <2> QED
      BY <2>1 DEF Range
  <1> QED
    BY <1>1, <1>2, <1>4, <1>5, <1>6 DEF all, ids

(* What an accepted batch leaves of the day. *)
LEMMA AppliedTyped ==
    ASSUME HomeInv, NEW b \in SomeBatch, Acceptable(b)
    PROVE  /\ Applied(b) \in SomeView /\ Applied(b).day = db.day /\ Applied(b).rev = db.rev + 1
           /\ Applied(b).status = db.status
           /\ Applied(b).log = db.log \o [i \in DOMAIN b.ops |-> b.ops[i].id]
           /\ Range(Applied(b).log) = Range(db.log) \cup Ids(b.ops)
  <1> DEFINE log == db.log \o [i \in DOMAIN b.ops |-> b.ops[i].id]
             count == [s \in Slip |-> IF b.lines[s] = Clean THEN db.count[s] ELSE b.lines[s].n]
             d == [db EXCEPT !.log = log, !.count = count]
             e == [d EXCEPT !.rev = d.rev + 1]
  <1>1. Applied(b) = e
    BY DEF Applied, Bump
  <1>2. db \in SomeView /\ db.log \in Seq(Nat) /\ b.ops \in Seq(SomeEdit) /\ db.rev + 1 \in Nat
    BY StoredTyped DEF SomeView, SomeBatch
  <1>3. log \in Seq(Nat) /\ Range(log) = Range(db.log) \cup Ids(b.ops)
    BY <1>2, Appended
  <1>4. count \in [Slip -> Int]
    BY <1>2 DEF SomeView, SomeBatch, SomeDraft
  <1>5. log = db.log \o [i \in DOMAIN b.ops |-> b.ops[i].id]
    OBVIOUS
  <1> HIDE DEF log, count
  <1>6. d \in SomeView /\ d.rev = db.rev /\ d.day = db.day /\ d.log = log /\ d.status = db.status
    BY <1>2, <1>3, <1>4 DEF SomeView
  <1> HIDE DEF d
  <1>7. e \in SomeView /\ e.rev = db.rev + 1 /\ e.day = db.day /\ e.log = log /\ e.status = db.status
    BY <1>2, <1>6 DEF SomeView
  <1> HIDE DEF e
  <1> QED
    BY <1>1, <1>3, <1>5, <1>7

(* The server answers a batch: the answer is the only one of that batch,    *)
(* and tells what the list of the day holds.                                *)
LEMMA ServeOK == ASSUME HomeInv, NEW b \in calls, Serve(b) PROVE HomeInv'
  <1> DEFINE known == {a \in answers : a.batch.id = b.id}
             answer == [batch |-> b, confirmed |-> Acceptable(b), view |-> Applied(b)]
  <1>1. /\ b \in SomeBatch /\ b \in Out /\ db \in SomeView /\ db.day > 0 /\ AnswersOK(answers, db)
        /\ PageOK(page, Out, db, Retired, Len(typed), made)
        /\ db.rev \in Nat /\ db.day \in Nat
    BY StoredTyped DEF Out, HomeInv, PageInv, ServerInv, SomeView
  <1>2. /\ calls' = calls \ {b} /\ UNCHANGED <<page, poll, made, typed, told>>
        /\ db' = IF known = {} THEN Applied(b) ELSE db
        /\ answers' = IF known = {} THEN answers \cup {answer} ELSE answers
        /\ reply' = IF page.flying /\ page.batch.id = b.id
                    THEN IF known = {} THEN {answer} ELSE known
                    ELSE reply
    BY DEF Serve
  <1>3. Acceptable(b) \in BOOLEAN
    BY DEF Acceptable
  <1>4. answer.batch = b /\ answer.confirmed = Acceptable(b) /\ answer.view = Applied(b)
    OBVIOUS
  <1>5. \A a \in answers : a.batch \in Out
    BY DEF Out
  <1>6. NotAfter(db, db)
    BY <1>1 DEF NotAfter
  <1>7. known = {} => \A a \in answers : a.batch # b
    OBVIOUS
  <1>8. Applied(b) \in SomeView => answer \in SomeAnswer
    BY <1>1, <1>3 DEF SomeAnswer
  <1> HIDE DEF answer
  <1>9. answers \subseteq answers' /\ Retired \subseteq Retired'
    BY <1>2 DEF Retired
  <1>10. ToldInv'
    BY <1>2, <1>9 DEF HomeInv, ToldInv
  <1>11. reply' \subseteq answers' /\ \A a \in reply' : page'.flying /\ a.batch = page'.batch
    <2>1. CASE page.flying /\ page.batch.id = b.id
      <3>1. b = page.batch /\ \A a \in known : a.batch = page.batch
        BY <1>1, <1>5, <2>1, OwnAnswer
      <3> QED
        BY <1>2, <1>4, <2>1, <3>1
    <2>2. CASE ~ (page.flying /\ page.batch.id = b.id)
      BY <1>2, <1>9, <2>2 DEF HomeInv, MailInv
    <2> QED
      BY <2>1, <2>2
  <1>12. CASE known # {}
    <2>1. Out' \subseteq Out /\ db' = db /\ answers' = answers /\ Retired' = Retired
      BY <1>2, <1>12 DEF Out, Retired
    <2>2. All(Held(page), Out') \subseteq All(Held(page), Out)
      BY <2>1 DEF All
    <2>3. PageOK(page, Out', db, Retired, Len(typed), made)
      BY <1>1, <2>2 DEF PageOK, Orderly
    <2>4. PageInv'
      BY <1>2, <2>1, <2>3 DEF PageInv
    <2>5. ServerInv'
      BY <2>1 DEF HomeInv, ServerInv
    <2>6. MailInv'
      BY <1>2, <1>11, <2>1 DEF HomeInv, MailInv
    <2> QED
      BY <1>10, <2>4, <2>5, <2>6 DEF HomeInv
  <1>13. ASSUME known = {} PROVE Out' = Out /\ answers' = answers \cup {answer}
    BY <1>1, <1>2, <1>4, <1>13 DEF Out
  <1>14. CASE known = {} /\ ~ Acceptable(b)
    <2>1. db' = db /\ Applied(b) = db
      BY <1>2, <1>14 DEF Applied
    <2>2. answer \in SomeAnswer
      BY <1>1, <1>8, <2>1
    <2>3. PageOK(page, Out, db, Retired', Len(typed), made)
      BY <1>1, <1>9 DEF PageOK, InTurn
    <2>4. PageInv'
      BY <1>2, <1>13, <1>14, <2>1, <2>3 DEF PageInv
    <2>5. AnswersOK(answers', db)
      BY <1>1, <1>4, <1>6, <1>7, <1>13, <1>14, <2>1, <2>2 DEF AnswersOK
    <2>6. ServerInv'
      BY <1>1, <2>1, <2>5 DEF ServerInv
    <2>7. MailInv'
      BY <1>2, <1>11, <2>1 DEF HomeInv, MailInv
    <2> QED
      BY <1>10, <2>4, <2>6, <2>7 DEF HomeInv
  <1>15. CASE known = {} /\ Acceptable(b)
    <2>1. /\ db' = Applied(b) /\ db' \in SomeView /\ db'.day = db.day /\ db'.rev = db.rev + 1
          /\ Range(db'.log) = Range(db.log) \cup Ids(b.ops)
      BY <1>1, <1>2, <1>15, AppliedTyped
    <2>2. answer \in SomeAnswer
      BY <1>8, <2>1
    <2>3. db'.rev > db.rev /\ NotAfter(db', db') /\ \A v \in SomeView : NotAfter(v, db) => NotAfter(v, db')
      BY <1>1, <2>1 DEF NotAfter, SomeView
    <2>4. PageOK(page, Out, db', Retired', Len(typed), made)
      BY <1>1, <2>1, <2>3, ChangedOK, StoredTyped
    <2>5. PageInv'
      BY <1>2, <1>13, <1>15, <2>4 DEF PageInv
    <2>6. AnswersOK(answers', db')
      <3>1. answers' \subseteq SomeAnswer /\ \A a \in answers' : a.view.day > 0 /\ NotAfter(a.view, db')
        BY <1>1, <1>4, <1>13, <1>15, <2>1, <2>2, <2>3 DEF AnswersOK, SomeAnswer
      <3>2. \A a, o \in answers' : a.batch = o.batch => a = o
        BY <1>1, <1>4, <1>7, <1>13, <1>15 DEF AnswersOK
      <3>3. \A x \in Range(db'.log) : \E a \in answers' : a.confirmed /\ x \in Ids(a.batch.ops)
        BY <1>1, <1>4, <1>13, <1>15, <2>1 DEF AnswersOK
      <3>4. \A a \in answers' : a.confirmed => Ids(a.batch.ops) \subseteq Range(db'.log)
        BY <1>1, <1>4, <1>13, <1>15, <2>1 DEF AnswersOK
      <3> QED
        BY <3>1, <3>2, <3>3, <3>4 DEF AnswersOK
    <2>7. ServerInv'
      BY <1>1, <2>1, <2>6 DEF ServerInv
    <2>8. MailInv'
      BY <1>2, <1>11, <2>3 DEF HomeInv, MailInv
    <2> QED
      BY <1>10, <2>5, <2>7, <2>8 DEF HomeInv
  <1> QED
    BY <1>12, <1>14, <1>15

-----------------------------------------------------------------------------
(* The first page is as it should be. *)
LEMMA InitOK == HomeInit => HomeInv
  <1> SUFFICES ASSUME HomeInit PROVE HomeInv
    OBVIOUS
  <1>1. PICK kept \in SomeKept : kept = Nothing
    BY ConstantsTyped
  <1>2. PICK allow : allow = TRUE
    OBVIOUS
  <1>3. /\ page = ApplySnapshot(FreshPage(kept), db, allow)
        /\ answers = {} /\ calls = {} /\ reply = {} /\ poll = {} /\ made = 0 /\ typed = <<>> /\ told = <<>>
    BY <1>1, <1>2 DEF HomeInit
  <1>4. db \in SomeView /\ db.day = 1 /\ db.log = <<>>
    <2>1. db \in [day : {1}, rev : {0}, status : [Slip -> {"unborn", "open"}], count : [Slip -> {0}], log : {<<>>}]
      BY DEF HomeInit
    <2>2. db.status \in [Slip -> {"unborn", "open", "closed", "past"}] /\ db.count \in [Slip -> Int]
      BY <2>1
    <2>3. <<>> \in Seq(Nat)
      OBVIOUS
    <2>4. /\ db.day = 1 /\ db.rev = 0 /\ db.log = <<>>
          /\ db = [day |-> db.day, rev |-> db.rev, status |-> db.status, count |-> db.count, log |-> db.log]
      BY <2>1
    <2>5. db.day \in Nat /\ db.rev \in Nat /\ db.log \in Seq(Nat)
      BY <2>3, <2>4
    <2> QED
      BY <2>2, <2>4, <2>5 DEF SomeView
  <1>5. PICK q : q = page
    OBVIOUS
  <1>6. /\ q \in SomePage /\ Saved(q) /\ q.shown = db /\ q.batch = kept.batch
        /\ TakenBack(q.outbox, kept.ops, db)
    BY <1>3, <1>4, <1>5, FirstSnapshot
  <1>7. kept.ops = <<>> /\ kept.batch = NoBatch
    BY <1>1, ConstantsTyped
  <1>8. DOMAIN q.outbox = {} /\ Ids(q.outbox) = {}
    <2>1. Range(kept.ops) = {}
      BY <1>7 DEF Range
    <2>2. Range(q.outbox) = {}
      BY <1>6, <2>1 DEF TakenBack
    <2> QED
      BY <2>2 DEF Range, Ids
  <1>9. Out = {} /\ Retired = {} /\ Queue(q) = q.outbox /\ Held(q) = NoBatch /\ All(NoBatch, Out) = {}
    BY <1>3, <1>6, <1>7 DEF Out, Retired, Queue, Held, All, Saved
  <1>10. Orderly(Queue(q), Held(q), Out, Len(typed), made)
    BY <1>8, <1>9 DEF Orderly, Ascending
  <1>11. NotAfter(db, db)
    BY <1>4 DEF NotAfter, SomeView
  <1>12. PageInv
    BY <1>5, <1>6, <1>9, <1>10, <1>11 DEF PageInv, PageOK
  <1>13. ServerInv
    BY <1>3, <1>4 DEF ServerInv, AnswersOK, Range
  <1>14. MailInv
    BY <1>3 DEF MailInv
  <1>15. ToldInv
    BY <1>3 DEF ToldInv
  <1> QED
    BY <1>12, <1>13, <1>14, <1>15 DEF HomeInv

(* The page sees nothing of what the server does with a batch. *)
LEMMA ServeOnward == ASSUME NEW b \in calls, Serve(b) PROVE Onward
  BY DEF Onward, Serve

(* What each step does to the queue, the screen and what was told. *)
Does ==
    \/ Stays \/ Types \/ Loads \/ Receives \/ Restarts \/ Others
    \/ AskSnapshot
    \/ \E b \in calls : Serve(b)
    \/ UNCHANGED homeVars

(* All actions together. *)
LEMMA HomeStep == HomeInv /\ [HomeNext]_homeVars => HomeInv' /\ Does
  <1> SUFFICES ASSUME HomeInv, [HomeNext]_homeVars PROVE HomeInv' /\ Does
    OBVIOUS
  <1>1. ASSUME NEW s \in Slip, NEW valid \in BOOLEAN, TypeEdit(s, valid) PROVE HomeInv' /\ Does
    BY <1>1, TypeEditOK DEF Does
  <1>2. ASSUME NEW s \in Slip, NEW n \in Quantity, TypeQuantity(s, n) PROVE HomeInv' /\ Does
    BY <1>2, TypeQuantityOK DEF Does
  <1>3. CASE TimerFires
    BY <1>3, TimerFiresOK DEF Does
  <1>4. ASSUME NEW s \in Slip, OpenCheckout(s) PROVE HomeInv' /\ Does
    BY <1>4, OpenCheckoutOK DEF Does
  <1>5. CASE CloseCheckout
    BY <1>5, CloseCheckoutOK DEF Does
  <1>6. CASE Online
    BY <1>6, OnlineOK DEF Does
  <1>7. CASE AskSnapshot
    BY <1>7, AskSnapshotOK DEF Does
  <1>8. CASE LoadSlips
    BY <1>8, LoadSlipsOK DEF Does
  <1>9. CASE Receive
    BY <1>9, ReceiveOK DEF Does
  <1>10. CASE TimeOut
    BY <1>10, TimeOutOK DEF Does
  <1>11. CASE Lose
    BY <1>11, LoseOK DEF Does
  <1>12. CASE Reload
    BY <1>12, ReloadOK DEF Does
  <1>13. ASSUME NEW b \in calls, Serve(b) PROVE HomeInv' /\ Does
    BY <1>13, ServeOK DEF Does
  <1>14. CASE StaffEdits
    BY <1>14, StaffEditsOK DEF Does
  <1>15. ASSUME NEW s \in Slip, NEW n \in Quantity, StaffSets(s, n) PROVE HomeInv' /\ Does
    BY <1>15, StaffSetsOK DEF Does
  <1>16. ASSUME NEW s \in Slip, StaffCloses(s) \/ StaffReopens(s) \/ StaffOpens(s) PROVE HomeInv' /\ Does
    BY <1>16, StaffMovesOK DEF Does
  <1>17. CASE NextDay
    BY <1>17, NextDayOK DEF Does
  <1>18. CASE UNCHANGED homeVars
    <2>1. HomeInv'
      BY <1>18 DEF homeVars, HomeInv, PageInv, ServerInv, MailInv, ToldInv, Out, Retired
    <2> QED
      BY <1>18, <2>1 DEF Does
  <1> QED
    BY <1>1, <1>2, <1>3, <1>4, <1>5, <1>6, <1>7, <1>8, <1>9, <1>10, <1>11, <1>12, <1>13, <1>14, <1>15,
       <1>16, <1>17, <1>18 DEF HomeNext

(* HomeInv holds always: for any number of operations, slips, days,         *)
(* revisions and faults.                                                    *)
LEMMA HomeInvariant == HomeSpec => []HomeInv
  <1>1. HomeInit => HomeInv
    BY InitOK
  <1>2. HomeInv /\ [HomeNext]_homeVars => HomeInv'
    BY HomeStep
  <1> QED
    BY <1>1, <1>2, PTL DEF HomeSpec

(* The screen goes back at a restart only, and then to a page without a     *)
(* snapshot or to what the server holds.                                    *)
LEMMA ForwardStep ==
    HomeInv /\ [HomeNext]_homeVars
        => (page'.shown.day = page.shown.day => page'.shown.rev >= page.shown.rev)
  <1> SUFFICES ASSUME HomeInv, [HomeNext]_homeVars PROVE NotBack(page.shown, page'.shown)
    BY DEF NotBack
  <1>1. Does
    BY HomeStep
  <1>2. /\ page.shown \in SomeView /\ NotAfter(page.shown, db) /\ db \in SomeView
        /\ Saved(page) \/ Blank(page)
    BY StoredTyped, SavedOrBlank DEF SomePage, HomeInv, PageInv, PageOK
  <1>3. page.shown.rev \in Nat /\ page.shown.day \in Nat /\ db.rev \in Nat /\ db.day \in Nat
    BY <1>2 DEF SomeView
  <1>4. page.shown = NoShot \/ page.shown.day > 0
    BY <1>2, BlankStill DEF Saved
  <1>5. ASSUME page'.shown = page.shown PROVE NotBack(page.shown, page'.shown)
    BY <1>3, <1>5 DEF NotBack
  <1>6. CASE Loads
    <2>1. CASE Blank(page)
      <3>1. page.shown = NoShot
        BY <2>1, BlankStill
      <3>2. ASSUME NEW v \in poll PROVE v.rev \in Nat
        BY DEF HomeInv, MailInv, SomeView
      <3>3. page'.shown \in {page.shown} \cup poll
        BY <1>6 DEF Loads
      <3> QED
        BY <3>1, <3>2, <3>3, ConstantsTyped DEF NotBack
    <2>2. CASE ~ Blank(page)
      BY <1>6, <2>2 DEF Loads
    <2> QED
      BY <2>1, <2>2
  <1>7. CASE Receives
    BY <1>7 DEF Receives
  <1>8. CASE Restarts
    <2>1. page'.shown = NoShot \/ page'.shown = db
      BY <1>8 DEF Restarts
    <2> QED
      BY <1>2, <1>3, <1>4, <2>1, ConstantsTyped DEF NotBack, NotAfter
  <1> QED
    BY <1>1, <1>5, <1>6, <1>7, <1>8 DEF Does, Stays, Types, Others, Onward, AskSnapshot, Serve, homeVars

(* The screen never goes back to an older revision of the same day:         *)
(* whatever snapshots and answers come late, and also when the page is      *)
(* loaded again (applySnapshot of business-home.js).                        *)
THEOREM HomeScreenForward == HomeSpec => ScreenForward
  <1>1. HomeSpec => []HomeInv
    BY HomeInvariant
  <1>2. HomeInv /\ [HomeNext]_homeVars
            => [page'.shown.day = page.shown.day => page'.shown.rev >= page.shown.rev]_homeVars
    BY ForwardStep
  <1> QED
    BY <1>1, <1>2, PTL DEF HomeSpec, ScreenForward

(* What was put behind a list is what its continuation holds. *)
LEMMA Behind ==
    ASSUME NEW s \in Seq(Nat), NEW t \in Seq(Nat)
    PROVE  SubSeq(s \o t, Len(s) + 1, Len(s \o t)) = t
  <1> DEFINE u == s \o t
             v == SubSeq(u, Len(s) + 1, Len(u))
  <1>1. /\ Len(u) = Len(s) + Len(t) /\ u \in Seq(Nat) /\ Len(s) \in Nat /\ Len(t) \in Nat
        /\ \A i \in 1..Len(t) : u[Len(s) + i] = t[i]
    OBVIOUS
  <1> HIDE DEF u
  <1>2. v = [i \in 1..Len(t) |-> u[Len(s) + i]]
    BY <1>1
  <1>3. t = [i \in 1..Len(t) |-> t[i]]
    OBVIOUS
  <1> QED
    BY <1>1, <1>2, <1>3 DEF u

(* An answer tells of its operations alone, and no other answer does. *)
LEMMA OneAnswer ==
    ASSUME HomeInv, NEW a \in answers, NEW o \in answers, NEW i,
           i \in Ids(a.batch.ops), i \in Ids(o.batch.ops)
    PROVE  a = o
  <1>1. a.batch \in Out /\ o.batch \in Out
    BY DEF Out
  <1>2. a.batch # NoBatch /\ o.batch # NoBatch
    BY NoBatchEmpty
  <1>3. a.batch \in All(Held(page), Out) /\ o.batch \in All(Held(page), Out)
    BY <1>1, <1>2 DEF All
  <1>4. a.batch = o.batch
    BY <1>3, Apart
  <1> QED
    BY <1>4 DEF HomeInv, ServerInv, AnswersOK

-----------------------------------------------------------------------------
(* To type an operation is to type it in the list; *)
LEMMA TypesOne == HomeInv /\ Types => Edits!TypeOne
  <1> SUFFICES ASSUME HomeInv, Types PROVE Edits!TypeOne
    OBVIOUS
  <1>1. PICK e \in SomeEdit : typed' = Append(typed, e)
    BY StoredTyped DEF Types, SomeEdit
  <1>2. Len(typed') = Len(typed) + 1
    BY <1>1 DEF HomeInv, ToldInv
  <1> QED
    BY <1>2 DEF Types, Edits!TypeOne

(* an answer tells of the operations of its batch: those it told before it  *)
(* tells the same;                                                          *)
LEMMA ReceivesTold ==
    HomeInv /\ Receives
        => \E outcome \in {"confirmed", "refused"} :
              Edits!TellSome({i \in 1..Len(typed) : told[i] # told'[i]}, outcome)
  <1> SUFFICES ASSUME HomeInv, Receives
               PROVE  \E outcome \in {"confirmed", "refused"} :
                         Edits!TellSome({i \in 1..Len(typed) : told[i] # told'[i]}, outcome)
    OBVIOUS
  <1>1. PICK answer \in answers :
            /\ answer.batch = page.batch
            /\ told' = [i \in DOMAIN told |->
                  IF i \in Ids(page.batch.ops) THEN IF answer.confirmed THEN "confirmed" ELSE "refused" ELSE told[i]]
    BY DEF Receives
  <1> DEFINE ids == {i \in 1..Len(typed) : told[i] # told'[i]}
             outcome == IF answer.confirmed THEN "confirmed" ELSE "refused"
  <1>2. /\ DOMAIN told = 1..Len(typed) /\ told \in Seq(Fate)
        /\ answer.confirmed \in BOOLEAN
        /\ UNCHANGED <<db, typed>>
    BY DEF HomeInv, ToldInv, ServerInv, AnswersOK, SomeAnswer, Receives
  <1>3. \A i \in 1..Len(typed) : told'[i] = IF i \in Ids(answer.batch.ops) THEN outcome ELSE told[i]
    BY <1>1, <1>2
  <1>4. ASSUME NEW i \in 1..Len(typed), i \in Ids(answer.batch.ops), told[i] # "nothing"
        PROVE  told[i] = outcome
    <2>1. PICK a \in answers : i \in Ids(a.batch.ops) /\ (a.confirmed <=> told[i] = "confirmed")
      BY <1>2, <1>4 DEF HomeInv, ToldInv
    <2>2. a = answer
      BY <1>4, <2>1, OneAnswer
    <2>3. told[i] \in {"confirmed", "refused"}
      BY <1>2, <1>4 DEF Fate
    <2> QED
      BY <2>1, <2>2, <2>3
  <1>5. ASSUME NEW i \in Ids(answer.batch.ops)
        PROVE  answer.confirmed <=> i \in Range(db.log)
    <2>1. answer.confirmed => i \in Range(db.log)
      BY DEF HomeInv, ServerInv, AnswersOK
    <2>2. ASSUME i \in Range(db.log) PROVE answer.confirmed
      <3>1. PICK a \in answers : a.confirmed /\ i \in Ids(a.batch.ops)
        BY <2>2 DEF HomeInv, ServerInv, AnswersOK
      <3> QED
        BY <3>1, OneAnswer
    <2> QED
      BY <2>1, <2>2
  <1>6. outcome \in {"confirmed", "refused"} /\ (outcome = "confirmed" <=> answer.confirmed)
    BY <1>2
  <1> HIDE DEF outcome
  <1>7. \A i \in ids : told[i] = "nothing" /\ (outcome = "confirmed" <=> i \in Edits!Range(db.log))
    <2> SUFFICES ASSUME NEW i \in ids
                 PROVE  told[i] = "nothing" /\ (outcome = "confirmed" <=> i \in Range(db.log))
      BY DEF Edits!Range, Range
    <2>1. i \in 1..Len(typed) /\ i \in Ids(answer.batch.ops) /\ told[i] # outcome
      BY <1>3
    <2> QED
      BY <1>4, <1>5, <1>6, <2>1
  <1>8. told' = [i \in 1..Len(typed) |-> IF i \in ids THEN outcome ELSE told[i]]
    <2>1. DOMAIN told' = 1..Len(typed) /\ told' = [i \in DOMAIN told |-> told'[i]]
      BY <1>1, <1>2
    <2>2. \A i \in 1..Len(typed) : told'[i] = IF i \in ids THEN outcome ELSE told[i]
      BY <1>3
    <2> QED
      BY <1>2, <2>1, <2>2
  <1>9. Edits!TellSome(ids, outcome)
    BY <1>2, <1>7, <1>8 DEF Edits!TellSome
  <1> QED
    BY <1>6, <1>9

(* and a batch is appended as a whole, behind all that took effect, or      *)
(* leaves the list alone.                                                   *)
LEMMA ServesSome ==
    ASSUME HomeInv, NEW b \in calls, Serve(b)
    PROVE  \/ Edits!ApplySome(SubSeq(db'.log, Len(db.log) + 1, Len(db'.log)))
           \/ UNCHANGED Edits!editVars
  <1>1. db' = db \/ (Acceptable(b) /\ db' = Applied(b))
    BY DEF Serve, Applied
  <1>2. UNCHANGED <<typed, told>>
    BY DEF Serve
  <1>3. CASE db' = db
    BY <1>2, <1>3 DEF Edits!editVars
  <1>4. CASE Acceptable(b) /\ db' = Applied(b)
    <2> DEFINE ids == [i \in DOMAIN b.ops |-> b.ops[i].id]
    <2>1. /\ b \in SomeBatch /\ b.ops \in Seq(SomeEdit) /\ db.log \in Seq(Nat) /\ Len(typed) \in Nat
      BY StoredTyped DEF SomeBatch, SomeView
    <2>2. db'.log = db.log \o ids
      BY <1>4, <2>1, AppliedTyped
    <2>3. ids \in Seq(Nat)
      BY <2>1, Appended
    <2>4. SubSeq(db'.log, Len(db.log) + 1, Len(db'.log)) = ids
      BY <2>1, <2>2, <2>3, Behind
    <2>5. /\ Ascending(b.ops) /\ Ids(b.ops) \subseteq 1..Len(typed)
          /\ InTurn(b, db, Retired)
      <3>1. CASE b = NoBatch
        <4>1. DOMAIN b.ops = {} /\ Ids(b.ops) = {}
          BY <3>1, NoBatchEmpty DEF Ids
        <4> QED
          BY <4>1 DEF Ascending, InTurn
      <3>2. CASE b # NoBatch
        <4>1. b \in All(Held(page), Out)
          BY <3>2 DEF All, Out
        <4> QED
          BY <4>1 DEF HomeInv, PageInv, PageOK, Orderly
      <3> QED
        BY <3>1, <3>2
    <2>6. DOMAIN ids = DOMAIN b.ops /\ \A i \in DOMAIN ids : ids[i] = b.ops[i].id /\ ids[i] \in Ids(b.ops)
      BY DEF Ids
    <2>7. ids \in Seq(1..Len(typed))
      <3>1. DOMAIN ids = 1..Len(ids) /\ Len(ids) \in Nat /\ ids = [i \in 1..Len(ids) |-> ids[i]]
        BY <2>3
      <3>2. \A i \in 1..Len(ids) : ids[i] \in 1..Len(typed)
        BY <2>5, <2>6, <3>1
      <3> HIDE DEF ids
      <3> QED
        BY <3>1, <3>2
    <2> HIDE DEF ids
    <2>8. \A i \in DOMAIN ids : ids[i] \notin Retired
      BY <1>4, <2>6 DEF Acceptable
    <2>9. \A i \in DOMAIN ids : told[ids[i]] = "nothing"
      <3> SUFFICES ASSUME NEW i \in DOMAIN ids, told[ids[i]] # "nothing" PROVE FALSE
        OBVIOUS
      <3>1. ids[i] \in 1..Len(typed)
        BY <2>5, <2>6
      <3>2. DOMAIN told = 1..Len(typed)
        BY DEF HomeInv, ToldInv
      <3>3. \E a \in answers : ids[i] \in Ids(a.batch.ops)
        BY <3>1, <3>2 DEF HomeInv, ToldInv
      <3> QED
        BY <2>8, <3>3 DEF Retired
    <2>10. \A i, j \in DOMAIN ids : i < j => ids[i] < ids[j]
      BY <2>5, <2>6 DEF Ascending
    <2>11. \A i \in DOMAIN ids : \A j \in DOMAIN db.log : db.log[j] < ids[i]
      BY <1>4, <2>5, <2>6, <2>8 DEF InTurn, Acceptable, Range
    <2> QED
      BY <1>2, <2>2, <2>4, <2>7, <2>9, <2>10, <2>11 DEF Edits!ApplySome
  <1> QED
    BY <1>1, <1>3, <1>4

(* Every step of the page and the server is a step of the list, or none. *)
LEMMA EditStep == HomeInv /\ [HomeNext]_homeVars => [Edits!EditNext]_(Edits!editVars)
  <1> SUFFICES ASSUME HomeInv, [HomeNext]_homeVars PROVE Edits!EditNext \/ UNCHANGED Edits!editVars
    OBVIOUS
  <1>1. Does
    BY HomeStep
  <1>2. CASE Types
    BY <1>2, TypesOne DEF Edits!EditNext
  <1>3. CASE Receives
    BY <1>3, ReceivesTold DEF Edits!EditNext
  <1>4. ASSUME NEW b \in calls, Serve(b) PROVE Edits!EditNext \/ UNCHANGED Edits!editVars
    BY <1>4, ServesSome DEF Edits!EditNext
  <1>5. CASE Stays \/ Loads \/ Restarts \/ Others \/ AskSnapshot \/ UNCHANGED homeVars
    BY <1>5 DEF Stays, Loads, Restarts, Others, Onward, AskSnapshot, homeVars, Edits!editVars
  <1> QED
    BY <1>1, <1>2, <1>3, <1>4, <1>5 DEF Does

(* The queue, the batches and the stored answers implement the list of      *)
(* EditList, whatever is lost, late, repeated or sent again: operations     *)
(* take effect at most once and in the order of typing, and the page is     *)
(* told what happened (sendBusinessHomeBatch of business-home.js,           *)
(* store.sync_business_home_changes_v2).                                    *)
THEOREM HomeImplementsEditList == HomeSpec => ImplementsEditList
  <1>1. HomeInit => Edits!EditInit
    <2> SUFFICES ASSUME HomeInit PROVE Edits!EditInit
      OBVIOUS
    <2>1. db.log = <<>> /\ typed = <<>> /\ told = <<>>
      BY DEF HomeInit
    <2>2. Len(typed) = 0
      BY <2>1
    <2> QED
      BY <2>1, <2>2 DEF Edits!EditInit
  <1>2. HomeSpec => []HomeInv
    BY HomeInvariant
  <1> QED
    BY <1>1, <1>2, EditStep, PTL DEF HomeSpec, ImplementsEditList, Edits!EditSpec

-----------------------------------------------------------------------------
(* What the steps of EditList keep. *)
EditTypeOK ==
    /\ Len(typed) \in Nat
    /\ db.log \in Seq(1..Len(typed))
    /\ told \in Seq(Fate) /\ Len(told) = Len(typed)

(* An operation already told about is never applied later, so the answer    *)
(* given for it stays true.                                                 *)
EditInv == EditTypeOK /\ Edits!OnceInOrder /\ Edits!ToldAsApplied

-----------------------------------------------------------------------------
(* What a batch adds: the elements of both sequences, each at its place. *)
LEMMA Appending ==
    ASSUME NEW S, NEW s \in Seq(S), NEW t \in Seq(S)
    PROVE  /\ s \o t \in Seq(S)
           /\ DOMAIN s = 1..Len(s) /\ DOMAIN t = 1..Len(t) /\ DOMAIN (s \o t) = 1..(Len(s) + Len(t))
           /\ Len(s) \in Nat /\ Len(t) \in Nat
           /\ \A i \in 1..Len(s) : (s \o t)[i] = s[i]
           /\ \A i \in (Len(s) + 1)..(Len(s) + Len(t)) : i - Len(s) \in 1..Len(t) /\ (s \o t)[i] = t[i - Len(s)]
  OBVIOUS

LEMMA EditTyped == Edits!EditInit => EditInv
  <1> SUFFICES ASSUME Edits!EditInit PROVE EditInv
    OBVIOUS
  <1>1. EditTypeOK
    BY DEF Edits!EditInit, EditTypeOK
  <1>2. Edits!OnceInOrder
    BY DEF Edits!EditInit, Edits!OnceInOrder
  <1>3. Edits!ToldAsApplied
    BY DEF Edits!EditInit, Edits!ToldAsApplied
  <1> QED
    BY <1>1, <1>2, <1>3 DEF EditInv

LEMMA TypeOneKeeps == EditInv /\ Edits!TypeOne => EditInv'
  <1> SUFFICES ASSUME EditInv, Edits!TypeOne PROVE EditInv'
    OBVIOUS
  <1> USE DEF EditInv, EditTypeOK, Edits!TypeOne
  <1>1. "nothing" \in Fate
    BY DEF Fate
  <1>2. /\ told' \in Seq(Fate) /\ Len(told') = Len(typed) + 1
        /\ \A i \in 1..Len(typed) : told'[i] = told[i]
        /\ told'[Len(typed) + 1] = "nothing"
    BY <1>1
  <1>3. EditTypeOK'
    <2>1. db.log \in Seq(1..(Len(typed) + 1))
      OBVIOUS
    <2> QED
      BY <1>2, <2>1
  <1>4. Edits!OnceInOrder'
    BY DEF Edits!OnceInOrder
  <1>5. Edits!ToldAsApplied'
    BY <1>2 DEF Edits!ToldAsApplied, Edits!Range
  <1> QED
    BY <1>3, <1>4, <1>5

LEMMA ApplySomeKeeps ==
    ASSUME EditInv, NEW batch, Edits!ApplySome(batch)
    PROVE  EditInv'
  <1> USE DEF EditInv, EditTypeOK
  <1>1. batch \in Seq(1..Len(typed)) /\ db'.log = db.log \o batch /\ Len(typed') = Len(typed) /\ told' = told
    BY DEF Edits!ApplySome
  <1>2. EditTypeOK'
    BY <1>1, Appending
  <1>3. Edits!OnceInOrder'
    <2> SUFFICES ASSUME NEW i \in DOMAIN db'.log, NEW j \in DOMAIN db'.log, i < j
                 PROVE  db'.log[i] < db'.log[j]
      BY DEF Edits!OnceInOrder
    <2> DEFINE n == Len(db.log)
    <2>1. i \in 1..(n + Len(batch)) /\ j \in 1..(n + Len(batch)) /\ n \in Nat /\ Len(batch) \in Nat
      BY <1>1, Appending
    <2>2. CASE j <= n
      <3>1. db'.log[i] = db.log[i] /\ db'.log[j] = db.log[j] /\ i \in DOMAIN db.log /\ j \in DOMAIN db.log
        BY <1>1, <2>1, <2>2, Appending
      <3> QED
        BY <3>1 DEF Edits!OnceInOrder
    <2>3. CASE i <= n /\ n < j
      <3>1. db'.log[i] = db.log[i] /\ i \in DOMAIN db.log
        BY <1>1, <2>1, <2>3, Appending
      <3>2. db'.log[j] = batch[j - n] /\ j - n \in DOMAIN batch
        BY <1>1, <2>1, <2>3, Appending
      <3> QED
        BY <3>1, <3>2 DEF Edits!ApplySome
    <2>4. CASE n < i
      <3>1. db'.log[i] = batch[i - n] /\ i - n \in DOMAIN batch
        BY <1>1, <2>1, <2>4, Appending
      <3>2. db'.log[j] = batch[j - n] /\ j - n \in DOMAIN batch
        BY <1>1, <2>1, <2>4, Appending
      <3>3. i - n < j - n
        BY <2>1
      <3> QED
        BY <3>1, <3>2, <3>3 DEF Edits!ApplySome
    <2> QED
      BY <2>1, <2>2, <2>3, <2>4
  <1>4. Edits!ToldAsApplied'
    <2> SUFFICES ASSUME NEW i \in 1..Len(typed)
                 PROVE  /\ told[i] = "confirmed" => i \in Edits!Range(db'.log)
                        /\ told[i] = "refused" => i \notin Edits!Range(db'.log)
      BY <1>1 DEF Edits!ToldAsApplied
    <2>1. Edits!Range(db'.log) = Edits!Range(db.log) \cup Edits!Range(batch)
      <3>1. \A k \in DOMAIN db.log : k \in DOMAIN db'.log /\ db'.log[k] = db.log[k]
        BY <1>1, Appending
      <3>2. \A k \in DOMAIN batch : Len(db.log) + k \in DOMAIN db'.log /\ db'.log[Len(db.log) + k] = batch[k]
        BY <1>1, Appending
      <3>3. \A k \in DOMAIN db'.log :
              \/ k \in DOMAIN db.log /\ db'.log[k] = db.log[k]
              \/ k - Len(db.log) \in DOMAIN batch /\ db'.log[k] = batch[k - Len(db.log)]
        BY <1>1, Appending
      <3> QED
        BY <3>1, <3>2, <3>3 DEF Edits!Range
    <2>2. told[i] # "nothing" => i \notin Edits!Range(batch)
      BY DEF Edits!ApplySome, Edits!Range
    <2> QED
      BY <2>1, <2>2 DEF Edits!ToldAsApplied
  <1> QED
    BY <1>2, <1>3, <1>4

LEMMA TellSomeKeeps ==
    ASSUME EditInv, NEW ids, ids \subseteq 1..Len(typed), NEW outcome \in {"confirmed", "refused"}, Edits!TellSome(ids, outcome)
    PROVE  EditInv'
  <1> USE DEF EditInv, EditTypeOK, Edits!TellSome
  <1>1. EditTypeOK'
    <2>1. \A i \in 1..Len(typed) : told[i] \in Fate /\ outcome \in Fate
      BY DEF Fate
    <2> QED
      BY <2>1
  <1>2. Edits!OnceInOrder'
    BY DEF Edits!OnceInOrder
  <1>3. Edits!ToldAsApplied'
    BY DEF Edits!ToldAsApplied
  <1> QED
    BY <1>1, <1>2, <1>3

LEMMA EditInvariant == Edits!EditSpec => []EditInv
  <1>1. Edits!EditInit => EditInv
    BY EditTyped
  <1>2. EditInv /\ [Edits!EditNext]_(Edits!editVars) => EditInv'
    <2> SUFFICES ASSUME EditInv, [Edits!EditNext]_(Edits!editVars) PROVE EditInv'
      OBVIOUS
    <2>1. CASE Edits!TypeOne
      BY <2>1, TypeOneKeeps
    <2>2. CASE Edits!ApplySome(SubSeq(db'.log, Len(db.log) + 1, Len(db'.log)))
      BY <2>2, ApplySomeKeeps
    <2>3. ASSUME NEW outcome \in {"confirmed", "refused"}, Edits!TellSome({i \in 1..Len(typed) : told[i] # told'[i]}, outcome)
          PROVE  EditInv'
      <3>1. {i \in 1..Len(typed) : told[i] # told'[i]} \subseteq 1..Len(typed)
        OBVIOUS
      <3> QED
        BY <2>3, <3>1, TellSomeKeeps
    <2>4. CASE UNCHANGED Edits!editVars
      BY <2>4 DEF Edits!editVars, EditInv, EditTypeOK, Edits!OnceInOrder, Edits!ToldAsApplied
    <2> QED
      BY <2>1, <2>2, <2>3, <2>4 DEF Edits!EditNext
  <1> QED
    BY <1>1, <1>2, PTL DEF Edits!EditSpec

(* In the database an operation takes effect once, and in the order of      *)
(* typing.                                                                  *)
THEOREM HomeOnceInOrder == HomeSpec => []Edits!OnceInOrder
  <1>1. HomeSpec => Edits!EditSpec
    BY HomeImplementsEditList DEF ImplementsEditList
  <1>2. EditInv => Edits!OnceInOrder
    BY DEF EditInv
  <1> QED
    BY <1>1, <1>2, EditInvariant, PTL

(* What the page was told of an operation is what happened to it, and stays *)
(* so: confirmed operations are in the database, refused ones are never     *)
(* applied.                                                                 *)
THEOREM HomeToldAsApplied == HomeSpec => []Edits!ToldAsApplied
  <1>1. HomeSpec => Edits!EditSpec
    BY HomeImplementsEditList DEF ImplementsEditList
  <1>2. EditInv => Edits!ToldAsApplied
    BY DEF EditInv
  <1> QED
    BY <1>1, <1>2, EditInvariant, PTL

-----------------------------------------------------------------------------
(* Nothing typed is lost: the queue holds the operations as they were typed *)
AsTyped ==
    /\ \A i \in DOMAIN typed : typed[i].id = i
    /\ \A e \in Range(Queue(page)) : typed[e.id] = e

(* and the checkout that is open belongs to a slip for which none waits.    *)
SafeInv == AsTyped /\ SettledBeforeCheckout

(* What a step may do to an operation nobody was told about: keep it where  *)
(* it is stored, or leave it out as the page takes back what was kept.      *)
Remembered ==
    \A i \in DOMAIN typed' : told'[i] = "nothing" =>
        \/ i \in Ids(page'.stored.ops)
        \/ i \in DOMAIN typed /\ (i \notin Ids(page.stored.ops) \/ LeftOut(i))

-----------------------------------------------------------------------------
(* What is stored is the queue, and the queue holds operations that were    *)
(* typed.                                                                   *)
LEMMA QueueTyped ==
    ASSUME HomeInv
    PROVE  /\ Saved(page) => Queue(page) = page.outbox
           /\ Queue(page) = page.stored.ops
           /\ Queue(page) \in Seq(SomeEdit) /\ Ids(Queue(page)) \subseteq DOMAIN typed
           /\ DOMAIN typed = 1..Len(typed) /\ DOMAIN told = DOMAIN typed
  <1>1. Saved(page) => Queue(page) = page.outbox /\ page.stored.ops = page.outbox
    BY DEF Saved, Queue
  <1>2. Blank(page) => Queue(page) = page.stored.ops
    BY DEF Blank, Queue
  <1>3. Queue(page) = page.stored.ops
    BY <1>1, <1>2, SavedOrBlank
  <1>4. page.stored.ops \in Seq(SomeEdit)
    BY StoredTyped DEF SomeKept
  <1>5. DOMAIN typed = 1..Len(typed) /\ DOMAIN told = DOMAIN typed
    BY DEF HomeInv, ToldInv
  <1>6. Ids(Queue(page)) \subseteq 1..Len(typed)
    BY DEF HomeInv, PageInv, PageOK, Orderly
  <1> QED
    BY <1>1, <1>2, <1>3, <1>4, <1>5, <1>6

(* The queue of the page that follows, when it holds no operation the queue *)
(* did not hold.                                                            *)
LEMMA TypedStays ==
    ASSUME HomeInv, AsTyped, typed' = typed, Range(Queue(page')) \subseteq Range(Queue(page))
    PROVE  AsTyped'
  BY DEF AsTyped

(* A step that neither types nor tells anything forgets nothing, when it    *)
(* leaves the stored operations as they are.                                *)
LEMMA SameRemembered ==
    ASSUME UNCHANGED <<typed, told>>, page'.stored.ops = page.stored.ops
    PROVE  Remembered
  BY DEF Remembered

(* Every kind of step keeps SafeInv and forgets nothing: one that leaves    *)
(* the queue as it is,                                                      *)
LEMMA StaysSafe == HomeInv /\ HomeInv' /\ SafeInv /\ Stays => SafeInv' /\ Remembered
  <1> SUFFICES ASSUME HomeInv, HomeInv', SafeInv, Stays PROVE SafeInv' /\ Remembered
    OBVIOUS
  <1>1. Queue(page') = Queue(page) /\ page'.stored.ops = page.stored.ops
    BY DEF Stays, Saved, Queue
  <1>2. AsTyped'
    BY <1>1, TypedStays DEF SafeInv, Stays
  <1>3. Remembered
    BY <1>1, SameRemembered DEF Stays
  <1>4. SettledBeforeCheckout'
    <2>1. CASE page'.outbox = <<>> /\ page'.draft = NoDrafts
      <3>1. Range(page'.outbox) = {}
        BY <2>1 DEF Range
      <3>2. page'.dialog \subseteq Slip
        BY DEF HomeInv, PageInv, PageOK, SomePage
      <3> QED
        BY <2>1, <3>1, <3>2, ConstantsTyped DEF SettledBeforeCheckout
    <2>2. CASE ~ (page'.outbox = <<>> /\ page'.draft = NoDrafts)
      BY <2>2 DEF SafeInv, SettledBeforeCheckout, Stays, Settles
    <2> QED
      BY <2>1, <2>2
  <1> QED
    BY <1>2, <1>3, <1>4 DEF SafeInv

(* (an element appended to a queue is one of its elements) *)
LEMMA Appears ==
    ASSUME NEW S, NEW ops \in Seq(S), NEW e \in S
    PROVE  Range(Append(ops, e)) = Range(ops) \cup {e}
  <1> DEFINE more == Append(ops, e)
  <1>1. /\ DOMAIN ops = 1..Len(ops) /\ Len(ops) \in Nat /\ DOMAIN more = 1..(Len(ops) + 1)
        /\ more[Len(ops) + 1] = e /\ \A i \in DOMAIN ops : more[i] = ops[i]
    OBVIOUS
  <1> HIDE DEF more
  <1>2. \A i \in DOMAIN more : i \in DOMAIN ops \/ i = Len(ops) + 1
    BY <1>1
  <1>3. DOMAIN ops \subseteq DOMAIN more /\ Len(ops) + 1 \in DOMAIN more
    BY <1>1
  <1>4. Range(more) \subseteq Range(ops) \cup {e}
    BY <1>1, <1>2 DEF Range
  <1>5. Range(ops) \cup {e} \subseteq Range(more)
    BY <1>1, <1>3 DEF Range
  <1> QED
    BY <1>4, <1>5 DEF more

(* one that types an operation, for a slip that no checkout holds, *)
LEMMA TypesSafe == HomeInv /\ HomeInv' /\ SafeInv /\ Types => SafeInv' /\ Remembered
  <1> SUFFICES ASSUME HomeInv, HomeInv', SafeInv, Types PROVE SafeInv' /\ Remembered
    OBVIOUS
  <1>1. PICK s \in Slip, valid \in BOOLEAN : LET edit == [id |-> Len(typed) + 1, slip |-> s, valid |-> valid] IN
            /\ Saved(page) /\ Saved(page') /\ page'.shown = page.shown
            /\ IsOpen(page, s) /\ s \notin page.dialog
            /\ page'.outbox = Append(page.outbox, edit) /\ page'.dialog = page.dialog /\ Fewer(page, page')
            /\ typed' = Append(typed, edit) /\ told' = Append(told, "nothing")
            /\ UNCHANGED <<db, answers, poll>>
    BY DEF Types
  <1>2. PICK edit : edit = [id |-> Len(typed) + 1, slip |-> s, valid |-> valid]
    OBVIOUS
  <1>3. /\ Queue(page) = page.outbox /\ Queue(page') = Append(page.outbox, edit)
        /\ page.stored.ops = page.outbox /\ page'.stored.ops = Append(page.outbox, edit)
        /\ typed' = Append(typed, edit) /\ told' = Append(told, "nothing")
    BY <1>1, <1>2 DEF Saved, Queue
  <1>4. /\ Len(typed) \in Nat /\ page.outbox \in Seq(SomeEdit)
        /\ typed \in Seq(SomeEdit) /\ told \in Seq(Fate) /\ Len(told) = Len(typed)
        /\ DOMAIN typed = 1..Len(typed) /\ DOMAIN told = DOMAIN typed /\ Ids(page.outbox) \subseteq DOMAIN typed
    BY <1>3, StoredTyped, QueueTyped DEF SomePage, HomeInv, ToldInv
  <1>5. edit.id = Len(typed) + 1 /\ edit.slip = s /\ edit \in SomeEdit
    BY <1>2, <1>4 DEF SomeEdit
  <1>6. Range(Append(page.outbox, edit)) = Range(page.outbox) \cup {edit}
    BY <1>4, <1>5, Appears
  <1>7. /\ DOMAIN typed' = 1..(Len(typed) + 1) /\ typed'[Len(typed) + 1] = edit
        /\ \A i \in DOMAIN typed : typed'[i] = typed[i] /\ told'[i] = told[i]
        /\ \A i \in DOMAIN typed' : i \in DOMAIN typed \/ i = Len(typed) + 1
    BY <1>3, <1>4, <1>5 DEF Fate
  <1>8. \A e \in Range(page.outbox) : e.id \in DOMAIN typed
    BY <1>4, IdsOfRange
  <1>9. AsTyped'
    BY <1>3, <1>5, <1>6, <1>7, <1>8 DEF SafeInv, AsTyped
  <1>10. Remembered
    <2>1. Ids(page'.stored.ops) = Ids(page.outbox) \cup {edit.id}
      BY <1>3, <1>6, IdsOfRange
    <2> QED
      BY <1>3, <1>5, <1>7, <2>1 DEF Remembered
  <1>11. SettledBeforeCheckout'
    <2> SUFFICES ASSUME NEW t \in page'.dialog
                 PROVE  (\A e \in Range(page'.outbox) : e.slip # t) /\ page'.draft[t] = Clean
      BY DEF SettledBeforeCheckout
    <2>1. t \in page.dialog /\ t # s /\ t \in Slip
      BY <1>1, StoredTyped DEF SomePage
    <2>2. (\A e \in Range(page.outbox) : e.slip # t) /\ page.draft[t] = Clean
      BY <2>1 DEF SafeInv, SettledBeforeCheckout
    <2>3. page'.outbox = Append(page.outbox, edit) /\ (page'.draft[t] = page.draft[t] \/ page'.draft[t] = Clean)
      BY <1>1, <1>2, <2>1 DEF Fewer
    <2> QED
      BY <1>5, <1>6, <2>1, <2>2, <2>3
  <1> QED
    BY <1>9, <1>10, <1>11 DEF SafeInv

(* one that leaves of what was kept what concerns an open slip, *)
LEMMA TakenBackRemembered ==
    ASSUME HomeInv, SafeInv, UNCHANGED <<typed, told>>, Saved(page'), TakesBack,
           TakenBack(page'.outbox, page.stored.ops, page'.shown)
    PROVE  Remembered
  <1> SUFFICES ASSUME NEW i \in DOMAIN typed, i \in Ids(page.stored.ops), ~ LeftOut(i)
               PROVE  i \in Ids(page'.stored.ops)
    BY DEF Remembered
  <1>1. PICK e \in Range(page.stored.ops) : e.id = i
    BY IdsOfRange
  <1>2. typed[i] = e
    BY <1>1, QueueTyped DEF SafeInv, AsTyped
  <1>3. page'.shown.status[e.slip] = "open"
    BY <1>2 DEF LeftOut, IsOpen
  <1>4. e \in Range(page'.outbox)
    BY <1>3 DEF TakenBack
  <1>5. e \in Range(page'.stored.ops)
    BY <1>4 DEF Saved
  <1> QED
    BY <1>1, <1>5, IdsOfRange

(* as a snapshot does that is the first one;                                *)
LEMMA LoadsSafe == HomeInv /\ HomeInv' /\ SafeInv /\ Loads => SafeInv' /\ Remembered
  <1> SUFFICES ASSUME HomeInv, HomeInv', SafeInv, Loads PROVE SafeInv' /\ Remembered
    OBVIOUS
  <1>1. Saved(page') /\ UNCHANGED <<typed, told>> /\ Queue(page') = page'.outbox /\ page'.stored.ops = page'.outbox
    BY DEF Loads, Saved, Queue
  <1>2. CASE /\ Saved(page) /\ page'.outbox = page.outbox /\ page'.dialog = page.dialog /\ Fewer(page, page')
    <2>1. Queue(page') = Queue(page) /\ page'.stored.ops = page.stored.ops
      BY <1>1, <1>2, QueueTyped DEF Saved
    <2>2. AsTyped' /\ Remembered
      BY <1>1, <2>1, SameRemembered DEF SafeInv, AsTyped
    <2>3. SettledBeforeCheckout'
      BY <1>2, StoredTyped DEF SafeInv, SettledBeforeCheckout, Fewer, SomePage
    <2> QED
      BY <2>2, <2>3 DEF SafeInv
  <1>3. CASE /\ Blank(page) /\ page'.shown \in poll /\ page'.dialog = {}
             /\ TakenBack(page'.outbox, page.stored.ops, page'.shown)
    <2>1. Range(page'.outbox) = {e \in Range(page.stored.ops) : page'.shown.status[e.slip] = "open"}
      BY <1>3 DEF TakenBack
    <2>2. Queue(page) = page.stored.ops /\ ~ page.restored
      BY <1>3, QueueTyped DEF Blank
    <2>3. AsTyped'
      BY <1>1, <2>1, <2>2, TypedStays DEF SafeInv
    <2>4. TakesBack
      BY <1>1, <2>2 DEF TakesBack, Saved
    <2>5. Remembered
      BY <1>1, <1>3, <2>4, TakenBackRemembered
    <2>6. SettledBeforeCheckout'
      BY <1>3 DEF SettledBeforeCheckout
    <2> QED
      BY <2>3, <2>5, <2>6 DEF SafeInv
  <1> QED
    BY <1>2, <1>3 DEF Loads

(* one that takes the operations of a batch off the queue, which were told, *)
LEMMA ReceivesSafe == HomeInv /\ HomeInv' /\ SafeInv /\ Receives => SafeInv' /\ Remembered
  <1> SUFFICES ASSUME HomeInv, HomeInv', SafeInv, Receives PROVE SafeInv' /\ Remembered
    OBVIOUS
  <1>1. /\ Saved(page) /\ Saved(page') /\ typed' = typed
        /\ Queue(page) = page.outbox /\ Queue(page') = page'.outbox
        /\ page.stored.ops = page.outbox /\ page'.stored.ops = page'.outbox
    BY QueueTyped DEF Receives, Saved, Queue
  <1>2. PICK answer \in answers :
            told' = [i \in DOMAIN told |->
                    IF i \in Ids(page.batch.ops) THEN IF answer.confirmed THEN "confirmed" ELSE "refused" ELSE told[i]]
    BY DEF Receives
  <1>3. page.outbox \in Seq(SomeEdit) /\ page'.outbox = WithoutIds(page.outbox, Ids(page.batch.ops))
    BY StoredTyped DEF SomePage, Receives
  <1>4. Range(page'.outbox) = {e \in Range(page.outbox) : e.id \notin Ids(page.batch.ops)}
    BY <1>3, WithoutLeaves
  <1>5. AsTyped'
    BY <1>1, <1>4, TypedStays DEF SafeInv
  <1>6. Remembered
    <2> SUFFICES ASSUME NEW i \in DOMAIN typed, told'[i] = "nothing", i \in Ids(page.outbox)
                 PROVE  i \in Ids(page'.outbox)
      BY <1>1 DEF Remembered
    <2>1. i \in DOMAIN told
      BY QueueTyped
    <2>2. i \notin Ids(page.batch.ops)
      BY <1>2, <2>1
    <2> QED
      BY <1>4, <2>2, IdsOfRange
  <1>7. SettledBeforeCheckout'
    <2>1. Range(page'.outbox) \subseteq Range(page.outbox)
      BY <1>4
    <2>2. CASE page'.outbox = <<>> /\ page'.draft = NoDrafts
      <3>1. Range(page'.outbox) = {} /\ page'.dialog \subseteq Slip
        BY <2>2 DEF Range, HomeInv, PageInv, PageOK, SomePage
      <3> QED
        BY <2>2, <3>1, ConstantsTyped DEF SettledBeforeCheckout
    <2>3. CASE ~ (page'.outbox = <<>> /\ page'.draft = NoDrafts)
      BY <2>1, <2>3 DEF SafeInv, SettledBeforeCheckout, Receives, Settles
    <2> QED
      BY <2>2, <2>3
  <1> QED
    BY <1>5, <1>6, <1>7 DEF SafeInv

(* one that drops everything but what is stored,                            *)
LEMMA RestartsSafe == HomeInv /\ HomeInv' /\ SafeInv /\ Restarts => SafeInv' /\ Remembered
  <1> SUFFICES ASSUME HomeInv, HomeInv', SafeInv, Restarts PROVE SafeInv' /\ Remembered
    OBVIOUS
  <1>1. page'.dialog = {} /\ UNCHANGED <<typed, told>> /\ Queue(page) = page.stored.ops
    BY QueueTyped DEF Restarts
  <1>2. CASE Blank(page') /\ page'.stored = page.stored
    <2>1. Queue(page') = Queue(page) /\ page'.stored.ops = page.stored.ops
      BY <1>1, <1>2 DEF Blank, Queue
    <2> QED
      BY <1>1, <2>1, TypedStays, SameRemembered DEF SafeInv, SettledBeforeCheckout
  <1>3. CASE /\ Saved(page') /\ page'.shown = db
             /\ TakenBack(page'.outbox, page.stored.ops, db)
    <2>1. Range(Queue(page')) \subseteq Range(Queue(page))
      BY <1>1, <1>3 DEF Saved, Queue, TakenBack
    <2>2. AsTyped' /\ SettledBeforeCheckout'
      BY <1>1, <2>1, TypedStays DEF SafeInv, SettledBeforeCheckout
    <2>3. TakesBack
      BY <1>3 DEF Restarts, TakesBack, Saved
    <2>4. Remembered
      BY <1>1, <1>3, <2>3, TakenBackRemembered
    <2> QED
      BY <2>2, <2>4 DEF SafeInv
  <1> QED
    BY <1>2, <1>3 DEF Restarts

(* and one that does nothing to the page;                                   *)
LEMMA OnwardSafe ==
    ASSUME SafeInv, UNCHANGED <<page, typed, told>>
    PROVE  SafeInv' /\ Remembered
  BY SameRemembered DEF SafeInv, AsTyped, SettledBeforeCheckout

(* and so all steps do. *)
LEMMA SafeStep == HomeInv /\ HomeInv' /\ SafeInv /\ [HomeNext]_homeVars => SafeInv' /\ Remembered
  <1> SUFFICES ASSUME HomeInv, HomeInv', SafeInv, [HomeNext]_homeVars PROVE SafeInv' /\ Remembered
    OBVIOUS
  <1>1. CASE Stays \/ Types \/ Loads \/ Receives \/ Restarts
    BY <1>1, StaysSafe, TypesSafe, LoadsSafe, ReceivesSafe, RestartsSafe
  <1>2. CASE Others \/ AskSnapshot \/ UNCHANGED homeVars
    BY <1>2, OnwardSafe DEF Others, Onward, AskSnapshot, homeVars
  <1>3. ASSUME NEW b \in calls, Serve(b) PROVE SafeInv' /\ Remembered
    BY <1>3, ServeOnward, OnwardSafe DEF Onward
  <1> QED
    BY <1>1, <1>2, <1>3, HomeStep DEF Does

(* Nothing is typed at first. *)
LEMMA SafeStart == HomeInit => SafeInv
  <1> SUFFICES ASSUME HomeInit PROVE SafeInv
    OBVIOUS
  <1>1. HomeInv /\ typed = <<>>
    BY InitOK DEF HomeInit
  <1>2. DOMAIN typed = {} /\ Ids(Queue(page)) = {} /\ Range(Queue(page)) = {}
    <2>1. DOMAIN typed = {}
      BY <1>1
    <2>2. Ids(Queue(page)) = {}
      BY <1>1, <2>1, QueueTyped
    <2> QED
      BY <2>1, <2>2 DEF Ids, Range
  <1>3. page.dialog = {}
    <2>1. PICK kept \in SomeKept : kept = Nothing
      BY ConstantsTyped
    <2>2. PICK allow : allow = TRUE
      OBVIOUS
    <2>3. PICK q : q = page
      OBVIOUS
    <2>4. q = ApplySnapshot(FreshPage(kept), db, allow) /\ db \in SomeView /\ db.day > 0
      BY <1>1, <2>1, <2>2, <2>3, StoredTyped DEF HomeInit, HomeInv, ServerInv
    <2> QED
      BY <2>3, <2>4, FirstSnapshot
  <1> QED
    BY <1>2, <1>3 DEF SafeInv, AsTyped, SettledBeforeCheckout

(* What the page sends is what is stored for the next one. *)
LEMMA HomeKeeps == HomeInv => KeptAsQueued
  BY SavedOrBlank DEF KeptAsQueued, Saved, Blank

(* What is typed into the page is neither lost nor left out: an operation   *)
(* stays in localStorage, as the page will send it, until the page is told  *)
(* about it, through time-outs, losses and reloads, except that a page      *)
(* reloaded while its slip is at checkout or paid leaves it out; and a      *)
(* checkout is shown only when nothing typed for its slip waits             *)
(* (business-home.js, persistBusinessHomeDraft, restoreBusinessHomeDraft    *)
(* and waitForBusinessOperations).                                          *)
THEOREM HomeTypedIsSafe == HomeSpec => TypedIsSafe
  <1>1. HomeSpec => []HomeInv
    BY HomeInvariant
  <1>2. HomeInit => SafeInv
    BY SafeStart
  <1>3. HomeInv /\ HomeInv' /\ SafeInv /\ [HomeNext]_homeVars => SafeInv'
    BY SafeStep
  <1>4. HomeSpec => []SafeInv
    BY <1>1, <1>2, <1>3, PTL DEF HomeSpec
  <1>5. HomeInv /\ SafeInv => KeptAsQueued /\ SettledBeforeCheckout
    BY HomeKeeps DEF SafeInv
  <1>6. HomeInv /\ HomeInv' /\ SafeInv /\ [HomeNext]_homeVars =>
          [\A i \in DOMAIN typed' : told'[i] = "nothing" =>
              \/ i \in Ids(page'.stored.ops)
              \/ i \in DOMAIN typed /\ (i \notin Ids(page.stored.ops) \/ LeftOut(i))]_homeVars
    BY SafeStep DEF Remembered
  <1>7. HomeSpec => NothingForgotten
    BY <1>1, <1>4, <1>6, PTL DEF HomeSpec, NothingForgotten
  <1> QED
    BY <1>1, <1>4, <1>5, <1>7, PTL DEF TypedIsSafe
=============================================================================
