-------------------------- MODULE CreateSlip_proofs --------------------------
(***************************************************************************)
(* What is proved of the dialog that opens a slip (CreateSlip), for any     *)
(* number of casts, rows, operations, batches and changes of the day.       *)
(***************************************************************************)
EXTENDS CreateSlip, Lists_proofs

(* The operations made, and what a batch is made of. *)
AnyOp == [id : Nat \ {0}, kind : {"create_slip", "edit"}, form : Nat, casts : Seq(Row)]
Known == {hist.ops[i] : i \in 1..Len(hist.ops)}
KnownBatch == [id : Nat \ {0}, rev : Nat, ops : Seq(Known)]
Answer == [id : Nat \ {0}, ok : BOOLEAN]
In(b) == {b.ops[i] : i \in DOMAIN b.ops}
HasAnswer(b, ok) == \E a \in server.answers : a.id = b.id /\ a.ok = ok

(* Types without the bounds that TLC needs. *)
ServerShape ==
    server \in [rev : Nat, attending : SUBSET Cast, made : SUBSET Known, tried : SUBSET Known, answers : SUBSET Answer]
HomeShape == home \in [queue : Seq(Known), batch : KnownBatch \cup {NoneKept}, rev : Nat, batches : Nat]
FlightShape ==
    /\ flight \in [state : {"none", "going", "answered"}, batch : KnownBatch \cup {NoneKept}, ok : BOOLEAN]
    /\ flight = NoFlight \/ flight.state # "none"
    /\ late \subseteq KnownBatch
DialogShape ==
    /\ dialog \in [table : BOOLEAN, casts : Seq(Row), attending : SUBSET Cast, command : Known \cup {NoCommand}, waiting : BOOLEAN]
    /\ dialog.waiting => dialog.command # NoCommand
HistShape ==
    /\ hist \in [ops : Seq(AnyOp), forms : Nat \ {0}, givenUp : SUBSET Known, denied : BOOLEAN]
    /\ \A i \in 1..Len(hist.ops) : hist.ops[i].id = i

Shape == ServerShape /\ HomeShape /\ FlightShape /\ DialogShape /\ HistShape

(* The request the page waits for is that of the batch it keeps; its answer *)
(* is the one that is stored.                                               *)
FlightKept ==
    flight # NoFlight =>
        /\ home.batch = flight.batch /\ home.batch # NoneKept
        /\ flight.state = "answered" => HasAnswer(flight.batch, flight.ok)

(* One answer per batch; only the batch that is kept can still be carried   *)
(* out, and what was confirmed of it is made.                               *)
AnswersStand ==
    /\ \A a, b \in server.answers : a.id = b.id => a = b
    /\ \A a \in server.answers : a.id <= home.batches
    /\ \A b \in late : Answered(b) \/ b = home.batch
    /\ home.batch.id <= home.batches
    /\ HasAnswer(home.batch, TRUE) => In(home.batch) \subseteq server.made

(* The command of the form is made only by the batch that is kept. *)
CommandStands ==
    /\ dialog.command \in server.made => dialog.command \in In(home.batch) /\ HasAnswer(home.batch, TRUE)
    /\ dialog.command \notin hist.givenUp

(* A command that was given up is neither made nor on its way to be. *)
GivenUpGone ==
    \A g \in hist.givenUp :
        /\ g \notin server.made
        /\ \A i \in DOMAIN home.queue : home.queue[i] # g
        /\ g \in In(home.batch) => Answered(home.batch)

(* All commands of a form but one are given up. *)
OnePerForm ==
    /\ \A a, b \in Known : a.kind = "create_slip" /\ b.kind = "create_slip" /\ a.form = b.form
                           /\ a \notin hist.givenUp /\ b \notin hist.givenUp => a = b
    /\ \A a \in Known : a.form <= hist.forms /\ (a.kind = "edit" <=> a.form = 0)
    /\ \A a \in Known : a.kind = "create_slip" /\ a.form = hist.forms => a = dialog.command \/ a \in hist.givenUp

CreateInv ==
    /\ Shape /\ FlightKept /\ AnswersStand /\ CommandStands /\ OnePerForm /\ NominatedOnce
    /\ ~ hist.denied => GivenUpGone

USE CreateAssumption

-----------------------------------------------------------------------------
(* Operations are told apart by their ids. *)
LEMMA KnownById ==
    ASSUME HistShape
    PROVE  /\ \A a \in Known : a \in AnyOp /\ a.id \in 1..Len(hist.ops) /\ hist.ops[a.id] = a
           /\ \A a, b \in Known : a.id = b.id => a = b
           /\ NoCommand \notin Known /\ NextOp \in Nat \ {0}
           /\ \A a \in Known : a.id # NextOp
<1>1. hist.ops \in Seq(AnyOp) /\ \A i \in 1..Len(hist.ops) : hist.ops[i].id = i
  BY DEF HistShape
<1>2. \A a \in Known : a \in AnyOp /\ a.id \in 1..Len(hist.ops) /\ hist.ops[a.id] = a
  BY <1>1 DEF Known
<1>3. NoCommand \notin Known
  <2> SUFFICES ASSUME NoCommand \in Known PROVE FALSE
    OBVIOUS
  <2>1. NoCommand.id \in 1..Len(hist.ops) /\ NoCommand.id = 0
    BY <1>2 DEF NoCommand
  <2> QED BY <2>1
<1>4. NextOp \in Nat \ {0} /\ \A a \in Known : a.id # NextOp
  BY <1>1, <1>2 DEF NextOp
<1> QED BY <1>2, <1>3, <1>4

(* One more operation. *)
LEMMA KnownGrows ==
    ASSUME HistShape, NEW op \in AnyOp, op.id = NextOp, hist' = [hist EXCEPT !.ops = Append(@, op)]
    PROVE  HistShape' /\ Known' = Known \cup {op} /\ Known \subseteq Known'
<1>1. hist.ops \in Seq(AnyOp) /\ \A i \in 1..Len(hist.ops) : hist.ops[i].id = i
  BY DEF HistShape
<1>2. hist'.ops = Append(hist.ops, op) /\ hist'.forms = hist.forms /\ hist'.givenUp = hist.givenUp /\ hist'.denied = hist.denied
  BY DEF HistShape
<1>3. /\ hist'.ops \in Seq(AnyOp) /\ Len(hist'.ops) = Len(hist.ops) + 1
      /\ \A i \in 1..Len(hist.ops) : hist'.ops[i] = hist.ops[i]
      /\ hist'.ops[Len(hist.ops) + 1] = op
  BY <1>1, <1>2
<1>4. Len(hist.ops) \in Nat /\ 1..Len(hist'.ops) = (1..Len(hist.ops)) \cup {Len(hist.ops) + 1}
  BY <1>1, <1>3
<1>5. Known' = Known \cup {op}
  BY <1>3, <1>4 DEF Known
<1>6. \A i \in 1..Len(hist'.ops) : hist'.ops[i].id = i
  BY <1>1, <1>3, <1>4 DEF NextOp
<1>7. hist' \in [ops : Seq(AnyOp), forms : Nat \ {0}, givenUp : SUBSET Known', denied : BOOLEAN]
  BY <1>2, <1>3, <1>5 DEF HistShape
<1> QED BY <1>5, <1>6, <1>7 DEF HistShape

(* What is left of a queue without some ids. *)
LEMMA QueueWithoutIds ==
    ASSUME NEW V, NEW queue \in Seq(V), NEW ids
    PROVE  /\ WithoutIds(queue, ids) \in Seq(V)
           /\ \A n \in DOMAIN WithoutIds(queue, ids) :
                  \E m \in DOMAIN queue : WithoutIds(queue, ids)[n] = queue[m] /\ queue[m].id \notin ids
<1> DEFINE places == {m \in DOMAIN queue : queue[m].id \notin ids}
           rest == AtPlaces(queue, places)
<1>1. places \in SUBSET (1..Len(queue))
  OBVIOUS
<1>2. /\ rest \in Seq(V) /\ Len(rest) = Cardinality(places) /\ Cardinality(places) \in Nat
      /\ \A n \in 1..Cardinality(places) : Nth(places, n) \in places /\ rest[n] = queue[Nth(places, n)]
  BY <1>1, FilterKeeps
<1>3. \A n \in DOMAIN rest : \E m \in places : rest[n] = queue[m]
  <2> SUFFICES ASSUME NEW n \in DOMAIN rest PROVE \E m \in places : rest[n] = queue[m]
    OBVIOUS
  <2> HIDE DEF rest, places
  <2>1. n \in 1..Cardinality(places)
    BY <1>2
  <2> QED BY <1>2, <2>1
<1> QED BY <1>2, <1>3 DEF WithoutIds

-----------------------------------------------------------------------------
(* The form: nothing but what is typed changes. *)
LEMMA TypingStands ==
    ASSUME CreateInv, UNCHANGED otherVars, NEW table \in BOOLEAN, NEW casts \in Seq(Row), NEW attending \in SUBSET Cast,
           dialog' = [dialog EXCEPT !.table = table, !.casts = casts, !.attending = attending],
           \A i, j \in DOMAIN casts : casts[i] = casts[j] /\ casts[i] # NoCast => i = j
    PROVE  CreateInv'
<1>1. /\ dialog' \in [table : BOOLEAN, casts : Seq(Row), attending : SUBSET Cast, command : Known \cup {NoCommand}, waiting : BOOLEAN]
      /\ dialog'.command = dialog.command /\ dialog'.waiting = dialog.waiting /\ dialog'.casts = casts
  BY DEF CreateInv, Shape, DialogShape
<1>2. Known' = Known
  BY DEF Known, otherVars
<1>3. Shape'
  BY <1>1, <1>2 DEF CreateInv, Shape, ServerShape, HomeShape, FlightShape, DialogShape, HistShape, KnownBatch, otherVars
<1>4. FlightKept' /\ AnswersStand'
  BY <1>1, <1>2 DEF CreateInv, FlightKept, AnswersStand, HasAnswer, Answered, In, otherVars
<1>5. CommandStands' /\ OnePerForm' /\ (~ hist'.denied => GivenUpGone')
  BY <1>1, <1>2 DEF CreateInv, CommandStands, OnePerForm, GivenUpGone, HasAnswer, Answered, In, otherVars
<1>6. NominatedOnce'
  BY <1>1 DEF NominatedOnce
<1> QED BY <1>3, <1>4, <1>5, <1>6 DEF CreateInv

LEMMA TypingSteps ==
    ASSUME CreateInv,
           \/ ChooseTable \/ AddRow \/ RemoveRow \/ CastsUpdated
           \/ \E i \in 1..MaxRow, c \in Cast : ChooseCast(i, c)
    PROVE  CreateInv'
<1>1. /\ dialog \in [table : BOOLEAN, casts : Seq(Row), attending : SUBSET Cast, command : Known \cup {NoCommand}, waiting : BOOLEAN]
      /\ \A i, j \in DOMAIN dialog.casts : dialog.casts[i] = dialog.casts[j] /\ dialog.casts[i] # NoCast => i = j
      /\ server.attending \in SUBSET Cast
  BY DEF CreateInv, Shape, DialogShape, ServerShape, NominatedOnce
<1>2. CASE ChooseTable
  <2>1. dialog' = [dialog EXCEPT !.table = TRUE, !.casts = dialog.casts, !.attending = dialog.attending] /\ UNCHANGED otherVars
    BY <1>1, <1>2 DEF ChooseTable
  <2> QED BY <1>1, <2>1, TypingStands
<1>3. CASE AddRow
  <2> DEFINE casts == Append(dialog.casts, NoCast)
  <2>1. /\ dialog' = [dialog EXCEPT !.table = dialog.table, !.casts = casts, !.attending = dialog.attending]
        /\ UNCHANGED otherVars
    BY <1>1, <1>3 DEF AddRow
  <2>2. casts \in Seq(Row) /\ \A i, j \in DOMAIN casts : casts[i] = casts[j] /\ casts[i] # NoCast => i = j
    BY <1>1 DEF Row
  <2> QED BY <1>1, <2>1, <2>2, TypingStands
<1>4. CASE RemoveRow
  <2> DEFINE casts == Front(dialog.casts)
  <2>1. /\ dialog' = [dialog EXCEPT !.table = dialog.table, !.casts = casts, !.attending = dialog.attending]
        /\ UNCHANGED otherVars /\ dialog.casts # <<>>
    BY <1>1, <1>4 DEF RemoveRow
  <2>2. casts \in Seq(Row) /\ \A i, j \in DOMAIN casts : casts[i] = casts[j] /\ casts[i] # NoCast => i = j
    BY <1>1, <2>1 DEF Front
  <2> QED BY <1>1, <2>1, <2>2, TypingStands
<1>5. CASE CastsUpdated
  <2>1. /\ dialog' = [dialog EXCEPT !.table = dialog.table, !.casts = dialog.casts, !.attending = server.attending]
        /\ UNCHANGED otherVars
    BY <1>1, <1>5 DEF CastsUpdated
  <2> QED BY <1>1, <2>1, TypingStands
<1>6. ASSUME NEW i \in 1..MaxRow, NEW c \in Cast, ChooseCast(i, c) PROVE CreateInv'
  <2> DEFINE casts == [dialog.casts EXCEPT ![i] = c]
  <2>1. /\ dialog' = [dialog EXCEPT !.table = dialog.table, !.casts = casts, !.attending = dialog.attending]
        /\ UNCHANGED otherVars /\ i \in DOMAIN dialog.casts
        /\ \A j \in DOMAIN dialog.casts : dialog.casts[j] # c
    BY <1>1, <1>6 DEF ChooseCast, AvailableCasts, Selected
  <2>2. casts \in Seq(Row) /\ \A k, j \in DOMAIN casts : casts[k] = casts[j] /\ casts[k] # NoCast => k = j
    BY <1>1, <2>1 DEF Row
  <2> QED BY <1>1, <2>1, <2>2, TypingStands
<1> QED BY <1>2, <1>3, <1>4, <1>5, <1>6

-----------------------------------------------------------------------------
(* The queue grows and perhaps a flight starts: a batch is made of the      *)
(* queue only when none is kept.                                            *)
QueueGoes(queue) ==
    \/ home' = [home EXCEPT !.queue = queue] /\ flight' = flight
    \/ flight = NoFlight /\ StartFlight(queue)

LEMMA QueueStands ==
    ASSUME CreateInv, HistShape', Known \subseteq Known',
           hist'.givenUp = hist.givenUp, hist'.denied = hist.denied, UNCHANGED <<server, late>>,
           NEW queue \in Seq(Known'), QueueGoes(queue),
           \A g \in hist.givenUp : (\A i \in DOMAIN home.queue : home.queue[i] # g) => \A i \in DOMAIN queue : queue[i] # g,
           dialog'.command = dialog.command \/ dialog'.command \notin server.made,
           dialog'.command \notin hist.givenUp
    PROVE  /\ ServerShape' /\ HomeShape' /\ FlightShape'
           /\ FlightKept' /\ AnswersStand' /\ CommandStands' /\ (~ hist'.denied => GivenUpGone')
<1>1. KnownBatch \subseteq KnownBatch'
  <2>1. Seq(Known) \subseteq Seq(Known')
    OBVIOUS
  <2> QED BY <2>1 DEF KnownBatch
<1>2. /\ home \in [queue : Seq(Known), batch : KnownBatch \cup {NoneKept}, rev : Nat, batches : Nat]
      /\ \A b \in KnownBatch : b.id \in Nat \ {0} /\ b # NoneKept
      /\ late \subseteq KnownBatch
  BY DEF CreateInv, Shape, HomeShape, FlightShape, KnownBatch, NoneKept
<1>3. ServerShape'
  BY DEF CreateInv, Shape, ServerShape
<1>4. In(NoneKept) = {} /\ NoneKept.id = 0
  BY DEF In, NoneKept
<1> DEFINE made == [id |-> home.batches + 1, rev |-> home.rev, ops |-> queue]
<1>5. /\ home' \in [queue : Seq(Known'), batch : KnownBatch' \cup {NoneKept}, rev : Nat, batches : Nat]
      /\ home'.queue = queue
      /\ \/ home'.batch = home.batch /\ home'.batches = home.batches
         \/ home.batch = NoneKept /\ home'.batch = made /\ home'.batches = home.batches + 1 /\ made \in KnownBatch'
  <2>1. CASE home' = [home EXCEPT !.queue = queue] /\ flight' = flight
    BY <1>1, <1>2, <2>1
  <2>2. CASE flight = NoFlight /\ StartFlight(queue)
    <3>1. made \in KnownBatch'
      BY <1>2 DEF KnownBatch
    <3>2. CASE home.batch = NoneKept
      <4>1. home' = [home EXCEPT !.queue = queue, !.batch = made, !.batches = home.batches + 1]
        BY <1>2, <2>2, <3>2 DEF StartFlight
      <4> HIDE DEF made
      <4>2. /\ home' \in [queue : Seq(Known'), batch : KnownBatch' \cup {NoneKept}, rev : Nat, batches : Nat]
            /\ home'.queue = queue /\ home'.batch = made /\ home'.batches = home.batches + 1
        <5>1. home' = [queue |-> queue, batch |-> made, rev |-> home.rev, batches |-> home.batches + 1]
          BY <1>2, <4>1
        <5>2. home.rev \in Nat /\ home.batches + 1 \in Nat
          BY <1>2
        <5> QED BY <3>1, <5>1, <5>2
      <4> QED BY <3>1, <3>2, <4>2
    <3>3. CASE home.batch # NoneKept
      <4>1. home' = [home EXCEPT !.queue = queue, !.batch = home.batch, !.batches = home.batches]
        BY <1>2, <2>2, <3>3 DEF StartFlight
      <4> QED BY <1>1, <1>2, <4>1
    <3> QED BY <3>2, <3>3
  <2> QED BY <2>1, <2>2 DEF QueueGoes
<1>6. \/ flight' = flight /\ home'.batch = home.batch
      \/ flight' = [state |-> "going", batch |-> home'.batch, ok |-> FALSE] /\ home'.batch # NoneKept /\ home'.batch \in KnownBatch'
  <2>1. CASE home' = [home EXCEPT !.queue = queue] /\ flight' = flight
    BY <1>2, <2>1
  <2>2. CASE flight = NoFlight /\ StartFlight(queue)
    <3>1. CASE home.batch = NoneKept
      <4>1. made \in KnownBatch' /\ made # NoneKept
        BY <1>2 DEF KnownBatch, NoneKept
      <4>2. home' = [home EXCEPT !.queue = queue, !.batch = made, !.batches = home.batches + 1]
            /\ flight' = [state |-> "going", batch |-> made, ok |-> FALSE]
        BY <1>2, <2>2, <3>1 DEF StartFlight
      <4> QED BY <1>2, <4>1, <4>2
    <3>2. CASE home.batch # NoneKept
      <4>1. home' = [home EXCEPT !.queue = queue, !.batch = home.batch, !.batches = home.batches]
            /\ flight' = [state |-> "going", batch |-> home.batch, ok |-> FALSE]
        BY <1>2, <2>2, <3>2 DEF StartFlight
      <4> QED BY <1>1, <1>2, <3>2, <4>1
    <3> QED BY <3>1, <3>2
  <2> QED BY <2>1, <2>2 DEF QueueGoes
<1> HIDE DEF made
<1>7. HomeShape'
  BY <1>5 DEF HomeShape
<1>8. FlightShape'
  <2>1. NoFlight' = NoFlight /\ NoneKept' = NoneKept
    BY DEF NoFlight, NoneKept
  <2>2. late' \subseteq KnownBatch'
    BY <1>1, <1>2
  <2>3. flight' \in [state : {"none", "going", "answered"}, batch : KnownBatch' \cup {NoneKept}, ok : BOOLEAN]
        /\ (flight' = NoFlight \/ flight'.state # "none")
    <3>1. flight \in [state : {"none", "going", "answered"}, batch : KnownBatch \cup {NoneKept}, ok : BOOLEAN]
          /\ (flight = NoFlight \/ flight.state # "none")
      BY DEF CreateInv, Shape, FlightShape
    <3>2. CASE flight' = flight
      BY <1>1, <3>1, <3>2
    <3>3. CASE flight' = [state |-> "going", batch |-> home'.batch, ok |-> FALSE] /\ home'.batch \in KnownBatch'
      BY <3>3
    <3> QED BY <1>6, <3>2, <3>3
  <2> QED BY <2>1, <2>2, <2>3 DEF FlightShape
<1>9. FlightKept'
  BY <1>6 DEF CreateInv, FlightKept, HasAnswer
<1>10. ~ HasAnswer(home.batch, TRUE) \/ home.batch # NoneKept
  BY <1>4 DEF CreateInv, Shape, ServerShape, HasAnswer, Answer
<1>11. AnswersStand'
  <2>1. /\ \A a, b \in server.answers : a.id = b.id => a = b
        /\ \A a \in server.answers : a.id \in Nat /\ a.id <= home.batches
        /\ \A b \in late : Answered(b) \/ b = home.batch
        /\ home.batch.id <= home.batches
        /\ HasAnswer(home.batch, TRUE) => In(home.batch) \subseteq server.made
    BY DEF CreateInv, AnswersStand, Shape, ServerShape, Answer
  <2>2. CASE home'.batch = home.batch /\ home'.batches = home.batches
    BY <2>1, <2>2 DEF AnswersStand, HasAnswer, Answered, In
  <2>3. CASE home.batch = NoneKept /\ home'.batch = made /\ home'.batches = home.batches + 1
    <3>1. home'.batch.id = home.batches + 1 /\ home.batches \in Nat
      BY <1>2, <2>3 DEF made
    <3>2. ~ HasAnswer(home.batch, TRUE)' /\ \A a \in server.answers : a.id <= home'.batches
      BY <2>1, <2>3, <3>1 DEF HasAnswer
    <3>3. \A b \in late : Answered(b)
      BY <1>2, <2>1, <2>3
    <3>4. /\ \A b \in late' : Answered(b)'
          /\ \A a, b \in server'.answers : a.id = b.id => a = b
          /\ \A a \in server'.answers : a.id <= home'.batches
      BY <2>1, <3>2, <3>3 DEF Answered
    <3>5. home'.batch.id <= home'.batches
      BY <2>3, <3>1
    <3> QED BY <3>2, <3>4, <3>5 DEF AnswersStand
  <2> QED BY <1>5, <2>2, <2>3
<1>12. CommandStands'
  <2>1. ASSUME dialog'.command \in server.made PROVE dialog'.command \in In(home.batch)' /\ HasAnswer(home.batch, TRUE)'
    <3>1. dialog'.command = dialog.command /\ dialog.command \in In(home.batch) /\ HasAnswer(home.batch, TRUE)
      BY <2>1 DEF CreateInv, CommandStands
    <3>2. home'.batch = home.batch
      BY <1>4, <1>5, <3>1
    <3> QED BY <3>1, <3>2 DEF In, HasAnswer
  <2> QED BY <2>1 DEF CommandStands
<1>13. ASSUME ~ hist'.denied PROVE GivenUpGone'
  <2> SUFFICES ASSUME NEW g \in hist.givenUp
               PROVE  /\ g \notin server.made /\ \A i \in DOMAIN queue : queue[i] # g
                      /\ g \in In(home.batch)' => Answered(home.batch)'
    BY <1>5 DEF GivenUpGone
  <2>1. /\ g \notin server.made /\ \A i \in DOMAIN home.queue : home.queue[i] # g
        /\ g \in In(home.batch) => Answered(home.batch)
    BY <1>13 DEF CreateInv, GivenUpGone
  <2>2. \A i \in DOMAIN queue : queue[i] # g
    BY <2>1
  <2>3. CASE home'.batch = home.batch
    BY <2>1, <2>2, <2>3 DEF In, Answered
  <2>4. CASE home'.batch = made
    <3>1. g \notin In(home.batch)'
      BY <2>2, <2>4 DEF In, made
    <3> QED BY <2>1, <2>2, <3>1
  <2> QED BY <1>5, <2>3, <2>4
<1> QED BY <1>3, <1>7, <1>8, <1>9, <1>11, <1>12, <1>13

(* Queued is what was queued, and perhaps one operation more. *)
LEMMA AppendQueues ==
    ASSUME NEW V, NEW W, V \subseteq W, NEW queue \in Seq(V), NEW op \in W
    PROVE  /\ queue \in Seq(W) /\ Append(queue, op) \in Seq(W)
           /\ \A g : g # op /\ (\A i \in DOMAIN queue : queue[i] # g)
                     => \A i \in DOMAIN Append(queue, op) : Append(queue, op)[i] # g
OBVIOUS

(* The submit button: the command is new, or the one of the form. *)
LEMMA PressStands ==
    ASSUME CreateInv, PressCreate
    PROVE  CreateInv'
<1> DEFINE op == Command
           queue == IF Queued(op) THEN home.queue ELSE Append(home.queue, op)
<1>1. /\ HistShape /\ DialogShape /\ home.queue \in Seq(Known) /\ server.made \subseteq Known /\ hist.givenUp \subseteq Known
      /\ hist.forms \in Nat \ {0} /\ hist.ops \in Seq(AnyOp)
  BY DEF CreateInv, Shape, HomeShape, ServerShape, HistShape
<1>2. /\ dialog \in [table : BOOLEAN, casts : Seq(Row), attending : SUBSET Cast, command : Known \cup {NoCommand}, waiting : BOOLEAN]
      /\ dialog' = [dialog EXCEPT !.command = op, !.waiting = TRUE]
  BY <1>1 DEF PressCreate, DialogShape
<1>3. dialog'.command = op /\ dialog'.waiting = TRUE /\ dialog'.casts = dialog.casts
  BY <1>2
<1>4. CASE Locked
  <2>1. op = dialog.command /\ op \in Known /\ op # NoCommand
    BY <1>2, <1>4 DEF Command, Locked
  <2>2. hist' = hist
    BY <1>1, <1>4 DEF PressCreate, HistShape
  <2>3. HistShape' /\ Known' = Known
    BY <1>1, <2>2 DEF HistShape, Known
  <2>4. queue \in Seq(Known') /\ op \notin hist.givenUp
    BY <1>1, <2>1, <2>3, AppendQueues DEF CreateInv, CommandStands
  <2>5. \A g \in hist.givenUp : (\A i \in DOMAIN home.queue : home.queue[i] # g) => \A i \in DOMAIN queue : queue[i] # g
    BY <1>1, <2>1, <2>4, AppendQueues
  <2>6. QueueGoes(queue) /\ UNCHANGED <<server, late>>
    BY DEF PressCreate, QueueGoes
  <2> HIDE DEF op, queue
  <2>7. /\ ServerShape' /\ HomeShape' /\ FlightShape'
        /\ FlightKept' /\ AnswersStand' /\ CommandStands' /\ (~ hist'.denied => GivenUpGone')
    BY <1>3, <2>1, <2>2, <2>3, <2>4, <2>5, <2>6, QueueStands
  <2>8. DialogShape'
    BY <1>2, <1>3, <2>1, <2>3 DEF DialogShape, NoCommand
  <2>9. OnePerForm'
    BY <1>3, <2>1, <2>2, <2>3 DEF CreateInv, OnePerForm
  <2>10. NominatedOnce'
    BY <1>3 DEF CreateInv, NominatedOnce
  <2> QED BY <2>3, <2>7, <2>8, <2>9, <2>10 DEF CreateInv, Shape
<1>5. CASE ~ Locked
  <2>1. /\ op = [id |-> NextOp, kind |-> "create_slip", form |-> hist.forms, casts |-> dialog.casts]
        /\ dialog.command = NoCommand
    BY <1>5 DEF Command, Locked
  <2>2. op \in AnyOp /\ op.id = NextOp /\ op.kind = "create_slip" /\ op.form = hist.forms /\ op.form # 0
    BY <1>1, <1>2, <2>1, KnownById DEF AnyOp
  <2>3. hist' = [hist EXCEPT !.ops = Append(@, op)]
    BY <1>5 DEF PressCreate
  <2> HIDE DEF op
  <2>4. HistShape' /\ Known' = Known \cup {op} /\ Known \subseteq Known'
    BY <1>1, <2>2, <2>3, KnownGrows
  <2>5. hist'.givenUp = hist.givenUp /\ hist'.denied = hist.denied /\ hist'.forms = hist.forms
    BY <1>1, <2>3 DEF HistShape
  <2>6. op \notin Known /\ op \notin hist.givenUp /\ op \notin server.made /\ op # NoCommand
    BY <1>1, <2>2, KnownById DEF NoCommand
  <2>7. queue \in Seq(Known')
    BY <1>1, <2>4, AppendQueues
  <2>8. \A g \in hist.givenUp : (\A i \in DOMAIN home.queue : home.queue[i] # g) => \A i \in DOMAIN queue : queue[i] # g
    BY <1>1, <2>4, <2>6, AppendQueues
  <2>9. QueueGoes(queue) /\ UNCHANGED <<server, late>>
    BY DEF PressCreate, QueueGoes, op
  <2> HIDE DEF queue
  <2>10. /\ ServerShape' /\ HomeShape' /\ FlightShape'
         /\ FlightKept' /\ AnswersStand' /\ CommandStands' /\ (~ hist'.denied => GivenUpGone')
    BY <1>3, <2>4, <2>5, <2>6, <2>7, <2>8, <2>9, QueueStands
  <2>11. DialogShape'
    BY <1>2, <1>3, <2>4, <2>6 DEF DialogShape, NoCommand
  <2>12. OnePerForm'
    <3>1. \A a \in Known : a.kind = "create_slip" /\ a.form = hist.forms => a \in hist.givenUp
      BY <1>1, <2>1, KnownById DEF CreateInv, OnePerForm
    <3>2. \A a, b \in Known : a.kind = "create_slip" /\ b.kind = "create_slip" /\ a.form = b.form
                              /\ a \notin hist.givenUp /\ b \notin hist.givenUp => a = b
      BY DEF CreateInv, OnePerForm
    <3>3. \A a \in Known' : a.form <= hist.forms /\ (a.kind = "edit" <=> a.form = 0)
      BY <1>1, <2>2, <2>4 DEF CreateInv, OnePerForm
    <3>4. \A a \in Known' : a \notin Known => a = op
      BY <2>4
    <3>5. \A a, b \in Known' : a.kind = "create_slip" /\ b.kind = "create_slip" /\ a.form = b.form
                               /\ a \notin hist.givenUp /\ b \notin hist.givenUp => a = b
      BY <2>2, <3>1, <3>2, <3>4
    <3> QED BY <1>3, <2>5, <3>1, <3>3, <3>4, <3>5 DEF OnePerForm
  <2>13. NominatedOnce'
    BY <1>3 DEF CreateInv, NominatedOnce
  <2> QED BY <2>4, <2>10, <2>11, <2>12, <2>13 DEF CreateInv, Shape
<1> QED BY <1>4, <1>5

(* Another dialog: its operation is of no form. *)
LEMMA EditStands ==
    ASSUME CreateInv, QueueEdit
    PROVE  CreateInv'
<1> DEFINE op == [id |-> NextOp, kind |-> "edit", form |-> 0, casts |-> <<>>]
           queue == Append(home.queue, op)
<1>1. /\ HistShape /\ DialogShape /\ home.queue \in Seq(Known) /\ server.made \subseteq Known /\ hist.givenUp \subseteq Known
      /\ hist.forms \in Nat \ {0} /\ hist.ops \in Seq(AnyOp) /\ dialog.command \in Known \cup {NoCommand}
  BY DEF CreateInv, Shape, HomeShape, ServerShape, HistShape, DialogShape
<1>2. op \in AnyOp /\ op.id = NextOp /\ op.kind = "edit" /\ op.form = 0
  BY <1>1, KnownById DEF AnyOp
<1>3. hist' = [hist EXCEPT !.ops = Append(@, op)] /\ home' = [home EXCEPT !.queue = queue] /\ UNCHANGED <<server, flight, late, dialog>>
  BY DEF QueueEdit, HomeShape, CreateInv, Shape
<1> HIDE DEF op
<1>4. HistShape' /\ Known' = Known \cup {op} /\ Known \subseteq Known'
  BY <1>1, <1>2, <1>3, KnownGrows
<1>5. hist'.givenUp = hist.givenUp /\ hist'.denied = hist.denied /\ hist'.forms = hist.forms
  BY <1>1, <1>3 DEF HistShape
<1>6. op \notin Known /\ op \notin hist.givenUp
  BY <1>1, <1>2, KnownById
<1>7. queue \in Seq(Known')
  BY <1>1, <1>4, AppendQueues
<1>8. \A g \in hist.givenUp : (\A i \in DOMAIN home.queue : home.queue[i] # g) => \A i \in DOMAIN queue : queue[i] # g
  BY <1>1, <1>4, <1>6, AppendQueues
<1>9. QueueGoes(queue) /\ dialog'.command \notin hist.givenUp
  BY <1>3 DEF QueueGoes, CreateInv, CommandStands
<1> HIDE DEF queue
<1>10. /\ ServerShape' /\ HomeShape' /\ FlightShape'
       /\ FlightKept' /\ AnswersStand' /\ CommandStands' /\ (~ hist'.denied => GivenUpGone')
  BY <1>3, <1>4, <1>5, <1>7, <1>8, <1>9, QueueStands
<1>11. DialogShape'
  BY <1>1, <1>3, <1>4 DEF DialogShape, NoCommand
<1>12. OnePerForm'
  BY <1>1, <1>2, <1>3, <1>4, <1>5 DEF CreateInv, OnePerForm
<1>13. NominatedOnce'
  BY <1>3 DEF CreateInv, NominatedOnce
<1> QED BY <1>4, <1>10, <1>11, <1>12, <1>13 DEF CreateInv, Shape

(* A timer or the online event *)
LEMMA SendStands ==
    ASSUME CreateInv, SendQueue
    PROVE  CreateInv'
<1>1. UNCHANGED <<server, late, dialog, hist>> /\ QueueGoes(home.queue)
  BY DEF SendQueue, QueueGoes
<1>2. HistShape' /\ Known' = Known /\ home.queue \in Seq(Known') /\ dialog'.command \notin hist.givenUp
  BY <1>1 DEF CreateInv, Shape, HistShape, HomeShape, Known, CommandStands
<1>3. /\ ServerShape' /\ HomeShape' /\ FlightShape'
      /\ FlightKept' /\ AnswersStand' /\ CommandStands' /\ (~ hist'.denied => GivenUpGone')
  BY <1>1, <1>2, QueueStands
<1>4. DialogShape' /\ OnePerForm' /\ NominatedOnce'
  BY <1>1, <1>2 DEF CreateInv, Shape, DialogShape, OnePerForm, NominatedOnce
<1> QED BY <1>2, <1>3, <1>4 DEF CreateInv, Shape

-----------------------------------------------------------------------------
(* What becomes of the form when a flight has ended: it is emptied, its     *)
(* command is given up, or neither.                                         *)
DialogType ==
    [table : BOOLEAN, casts : Seq(Row), attending : SUBSET Cast, command : Known \cup {NoCommand}, waiting : BOOLEAN]

Emptied(given) ==
    given = {} /\ hist'.forms = hist.forms + 1 /\ dialog'.command = NoCommand
Dropped(given) ==
    given = {dialog.command} /\ dialog.command # NoCommand /\ hist'.forms = hist.forms /\ dialog'.command = NoCommand
Stays(given) ==
    given = {} /\ hist'.forms = hist.forms /\ dialog'.command = dialog.command

FormGoesOn(given) ==
    /\ dialog' \in DialogType /\ ~ dialog'.waiting /\ dialog'.casts \in {dialog.casts, <<>>}
    /\ hist'.ops = hist.ops /\ hist'.givenUp = hist.givenUp \cup given
    /\ hist' \in [ops : Seq(AnyOp), forms : Nat \ {0}, givenUp : SUBSET Known, denied : BOOLEAN]
    /\ Emptied(given) \/ Dropped(given) \/ Stays(given)

LEMMA FormStands ==
    ASSUME CreateInv, NEW given, FormGoesOn(given)
    PROVE  /\ DialogShape' /\ HistShape' /\ Known' = Known /\ OnePerForm' /\ NominatedOnce'
           /\ dialog'.command \notin hist'.givenUp
<1>1. /\ HistShape /\ dialog \in DialogType /\ hist.givenUp \subseteq Known
      /\ NoCommand \notin Known
  BY KnownById DEF CreateInv, Shape, HistShape, DialogShape, DialogType
<1>2. Known' = Known
  BY DEF FormGoesOn, Known
<1>3. HistShape'
  BY <1>1, <1>2 DEF FormGoesOn, HistShape
<1>4. DialogShape'
  BY <1>2 DEF FormGoesOn, DialogShape, DialogType, NoCommand
<1>5. NominatedOnce'
  BY DEF FormGoesOn, NominatedOnce, CreateInv
<1>6. /\ \A a, b \in Known : a.kind = "create_slip" /\ b.kind = "create_slip" /\ a.form = b.form
                             /\ a \notin hist.givenUp /\ b \notin hist.givenUp => a = b
      /\ \A a \in Known : a.form <= hist.forms /\ a.form \in Nat /\ hist.forms \in Nat /\ (a.kind = "edit" <=> a.form = 0)
      /\ \A a \in Known : a.kind = "create_slip" /\ a.form = hist.forms => a = dialog.command \/ a \in hist.givenUp
  <2>1. OnePerForm
    BY DEF CreateInv
  <2>2. hist.forms \in Nat
    BY <1>1 DEF HistShape
  <2>3. \A a \in Known : a.form \in Nat
    BY <1>1, KnownById DEF AnyOp
  <2> HIDE DEF Known
  <2> QED BY <2>1, <2>2, <2>3 DEF OnePerForm
<1>7. /\ \A a, b \in Known : a.kind = "create_slip" /\ b.kind = "create_slip" /\ a.form = b.form
                             /\ a \notin hist'.givenUp /\ b \notin hist'.givenUp => a = b
      /\ \A a \in Known : a.form <= hist'.forms /\ (a.kind = "edit" <=> a.form = 0)
  BY <1>6 DEF FormGoesOn, Emptied, Dropped, Stays
<1>8. \A a \in Known : a.kind = "create_slip" /\ a.form = hist'.forms => a = dialog'.command \/ a \in hist'.givenUp
  <2>1. CASE Emptied(given)
    BY <1>6, <2>1 DEF Emptied
  <2>2. CASE Dropped(given)
    BY <1>6, <2>2 DEF Dropped, FormGoesOn
  <2>3. CASE Stays(given)
    BY <1>6, <2>3 DEF Stays, FormGoesOn
  <2> QED BY <2>1, <2>2, <2>3 DEF FormGoesOn
<1>9. OnePerForm'
  BY <1>2, <1>7, <1>8 DEF OnePerForm
<1>10. dialog'.command \notin hist'.givenUp
  BY <1>1 DEF FormGoesOn, Emptied, Dropped, Stays, CreateInv, CommandStands
<1> QED BY <1>2, <1>3, <1>4, <1>5, <1>9, <1>10

(* An answer comes. *)
LEMMA ReceiveStands ==
    ASSUME CreateInv, ReceiveFlight
    PROVE  CreateInv' /\ (hist'.forms # hist.forms => dialog.command \in server.made)
<1> DEFINE ids == {flight.batch.ops[i].id : i \in DOMAIN flight.batch.ops}
           status == IF flight.ok THEN "confirmed" ELSE "rejected"
           told == IF Completed(ids, flight.ok) THEN Reset(dialog) ELSE dialog
           given == GiveUp(told, status)
           gone == ids \cup {c.id : c \in given}
<1>1. /\ dialog' = Continue(told, status)
      /\ home' = [home EXCEPT !.queue = WithoutIds(@, gone), !.batch = NoneKept, !.rev = server.rev]
      /\ hist' = [hist EXCEPT !.givenUp = @ \cup given, !.forms = IF told # dialog THEN @ + 1 ELSE @]
      /\ flight' = NoFlight /\ UNCHANGED <<server, late>>
  BY DEF ReceiveFlight
<1>2. /\ HistShape /\ dialog \in DialogType /\ (dialog.waiting => dialog.command # NoCommand)
      /\ hist \in [ops : Seq(AnyOp), forms : Nat \ {0}, givenUp : SUBSET Known, denied : BOOLEAN]
      /\ home \in [queue : Seq(Known), batch : KnownBatch \cup {NoneKept}, rev : Nat, batches : Nat]
      /\ server \in [rev : Nat, attending : SUBSET Cast, made : SUBSET Known, tried : SUBSET Known, answers : SUBSET Answer]
      /\ late \subseteq KnownBatch
  BY DEF CreateInv, Shape, HistShape, DialogShape, DialogType, HomeShape, ServerShape, FlightShape
<1>3. /\ flight # NoFlight /\ home.batch = flight.batch /\ flight.batch \in KnownBatch
      /\ HasAnswer(flight.batch, flight.ok) /\ flight.ok \in BOOLEAN
  BY DEF ReceiveFlight, NoFlight, CreateInv, FlightKept, Shape, FlightShape
<1>4. Completed(ids, flight.ok) => dialog.command \in In(flight.batch) /\ dialog.command # NoCommand
  <2> SUFFICES ASSUME dialog.command.id \in ids PROVE dialog.command \in In(flight.batch) /\ dialog.command # NoCommand
    BY DEF Completed
  <2>1. PICK i \in DOMAIN flight.batch.ops : flight.batch.ops[i].id = dialog.command.id
    BY DEF ids
  <2>2. flight.batch.ops[i] \in Known
    BY <1>3 DEF KnownBatch
  <2>3. dialog.command # NoCommand
    BY <1>2, <2>1, <2>2, KnownById DEF NoCommand
  <2>4. dialog.command \in Known /\ dialog.command = flight.batch.ops[i]
    BY <1>2, <2>1, <2>2, <2>3, KnownById DEF DialogType
  <2> QED BY <2>3, <2>4 DEF In
<1>5. dialog.command \in server.made => flight.ok /\ Completed(ids, flight.ok)
  <2> SUFFICES ASSUME dialog.command \in server.made PROVE flight.ok /\ Completed(ids, flight.ok)
    OBVIOUS
  <2>1. dialog.command \in In(flight.batch) /\ HasAnswer(flight.batch, TRUE)
    BY <1>3 DEF CreateInv, CommandStands
  <2>2. flight.ok
    BY <1>3, <2>1 DEF CreateInv, AnswersStand, HasAnswer
  <2> QED BY <2>1, <2>2 DEF Completed, In
<1>6. \/ Completed(ids, flight.ok) /\ told # dialog /\ given = {} /\ dialog' = [Reset(dialog) EXCEPT !.waiting = FALSE]
      \/ ~ Completed(ids, flight.ok) /\ told = dialog /\ ~ flight.ok /\ given = {dialog.command} /\ dialog.waiting
         /\ dialog' = [dialog EXCEPT !.command = NoCommand, !.waiting = FALSE]
      \/ ~ Completed(ids, flight.ok) /\ told = dialog /\ given = {} /\ dialog' = [dialog EXCEPT !.waiting = FALSE]
  <2>1. CASE Completed(ids, flight.ok)
    <3>1. told = Reset(dialog) /\ flight.ok
      BY <2>1 DEF Completed
    <3>2. told.command = NoCommand /\ told.waiting = FALSE
      BY <1>2, <3>1 DEF Reset, DialogType
    <3>3. given = {} /\ Continue(told, status) = [told EXCEPT !.waiting = FALSE]
      BY <3>2 DEF GiveUp, Continue
    <3> QED BY <1>1, <1>4, <2>1, <3>1, <3>2, <3>3
  <2>2. CASE ~ Completed(ids, flight.ok)
    BY <1>1, <1>3, <2>2 DEF GiveUp, Continue, Definitive
  <2> QED BY <2>1, <2>2
<1> HIDE DEF ids, status, told, given, gone
<1>7. FormGoesOn(given)
  <2>0. /\ hist'.ops = hist.ops /\ hist'.givenUp = hist.givenUp \cup given /\ hist'.denied = hist.denied
        /\ hist'.forms = IF told # dialog THEN hist.forms + 1 ELSE hist.forms
        /\ given \subseteq Known => hist' \in [ops : Seq(AnyOp), forms : Nat \ {0}, givenUp : SUBSET Known, denied : BOOLEAN]
    <3>1. hist' = [ops |-> hist.ops, forms |-> IF told # dialog THEN hist.forms + 1 ELSE hist.forms,
                   givenUp |-> hist.givenUp \cup given, denied |-> hist.denied]
      BY <1>1, <1>2
    <3>2. hist.ops \in Seq(AnyOp) /\ hist.forms \in Nat \ {0} /\ hist.givenUp \subseteq Known /\ hist.denied \in BOOLEAN
      BY <1>2
    <3> QED BY <3>1, <3>2
  <2>1. CASE Completed(ids, flight.ok)
    <3>1. dialog' \in DialogType /\ ~ dialog'.waiting /\ dialog'.casts = <<>> /\ dialog'.command = NoCommand
      <4>1. dialog' = [table |-> FALSE, casts |-> <<>>, attending |-> dialog.attending, command |-> NoCommand, waiting |-> FALSE]
        BY <1>2, <1>6, <2>1 DEF Reset, DialogType
      <4>2. <<>> \in Seq(Row) /\ dialog.attending \in SUBSET Cast /\ NoCommand \in Known \cup {NoCommand}
        BY <1>2 DEF DialogType
      <4> QED BY <4>1, <4>2 DEF DialogType
    <3> QED BY <1>2, <1>6, <2>0, <2>1, <3>1 DEF FormGoesOn, Emptied
  <2>2. CASE ~ Completed(ids, flight.ok) /\ given = {dialog.command} /\ dialog.waiting
    <3>1. dialog' \in DialogType /\ ~ dialog'.waiting /\ dialog'.casts = dialog.casts
      BY <1>2, <1>6, <2>2 DEF DialogType
    <3>2. dialog.command \in Known /\ dialog.command # NoCommand
      BY <1>2, <2>2 DEF DialogType
    <3>3. dialog'.command = NoCommand /\ told = dialog
      BY <1>2, <1>6, <2>2 DEF DialogType
    <3> QED BY <2>0, <2>2, <3>1, <3>2, <3>3 DEF FormGoesOn, Dropped
  <2>3. CASE ~ Completed(ids, flight.ok) /\ told = dialog /\ given = {} /\ dialog' = [dialog EXCEPT !.waiting = FALSE]
    <3>1. /\ dialog' \in DialogType /\ ~ dialog'.waiting /\ dialog'.casts = dialog.casts
          /\ dialog'.command = dialog.command
      BY <1>2, <2>3 DEF DialogType
    <3> QED BY <2>0, <2>3, <3>1 DEF FormGoesOn, Stays
  <2> QED BY <1>6, <2>1, <2>2, <2>3
<1>8. /\ DialogShape' /\ HistShape' /\ Known' = Known /\ OnePerForm' /\ NominatedOnce'
      /\ dialog'.command \notin hist'.givenUp
  BY <1>7, FormStands
<1>9. /\ WithoutIds(home.queue, gone) \in Seq(Known)
      /\ \A n \in DOMAIN WithoutIds(home.queue, gone) :
             \E m \in DOMAIN home.queue : WithoutIds(home.queue, gone)[n] = home.queue[m] /\ home.queue[m].id \notin gone
  BY <1>2, QueueWithoutIds
<1>10. /\ home' \in [queue : Seq(Known), batch : KnownBatch \cup {NoneKept}, rev : Nat, batches : Nat]
       /\ home'.queue = WithoutIds(home.queue, gone) /\ home'.batch = NoneKept /\ home'.batches = home.batches
  BY <1>1, <1>2, <1>9
<1>11. ServerShape' /\ HomeShape' /\ FlightShape' /\ FlightKept'
  BY <1>1, <1>2, <1>8, <1>10 DEF ServerShape, HomeShape, FlightShape, FlightKept, KnownBatch, NoFlight, NoneKept
<1>12. Answered(home.batch) /\ \A b \in late : Answered(b)
  BY <1>3 DEF CreateInv, AnswersStand, HasAnswer, Answered
<1>13. AnswersStand'
  <2>1. /\ \A a, b \in server'.answers : a.id = b.id => a = b
        /\ \A a \in server'.answers : a.id <= home'.batches
        /\ \A b \in late' : Answered(b)'
    BY <1>1, <1>10, <1>12 DEF CreateInv, AnswersStand, Answered
  <2>2. home'.batch.id <= home'.batches /\ In(home.batch)' = {}
    BY <1>2, <1>10 DEF NoneKept, In
  <2> QED BY <2>1, <2>2 DEF AnswersStand
<1>14. dialog'.command \notin server.made
  <2>1. \/ dialog'.command = NoCommand
        \/ dialog'.command = dialog.command /\ ~ Completed(ids, flight.ok)
    BY <1>2, <1>6, <1>7 DEF FormGoesOn, Emptied, Dropped, Stays, DialogType, Reset
  <2> QED BY <1>2, <1>5, <2>1, KnownById
<1>15. CommandStands'
  BY <1>1, <1>8, <1>14 DEF CommandStands
<1>16. ASSUME ~ hist'.denied PROVE GivenUpGone'
  <2>1. ~ hist.denied
    BY <1>1, <1>2, <1>16
  <2>2. \A g \in hist'.givenUp : g \in hist.givenUp \/ g \in given
    BY <1>7 DEF FormGoesOn
  <2>3. \A g \in hist.givenUp : g \notin server.made /\ \A i \in DOMAIN home.queue : home.queue[i] # g
    BY <2>1 DEF CreateInv, GivenUpGone
  <2>4. \A g \in given : g \notin server.made /\ \A i \in DOMAIN home.queue : home.queue[i].id \notin gone => home.queue[i] # g
    BY <1>5, <1>6 DEF gone
  <2>5. \A g \in hist'.givenUp : g \notin server.made /\ \A n \in DOMAIN home'.queue : home'.queue[n] # g
    BY <1>9, <1>10, <2>2, <2>3, <2>4
  <2> QED BY <1>1, <1>10, <2>5 DEF GivenUpGone, In, NoneKept
<1>17. hist'.forms # hist.forms => dialog.command \in server.made
  <2> SUFFICES ASSUME Completed(ids, flight.ok) PROVE dialog.command \in server.made
    BY <1>1, <1>2, <1>6
  <2>1. dialog.command \in In(flight.batch) /\ flight.ok
    BY <1>4 DEF Completed
  <2> QED BY <1>3, <2>1 DEF CreateInv, AnswersStand
<1> QED BY <1>8, <1>11, <1>13, <1>15, <1>16, <1>17 DEF CreateInv, Shape

(* A flight ends without an answer that the page sees: the batch is kept.   *)
LEMMA FlightEnds ==
    ASSUME CreateInv, NEW given, FormGoesOn(given), NEW queue \in Seq(Known),
           \A n \in DOMAIN queue : \E m \in DOMAIN home.queue : queue[n] = home.queue[m],
           ~ hist'.denied => ~ hist.denied /\ given = {},
           flight # NoFlight, home' = [home EXCEPT !.queue = queue],
           flight' = NoFlight, late' \in {late, late \cup {flight.batch}}, UNCHANGED server
    PROVE  CreateInv' /\ (hist'.forms # hist.forms => given = {})
<1>1. /\ DialogShape' /\ HistShape' /\ Known' = Known /\ OnePerForm' /\ NominatedOnce'
      /\ dialog'.command \notin hist'.givenUp
  BY FormStands
<1>2. /\ home \in [queue : Seq(Known), batch : KnownBatch \cup {NoneKept}, rev : Nat, batches : Nat]
      /\ server \in [rev : Nat, attending : SUBSET Cast, made : SUBSET Known, tried : SUBSET Known, answers : SUBSET Answer]
      /\ late \subseteq KnownBatch /\ NoCommand \notin Known
  BY KnownById DEF CreateInv, Shape, HomeShape, ServerShape, FlightShape, HistShape
<1>3. flight.batch = home.batch /\ flight.batch \in KnownBatch
  <2>1. flight.batch = home.batch /\ home.batch # NoneKept
    BY DEF CreateInv, FlightKept
  <2> QED BY <1>2, <2>1
<1>4. /\ home' \in [queue : Seq(Known), batch : KnownBatch \cup {NoneKept}, rev : Nat, batches : Nat]
      /\ home'.queue = queue /\ home'.batch = home.batch /\ home'.batches = home.batches
  BY <1>2
<1>5. ServerShape' /\ HomeShape' /\ FlightShape' /\ FlightKept'
  BY <1>1, <1>2, <1>3, <1>4 DEF ServerShape, HomeShape, FlightShape, FlightKept, KnownBatch, NoFlight, NoneKept
<1>6. AnswersStand'
  BY <1>3, <1>4 DEF CreateInv, AnswersStand, HasAnswer, Answered, In
<1>7. CommandStands'
  <2>1. dialog'.command \in server.made => dialog'.command = dialog.command
    BY <1>2 DEF FormGoesOn, Emptied, Dropped, Stays
  <2> QED BY <1>1, <1>4, <2>1 DEF CreateInv, CommandStands, HasAnswer, In
<1>8. ASSUME ~ hist'.denied PROVE GivenUpGone'
  <2>1. hist'.givenUp = hist.givenUp /\ GivenUpGone
    BY <1>8 DEF FormGoesOn, CreateInv
  <2> QED BY <1>4, <2>1 DEF GivenUpGone, Answered, In
<1>9. hist'.forms # hist.forms => given = {}
  BY DEF FormGoesOn, Emptied, Dropped, Stays
<1> QED BY <1>1, <1>5, <1>6, <1>7, <1>8, <1>9 DEF CreateInv, Shape

(* The form is as it was, but that submit waits no longer. *)
LEMMA WaitsNoLonger ==
    ASSUME CreateInv, dialog' = [dialog EXCEPT !.waiting = FALSE],
           hist'.ops = hist.ops, hist'.givenUp = hist.givenUp, hist'.forms = hist.forms,
           hist' \in [ops : Seq(AnyOp), forms : Nat \ {0}, givenUp : SUBSET Known, denied : BOOLEAN]
    PROVE  FormGoesOn({})
BY DEF CreateInv, Shape, DialogShape, FormGoesOn, Stays, DialogType

LEMMA FailStands ==
    ASSUME CreateInv, Fail \/ Deny
    PROVE  CreateInv' /\ hist'.forms = hist.forms
<1>0. /\ hist \in [ops : Seq(AnyOp), forms : Nat \ {0}, givenUp : SUBSET Known, denied : BOOLEAN]
      /\ dialog \in DialogType /\ (dialog.waiting => dialog.command # NoCommand)
      /\ home \in [queue : Seq(Known), batch : KnownBatch \cup {NoneKept}, rev : Nat, batches : Nat]
  BY DEF CreateInv, Shape, HistShape, DialogShape, DialogType, HomeShape
<1>1. PICK status \in {"unavailable", "rejected"} : NotReceived(status)
  BY DEF Fail, Deny
<1> DEFINE given == GiveUp(dialog, status)
           ids == {c.id : c \in given}
           queue == WithoutIds(home.queue, ids)
<1>2. /\ dialog' = Continue(dialog, status) /\ home' = [home EXCEPT !.queue = queue]
      /\ hist' = [hist EXCEPT !.givenUp = @ \cup given, !.denied = @ \/ given # {}]
      /\ flight' = NoFlight /\ UNCHANGED server /\ late' \in {late, late \cup {flight.batch}}
      /\ flight # NoFlight
  BY <1>1 DEF NotReceived, NoFlight
<1>3. \/ given = {dialog.command} /\ dialog.waiting /\ dialog' = [dialog EXCEPT !.command = NoCommand, !.waiting = FALSE]
      \/ given = {} /\ dialog' = [dialog EXCEPT !.waiting = FALSE]
  BY <1>2 DEF GiveUp, Continue
<1>4. queue \in Seq(Known) /\ \A n \in DOMAIN queue : \E m \in DOMAIN home.queue : queue[n] = home.queue[m]
  <2>1. home.queue \in Seq(Known)
    BY <1>0
  <2> HIDE DEF ids
  <2> QED BY <2>1, QueueWithoutIds
<1> HIDE DEF given, queue
<1>5. given \subseteq Known /\ (given = {} \/ dialog.command # NoCommand)
  BY <1>0, <1>3 DEF DialogType
<1>6. /\ hist'.ops = hist.ops /\ hist'.givenUp = hist.givenUp \cup given /\ hist'.forms = hist.forms
      /\ hist' \in [ops : Seq(AnyOp), forms : Nat \ {0}, givenUp : SUBSET Known, denied : BOOLEAN]
      /\ (~ hist'.denied => ~ hist.denied /\ given = {})
  <2>1. hist' = [ops |-> hist.ops, forms |-> hist.forms, givenUp |-> hist.givenUp \cup given, denied |-> (hist.denied \/ given # {})]
    BY <1>0, <1>2
  <2> QED BY <1>0, <1>5, <2>1
<1>7. FormGoesOn(given)
  <2>1. CASE given = {} /\ dialog' = [dialog EXCEPT !.waiting = FALSE]
    BY <1>6, <2>1, WaitsNoLonger
  <2>2. CASE given = {dialog.command} /\ dialog' = [dialog EXCEPT !.command = NoCommand, !.waiting = FALSE]
    <3>1. /\ dialog' \in DialogType /\ ~ dialog'.waiting /\ dialog'.casts = dialog.casts /\ dialog'.command = NoCommand
      BY <1>0, <2>2 DEF DialogType
    <3> QED BY <1>5, <1>6, <2>2, <3>1 DEF FormGoesOn, Dropped
  <2> QED BY <1>3, <2>1, <2>2
<1> QED BY <1>2, <1>4, <1>6, <1>7, FlightEnds

LEMMA ReloadStands ==
    ASSUME CreateInv, ReloadHome
    PROVE  CreateInv' /\ hist'.forms = hist.forms
<1>1. /\ home \in [queue : Seq(Known), batch : KnownBatch \cup {NoneKept}, rev : Nat, batches : Nat]
      /\ hist \in [ops : Seq(AnyOp), forms : Nat \ {0}, givenUp : SUBSET Known, denied : BOOLEAN]
  BY DEF CreateInv, Shape, HomeShape, HistShape
<1>2. /\ dialog' = [dialog EXCEPT !.waiting = FALSE] /\ hist' = hist /\ home' = [home EXCEPT !.queue = home.queue]
      /\ flight # NoFlight /\ flight' = NoFlight /\ UNCHANGED server
      /\ late' \in {late, late \cup {flight.batch}}
  BY <1>1 DEF ReloadHome
<1>3. FormGoesOn({})
  BY <1>1, <1>2, WaitsNoLonger
<1>4. home.queue \in Seq(Known) /\ \A n \in DOMAIN home.queue : \E m \in DOMAIN home.queue : home.queue[n] = home.queue[m]
  BY <1>1
<1> QED BY <1>2, <1>3, <1>4, FlightEnds

(* A poll *)
LEMMA LoadStands ==
    ASSUME CreateInv, LoadRevision
    PROVE  CreateInv'
<1>1. UNCHANGED <<server, flight, late, dialog, hist>>
  BY DEF LoadRevision
<1>2. /\ home' \in [queue : Seq(Known), batch : KnownBatch \cup {NoneKept}, rev : Nat, batches : Nat]
      /\ home'.queue = home.queue /\ home'.batch = home.batch /\ home'.batches = home.batches
  BY DEF LoadRevision, CreateInv, Shape, HomeShape, ServerShape
<1>3. Known' = Known
  BY <1>1 DEF Known
<1>4. Shape'
  BY <1>1, <1>2, <1>3 DEF CreateInv, Shape, ServerShape, HomeShape, FlightShape, DialogShape, HistShape, KnownBatch
<1> QED
  BY <1>1, <1>2, <1>3, <1>4 DEF CreateInv, FlightKept, AnswersStand, CommandStands, OnePerForm, NominatedOnce, GivenUpGone,
     HasAnswer, Answered, In

-----------------------------------------------------------------------------
(* The server: a batch that is carried out is the one the page keeps. *)
LEMMA ServerStands ==
    ASSUME CreateInv, UNCHANGED <<home, dialog, hist>>, NEW b \in KnownBatch, b = home.batch \/ Answered(b),
           NEW ok \in BOOLEAN, ServeBatch(b, ok), late' \subseteq late
    PROVE  /\ ServerShape' /\ HomeShape' /\ DialogShape' /\ HistShape' /\ Known' = Known /\ KnownBatch' = KnownBatch
           /\ AnswersStand' /\ CommandStands' /\ OnePerForm' /\ NominatedOnce' /\ (~ hist'.denied => GivenUpGone')
           /\ Answered(b)' /\ server.answers \subseteq server'.answers
<1>1. /\ server \in [rev : Nat, attending : SUBSET Cast, made : SUBSET Known, tried : SUBSET Known, answers : SUBSET Answer]
      /\ \A c \in KnownBatch : c.id \in Nat \ {0} /\ In(c) \subseteq Known
  BY DEF CreateInv, Shape, ServerShape, KnownBatch, In
<1>2. Known' = Known
  BY DEF Known
<1>3. /\ HomeShape' /\ DialogShape' /\ HistShape' /\ KnownBatch' = KnownBatch /\ OnePerForm' /\ NominatedOnce'
  BY <1>2 DEF CreateInv, Shape, HomeShape, DialogShape, HistShape, KnownBatch, OnePerForm, NominatedOnce
<1>4. CASE Answered(b)
  <2>1. server' = server
    BY <1>4 DEF ServeBatch
  <2> QED
    BY <1>2, <1>3, <1>4, <2>1 DEF CreateInv, Shape, ServerShape, AnswersStand, CommandStands, GivenUpGone, HasAnswer, Answered, In
<1>5. CASE ~ Answered(b)
  <2>1. b = home.batch
    BY <1>5
  <2>2. PICK done \in BOOLEAN :
           server' = [server EXCEPT !.rev = IF done THEN @ + 1 ELSE @,
                                    !.made = IF done THEN @ \cup In(b) ELSE @,
                                    !.tried = @ \cup In(b),
                                    !.answers = @ \cup {[id |-> b.id, ok |-> done]}]
    BY <1>5 DEF ServeBatch, In
  <2> DEFINE answer == [id |-> b.id, ok |-> done]
  <2>3. server' = [rev |-> IF done THEN server.rev + 1 ELSE server.rev, attending |-> server.attending,
                   made |-> IF done THEN server.made \cup In(b) ELSE server.made,
                   tried |-> server.tried \cup In(b), answers |-> server.answers \cup {answer}]
    BY <1>1, <2>2
  <2>4. answer \in Answer /\ answer.id = b.id /\ answer.ok = done
    BY <1>1 DEF Answer
  <2> HIDE DEF answer
  <2>5. server' \in [rev : Nat, attending : SUBSET Cast, made : SUBSET Known, tried : SUBSET Known, answers : SUBSET Answer]
    <3>1. (IF done THEN server.rev + 1 ELSE server.rev) \in Nat
      BY <1>1
    <3>2. (IF done THEN server.made \cup In(b) ELSE server.made) \in SUBSET Known /\ server.tried \cup In(b) \in SUBSET Known
          /\ server.answers \cup {answer} \in SUBSET Answer /\ server.attending \in SUBSET Cast
      BY <1>1, <2>4
    <3> QED BY <2>3, <3>1, <3>2
  <2>6. /\ server'.answers = server.answers \cup {answer}
        /\ server'.made = IF done THEN server.made \cup In(b) ELSE server.made
    BY <2>3
  <2>7. ServerShape'
    BY <1>2, <2>5 DEF ServerShape
  <2>8. \A a \in server.answers : a.id # b.id
    BY <1>5 DEF Answered
  <2>9. AnswersStand'
    <3>1. /\ \A a, c \in server'.answers : a.id = c.id => a = c
          /\ \A a \in server'.answers : a.id <= home.batches
          /\ \A c \in late' : Answered(c)' \/ c = home.batch
      BY <2>1, <2>4, <2>6, <2>8 DEF CreateInv, AnswersStand, Answered
    <3>2. HasAnswer(home.batch, TRUE)' => done
      BY <2>1, <2>4, <2>6, <2>8 DEF HasAnswer
    <3>3. HasAnswer(home.batch, TRUE)' => In(home.batch)' \subseteq server'.made
      BY <2>1, <2>6, <3>2 DEF In
    <3> QED BY <3>1, <3>3 DEF AnswersStand, CreateInv
  <2>10. CommandStands'
    <3>1. dialog.command \notin server.made
      BY <2>1, <2>8 DEF CreateInv, CommandStands, HasAnswer
    <3>2. dialog.command \in server'.made => dialog.command \in In(b) /\ done
      BY <2>6, <3>1
    <3>3. done => HasAnswer(home.batch, TRUE)'
      BY <2>1, <2>4, <2>6 DEF HasAnswer
    <3> QED BY <2>1, <3>2, <3>3 DEF CreateInv, CommandStands, In
  <2>11. ASSUME ~ hist'.denied PROVE GivenUpGone'
    <3>1. \A g \in hist.givenUp : g \notin server.made /\ g \notin In(b) /\ \A i \in DOMAIN home.queue : home.queue[i] # g
      BY <1>5, <2>1, <2>11 DEF CreateInv, GivenUpGone
    <3> QED BY <2>1, <2>6, <3>1 DEF GivenUpGone, In
  <2>12. Answered(b)' /\ server.answers \subseteq server'.answers
    BY <2>4, <2>6 DEF Answered
  <2> QED BY <1>2, <1>3, <2>7, <2>9, <2>10, <2>11, <2>12
<1> QED BY <1>4, <1>5

LEMMA ServeFlightStands ==
    ASSUME CreateInv, NEW ok \in BOOLEAN, ServeFlight(ok)
    PROVE  CreateInv'
<1>1. /\ flight.state = "going" /\ ServeBatch(flight.batch, ok) /\ UNCHANGED <<home, late, dialog, hist>>
      /\ flight' = [flight EXCEPT !.state = "answered", !.ok = (CHOOSE a \in server'.answers : a.id = flight.batch.id).ok]
  BY DEF ServeFlight
<1>2. /\ flight \in [state : {"none", "going", "answered"}, batch : KnownBatch \cup {NoneKept}, ok : BOOLEAN]
      /\ late \subseteq KnownBatch
  BY DEF CreateInv, Shape, FlightShape
<1>3. flight # NoFlight /\ flight.batch = home.batch /\ home.batch # NoneKept /\ flight.batch \in KnownBatch
  BY <1>1, <1>2 DEF NoFlight, CreateInv, FlightKept
<1>4. PICK b \in KnownBatch : b = flight.batch
  BY <1>3
<1>5. /\ ServerShape' /\ HomeShape' /\ DialogShape' /\ HistShape' /\ Known' = Known /\ KnownBatch' = KnownBatch
      /\ AnswersStand' /\ CommandStands' /\ OnePerForm' /\ NominatedOnce' /\ (~ hist'.denied => GivenUpGone')
      /\ Answered(b)'
  BY <1>1, <1>3, <1>4, ServerStands
<1>6. PICK a \in server'.answers : a.id = b.id /\ flight'.ok = a.ok
  <2>1. \E a \in server'.answers : a.id = b.id
    BY <1>5 DEF Answered
  <2>2. flight'.ok = (CHOOSE a \in server'.answers : a.id = b.id).ok
    BY <1>1, <1>2, <1>4
  <2> QED BY <2>1, <2>2
<1>7. a.ok \in BOOLEAN
  BY <1>5, <1>6 DEF ServerShape, Answer
<1>8. flight' = [state |-> "answered", batch |-> b, ok |-> a.ok] /\ home' = home
  BY <1>1, <1>2, <1>4, <1>6
<1>9. FlightShape'
  BY <1>1, <1>2, <1>4, <1>5, <1>7, <1>8 DEF FlightShape, NoFlight, NoneKept
<1>10. FlightKept'
  BY <1>3, <1>4, <1>6, <1>8 DEF FlightKept, HasAnswer
<1> QED BY <1>5, <1>9, <1>10 DEF CreateInv, Shape

LEMMA ServeLateStands ==
    ASSUME CreateInv, NEW ok \in BOOLEAN, ServeLate(ok)
    PROVE  CreateInv'
<1>1. PICK b \in late : ServeBatch(b, ok) /\ late' = late \ {b}
  BY DEF ServeLate
<1>2. UNCHANGED <<home, flight, dialog, hist>> /\ late' \subseteq late
  BY <1>1 DEF ServeLate
<1>3. b \in KnownBatch /\ (b = home.batch \/ Answered(b))
  BY DEF CreateInv, Shape, FlightShape, AnswersStand
<1>4. /\ ServerShape' /\ HomeShape' /\ DialogShape' /\ HistShape' /\ Known' = Known /\ KnownBatch' = KnownBatch
      /\ AnswersStand' /\ CommandStands' /\ OnePerForm' /\ NominatedOnce' /\ (~ hist'.denied => GivenUpGone')
      /\ server.answers \subseteq server'.answers
  BY <1>1, <1>2, <1>3, ServerStands
<1>5. FlightShape' /\ FlightKept'
  BY <1>2, <1>4 DEF CreateInv, Shape, FlightShape, FlightKept, HasAnswer, NoFlight, NoneKept
<1> QED BY <1>4, <1>5 DEF CreateInv, Shape

LEMMA OtherTerminalStands ==
    ASSUME CreateInv, OtherTerminal
    PROVE  CreateInv'
<1>1. /\ server \in [rev : Nat, attending : SUBSET Cast, made : SUBSET Known, tried : SUBSET Known, answers : SUBSET Answer]
      /\ UNCHANGED <<home, flight, late, dialog, hist>>
  BY DEF CreateInv, Shape, ServerShape, OtherTerminal
<1>2. /\ server' \in [rev : Nat, attending : SUBSET Cast, made : SUBSET Known, tried : SUBSET Known, answers : SUBSET Answer]
      /\ server'.made = server.made /\ server'.answers = server.answers
  <2>1. PICK attending \in SUBSET Cast : server' = [server EXCEPT !.rev = @ + 1, !.attending = attending]
    <3>1. CASE server' = [server EXCEPT !.rev = @ + 1]
      <4>1. server' = [server EXCEPT !.rev = @ + 1, !.attending = server.attending] /\ server.attending \in SUBSET Cast
        BY <1>1, <3>1
      <4> QED BY <4>1
    <3>2. ASSUME NEW c \in server.attending, server' = [server EXCEPT !.rev = @ + 1, !.attending = server.attending \ {c}]
          PROVE  \E attending \in SUBSET Cast : server' = [server EXCEPT !.rev = @ + 1, !.attending = attending]
      BY <1>1, <3>2
    <3> QED BY <3>1, <3>2 DEF OtherTerminal
  <2>2. server' = [rev |-> server.rev + 1, attending |-> attending, made |-> server.made, tried |-> server.tried,
                   answers |-> server.answers]
    BY <1>1, <2>1
  <2>3. server.rev + 1 \in Nat /\ server.made \subseteq Known /\ server.tried \subseteq Known /\ server.answers \subseteq Answer
    BY <1>1
  <2> QED BY <2>2, <2>3
<1>3. Known' = Known
  BY <1>1 DEF Known
<1>4. Shape'
  BY <1>1, <1>2, <1>3 DEF CreateInv, Shape, ServerShape, HomeShape, FlightShape, DialogShape, HistShape, KnownBatch
<1> QED
  BY <1>1, <1>2, <1>3, <1>4 DEF CreateInv, FlightKept, AnswersStand, CommandStands, OnePerForm, NominatedOnce, GivenUpGone,
     HasAnswer, Answered, In

-----------------------------------------------------------------------------
LEMMA CreateStarts == CreateInit => CreateInv
<1> SUFFICES ASSUME CreateInit PROVE CreateInv
  OBVIOUS
<1>1. Known = {} /\ HistShape
  BY DEF CreateInit, Known, HistShape
<1>2. ServerShape /\ HomeShape /\ FlightShape
  BY <1>1 DEF CreateInit, ServerShape, HomeShape, FlightShape, NoFlight
<1>3. DialogShape /\ NominatedOnce
  BY <1>1 DEF CreateInit, DialogShape, NominatedOnce
<1>4. FlightKept /\ AnswersStand
  BY DEF CreateInit, FlightKept, AnswersStand, HasAnswer, In, NoneKept
<1>5. CommandStands /\ OnePerForm /\ GivenUpGone
  BY <1>1 DEF CreateInit, CommandStands, OnePerForm, GivenUpGone
<1> QED BY <1>1, <1>2, <1>3, <1>4, <1>5 DEF CreateInv, Shape

LEMMA CreateSteps ==
    CreateInv /\ [CreateNext]_createVars => CreateInv' /\ (hist'.forms # hist.forms => dialog.command \in server.made)
<1> SUFFICES ASSUME CreateInv, [CreateNext]_createVars
             PROVE  CreateInv' /\ (hist'.forms # hist.forms => dialog.command \in server.made)
  OBVIOUS
<1>0. hist \in [ops : Seq(AnyOp), forms : Nat \ {0}, givenUp : SUBSET Known, denied : BOOLEAN]
  BY DEF CreateInv, Shape, HistShape
<1>1. CASE ChooseTable \/ AddRow \/ RemoveRow \/ CastsUpdated \/ \E i \in 1..MaxRow, c \in Cast : ChooseCast(i, c)
  <2>1. hist' = hist
    BY <1>1 DEF ChooseTable, AddRow, RemoveRow, CastsUpdated, ChooseCast, otherVars
  <2> QED BY <1>1, <2>1, TypingSteps
<1>2. CASE PressCreate
  <2>1. hist'.forms = hist.forms
    BY <1>0, <1>2 DEF PressCreate
  <2> QED BY <1>2, <2>1, PressStands
<1>3. CASE QueueEdit
  <2>1. hist'.forms = hist.forms
    BY <1>0, <1>3 DEF QueueEdit
  <2> QED BY <1>3, <2>1, EditStands
<1>4. CASE SendQueue
  BY <1>4, SendStands DEF SendQueue
<1>5. CASE ReceiveFlight
  BY <1>5, ReceiveStands
<1>6. CASE Fail \/ Deny
  BY <1>6, FailStands
<1>7. CASE ReloadHome
  BY <1>7, ReloadStands
<1>8. CASE LoadRevision
  BY <1>8, LoadStands DEF LoadRevision
<1>9. ASSUME NEW ok \in BOOLEAN, ServeFlight(ok) \/ ServeLate(ok)
      PROVE  CreateInv' /\ hist' = hist
  BY <1>9, ServeFlightStands, ServeLateStands DEF ServeFlight, ServeLate
<1>10. CASE OtherTerminal
  BY <1>10, OtherTerminalStands DEF OtherTerminal
<1>11. CASE UNCHANGED createVars
  <2>1. UNCHANGED otherVars /\ UNCHANGED dialog
    BY <1>11 DEF createVars, otherVars
  <2>2. /\ dialog.table \in BOOLEAN /\ dialog.casts \in Seq(Row) /\ dialog.attending \in SUBSET Cast
        /\ dialog' = [dialog EXCEPT !.table = dialog.table, !.casts = dialog.casts, !.attending = dialog.attending]
        /\ \A i, j \in DOMAIN dialog.casts : dialog.casts[i] = dialog.casts[j] /\ dialog.casts[i] # NoCast => i = j
    BY <2>1 DEF CreateInv, Shape, DialogShape, NominatedOnce
  <2> QED BY <2>1, <2>2, TypingStands DEF otherVars
<1> QED BY <1>1, <1>2, <1>3, <1>4, <1>5, <1>6, <1>7, <1>8, <1>9, <1>10, <1>11 DEF CreateNext

(* One form opens one slip and a command that was given up opens none,      *)
(* whatever is lost, late or pressed again, until the dialog gives up a     *)
(* command because a request was refused before the procedure ran; the form *)
(* is emptied only for a slip that exists and nominates nobody twice        *)
(* (create-slip-modal.js, submit).                                          *)
THEOREM FormOpensOneSlip == CreateSpec => SlipOpenedOnce
<1>1. CreateInv => (~ hist.denied => CreatedOnce /\ GivenUpNeverCreated) /\ NominatedOnce
  <2> SUFFICES ASSUME CreateInv, ~ hist.denied PROVE CreatedOnce /\ GivenUpNeverCreated
    BY DEF CreateInv
  <2>1. GivenUpNeverCreated
    BY DEF CreateInv, GivenUpGone, GivenUpNeverCreated
  <2>2. server.made \subseteq Known /\ \A a \in server.made : a \notin hist.givenUp
    BY <2>1 DEF CreateInv, Shape, ServerShape, GivenUpNeverCreated
  <2>3. \A a \in Known : a.kind \in {"create_slip", "edit"} /\ (a.kind = "edit" <=> a.form = 0)
    BY KnownById DEF CreateInv, OnePerForm, Shape, AnyOp
  <2> QED BY <2>1, <2>2, <2>3 DEF CreateInv, OnePerForm, CreatedOnce
<1>2. CreateInv /\ [CreateNext]_createVars => CreateInv'
  BY CreateSteps
<1>3. CreateInv /\ [CreateNext]_createVars => [hist'.forms # hist.forms => dialog.command \in server.made]_createVars
  BY CreateSteps
<1> QED BY <1>1, <1>2, <1>3, CreateStarts, PTL DEF CreateSpec, SlipOpenedOnce, KeptUntilCreated
=============================================================================
