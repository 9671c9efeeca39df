------------------------------ MODULE MCOutboxes ------------------------------
(***************************************************************************)
(* The two pages that keep what they send until it is answered, for TLC:    *)
(* the order terminal (OrderEntry, with two pieces on one day, with one     *)
(* piece over two days, and with one piece and slips that reopen) and the   *)
(* receipt work queue (ReceiptQueue, with two receipts, with one and every  *)
(* fault, and with three when an answer holds two).  They share no state:   *)
(* `focus' says which one moves, the others stand still, so that their      *)
(* states add up and do not multiply.                                       *)
(***************************************************************************)
EXTENDS OrderEntry, ReceiptQueue, TLC

CONSTANTS s1, s2, i1, none

VARIABLE focus  \* the part that moves

Days == INSTANCE OrderEntry WITH MaxDay <- 2, MaxPiece <- 1

Reopened == INSTANCE OrderEntry WITH MaxPiece <- 1, MaxRev <- 3

Faulty == INSTANCE ReceiptQueue WITH
    MaxDoc <- 1, MaxCommand <- 2, MaxVersion <- 1, MaxFault <- 1, Window <- 2,
    BadWrites <- TRUE

Forgetful == INSTANCE ReceiptQueue WITH
    MaxDoc <- 1, MaxCommand <- 2, MaxVersion <- 0, MaxFault <- 2, Window <- 2,
    Forgets <- TRUE

Pages == INSTANCE ReceiptQueue WITH
    MaxDoc <- 3, MaxCommand <- 1, MaxVersion <- 0, MaxFault <- 1, Window <- 2

ASSUME
    /\ Days!OrderAssumption /\ Reopened!OrderAssumption /\ Faulty!ReceiptAssumption
    /\ Forgetful!ReceiptAssumption /\ Pages!ReceiptAssumption

outboxVars == <<focus, orderVars, receiptVars>>

OnOrders(Step) == focus = "orders" /\ Step /\ UNCHANGED <<focus, receiptVars>>
OnDays(Step) == focus = "days" /\ Step /\ UNCHANGED <<focus, receiptVars>>
OnReopened(Step) == focus = "reopened" /\ Step /\ UNCHANGED <<focus, receiptVars>>
OnQueue(Step) == focus = "receipts" /\ Step /\ UNCHANGED <<focus, orderVars>>
OnFaulty(Step) == focus = "faults" /\ Step /\ UNCHANGED <<focus, orderVars>>
OnPages(Step) == focus = "pages" /\ Step /\ UNCHANGED <<focus, orderVars>>
OnForgetful(Step) == focus = "forgets" /\ Step /\ UNCHANGED <<focus, orderVars>>

BoxInit ==
    /\ focus \in {"orders", "days", "reopened", "receipts", "faults", "forgets", "pages"}
    /\ CASE focus = "days" -> Days!OrderInit
         [] focus = "reopened" -> Reopened!OrderInit
         [] OTHER -> OrderInit
    /\ IF focus = "pages" THEN Pages!ReceiptInit ELSE ReceiptInit
    /\ focus \notin {"orders", "days", "reopened"} => db.open = Slip

OrdersNext ==
    \/ \E s \in Slip : OnOrders(Select(s))
    \/ \E item \in Item : OnOrders(AddToQueue(item))
    \/ \E lines \in {page.queue} \cup {{l} : l \in page.queue} : OnOrders(TakeOut(lines))
    \/ OnOrders(Submit)
    \/ \E call \in calls : OnOrders(Receive(call)) \/ OnOrders(Fail(call))
    \/ OnOrders(AskOptions) \/ OnOrders(LoadOptions) \/ OnOrders(LoadFails) \/ OnOrders(Reload)
    \/ \E call \in calls, ok \in BOOLEAN : OnOrders(Serve(call, ok))
    \/ OnOrders(OtherTerminal)
    \/ OnDays(Days!OrderNext) \/ OnReopened(Reopened!OrderNext)

QueueNext ==
    \/ OnQueue(Press(TRUE)) \/ OnQueue(Skip)
    \/ \E i \in 1..2 : OnQueue(EditFailed(i)) \/ OnQueue(WithdrawFailed(i))
    \/ OnQueue(Wrote)
    \/ \E ok \in BOOLEAN :
        OnQueue(ServeHead(ok)) \/ OnQueue(ServeLate(ok)) \/ OnQueue(Loaded(ok))
    \/ OnQueue(ReceiveAnswer) \/ OnQueue(Lost) \/ OnQueue(RetryFires)
    \/ OnQueue(Wake) \/ OnQueue(ServeLoad) \/ OnQueue(Reopen)
    \/ OnFaulty(Faulty!EditElsewhere(1))
    \/ OnFaulty(Faulty!Press(FALSE)) \/ OnFaulty(Faulty!Refused)
    \/ OnFaulty(Faulty!WriteFailed) \/ OnFaulty(Faulty!ReceiptNext)
    \/ OnPages(Pages!ReceiptNext)
    \/ OnForgetful(Forgetful!Forget) \/ OnForgetful(Forgetful!ReceiptNext)

BoxNext == OrdersNext \/ QueueNext
BoxSpec == BoxInit /\ [][BoxNext]_outboxVars

(* Slips are told apart only by the order in which they are opened. *)
Alike == Permutations(Slip)

-----------------------------------------------------------------------------
(* The types of the two parts (OrderEntry, ReceiptQueue).                   *)
BoxTypeOK ==
    /\ CASE focus = "days" -> Days!OrderTypeOK
         [] focus = "reopened" -> Reopened!OrderTypeOK
         [] OTHER -> OrderTypeOK
    /\ CASE focus = "faults" -> Faulty!ReceiptTypeOK
         [] focus = "forgets" -> Forgetful!ReceiptTypeOK
         [] focus = "pages" -> Pages!ReceiptTypeOK
         [] OTHER -> ReceiptTypeOK
=============================================================================
