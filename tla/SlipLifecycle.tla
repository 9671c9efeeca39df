--------------------------- MODULE SlipLifecycle ---------------------------
(***************************************************************************)
(* What a slip promises, without the rows that keep the promise: the state  *)
(* diagram of the slip, the statement that is fixed when the slip becomes   *)
(* ready for checkout, and the payment, which is exactly what the fixed     *)
(* statement asks for.  While a slip is not open nothing on it may change   *)
(* except by the four account steps.  SlipLedger is shown to implement this.*)
(***************************************************************************)
CONSTANTS
    Slip,
    NoBill,      \* no statement is fixed
    Unpaid,      \* nothing has been paid
    Due(_)       \* what a statement asks for

VARIABLES
    stage,       \* absent, open, checkout_ready or checked_out
    work,        \* what the staff entered on the slip
    bill,        \* the fixed statement
    paid         \* the amount received

vars == <<stage, work, bill, paid>>

Moves(s, from, to) ==
    /\ stage[s] = from
    /\ stage' = [stage EXCEPT ![s] = to]

(* A step of slip s says nothing of the other slips but that they stay. *)
OnlyAt(s, f, g) == \A x \in Slip \ {s} : g[x] = f[x]

Init ==
    /\ stage = [s \in Slip |-> "absent"]
    /\ bill = [s \in Slip |-> NoBill]
    /\ paid = [s \in Slip |-> Unpaid]

Create(s) ==
    /\ Moves(s, "absent", "open")
    /\ OnlyAt(s, work, work')
    /\ UNCHANGED <<bill, paid>>

Edit(s) ==
    /\ stage[s] = "open"
    /\ OnlyAt(s, work, work')
    /\ UNCHANGED <<stage, bill, paid>>

Issue(s) ==
    /\ Moves(s, "open", "checkout_ready")
    /\ bill'[s] # NoBill
    /\ OnlyAt(s, bill, bill')
    /\ UNCHANGED <<work, paid>>

Release(s) ==
    /\ Moves(s, "checkout_ready", "open")
    /\ bill' = [bill EXCEPT ![s] = NoBill]
    /\ UNCHANGED <<work, paid>>

Confirm(s) ==
    /\ Moves(s, "checkout_ready", "checked_out")
    /\ paid' = [paid EXCEPT ![s] = Due(bill[s])]
    /\ UNCHANGED <<work, bill>>

Cancel(s) ==
    /\ Moves(s, "checked_out", "open")
    /\ bill' = [bill EXCEPT ![s] = NoBill]
    /\ paid' = [paid EXCEPT ![s] = Unpaid]
    /\ UNCHANGED work

Next == \E s \in Slip :
    \/ Create(s) \/ Edit(s) \/ Issue(s)
    \/ Release(s) \/ Confirm(s) \/ Cancel(s)

Spec == Init /\ [][Next]_vars
=============================================================================
