---------------------------- MODULE CheckoutRpc ----------------------------
(***************************************************************************)
(* The checkout calls of Sql/store_rpc/26_current_checkout_mutations.sql    *)
(* (issue, release, confirm and cancel, version 2) between the terminals    *)
(* that make them (wwwroot/js/features/business-checkout.js) and the        *)
(* ledger, SlipLedger, that they change.                                    *)
(*                                                                          *)
(* A terminal sends a command with an operation id and with the revision of *)
(* the business day it shows, and keeps the command in sessionStorage until *)
(* it gets a final answer: a request or its answer can be lost, can be late *)
(* and the same command can be sent again.  The server keeps the answer of  *)
(* every operation id and refuses a command made on an old revision.        *)
(*                                                                          *)
(* One call of the server is one step, for the reason given in SlipLedger.  *)
(* The revision is bumped by a trigger on every row that is written; one    *)
(* bump stands for all those of one call.                                   *)
(***************************************************************************)
EXTENDS SlipLedger

CONSTANTS
    Terminal,     \* browsers of the store
    MaxOp,        \* bound: operation ids made
    MaxTry,       \* bound: requests sent for one operation id
    MaxRevision   \* bound: changes of the business day

ASSUME RpcAssumption == MaxOp \in Nat /\ MaxTry \in Nat \ {0} /\ MaxRevision \in Nat

VARIABLES
    revision,     \* store_business_days.business_ui_revision
    results,      \* store.current_business_day_operation_results
    nextOp,       \* the next crypto.randomUUID()
    requests,     \* requests on their way to the server
    seen,         \* window.ProsperBusinessHomeState and the snapshot shown
    pending,      \* pendingMutationCommands, in sessionStorage
    fetch,        \* the request postMutation waits for, if any
    modal,        \* `current', the slip whose checkout is on the screen
    queue,        \* statements kept in localStorage, per slip
    receipts,     \* receipts kept in sessionStorage, per slip
    applied       \* history: how often an operation took effect

server == <<revision, results, applied>>
screen == <<modal, queue, receipts>>
rpcVars == <<vars, server, nextOp, requests, seen, pending, fetch, screen>>

-----------------------------------------------------------------------------
CheckoutAction == {"issue", "release", "confirm", "cancel"}

(* The status apply_checkout_mutation_v2 wants the slip to have. *)
Required(action) ==
    CASE action = "issue" -> "open"
      [] action \in {"release", "confirm"} -> "checkout_ready"
      [] action = "cancel" -> "checked_out"

(* The snapshot of the business day that answers and polls carry. *)
Snapshot ==
    [rev |-> revision,
     status |-> [s \in Slip |-> slips[s].status],
     work |-> [s \in Slip |-> WorkOf(s)]]

View == [rev : Nat, status : [Slip -> SlipStatus],
         work : [Slip -> [lines : SUBSET Line, casts : SUBSET Nomination, charges : SUBSET Charge]]]

(* `timely': the leaving time is after every arrival on the slip.  `basis'  *)
(* is not sent: it remembers what the terminal showed when the command was  *)
(* made.                                                                    *)
Command ==
    [op : 1..MaxOp, terminal : Terminal, action : CheckoutAction, slip : Slip, rev : Nat,
     timely : BOOLEAN, cash : Tender, card : Tender,
     basis : [lines : SUBSET Line, casts : SUBSET Nomination, charges : SUBSET Charge]]

Receipt == [checkout : Nat, statement : Statement]

(* An answer: `papers' is the printed statement of an issue, the receipt of *)
(* a confirmation, and nothing otherwise.                                   *)
Response ==
    [command : Command, status : {"confirmed", "conflict", "validation_error"},
     papers : SUBSET Receipt, view : View]

Call == [command : Command, try : 1..MaxTry]

-----------------------------------------------------------------------------
(* The server. *)

(* Faulty: the trigger that counts the changes is missing. *)
RevisionStands == UNCHANGED revision

ChangesDay ==
    /\ revision < MaxRevision
    /\ revision' = revision + 1

(* Any other call on the slips: editing batches, orders, cast sales, and    *)
(* the checkout calls of browsers that are not in Terminal.                 *)
OtherStaff ==
    /\ \E s \in Slip : Edit(s) \/ Account(s)
    /\ ChangesDay
    /\ UNCHANGED <<results, applied, nextOp, requests, seen, pending, fetch, screen>>

(* Faulty: a late command gets a status the checkout calls do not have. *)
RefusalAsStale(cmd) ==
    IF slips[cmd.slip].status # Required(cmd.action) \/ cmd.rev # revision
    THEN "stale_work_item"
    ELSE "none"

(* The checks in their order: status, revision, then what the call says. *)
Refusal(cmd) ==
    IF slips[cmd.slip].status # Required(cmd.action) \/ cmd.rev # revision
    THEN "conflict"
    ELSE IF \/ cmd.action = "issue" /\ ~ cmd.timely
            \/ /\ cmd.action = "confirm"
               /\ \E b \in bills[cmd.slip] : cmd.cash + cmd.card # Total(b.statement)
    THEN "validation_error"
    ELSE "none"

(* Faulty: cancelling opens the slip and leaves its payment in force. *)
EffectHalfCancelled(cmd) ==
    \/ cmd.action = "issue" /\ \E quote \in Quote : IssueStatement(cmd.slip, quote)
    \/ cmd.action = "release" /\ ReleaseStatement(cmd.slip)
    \/ cmd.action = "confirm" /\ ConfirmCheckout(cmd.slip, cmd.cash, cmd.card)
    \/ cmd.action = "cancel" /\ Reopen(cmd.slip) /\ UNCHANGED <<checkouts, payments, sales>>

Effect(cmd) ==
    \/ cmd.action = "issue" /\ \E quote \in Quote : IssueStatement(cmd.slip, quote)
    \/ cmd.action = "release" /\ ReleaseStatement(cmd.slip)
    \/ cmd.action = "confirm" /\ ConfirmCheckout(cmd.slip, cmd.cash, cmd.card)
    \/ cmd.action = "cancel" /\ CancelCheckout(cmd.slip)

(* remember_checkout_mutation_v2 *)
Remember(cmd, status, papers, view) ==
    results' = [results EXCEPT ![cmd.op] =
        {[command |-> cmd, status |-> status, papers |-> papers, view |-> view]}]

Papers(cmd) ==
    IF cmd.action \in {"issue", "confirm"}
    THEN {[checkout |-> b.version, statement |-> b.statement] : b \in bills[cmd.slip]}
    ELSE {}

(* The operation id is known: its answer is given again. *)
Replay(cmd) ==
    /\ results[cmd.op] # {}
    /\ UNCHANGED <<vars, server>>

(* Faulty: a known operation is checked again, and its answer replaced. *)
RefuseAgain(cmd) ==
    /\ Refusal(cmd) # "none"
    /\ Remember(cmd, Refusal(cmd), {}, Snapshot)
    /\ UNCHANGED <<vars, revision, applied>>

Refuse(cmd) ==
    /\ results[cmd.op] = {}
    /\ Refusal(cmd) # "none"
    /\ Remember(cmd, Refusal(cmd), {}, Snapshot)
    /\ UNCHANGED <<vars, revision, applied>>

Apply(cmd) ==
    /\ results[cmd.op] = {}
    /\ Refusal(cmd) = "none"
    /\ Effect(cmd)
    /\ ChangesDay
    /\ Remember(cmd, "confirmed", Papers(cmd)', Snapshot')
    /\ applied' = [applied EXCEPT ![cmd.op] = @ + 1]

(* A request reaches the server; its answer is read by the fetch that sent  *)
(* it, unless that fetch has been given up.  A request that is lost, or     *)
(* that an error of the server rolls back, is one that is never served.     *)
Serve(call) ==
    /\ call \in requests
    /\ requests' = requests \ {call}
    /\ Replay(call.command) \/ Refuse(call.command) \/ Apply(call.command)
    /\ fetch' = [fetch EXCEPT ![call.command.terminal] =
                    {[f EXCEPT !.answered = f.answered \/ f.call = call] : f \in @}]
    /\ UNCHANGED <<nextOp, seen, pending, screen>>

-----------------------------------------------------------------------------
(* The terminal. *)

(* Faulty: whatever arrives last is shown. *)
Latest(shown, view) == view

(* applySnapshot: a snapshot older than the one shown is ignored. *)
Newer(shown, view) == IF view.rev < shown.rev THEN shown ELSE view

(* A poll of the business day (focus, online, timer).  Its answer may be    *)
(* late, which is as if it had been read then and dropped when old.         *)
Poll(t) ==
    /\ seen' = [seen EXCEPT ![t] = Snapshot]
    /\ UNCHANGED <<vars, server, nextOp, requests, pending, fetch, screen>>

(* open(): the slip must be shown open or ready. *)
OpenModal(t, s) ==
    /\ fetch[t] = {} /\ modal[t] = {}
    /\ seen[t].status[s] \in {"open", "checkout_ready"}
    /\ modal' = [modal EXCEPT ![t] =
                    {[slip |-> s, status |-> seen[t].status[s], paying |-> FALSE, entered |-> FALSE]}]
    /\ UNCHANGED <<vars, server, nextOp, requests, seen, pending, fetch, queue, receipts>>

(* The rest of open(): a ready slip without a kept statement reads it. *)
ReadStatement(t) ==
    /\ fetch[t] = {}
    /\ \E m \in modal[t] : \E b \in bills[m.slip] :
          /\ m.status = "checkout_ready"
          /\ queue[t][m.slip] = {}
          /\ queue' = [queue EXCEPT ![t] = [@ EXCEPT ![m.slip] = {b.statement}]]
    /\ UNCHANGED <<vars, server, nextOp, requests, seen, pending, fetch, modal, receipts>>

(* proceedPayment: the payment dialog opens with nothing entered. *)
ProceedPayment(t) ==
    /\ \E m \in modal[t] :
          /\ m.status = "checkout_ready" /\ ~ m.paying /\ queue[t][m.slip] # {}
          /\ modal' = [modal EXCEPT ![t] = {[m EXCEPT !.paying = TRUE]}]
    /\ UNCHANGED <<vars, server, nextOp, requests, seen, pending, fetch, queue, receipts>>

(* Closing the payment dialog goes back to the statement and drops what was *)
(* entered; closing the statement ends the checkout.  The payment dialog    *)
(* cannot be closed while a request runs.                                   *)
CloseModal(t) ==
    /\ \E m \in modal[t] :
          \/ /\ m.paying /\ fetch[t] = {}
             /\ modal' = [modal EXCEPT ![t] = {[m EXCEPT !.paying = FALSE, !.entered = FALSE]}]
          \/ /\ ~ m.paying
             /\ modal' = [modal EXCEPT ![t] = {}]
    /\ UNCHANGED <<vars, server, nextOp, requests, seen, pending, fetch, queue, receipts>>

Pending(t, action, s) == {p \in pending[t] : p.command.action = action /\ p.command.slip = s}

(* paymentValidation and syncPaymentMutationLock: the payments have been    *)
(* entered, or still can be because no confirmation of the slip is pending, *)
(* or there is nothing to pay.                                              *)
CanConfirm(t, m) ==
    /\ m.paying
    /\ \E st \in queue[t][m.slip] :
          m.entered \/ Pending(t, "confirm", m.slip) = {} \/ Total(st) = 0

(* Where the screen lets the user ask for an action on a slip. *)
Offered(t, action, s) ==
    \/ action = "issue" /\ \E m \in modal[t] : m.slip = s /\ m.status = "open"
    \/ action = "release" /\ \/ seen[t].status[s] = "checkout_ready"
                             \/ \E m \in modal[t] : m.slip = s /\ m.status = "checkout_ready" /\ queue[t][s] # {}
    \/ action = "confirm" /\ \E m \in modal[t] : m.slip = s /\ CanConfirm(t, m)
    \/ action = "cancel" /\ seen[t].status[s] = "checked_out"

Sends(t, call) ==
    /\ requests' = requests \cup {call}
    /\ fetch' = [fetch EXCEPT ![t] = {[call |-> call, answered |-> FALSE]}]
    /\ UNCHANGED <<vars, server, seen, queue, receipts>>

(* mutationCommand without a pending command, then the fetch. *)
Begin(t, action, s, timely, cash, card) ==
    LET cmd == [op |-> nextOp, terminal |-> t, action |-> action, slip |-> s, rev |-> seen[t].rev,
                timely |-> timely, cash |-> cash, card |-> card, basis |-> seen[t].work[s]]
    IN  /\ fetch[t] = {}
        /\ Offered(t, action, s)
        /\ Pending(t, action, s) = {}
        /\ IF action = "confirm"
           THEN /\ \A st \in queue[t][s] : cash + card = Total(st)
                /\ modal' = [modal EXCEPT ![t] = {[m EXCEPT !.entered = TRUE] : m \in @}]
           ELSE UNCHANGED modal
        /\ nextOp <= MaxOp
        /\ nextOp' = nextOp + 1
        /\ pending' = [pending EXCEPT ![t] = @ \cup {[command |-> cmd, tries |-> 1]}]
        /\ Sends(t, [command |-> cmd, try |-> 1])

(* mutationCommand with a pending command: the same one is sent again,      *)
(* whatever the user entered this time.                                     *)
Resend(t, p) ==
    /\ fetch[t] = {}
    /\ p \in pending[t]
    /\ Offered(t, p.command.action, p.command.slip)
    /\ p.tries < MaxTry
    /\ pending' = [pending EXCEPT ![t] = (@ \ {p}) \cup {[p EXCEPT !.tries = @ + 1]}]
    /\ Sends(t, [command |-> p.command, try |-> p.tries + 1])
    /\ UNCHANGED <<nextOp, modal>>

Forget(t, cmd) == pending' = [pending EXCEPT ![t] = {p \in @ : p.command # cmd}]

(* What a confirmed answer does to the screen. *)
Show(t, cmd, papers) ==
    LET s == cmd.slip
        here == {m \in modal[t] : m.slip = s}
    IN  \/ /\ cmd.action = "issue"
           /\ IF here = {}
              THEN UNCHANGED screen
              ELSE /\ queue' = [queue EXCEPT ![t] = [@ EXCEPT ![s] = {r.statement : r \in papers}]]
                   /\ modal' = [modal EXCEPT ![t] = {[m EXCEPT !.status = "checkout_ready"] : m \in here}]
                   /\ UNCHANGED receipts
        \/ /\ cmd.action = "release"
           /\ queue' = [queue EXCEPT ![t] = [@ EXCEPT ![s] = {}]]
           /\ modal' = [modal EXCEPT ![t] = @ \ here]
           /\ UNCHANGED receipts
        \/ /\ cmd.action = "confirm"
           /\ queue' = [queue EXCEPT ![t] = [@ EXCEPT ![s] = {}]]
           /\ modal' = [modal EXCEPT ![t] = @ \ here]
           /\ receipts' = [receipts EXCEPT ![t] = [@ EXCEPT ![s] = papers]]
        \/ /\ cmd.action = "cancel"
           /\ receipts' = [receipts EXCEPT ![t] = [@ EXCEPT ![s] = {}]]
           /\ UNCHANGED <<modal, queue>>

(* postMutation gets the answer: every answer the database gives is final,  *)
(* so the command is forgotten and the snapshot applied.                    *)
Receive(t) ==
    \E f \in fetch[t] : \E r \in results[f.call.command.op] :
        /\ f.answered
        /\ fetch' = [fetch EXCEPT ![t] = {}]
        /\ seen' = [seen EXCEPT ![t] = Newer(@, r.view)]
        /\ Forget(t, r.command)
        /\ IF r.status = "confirmed" THEN Show(t, r.command, r.papers) ELSE UNCHANGED screen
        /\ UNCHANGED <<vars, server, nextOp, requests>>

(* The fetch fails, times out, or its answer says `unavailable'. *)
GiveUp(t) ==
    /\ fetch[t] # {}
    /\ fetch' = [fetch EXCEPT ![t] = {}]
    /\ UNCHANGED <<vars, server, nextOp, requests, seen, pending, screen>>

(* The application server answers 4xx or permission_denied without asking   *)
(* the database (an expired session, a changed store permission).           *)
Deny(t) ==
    \E f \in fetch[t] :
        /\ f.call \in requests
        /\ requests' = requests \ {f.call}
        /\ fetch' = [fetch EXCEPT ![t] = {}]
        /\ Forget(t, f.call.command)
        /\ UNCHANGED <<vars, server, nextOp, seen, screen>>

(* The page is loaded again: what is in storage stays. *)
Reload(t) ==
    /\ seen' = [seen EXCEPT ![t] = Snapshot]
    /\ fetch' = [fetch EXCEPT ![t] = {}]
    /\ modal' = [modal EXCEPT ![t] = {}]
    /\ UNCHANGED <<vars, server, nextOp, requests, pending, queue, receipts>>

(* printReceipt of a paid slip: the kept receipt, or the one that is read.  *)
PrintReceipt(t, s) ==
    /\ fetch[t] = {}
    /\ seen[t].status[s] = "checked_out"
    /\ receipts[t][s] = {}
    /\ \E c \in checkouts[s] :
          /\ c.status = "confirmed"
          /\ receipts' = [receipts EXCEPT ![t] = [@ EXCEPT ![s] =
                            {[checkout |-> c.id, statement |-> c.statement]}]]
    /\ UNCHANGED <<vars, server, nextOp, requests, seen, pending, fetch, modal, queue>>

-----------------------------------------------------------------------------
RpcInit ==
    /\ Init
    /\ revision = 0
    /\ results = [op \in 1..MaxOp |-> {}]
    /\ applied = [op \in 1..MaxOp |-> 0]
    /\ nextOp = 1
    /\ requests = {}
    /\ seen = [t \in Terminal |-> Snapshot]
    /\ pending = [t \in Terminal |-> {}]
    /\ fetch = [t \in Terminal |-> {}]
    /\ modal = [t \in Terminal |-> {}]
    /\ queue = [t \in Terminal |-> [s \in Slip |-> {}]]
    /\ receipts = [t \in Terminal |-> [s \in Slip |-> {}]]

Ask(t, s) ==
    \/ \E timely \in BOOLEAN : Begin(t, "issue", s, timely, 0, 0)
    \/ Begin(t, "release", s, TRUE, 0, 0)
    \/ \E cash, card \in Tender : Begin(t, "confirm", s, TRUE, cash, card)
    \/ Begin(t, "cancel", s, TRUE, 0, 0)

Browse(t) ==
    \/ Poll(t) \/ ReadStatement(t) \/ ProceedPayment(t) \/ CloseModal(t)
    \/ Receive(t) \/ GiveUp(t) \/ Deny(t) \/ Reload(t)
    \/ \E p \in pending[t] : Resend(t, p)
    \/ \E s \in Slip : OpenModal(t, s) \/ PrintReceipt(t, s) \/ Ask(t, s)

RpcNext ==
    \/ OtherStaff
    \/ \E call \in requests : Serve(call)
    \/ \E t \in Terminal : Browse(t)

RpcSpec == RpcInit /\ [][RpcNext]_rpcVars

-----------------------------------------------------------------------------
(* Properties. *)

RpcTypeOK ==
    /\ revision \in Nat
    /\ nextOp \in Nat
    /\ results \in [1..MaxOp -> SUBSET Response]
    /\ applied \in [1..MaxOp -> Nat]
    /\ requests \in SUBSET Call
    /\ seen \in [Terminal -> View]
    /\ pending \in [Terminal -> SUBSET [command : Command, tries : Nat]]
    /\ fetch \in [Terminal -> SUBSET [call : Call, answered : BOOLEAN]]
    /\ modal \in [Terminal -> SUBSET [slip : Slip, status : SlipStatus, paying : BOOLEAN, entered : BOOLEAN]]
    /\ queue \in [Terminal -> [Slip -> SUBSET Statement]]
    /\ receipts \in [Terminal -> [Slip -> SUBSET Receipt]]

(* Whatever is lost, late or sent again, an operation takes effect exactly  *)
(* once if its answer says `confirmed', and never otherwise.                *)
AnsweredAsApplied ==
    \A op \in 1..MaxOp :
        applied[op] = IF \E r \in results[op] : r.status = "confirmed" THEN 1 ELSE 0

(* An operation that took effect met the slip exactly as the terminal that  *)
(* asked for it had shown it: nobody issues, releases, settles or cancels   *)
(* from an old screen.                                                      *)
NothingFromOldScreen ==
    \A op \in 1..MaxOp : \A r \in results[op] :
        r.status = "confirmed" => r.view.work[r.command.slip] = r.command.basis

(* Of all the commands made on one state of the business day at most one    *)
(* takes effect, so two terminals, or an old and a new command of the same  *)
(* terminal, never both get their way.                                      *)
OneWinnerPerRevision ==
    \A a, b \in 1..MaxOp : \A p \in results[a], q \in results[b] :
        p.status = "confirmed" /\ q.status = "confirmed" /\ p.command.rev = q.command.rev => a = b

(* The revision tells the contents: two screens with the same revision show *)
(* the same, and a screen with the current revision shows what there is.    *)
RevisionTellsContents ==
    /\ \A t, u \in Terminal : seen[t].rev = seen[u].rev => seen[t] = seen[u]
    /\ \A t \in Terminal : seen[t].rev = revision => seen[t] = Snapshot

(* A late or repeated answer never takes a screen back to an older state.   *)
ScreenNeverGoesBack == [][\A t \in Terminal : seen'[t].rev >= seen[t].rev]_rpcVars

(* Old screens and old answers do no harm. *)
OldScreensHarmless == []NothingFromOldScreen /\ ScreenNeverGoesBack

(* The revision is enough to decide: whose command takes effect, and what a *)
(* screen shows.                                                            *)
RevisionDecides == OneWinnerPerRevision /\ RevisionTellsContents

(* The calls do to the ledger what SlipLedger says and nothing else, so     *)
(* everything proved of SlipLedger holds under lost and repeated requests.  *)
ServesLedger == Spec
=============================================================================
